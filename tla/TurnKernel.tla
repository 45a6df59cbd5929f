----------------------------- MODULE TurnKernel -----------------------------
(***************************************************************************)
(* The turn reducer of QCode (internal/runtime/agent/turnkernel): the pure *)
(* state machine that every durable turn is replayed through.  One action  *)
(* per reducer command; the reducer is total, so a command whose guard     *)
(* fails changes nothing and is not an action here.                        *)
(*                                                                         *)
(* Simplifications.                                                        *)
(*  - Texts, arguments, digests, timestamps and error messages are dropped.*)
(*  - An effect that succeeded and one that failed are both "done".        *)
(*  - Usage, context and work-item projections, progress observation and   *)
(*    the repair budgets are not part of this state.  A step evaluation    *)
(*    is free to begin convergence, because the budgets that decide it are *)
(*    not here.                                                            *)
(*  - The legacy "verifying" phase is not entered by this version of the   *)
(*    code and is left out.                                                *)
(*  - Reducer.Apply re-validates the state it built (Validate).  An action *)
(*    states only the guards of its handler; that Validate accepts the     *)
(*    result is the invariant Valid.  The places where Validate is what    *)
(*    rejects a command are guards marked "Validate".                      *)
(***************************************************************************)
EXTENDS Naturals, FiniteSets

CONSTANTS
  Calls,                 \* tool call identities
  Requests,              \* approval and input request identities
  Samples,               \* provider sample identities
  None,                  \* the empty identity ""
  MaxEffects,            \* bound: effects requested over the turn
  MaxAttempts,           \* bound: durable starts of one effect
  MaxMutations,          \* bound: mutation revisions of the turn
  MaxBatch,              \* bound: calls proposed in one batch
  CancelReasons,         \* bound: cancel reasons the instance submits
  Recoveries,            \* bound: recovery relations the instance binds
  Converges,             \* bound: whether the instance's budgets run out
  JournalRequired,       \* Policy.JournalRequired
  CompletionRequired,    \* RequiresCompletion(state)
  WorkspaceChangeIntent  \* Intent = workspace_change

ASSUME TurnKernelAssumption ==
  /\ None \notin Calls \union Requests \union Samples
  /\ MaxEffects \in Nat
  /\ MaxAttempts \in Nat
  /\ MaxMutations \in Nat \ {0}
  /\ MaxBatch \in Nat
  /\ CancelReasons \subseteq {"interrupt", "other"}
  /\ Recoveries \subseteq BOOLEAN
  /\ Converges \in BOOLEAN
  /\ JournalRequired \in BOOLEAN
  /\ CompletionRequired \in BOOLEAN
  /\ WorkspaceChangeIntent \in BOOLEAN

VARIABLES
  phase,       \* State.Phase
  calls,       \* OpenCalls and ClosedCalls: "new", "open", "ok" or "error"
  rejected,    \* open calls that carry an AdmissionRejection
  approvals,   \* PendingApprovals: request -> its call, or None
  input,       \* PendingInput: [req, call]; req = None when nil
  samples,     \* SampleLedger: [status, attempt, assembly]
  active,      \* ActiveSampleID
  effects,     \* PendingEffects and CompletedEffects, by effect sequence
  nextEffect,  \* NextEffectSequence
  provisional, \* ProvisionalOutput: "empty" or "text"
  eligible,    \* OutputEligibility: "no" or "yes"
  final,       \* FinalOutput: "empty" or "text"
  mutation,    \* MutationRevision; Changes is empty iff it is 0
  workspace,   \* reconciled Workspace at this revision: "unknown" when nil
  completion,  \* Completion: [verdict, mutation, claim]
  journal,     \* Journal
  cancel,      \* Cancellation: "none", "interrupt" (user) or "other"
  recovery,    \* RecoveryRelation: "none", "fresh" or "draft"
  convergence, \* Convergence: "none", "active" or "attempted"
  decision     \* PendingTerminal while committing, Terminal afterwards

workVars    == <<calls, rejected, approvals, input>>
sampleVars  == <<samples, active>>
effectVars  == <<effects, nextEffect>>
outputVars  == <<provisional, eligible, final>>
changeVars  == <<mutation, workspace, completion, journal>>
controlVars == <<cancel, recovery, convergence, decision>>
vars == <<phase, workVars, sampleVars, effectVars, outputVars, changeVars,
          controlVars>>

-----------------------------------------------------------------------------
(* Types                                                                    *)

TerminalPhases == {"completed", "failed", "canceled"}
Phases == TerminalPhases \union
  {"created", "preparing", "sampling", "executing_tools",
   "awaiting_approval", "awaiting_input", "committing"}

JournalKinds == {"commit_journal", "suspend_journal", "rollback_journal"}
EffectKinds  == JournalKinds \union
  {"sample_provider", "execute_tool", "await_approval", "await_input"}

EffectIds == 1 .. MaxEffects

\* An effect slot; "unused" slots have not been requested yet.
Effects ==
  [kind    : EffectKinds \union {"none"},
   key     : Calls \union Requests \union Samples \union {None},
   call    : Calls \union Samples \union {None},
   status  : {"unused", "requested", "running", "done"},
   attempt : 0 .. MaxAttempts]

\* What the key and the call of an effect are, by its kind.
Shaped(x) ==
  /\ x.kind = "sample_provider" => x.key \in Samples /\ x.call = x.key
  /\ x.kind = "execute_tool" => x.key \in Calls /\ x.call = x.key
  /\ x.kind = "await_approval" => x.key \in Requests /\ x.call \in Calls
  /\ x.kind = "await_input" =>
       x.key \in Requests /\ x.call \in Calls \union {None}

SampleRecords ==
  [status   : {"new", "requested", "running", "completed", "failed"},
   attempt  : 0 .. MaxAttempts,
   assembly : {"partial", "complete"}]

\* A TerminalDecision, by what terminalJournalOutcome tells apart.
Decisions == {"completed", "failed", "failed_recoverable", "failed_blocked",
              "canceled", "interrupted"}

ASSUME NoneAssumption == None \notin Decisions

NoInput      == [req |-> None, call |-> None]
NoCompletion == [verdict |-> "none", mutation |-> 0, claim |-> "done"]

Texts == {"empty", "text"}
Claims == {"done", "no_change"}

WorkTypeOK ==
  /\ calls \in [Calls -> {"new", "open", "ok", "error"}]
  /\ rejected \in SUBSET Calls
  /\ approvals \in [Requests -> Calls \union {None}]
  /\ input \in [req : Requests \union {None}, call : Calls \union {None}]

SampleTypeOK ==
  /\ samples \in [Samples -> SampleRecords]
  /\ active \in Samples \union {None}

EffectTypeOK ==
  /\ effects \in [EffectIds -> Effects]
  /\ \A e \in EffectIds : Shaped(effects[e])
  /\ nextEffect \in 0 .. MaxEffects

OutputTypeOK ==
  provisional \in Texts /\ eligible \in {"no", "yes"} /\ final \in Texts

ChangeTypeOK ==
  /\ mutation \in 0 .. MaxMutations
  /\ workspace \in {"unknown", "clean", "dirty"}
  /\ completion \in [verdict  : {"none", "rejected", "accepted"},
                     mutation : 0 .. MaxMutations, claim : Claims]
  /\ journal \in {"none", "open", "committed", "suspended", "rolled_back"}

ControlTypeOK ==
  /\ cancel \in {"none", "interrupt", "other"}
  /\ recovery \in {"none", "fresh", "draft"}
  /\ convergence \in {"none", "active", "attempted"}
  /\ decision \in Decisions \union {None}

TypeOK ==
  /\ phase \in Phases
  /\ WorkTypeOK /\ SampleTypeOK /\ EffectTypeOK
  /\ OutputTypeOK /\ ChangeTypeOK /\ ControlTypeOK

Init ==
  /\ phase = "created"
  /\ calls = [c \in Calls |-> "new"] /\ rejected = {}
  /\ approvals = [r \in Requests |-> None] /\ input = NoInput
  /\ samples = [s \in Samples |->
                  [status |-> "new", attempt |-> 0, assembly |-> "partial"]]
  /\ active = None
  /\ effects = [e \in EffectIds |->
                  [kind |-> "none", key |-> None, call |-> None,
                   status |-> "unused", attempt |-> 0]]
  /\ nextEffect = 0
  /\ provisional = "empty" /\ eligible = "no" /\ final = "empty"
  /\ mutation = 0 /\ workspace = "unknown"
  /\ completion = NoCompletion /\ journal = "none"
  /\ cancel = "none" /\ recovery = "none" /\ convergence = "none"
  /\ decision = None

-----------------------------------------------------------------------------
(* The effect ledger                                                        *)

Pending(e) == effects[e].status \in {"requested", "running"}
PendingEffects == {e \in EffectIds : Pending(e)}
OpenCalls == {c \in Calls : calls[c] = "open"}
PendingApprovals == {r \in Requests : approvals[r] # None}

NewEffect(kind, key, call) ==
  [kind |-> kind, key |-> key, call |-> call,
   status |-> "requested", attempt |-> 0]

\* requestEffect, n times in sequence order, on top of the ledger eff.
RequestEffects(eff, n, new) ==
  /\ nextEffect + n <= MaxEffects
  /\ nextEffect' = nextEffect + n
  /\ effects' = [e \in EffectIds |->
       IF nextEffect < e /\ e <= nextEffect + n
       THEN new[e - nextEffect] ELSE eff[e]]

RequestEffect(kind, key, call) ==
  RequestEffects(effects, 1, [i \in 1 .. 1 |-> NewEffect(kind, key, call)])

\* finishEffect on every effect of E.
Finish(eff, E) ==
  [e \in EffectIds |->
     IF e \in E THEN [eff[e] EXCEPT !.status = "done"] ELSE eff[e]]

\* closeEffectByIdentity / closeEffectByCall: the first pending effect in
\* sequence order with this kind and key, if there is one.
FirstPending(kind, key) ==
  LET same == {e \in PendingEffects :
                 effects[e].kind = kind /\ effects[e].key = key}
  IN  {e \in same : \A x \in same : e <= x}

SetStatus(e, status) == [effects EXCEPT ![e].status = status]

-----------------------------------------------------------------------------
(* Start of the turn                                                        *)

StartTurn ==
  /\ phase = "created"
  /\ phase' = "preparing"
  /\ UNCHANGED <<workVars, sampleVars, effectVars, outputVars, changeVars,
                 controlVars>>

PreparationFinished ==
  /\ phase = "preparing"
  /\ phase' = "sampling"
  /\ UNCHANGED <<workVars, sampleVars, effectVars, outputVars, changeVars,
                 controlVars>>

\* A turn that retries or continues another one; a resumed draft brings its
\* changes and opens the journal at revision 1.  NewRuntimeKernel submits it
\* at most once.
RecoveryRequested(draft) ==
  /\ phase = "created"
  /\ recovery = "none"
  /\ recovery' = IF draft THEN "draft" ELSE "fresh"
  /\ mutation' = IF draft THEN 1 ELSE mutation
  /\ journal' = IF draft THEN "open" ELSE journal
  /\ UNCHANGED <<phase, workVars, sampleVars, effectVars, outputVars,
                 workspace, completion, cancel, convergence, decision>>

-----------------------------------------------------------------------------
(* Provider samples                                                         *)

ModelSampleRequested(s) ==
  /\ phase = "sampling"
  /\ cancel = "none"
  /\ active = None
  /\ samples[s].status = "new"
  /\ samples' = [samples EXCEPT ![s].status = "requested"]
  /\ RequestEffect("sample_provider", s, s)
  /\ UNCHANGED <<phase, workVars, active, outputVars, changeVars, controlVars>>

\* ModelSampleProgressRecorded: the assembly only grows; its last extension
\* makes it complete.
ModelSampleProgress(e, s) ==
  /\ phase = "sampling"
  /\ effects[e].kind = "sample_provider" /\ effects[e].call = s
  /\ effects[e].status = "running"
  /\ samples[s].status = "running"
  /\ samples[s].attempt = effects[e].attempt
  /\ active = s
  /\ samples[s].assembly = "partial"
  /\ samples' = [samples EXCEPT ![s].assembly = "complete"]
  /\ UNCHANGED <<phase, workVars, active, effectVars, outputVars, changeVars,
                 controlVars>>

\* The three states in which applyModelSampleResult accepts a result.
SampleResultAccepted(e, s, success) ==
  \/ effects[e].status = "running" /\ active = s
  \/ /\ effects[e].status = "requested"
     /\ active = None
     /\ samples[s].status = "requested"
     /\ samples[s].attempt > 0        \* Validate: a settled sample was tried
     /\ success => samples[s].assembly = "complete"

\* applyToolCalls on top of the ledger eff.
ToolCalls(eff, n, batch) ==
  /\ cancel = "none"
  /\ \A i, j \in 1 .. n : batch[i] = batch[j] => i = j
  /\ \A i \in 1 .. n : calls[batch[i]] = "new"
  /\ calls' = [c \in Calls |->
       IF \E i \in 1 .. n : batch[i] = c THEN "open" ELSE calls[c]]
  /\ RequestEffects(eff, n, [i \in 1 .. n |->
       NewEffect("execute_tool", batch[i], batch[i])])
  /\ completion' = NoCompletion
  /\ eligible' = "no"
  /\ phase' = "executing_tools"

SettleSample(s, success) ==
  /\ samples' = [samples EXCEPT
       ![s].status = IF success THEN "completed" ELSE "failed"]
  /\ active' = None

ModelSampleFailed(e, s) ==
  /\ phase = "sampling"
  /\ effects[e].kind = "sample_provider" /\ effects[e].call = s
  /\ SampleResultAccepted(e, s, FALSE)
  /\ SettleSample(s, FALSE)
  /\ effects' = Finish(effects, {e})
  /\ UNCHANGED <<phase, workVars, nextEffect, outputVars, changeVars,
                 controlVars>>

\* A text-only result: the text is the candidate final answer.
ModelSampleAnswered(e, s, text) ==
  /\ phase = "sampling"
  /\ effects[e].kind = "sample_provider" /\ effects[e].call = s
  /\ SampleResultAccepted(e, s, TRUE)
  /\ SettleSample(s, TRUE)
  /\ effects' = Finish(effects, {e})
  /\ IF text = "text"
     THEN provisional' = "text" /\ eligible' = "no"
     ELSE UNCHANGED <<provisional, eligible>>
  /\ UNCHANGED <<phase, workVars, nextEffect, final, changeVars, controlVars>>

\* A result with tool calls.  Its text is commentary, except beside a lone
\* turn_complete declaration or during convergence, where it is captured.
ModelSampleCalled(e, s, n, batch, captured) ==
  /\ phase = "sampling"
  /\ effects[e].kind = "sample_provider" /\ effects[e].call = s
  /\ SampleResultAccepted(e, s, TRUE)
  /\ captured => n = 1 \/ convergence # "none"
  /\ SettleSample(s, TRUE)
  /\ ToolCalls(Finish(effects, {e}), n, batch)
  /\ provisional' = IF captured THEN "text" ELSE provisional
  /\ UNCHANGED <<rejected, approvals, input, final, mutation, workspace,
                 journal, controlVars>>

\* ProviderRetryRequested: the running attempt goes back to the schedule.
\* The retry counters and the wait budget are not in this state.
ProviderRetryRequested(e, s) ==
  /\ phase = "sampling"
  /\ active = s
  /\ effects[e].kind = "sample_provider" /\ effects[e].call = s
  /\ effects[e].status = "running"
  /\ samples' = [samples EXCEPT ![s].status = "requested"]
  /\ active' = None
  /\ effects' = SetStatus(e, "requested")
  /\ UNCHANGED <<phase, workVars, nextEffect, outputVars, changeVars,
                 controlVars>>

-----------------------------------------------------------------------------
(* Effects                                                                  *)

EffectStarted(e, attempt) ==
  /\ phase \notin TerminalPhases
  /\ effects[e].status = "requested"
  /\ attempt # 0
  /\ effects' = [effects EXCEPT ![e] =
                    [@ EXCEPT !.status = "running", !.attempt = attempt]]
  /\ IF effects[e].kind = "sample_provider"
     THEN LET s == effects[e].call IN
          /\ samples[s].status = "requested"
          /\ phase = "sampling"              \* Validate: active sample
          /\ samples' = [samples EXCEPT ![s] =
                            [@ EXCEPT !.status = "running",
                                      !.attempt = attempt]]
          /\ active' = s
     ELSE UNCHANGED sampleVars
  /\ UNCHANGED <<phase, workVars, nextEffect, outputVars, changeVars,
                 controlVars>>

EffectRequeued(e) ==
  /\ phase \notin TerminalPhases
  /\ effects[e].status = "running"
  /\ effects' = SetStatus(e, "requested")
  /\ IF effects[e].kind = "sample_provider"
     THEN LET s == effects[e].call IN
          /\ samples[s].status = "running"
          /\ samples' = [samples EXCEPT ![s].status = "requested"]
          /\ active' = None
     ELSE UNCHANGED sampleVars
  /\ UNCHANGED <<phase, workVars, nextEffect, outputVars, changeVars,
                 controlVars>>

\* EffectResultReceived: submitted only by DurableEffectDispatcher.Abort, for
\* tool and input effects.
EffectResult(e) ==
  /\ phase \notin TerminalPhases
  /\ effects[e].kind \in {"execute_tool", "await_input"}
  /\ Pending(e)
  /\ effects' = Finish(effects, {e})
  /\ UNCHANGED <<phase, workVars, sampleVars, nextEffect, outputVars,
                 changeVars, controlVars>>

-----------------------------------------------------------------------------
(* Tool calls                                                               *)

ToolCallsProposed(n, batch) ==
  /\ phase \in {"sampling", "executing_tools"}
  /\ active = None                           \* Validate: active sample
  /\ ToolCalls(effects, n, batch)
  /\ UNCHANGED <<rejected, approvals, input, sampleVars, provisional, final,
                 mutation, workspace, journal, controlVars>>

\* ToolBatchAdmissionRejected: the whole batch is refused before it runs.
ToolBatchAdmissionRejected(batch) ==
  /\ phase = "executing_tools"
  /\ batch # {} /\ batch \subseteq OpenCalls
  /\ \A c \in batch \ rejected : \A e \in PendingEffects :
       effects[e].call = c => effects[e].status = "requested"
  /\ rejected' = rejected \union batch
  /\ UNCHANGED <<phase, calls, approvals, input, sampleVars, effectVars,
                 outputVars, changeVars, controlVars>>

ReopenFinalization ==
  IF convergence = "none" THEN "none" ELSE "active"

\* Mutant: a result does not look at the approvals of its call.
WaitingIgnored(c) == {}

\* The approvals a call waits for, whether the input wait is bound to it, and
\* the effects of both.
Waiting(c) == {r \in Requests : approvals[r] = c}
Bound(c) == input.req # None /\ input.call = c
WaitEffects(c) ==
  {f \in EffectIds :
     \/ \E r \in Waiting(c) : f \in FirstPending("await_approval", r)
     \/ Bound(c) /\ f \in FirstPending("await_input", input.req)}

\* ToolResultReceived.  It retires the input wait bound to the call, and,
\* once cancellation was accepted, the approvals the call still waits for.
ToolResult(e, c, failed, changes) ==
  /\ \/ phase \in {"executing_tools", "awaiting_approval"}
     \/ phase = "awaiting_input" /\ Bound(c)
  /\ Waiting(c) # {} => cancel # "none"
  /\ calls[c] = "open"
  /\ effects[e].kind = "execute_tool" /\ effects[e].call = c
  /\ effects[e].status = "running"
  /\ calls' = [calls EXCEPT ![c] = IF failed THEN "error" ELSE "ok"]
  /\ rejected' = rejected \ {c}
  /\ approvals' = [r \in Requests |->
                     IF r \in Waiting(c) THEN None ELSE approvals[r]]
  /\ input' = IF Bound(c) THEN NoInput ELSE input
  /\ convergence' = IF Bound(c) THEN ReopenFinalization ELSE convergence
  /\ effects' = Finish(effects, {e} \union WaitEffects(c))
  /\ IF changes
     THEN /\ mutation < MaxMutations
          /\ mutation' = mutation + 1
          /\ workspace' = "unknown"
          /\ completion' = NoCompletion
          /\ journal' = "open"
     ELSE UNCHANGED changeVars
  /\ phase' = IF PendingApprovals \ Waiting(c) # {} THEN "awaiting_approval"
              ELSE IF OpenCalls \ {c} # {} THEN "executing_tools"
              ELSE "sampling"
  /\ UNCHANGED <<sampleVars, nextEffect, outputVars, cancel, recovery,
                 decision>>

\* Mutant: the approvals are dropped but their effects stay.
OpenEffectsToolsOnly ==
  {f \in PendingEffects :
     \E c \in OpenCalls : f \in FirstPending("execute_tool", c)}

\* The tool effects of the open calls, and every approval effect.
OpenEffects ==
  {f \in PendingEffects :
     \/ \E c \in OpenCalls : f \in FirstPending("execute_tool", c)
     \/ effects[f].kind = "await_approval"}

AbortOpenCalls ==
  /\ phase \in {"executing_tools", "awaiting_approval"}
  /\ OpenCalls # {}
  /\ calls' = [c \in Calls |-> IF c \in OpenCalls THEN "error" ELSE calls[c]]
  /\ rejected' = {}
  /\ approvals' = [r \in Requests |-> None]
  /\ effects' = Finish(effects, OpenEffects)
  /\ phase' = "sampling"
  /\ UNCHANGED <<input, sampleVars, nextEffect, outputVars, changeVars,
                 controlVars>>

-----------------------------------------------------------------------------
(* Approvals, user input and cancellation                                   *)

ApprovalRequired(r, c) ==
  /\ phase \in {"executing_tools", "awaiting_approval"}
  /\ calls[c] = "open"
  /\ approvals[r] = None
  /\ approvals' = [approvals EXCEPT ![r] = c]
  /\ RequestEffect("await_approval", r, c)
  /\ phase' = "awaiting_approval"
  /\ UNCHANGED <<calls, rejected, input, sampleVars, outputVars, changeVars,
                 controlVars>>

\* ApprovalResultReceived: finishes the named effect, and the effect of the
\* named request if that is another one; a canceling decision also accepts
\* cancellation.
ApprovalResult(e, r, canceled) ==
  /\ phase = "awaiting_approval"
  /\ effects[e].kind = "await_approval" /\ effects[e].status = "running"
  /\ approvals[r] # None
  /\ approvals' = [approvals EXCEPT ![r] = None]
  /\ effects' = Finish(effects, {e} \union FirstPending("await_approval", r))
  /\ phase' = IF PendingApprovals \ {r} = {} THEN "executing_tools"
              ELSE "awaiting_approval"
  /\ canceled => cancel = "none" /\ "other" \in CancelReasons
  /\ cancel' = IF canceled THEN "other" ELSE cancel
  /\ UNCHANGED <<calls, rejected, input, sampleVars, nextEffect, outputVars,
                 changeVars, recovery, convergence, decision>>

\* Mutant: the effect is keyed by the call and bound to the request.
InputRequiredSwapped(r, c) ==
  /\ phase \in {"sampling", "executing_tools"} /\ active = None
  /\ input' = [req |-> r, call |-> c]
  /\ RequestEffect("await_input", c, r)
  /\ phase' = "awaiting_input"
  /\ UNCHANGED <<calls, rejected, approvals, sampleVars, outputVars,
                 changeVars, controlVars>>

InputRequired(r, c) ==
  /\ phase \in {"sampling", "executing_tools"}
  /\ active = None                           \* Validate: active sample
  /\ input' = [req |-> r, call |-> c]
  /\ RequestEffect("await_input", r, c)
  /\ phase' = "awaiting_input"
  /\ UNCHANGED <<calls, rejected, approvals, sampleVars, outputVars,
                 changeVars, controlVars>>

\* applyInputResolved; E is what the caller finished beside the wait itself.
ResolveInputWait(r, E) ==
  /\ phase = "awaiting_input"
  /\ input.req = r
  /\ input' = NoInput
  /\ convergence' = ReopenFinalization
  /\ effects' = Finish(effects, E \union FirstPending("await_input", r))
  /\ phase' = IF OpenCalls # {} THEN "executing_tools" ELSE "sampling"
  /\ UNCHANGED <<calls, rejected, approvals, sampleVars, nextEffect,
                 outputVars, changeVars, cancel, recovery, decision>>

InputResolved(r) == ResolveInputWait(r, {})

InputResult(e, r) ==
  /\ effects[e].kind = "await_input" /\ effects[e].status = "running"
  /\ ResolveInputWait(r, {e})

CancelRequested(reason) ==
  /\ phase \notin TerminalPhases
  /\ cancel = "none"
  /\ cancel' = reason
  /\ UNCHANGED <<phase, workVars, sampleVars, effectVars, outputVars,
                 changeVars, recovery, convergence, decision>>

-----------------------------------------------------------------------------
(* Completion and output                                                    *)

\* validNoChange: a reconciled workspace without effective changes, and a
\* successful closed call to cite.
ValidNoChange == workspace = "clean" /\ \E c \in Calls : calls[c] = "ok"

Accepted == completion.verdict = "accepted"

WorkspaceCompletionMissing ==
  /\ WorkspaceChangeIntent /\ mutation = 0
  /\ ~(Accepted /\ completion.claim = "no_change" /\ ValidNoChange)

CompletionPolicy ==
  /\ ~WorkspaceCompletionMissing
  /\ CompletionRequired => Accepted /\ completion.mutation = mutation

CompletionContract ==
  /\ CompletionPolicy
  /\ journal = IF mutation = 0 THEN "none" ELSE "open"

\* Mutant: completion is judged by the contract alone.
CompletionReadinessContractOnly == CompletionContract

CompletionReadiness == eligible = "yes" /\ CompletionContract

\* CompletionEvaluated with a declaration that is accepted; it owns the output.
CompletionAccepted(claim, preserve) ==
  /\ phase = "sampling"
  /\ claim = "no_change" => ValidNoChange
  /\ WorkspaceChangeIntent /\ mutation = 0 => claim = "no_change"
  /\ preserve => provisional = "text"
  /\ completion' = [verdict |-> "accepted", mutation |-> mutation,
                    claim |-> claim]
  /\ provisional' = "text"
  /\ eligible' = "no"
  /\ UNCHANGED <<phase, workVars, sampleVars, effectVars, final, mutation,
                 workspace, journal, controlVars>>

\* CompletionEvaluated with a refused declaration; a declared incomplete turn
\* (blocked) enters convergence with its finalization already made.
CompletionRefused(blocked) ==
  /\ phase = "sampling"
  /\ blocked => Converges
  /\ completion' = [verdict |-> "rejected", mutation |-> mutation,
                    claim |-> "done"]
  /\ convergence' = IF blocked THEN "attempted" ELSE convergence
  /\ UNCHANGED <<phase, workVars, sampleVars, effectVars, outputVars,
                 mutation, workspace, journal, cancel, recovery, decision>>

CompletionInvalidated ==
  /\ phase = "sampling"
  /\ Accepted
  /\ completion' = NoCompletion
  /\ UNCHANGED <<phase, workVars, sampleVars, effectVars, outputVars,
                 mutation, workspace, journal, controlVars>>

\* WorkspaceReconciled: the effective changes at the current revision.
WorkspaceReconciled(observed) ==
  /\ phase = "sampling"
  /\ OpenCalls = {} /\ active = None
  /\ observed = "dirty" => mutation # 0
  /\ workspace \in {"unknown", observed}
  /\ workspace' = observed
  /\ UNCHANGED <<phase, workVars, sampleVars, effectVars, outputVars,
                 mutation, completion, journal, controlVars>>

\* ModelTextReceived (RuntimeKernel.BufferOutput).
ModelTextReceived ==
  /\ phase = "sampling"
  /\ provisional' = "text"
  /\ eligible' = "no"
  /\ UNCHANGED <<phase, workVars, sampleVars, effectVars, final, changeVars,
                 controlVars>>

ReleaseProvisionalOutput ==
  /\ phase = "sampling"
  /\ provisional = "text"
  /\ CompletionContract
  /\ eligible' = "yes"
  /\ UNCHANGED <<phase, workVars, sampleVars, effectVars, provisional, final,
                 changeVars, controlVars>>

DiscardProvisionalOutput ==
  /\ phase \in {"sampling", "executing_tools", "awaiting_approval",
                "awaiting_input"}
  /\ provisional' = "empty"
  /\ eligible' = "no"
  /\ UNCHANGED <<phase, workVars, sampleVars, effectVars, final, changeVars,
                 controlVars>>

-----------------------------------------------------------------------------
(* Convergence                                                              *)

\* beginConvergence, from ConvergenceRequested, from an ObserveProgress that
\* exhausted its lease, and from an EvaluateTurnStep whose repair budget is
\* spent.  It never replaces a convergence already begun.
BeginConvergence ==
  /\ phase = "sampling"
  /\ Converges
  /\ convergence = "none"
  /\ convergence' = "active"
  /\ UNCHANGED <<phase, workVars, sampleVars, effectVars, outputVars,
                 changeVars, cancel, recovery, decision>>

ConvergenceFinalizationStarted ==
  /\ phase = "sampling"
  /\ active = None
  /\ convergence = "active"
  /\ convergence' = "attempted"
  /\ UNCHANGED <<phase, workVars, sampleVars, effectVars, outputVars,
                 changeVars, cancel, recovery, decision>>

\* EvaluateTurnStep gives a refused finalization declaration another try.
RepairDeclaration ==
  /\ phase = "sampling"
  /\ convergence = "attempted"
  /\ completion.verdict = "rejected"
  /\ convergence' = "active"
  /\ UNCHANGED <<phase, workVars, sampleVars, effectVars, outputVars,
                 changeVars, cancel, recovery, decision>>

-----------------------------------------------------------------------------
(* The terminal transaction                                                 *)

KindOf(d) == CASE d = "completed" -> "completed"
               [] d \in {"canceled", "interrupted"} -> "canceled"
               [] OTHER -> "failed"

\* Mutant: an interrupted turn's changes are committed like finished work.
JournalOutcomeKept(d) ==
  CASE d \in {"completed", "interrupted"} -> "committed"
    [] d \in {"failed_blocked", "failed_recoverable"}
         \/ (d = "failed" /\ recovery = "draft") -> "suspended"
    [] OTHER -> "rolled_back"

\* terminalJournalOutcome: what becomes of the turn's workspace changes.
JournalOutcome(d) ==
  CASE d = "completed" -> "committed"
    [] d \in {"interrupted", "failed_blocked", "failed_recoverable"}
         \/ (d = "failed" /\ recovery = "draft") -> "suspended"
    [] OTHER -> "rolled_back"

JournalEffect(d) ==
  CASE JournalOutcome(d) = "committed" -> "commit_journal"
    [] JournalOutcome(d) = "suspended" -> "suspend_journal"
    [] OTHER -> "rollback_journal"

TerminalRequested(d) ==
  /\ phase \notin TerminalPhases \union {"committing"}
  /\ OpenCalls = {} /\ PendingApprovals = {} /\ input.req = None
  /\ active = None /\ PendingEffects = {}
  /\ d = "completed" => phase = "sampling" /\ CompletionReadiness
  /\ d = "failed_blocked" => convergence = "attempted"
  /\ decision' = d
  /\ phase' = "committing"
  /\ IF journal = "open" \/ JournalRequired
     THEN RequestEffect(JournalEffect(d), None, None)
     ELSE UNCHANGED effectVars
  /\ UNCHANGED <<workVars, sampleVars, outputVars, changeVars, cancel,
                 recovery, convergence>>

JournalResult(e, success) ==
  /\ phase = "committing"
  /\ effects[e].status = "running"
  /\ effects[e].kind = JournalEffect(decision)
  /\ IF mutation = 0 THEN JournalRequired /\ journal = "none"
                     ELSE journal = "open"
  /\ effects' = IF success THEN Finish(effects, {e})
                           ELSE SetStatus(e, "requested")
  /\ journal' = IF success THEN JournalOutcome(decision) ELSE journal
  /\ UNCHANGED <<phase, workVars, sampleVars, nextEffect, outputVars,
                 mutation, workspace, completion, controlVars>>

JournalSettled ==
  journal = IF mutation # 0 \/ JournalRequired THEN JournalOutcome(decision)
                                               ELSE "none"

FinishTerminal ==
  /\ phase = "committing"
  /\ JournalSettled
  /\ decision # "completed" => provisional = "empty"   \* Validate
  /\ phase' = KindOf(decision)
  /\ final' = provisional
  /\ provisional' = "empty"
  /\ UNCHANGED <<workVars, sampleVars, effectVars, eligible, changeVars,
                 controlVars>>

-----------------------------------------------------------------------------
(* The reducer closed under every command                                   *)

SampleStep ==
  \E s \in Samples :
    \/ ModelSampleRequested(s)
    \/ \E e \in EffectIds :
         \/ ModelSampleProgress(e, s)
         \/ ModelSampleFailed(e, s)
         \/ \E text \in Texts : ModelSampleAnswered(e, s, text)
         \/ \E n \in 1 .. MaxBatch : \E batch \in [1 .. n -> Calls],
               captured \in BOOLEAN :
              ModelSampleCalled(e, s, n, batch, captured)
         \/ ProviderRetryRequested(e, s)

EffectStep ==
  \E e \in EffectIds :
    \/ \E attempt \in 1 .. MaxAttempts : EffectStarted(e, attempt)
    \/ EffectRequeued(e)
    \/ EffectResult(e)

ToolStep ==
  \/ \E n \in 1 .. MaxBatch : \E batch \in [1 .. n -> Calls] :
       ToolCallsProposed(n, batch)
  \/ \E batch \in SUBSET Calls : ToolBatchAdmissionRejected(batch)
  \/ \E e \in EffectIds, c \in Calls, failed, changes \in BOOLEAN :
       ToolResult(e, c, failed, changes)
  \/ AbortOpenCalls

InteractionStep ==
  \/ \E r \in Requests, c \in Calls : ApprovalRequired(r, c)
  \/ \E e \in EffectIds, r \in Requests, canceled \in BOOLEAN :
       ApprovalResult(e, r, canceled)
  \/ \E r \in Requests, c \in Calls \union {None} : InputRequired(r, c)
  \/ \E r \in Requests : InputResolved(r)
  \/ \E e \in EffectIds, r \in Requests : InputResult(e, r)
  \/ \E reason \in CancelReasons : CancelRequested(reason)

OutputStep ==
  \/ \E claim \in Claims, preserve \in BOOLEAN :
       CompletionAccepted(claim, preserve)
  \/ \E blocked \in BOOLEAN : CompletionRefused(blocked)
  \/ CompletionInvalidated
  \/ \E observed \in {"clean", "dirty"} : WorkspaceReconciled(observed)
  \/ ModelTextReceived
  \/ ReleaseProvisionalOutput
  \/ DiscardProvisionalOutput
  \/ BeginConvergence
  \/ ConvergenceFinalizationStarted
  \/ RepairDeclaration

TerminalStep ==
  \/ \E d \in Decisions : TerminalRequested(d)
  \/ \E e \in EffectIds, success \in BOOLEAN : JournalResult(e, success)
  \/ FinishTerminal

Next ==
  \/ StartTurn
  \/ PreparationFinished
  \/ \E draft \in Recoveries : RecoveryRequested(draft)
  \/ SampleStep
  \/ EffectStep
  \/ ToolStep
  \/ InteractionStep
  \/ OutputStep
  \/ TerminalStep

Spec == Init /\ [][Next]_vars

-----------------------------------------------------------------------------
(* Invariants                                                               *)

\* Validate, on the state modelled here, in named parts.
ValidSamples ==
  /\ active # None => samples[active].status = "running" /\ phase = "sampling"
  /\ \A s \in Samples :
       samples[s].status \in {"running", "completed", "failed"} =>
         samples[s].attempt > 0

ValidCalls ==
  /\ OpenCalls # {} =>
       phase \in {"executing_tools", "awaiting_approval", "awaiting_input"}
  /\ phase = "executing_tools" => OpenCalls # {}

ValidWaits ==
  /\ \A r \in PendingApprovals : approvals[r] \in OpenCalls
  /\ PendingApprovals # {} <=> phase = "awaiting_approval"
  /\ input.req # None <=> phase = "awaiting_input"

ValidChanges ==
  /\ mutation # 0 => journal # "none"
  /\ mutation = 0 => journal # "open"
  /\ journal \in {"committed", "suspended", "rolled_back"} =>
       phase \in TerminalPhases \union {"committing"}
  /\ mutation = 0 /\ journal # "none" => JournalRequired

ValidCompletion ==
  Accepted => /\ completion.mutation = mutation
              /\ completion.claim = "no_change" => ValidNoChange

ValidTerminal ==
  /\ decision # None <=> phase \in TerminalPhases \union {"committing"}
  /\ phase \in TerminalPhases =>
       /\ KindOf(decision) = phase
       /\ OpenCalls = {} /\ PendingEffects = {}
       /\ provisional = "empty"
       /\ JournalSettled
       /\ phase = "completed" =>
            eligible = "yes" /\ final = "text" /\ CompletionPolicy
       /\ phase # "completed" => final = "empty"

\* Reducer.Apply validates the state a handler built and refuses the command
\* when it is inconsistent.  What it refuses beyond the handlers' own conditions
\* is the five cases whose guards are marked Validate; of everything else the
\* handlers build, in any order of commands, it refuses nothing.
Valid ==
  /\ ValidSamples /\ ValidCalls /\ ValidWaits
  /\ ValidChanges /\ ValidCompletion /\ ValidTerminal

\* A turn in committing owes exactly one journal effect, of the kind its decision
\* calls for, and its journal is not finalized yet, or it owes nothing and its
\* journal matches the decision.  FinishTerminal asks besides that a turn that
\* did not complete has no text left, which TerminalRequested does not ask.
CommittingSettles ==
  phase = "committing" =>
    IF PendingEffects = {}
    THEN JournalSettled
    ELSE /\ \E e \in EffectIds :
              PendingEffects = {e} /\ effects[e].kind = JournalEffect(decision)
         /\ journal = IF mutation = 0 THEN "none" ELSE "open"
         /\ mutation = 0 => JournalRequired

\* Output released for the user is still there when the turn commits as
\* completed: eligibility never outlives the text or the completion contract
\* it was granted for.
CompletedOutputReady ==
  /\ eligible = "yes" /\ phase \notin TerminalPhases => provisional = "text"
  /\ phase = "committing" /\ decision = "completed" =>
       eligible = "yes" /\ CompletionPolicy

\* The wait and tool effects in the ledger stand for something the turn still
\* waits for: no approval or input effect outlives its request, and no tool
\* effect outlives its call.
NoOrphanEffect ==
  \A e \in PendingEffects :
    /\ effects[e].kind = "await_approval" =>
         effects[e].key \in Requests /\ approvals[effects[e].key] = effects[e].call
    /\ effects[e].kind = "await_input" =>
         input = [req |-> effects[e].key, call |-> effects[e].call]
    /\ effects[e].kind = "execute_tool" => effects[e].call \in OpenCalls
    /\ effects[e].kind \in JournalKinds => phase = "committing"

\* One tool call is turned into one tool effect, and one sample into one
\* provider effect, over the whole turn: the idempotency keys "tool:<call>"
\* and "sample:<id>" are never issued twice.  A request may be asked again,
\* but never twice at the same time.
EffectKeysUnique ==
  \A e, f \in EffectIds :
    /\ effects[e].kind = effects[f].kind
    /\ effects[e].key = effects[f].key
    /\ \/ effects[e].kind \in {"execute_tool", "sample_provider"}
       \/ /\ effects[e].kind \in {"await_approval", "await_input"}
          /\ Pending(e) /\ Pending(f)
    => e = f

\* What the inductive invariant needs besides: an effect follows the call or
\* the sample it is for, a turn is created without a declaration, and nothing
\* is published before the end.
History ==
  /\ \A e \in EffectIds :
       /\ effects[e].kind = "execute_tool" => calls[effects[e].call] # "new"
       /\ effects[e].kind = "sample_provider" =>
            samples[effects[e].call].status # "new"
  /\ phase = "created" => ~Accepted
  /\ phase \notin TerminalPhases => final = "empty"

IInv ==
  /\ TypeOK
  /\ Valid
  /\ CommittingSettles
  /\ CompletedOutputReady
  /\ NoOrphanEffect
  /\ EffectKeysUnique
  /\ History

-----------------------------------------------------------------------------
(* Refinement                                                               *)

Lifecycle == INSTANCE TurnLifecycle WITH
  stage    <- CASE phase \in TerminalPhases -> "ended"
                [] phase = "committing" -> "settling"
                [] OTHER -> "running",
  ending   <- IF decision = None THEN "none" ELSE KindOf(decision),
  changes  <- CASE journal = "none" -> "none"
                [] journal = "open" -> "held"
                [] journal = "committed" -> "kept"
                [] journal = "suspended" -> "draft"
                [] OTHER -> "restored",
  answer   <- final

\* Whatever commands arrive in whatever order, the turn decides once, settles
\* its workspace changes the way that decision calls for before it ends, and
\* publishes an answer exactly when it ends as completed.
ImplementsLifecycle == Lifecycle!Spec

=============================================================================
