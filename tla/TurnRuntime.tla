----------------------------- MODULE TurnRuntime -----------------------------
(***************************************************************************)
(* The runtime around the reducer: RuntimeKernel and its                   *)
(* DurableEffectDispatcher, the goroutine that drives one turn             *)
(* (engine/turn_run.go), the tool executors of a batch, the user who       *)
(* replies, cancels or stays silent, and crashes with a restart from the   *)
(* durable facts.  Every change of the reducer's state is one of the       *)
(* actions of TurnKernel; this module decides which commands are submitted *)
(* when, and what happens when the reducer refuses one.                    *)
(*                                                                         *)
(* Simplifications.                                                        *)
(*  - A step is one commit of the coordinator.  A RuntimeKernel method     *)
(*    that commits twice under its mutex leaves its remainder in op, and   *)
(*    no other method runs before it has finished.                         *)
(*  - The turn is driven without declarations, convergence and progress    *)
(*    observation: a text answer is released and completes the turn, or    *)
(*    the turn samples again.                                              *)
(*  - The executors of a batch run in parallel; a serial call is one that  *)
(*    happens to do nothing until the calls before it have returned.       *)
(*  - A failed commit is modelled where it leaves something behind: of a   *)
(*    result, of the start of a wait or of a tool (MaxFaults).  A request, *)
(*    a sample's start or an abort's start whose commit fails ends the     *)
(*    attempt as a refusal does, and is left out.                          *)
(*  - The data a result carries (batch, error flag, changes) is chosen     *)
(*    when the reducer accepts it, not when it is retained.                *)
(***************************************************************************)
EXTENDS TurnKernel

CONSTANTS
  InputRequests,   \* the requests that ask for input; the others approval
  ConcurrentAsks,  \* whether a tool may ask again while it waits (egress)
  Shutdowns,       \* bound: whether the turn's context may be canceled alone
  Rejections,      \* bound: whether admission may refuse a batch
  MaxCrashes,      \* bound: crashes of the process
  MaxFaults        \* bound: failed commits and journal failures

\* Requests share no identity with calls and samples: an idempotency key has a
\* prefix for its kind ("approval:", "input:", "tool:", "sample:").
ASSUME TurnRuntimeAssumption ==
  /\ InputRequests \subseteq Requests
  /\ Requests \cap (Calls \cup Samples) = {}
  /\ ConcurrentAsks \in BOOLEAN /\ Shutdowns \in BOOLEAN
  /\ Rejections \in BOOLEAN
  /\ MaxCrashes \in Nat /\ MaxFaults \in Nat

VARIABLES
  routed,    \* DurableEffectDispatcher.routed, by effect sequence
  pc,        \* where the turn's goroutine is
  todo,      \* what the current loop still visits: calls of the batch to be
             \* started or closed, or requests to be denied
  want,      \* the terminal decision FinalizeTerminal works towards
  settling,  \* whether turnRun.settle, the last attempt, is under way
  broken,    \* whether the loop has collected an error
  tools,     \* executors: [at, asks], asks the requests it waits for
  ran,       \* executions of each call that reached an executor
  ledger,    \* RequestLedger and the waiter's channel, by request
  op,        \* the method that holds RuntimeKernel.mu: [method, req, call]
  ctx,       \* the turn's context: "live" or "done"
  crashes, faults

turnVars == <<pc, todo, want, settling, broken>>
hostVars == <<tools, ran, ledger, op>>
envVars  == <<ctx, crashes, faults>>
rtVars   == <<routed, turnVars, hostVars, envVars>>
allVars  == <<vars, rtVars>>

-----------------------------------------------------------------------------
(* Types                                                                    *)

\* A result command a routed effect may retain.
Results ==
  [cmd : {"none", "failed", "text", "calls", "tool", "abort", "approval",
          "input"},
   req : Requests \union {None}, cancels : BOOLEAN]
Result(cmd) == [cmd |-> cmd, req |-> None, cancels |-> FALSE]
NoResult == Result("none")

Entries == [state : {"absent", "idle", "started"},
            attempt : 0 .. MaxAttempts, result : Results]
Absent == [state |-> "absent", attempt |-> 0, result |-> NoResult]

Idle(attempt) == [state |-> "idle", attempt |-> attempt, result |-> NoResult]

Free == [method |-> "none", req |-> None, call |-> None]
Off  == [at |-> "off", asks |-> {}]

RuntimeTypeOK ==
  /\ routed \in [EffectIds -> Entries]
  /\ pc \in {"open", "loop", "begin", "sampling", "answered", "admit",
             "starting", "running", "closing", "abort_input",
             "abort_samples", "abort_tools", "discard", "request",
             "journal", "done", "pending", "stuck", "down"}
  /\ todo \in SUBSET (Calls \union Requests)
  /\ want \in Decisions
  /\ settling \in BOOLEAN /\ broken \in BOOLEAN
  /\ tools \in [Calls -> [at : {"off", "run", "rejecting", "back"},
                          asks : SUBSET Requests]]
  /\ ran \in [Calls -> 0 .. MaxAttempts]
  /\ ledger \in [Requests -> {"none", "recovered", "asked", "staged",
                              "canceling", "expiring", "resumed", "closed"}]
  /\ op \in [method : {"none", "require", "resolve", "abort"},
             req : Requests \union {None}, call : Calls \union {None}]
  /\ ctx \in {"live", "done"}
  /\ crashes \in 0 .. MaxCrashes /\ faults \in 0 .. MaxFaults

RuntimeInit ==
  /\ Init
  /\ routed = [e \in EffectIds |-> Absent]
  /\ pc = "open" /\ todo = {} /\ want = "failed"
  /\ settling = FALSE /\ broken = FALSE
  /\ tools = [c \in Calls |-> Off] /\ ran = [c \in Calls |-> 0]
  /\ ledger = [r \in Requests |-> "none"] /\ op = Free
  /\ ctx = "live" /\ crashes = 0 /\ faults = 0
-----------------------------------------------------------------------------
(* DurableEffectDispatcher                                                  *)

\* findLocked: the first routed effect of this kind, and of this call when it
\* is not None.
Find(kind, call) ==
  LET same == {e \in EffectIds : /\ routed[e].state # "absent"
                                 /\ effects[e].kind = kind
                                 /\ call \in {None, effects[e].call}}
  IN  {e \in same : \A x \in same : e <= x}

\* Dispatch of the effects the commit requested, on top of the registry reg.
Dispatch(reg) ==
  routed' = [e \in EffectIds |->
    IF nextEffect < e /\ e <= nextEffect' THEN Idle(0) ELSE reg[e]]

\* The reducer accepts EffectStarted for e.
StartLegal(e) ==
  /\ phase \notin TerminalPhases
  /\ effects[e].status = "requested"
  /\ effects[e].kind = "sample_provider" =>
       phase = "sampling" /\ samples[effects[e].call].status = "requested"

CanStart(e) == routed[e].state = "idle" /\ StartLegal(e)

Start(e) ==
  /\ CanStart(e)
  /\ routed[e].attempt < MaxAttempts
  /\ EffectStarted(e, routed[e].attempt + 1)
  /\ routed' = [routed EXCEPT ![e] =
                  [@ EXCEPT !.state = "started",
                            !.attempt = routed[e].attempt + 1]]

\* The reducer accepts result r for e.
Legal(e, r) ==
  LET c == effects[e].call IN
  CASE r.cmd = "failed" ->
         phase = "sampling" /\ SampleResultAccepted(e, c, FALSE)
    [] r.cmd = "text" ->
         phase = "sampling" /\ SampleResultAccepted(e, c, TRUE)
    [] r.cmd = "calls" ->
         /\ phase = "sampling" /\ SampleResultAccepted(e, c, TRUE)
         /\ cancel = "none"
    [] r.cmd = "tool" ->
         /\ \/ phase \in {"executing_tools", "awaiting_approval"}
            \/ phase = "awaiting_input" /\ Bound(c)
         /\ Waiting(c) # {} => cancel # "none"
         /\ calls[c] = "open" /\ effects[e].status = "running"
    [] r.cmd = "abort" -> phase \notin TerminalPhases /\ Pending(e)
    [] r.cmd = "approval" ->
         /\ phase = "awaiting_approval" /\ effects[e].status = "running"
         /\ approvals[r.req] # None
         /\ r.cancels => cancel = "none"
    [] OTHER ->
         /\ phase = "awaiting_input" /\ effects[e].status = "running"
         /\ input.req = r.req

Submit(e, r) ==
  LET c == effects[e].call IN
  CASE r.cmd = "failed" -> ModelSampleFailed(e, c)
    [] r.cmd = "text" -> ModelSampleAnswered(e, c, "text")
    [] r.cmd = "calls" ->
         \E n \in 1 .. MaxBatch : \E batch \in [1 .. n -> Calls] :
           ModelSampleCalled(e, c, n, batch, FALSE)
    [] r.cmd = "tool" ->
         \E failed, changes \in BOOLEAN :
           /\ changes => mutation < MaxMutations
           /\ ToolResult(e, c, failed, changes)
    [] r.cmd = "abort" -> EffectResult(e)
    [] r.cmd = "approval" -> ApprovalResult(e, r.req, r.cancels)
    [] OTHER -> InputResult(e, r.req)

\* ResolveWith keeps the first result and submits that one, every time.
Retained(e, first) ==
  IF routed[e].result = NoResult THEN first ELSE routed[e].result

Resolvable(e, first) ==
  \/ routed[e].state = "started"
  \/ routed[e].state = "idle" /\ first.cmd \in {"failed", "text", "calls"}

ResolveAccepted(e, first) ==
  /\ Resolvable(e, first)
  /\ Legal(e, Retained(e, first))
  /\ Submit(e, Retained(e, first))
  /\ Dispatch([routed EXCEPT ![e] = Absent])
  /\ UNCHANGED envVars

\* Mutant: the effect is forgotten when its result is not accepted.
ResolveRefusedDrops(e, first) ==
  /\ IF Resolvable(e, first) /\ Legal(e, Retained(e, first))
     THEN faults < MaxFaults /\ faults' = faults + 1
     ELSE UNCHANGED faults
  /\ routed' = [routed EXCEPT ![e] = Absent]
  /\ UNCHANGED <<vars, ctx, crashes>>

\* The result is refused by the reducer, or its commit fails.
ResolveRefused(e, first) ==
  /\ IF Resolvable(e, first) /\ Legal(e, Retained(e, first))
     THEN faults < MaxFaults /\ faults' = faults + 1
     ELSE UNCHANGED faults
  /\ routed' = IF Resolvable(e, first)
               THEN [routed EXCEPT ![e].result = Retained(e, first)]
               ELSE routed
  /\ UNCHANGED <<vars, ctx, crashes>>

-----------------------------------------------------------------------------
(* Control of the turn's goroutine                                          *)

\* No RuntimeKernel method holds the mutex.
Unlocked == op = Free /\ pc \notin {"abort_input", "abort_tools"}

At(p) == pc = p /\ op = Free

Goto(p) == pc' = p /\ UNCHANGED <<todo, want, settling, broken>>

\* Mutant: the reason is passed on where the decision is expected.
CancelDecisionReason == cancel

CancelDecision == IF cancel = "interrupt" THEN "interrupted" ELSE "canceled"

\* terminalEvent: a canceled context or a canceled approval ends the turn as
\* canceled, everything else as the failure.
SettleDecision(failure) ==
  IF ctx = "done" \/ cancel = "other" THEN CancelDecision ELSE failure

Finalize(d, last) ==
  /\ pc' = "abort_input" /\ want' = d
  /\ settling' = last /\ broken' = FALSE /\ todo' = {}

\* turnRun.settle.  A command the reducer refused is a recoverable fault.
Settle(failure) == Finalize(SettleDecision(failure), TRUE)

\* FinalizeTerminal returned an error: settle tries once more, unless this
\* was its attempt.
FinalizeFailed ==
  IF settling THEN Goto("stuck") ELSE Settle("failed_recoverable")

-----------------------------------------------------------------------------
(* Opening and sampling                                                     *)

OpenTurn ==
  /\ At("open")
  /\ StartTurn \/ PreparationFinished
  /\ Goto(IF phase' = "sampling" THEN "loop" ELSE "open")
  /\ UNCHANGED <<routed, hostVars, envVars>>

SampleEffect == Find("sample_provider", None)

\* Mutant: a new sample although a restored one is pending.
RequestSampleAlways(s) ==
  /\ At("loop")
  /\ ModelSampleRequested(s)
  /\ Dispatch(routed)
  /\ Goto("begin")
  /\ UNCHANGED <<hostVars, envVars>>

\* BeginModelSample: the pending sample, or a new one.
RequestSample(s) ==
  /\ At("loop")
  /\ SampleEffect = {}
  /\ ModelSampleRequested(s)
  /\ Dispatch(routed)
  /\ Goto("begin")
  /\ UNCHANGED <<hostVars, envVars>>

ResumeSample ==
  /\ At("loop")
  /\ SampleEffect # {}
  /\ Goto("begin")
  /\ UNCHANGED <<vars, routed, hostVars, envVars>>

\* The reducer refuses the request, or the turn gives up for another reason.
LoopFails ==
  /\ At("loop")
  /\ \/ Settle("failed")
     \/ (phase # "sampling" \/ cancel # "none") /\ Settle("failed_recoverable")
  /\ UNCHANGED <<vars, routed, hostVars, envVars>>

StartSample(e) ==
  /\ At("begin")
  /\ e \in SampleEffect
  /\ Start(e)
  /\ Goto("sampling")
  /\ UNCHANGED <<hostVars, envVars>>

RecordProgress(e) ==
  /\ At("sampling")
  /\ e \in SampleEffect
  /\ ModelSampleProgress(e, effects[e].call)
  /\ Goto("sampling")
  /\ UNCHANGED <<routed, hostVars, envVars>>

\* ScheduleProviderRetry and FinishModelTransport: back to the schedule.
LeaveTransport(e) ==
  /\ At("sampling")
  /\ e \in SampleEffect
  /\ routed[e].attempt + MaxCrashes - crashes < MaxAttempts   \* bound
  /\ ProviderRetryRequested(e, effects[e].call) \/ EffectRequeued(e)
  /\ routed' = [routed EXCEPT ![e].state = "idle"]
  /\ Goto("begin")
  /\ UNCHANGED <<hostVars, envVars>>

Room == nextEffect < MaxEffects /\ \E c \in Calls : calls[c] = "new"

\* FinishModelSample.
FinishSample(e, cmd) ==
  /\ At("sampling") \/ (At("begin") /\ cmd = "failed")
  /\ e \in SampleEffect
  /\ cmd = "calls" => Room                                     \* bound
  /\ \/ /\ ResolveAccepted(e, Result(cmd))
        /\ CASE cmd = "text" -> Goto("answered")
             [] cmd = "calls" -> Goto("admit")
             [] OTHER -> Settle("failed")
     \/ /\ ResolveRefused(e, Result(cmd))
        /\ Settle("failed_recoverable")
  /\ UNCHANGED hostVars

\* advanceTurn after an answer: the turn completes, or samples again with the
\* answer kept or withdrawn.
Answer ==
  /\ At("answered")
  /\ \/ /\ ReleaseProvisionalOutput
        /\ pc' = "request" /\ want' = "completed"
        /\ UNCHANGED <<todo, settling, broken>>
     \/ DiscardProvisionalOutput /\ Goto("loop")
     \/ UNCHANGED vars /\ Goto("loop")
  /\ UNCHANGED <<routed, hostVars, envVars>>

-----------------------------------------------------------------------------
(* Tool batches                                                             *)

ToolEffect(c) == Find("execute_tool", c)

\* PendingToolCalls.
Batch == {c \in OpenCalls : ToolEffect(c) # {}}

\* A batch is started and closed in the order of its effects.
FirstOf(T) ==
  {c \in T : \A x \in T : \A e \in ToolEffect(c), f \in ToolEffect(x) : e <= f}

\* ExecuteToolEffect up to the first durable start: the batch is admitted, or
\* every call without a recorded decision is rejected.
AdmitBatch ==
  /\ At("admit")
  /\ \/ UNCHANGED vars
     \/ Rejections /\ ToolBatchAdmissionRejected(Batch \ rejected)
  /\ pc' = "starting" /\ todo' = Batch
  /\ UNCHANGED <<routed, want, settling, broken, hostVars, envVars>>

\* The rejection is refused: the restored batch still waits for a reply.
AdmissionFails ==
  /\ At("admit")
  /\ Rejections /\ Batch \ rejected # {} /\ phase # "executing_tools"
  /\ Settle("failed_recoverable")
  /\ UNCHANGED <<vars, routed, hostVars, envVars>>

StartTool(c) ==
  /\ At("starting")
  /\ c \in FirstOf(todo)
  /\ \E e \in ToolEffect(c) : Start(e)
  /\ todo' = todo \ {c}
  /\ UNCHANGED <<pc, want, settling, broken, hostVars, envVars>>

\* The commit of a start, or its publication, fails.  The batch is not
\* executed; its AbortTools is the first of those settle repeats.
StartToolFails ==
  /\ At("starting")
  /\ faults < MaxFaults /\ faults' = faults + 1
  /\ Settle("failed_recoverable")
  /\ UNCHANGED <<vars, routed, hostVars, ctx, crashes>>

Launch(run) ==
  /\ Goto("running")
  /\ tools' = [c \in Calls |->
       IF c \notin Batch THEN Off
       ELSE [at |-> IF c \in run THEN "run" ELSE "back", asks |-> {}]]
  /\ ran' = [c \in Calls |-> IF c \in run THEN ran[c] + 1 ELSE ran[c]]
  /\ UNCHANGED <<vars, routed, ledger, op, envVars>>

\* Mutant: the batch is executed before every start is durable.
ExecuteBatchEarly == At("starting") /\ Launch(Batch \ rejected)

\* Mutant: a rejected call is executed.
ExecuteBatchRejected == At("starting") /\ todo = {} /\ Launch(Batch)

\* ExecuteBatch: a rejected call has its result and skips the executor.
ExecuteBatch == At("starting") /\ todo = {} /\ Launch(Batch \ rejected)

\* Every executor has returned.
BatchReturned ==
  /\ pc = "running"
  /\ \A c \in Calls : tools[c].at \in {"off", "back"}
  /\ pc' = "closing"
  /\ todo' = {c \in Calls : tools[c].at = "back"}
  /\ UNCHANGED <<vars, routed, want, settling, broken, hostVars, envVars>>

\* CloseTool; a result that is not accepted is reported after the batch.
CloseTool(c) ==
  /\ At("closing")
  /\ c \in FirstOf(todo)
  /\ \E e \in ToolEffect(c) :
       \/ ResolveAccepted(e, Result("tool")) /\ UNCHANGED broken
       \/ ResolveRefused(e, Result("tool")) /\ broken' = TRUE
  /\ todo' = todo \ {c}
  /\ tools' = [tools EXCEPT ![c] = Off]
  /\ UNCHANGED <<pc, want, settling, ran, ledger, op>>

\* finishAcceptedCancellation, the batch's error, or the next sample.
BatchClosed ==
  /\ At("closing")
  /\ todo = {}
  /\ CASE cancel # "none" -> Finalize(CancelDecision, FALSE)
       [] cancel = "none" /\ broken -> Settle("failed_recoverable")
       [] OTHER -> Goto("loop")
  /\ UNCHANGED <<vars, routed, hostVars, envVars>>

-----------------------------------------------------------------------------
(* Executors that ask                                                       *)

WaitKind(r) == IF r \in InputRequests THEN "await_input" ELSE "await_approval"

\* The routed effect a method takes for request r of call c: the first one of
\* the call, or of the turn for input.
WaitEffect(r, c) == Find(WaitKind(r), IF r \in InputRequests THEN None ELSE c)

StillPending(r) == IF r \in InputRequests THEN input.req = r
                                          ELSE approvals[r] # None
CallOf(r) == IF r \in InputRequests THEN input.call ELSE approvals[r]

Fresh(r) == \A e \in EffectIds : effects[e].key # r

\* The requests a call has asked, in this process or an earlier one.
RequestsOf(c) ==
  {r \in Requests : \E e \in EffectIds : /\ effects[e].key = r
                                         /\ effects[e].call = c}

\* waitForApproval and Host.Wait with a new request: the first commit of
\* RequireApproval or RequireInput.  Without ConcurrentAsks the executor asks
\* once everything it asked before was answered.
Ask(c, r) ==
  /\ Unlocked
  /\ tools[c].at = "run"
  /\ Fresh(r)
  /\ \A x \in RequestsOf(c) :
       \/ ledger[x] \in {"none", "resumed"} /\ x \notin tools[c].asks
       \/ ConcurrentAsks /\ r \notin InputRequests /\ ledger[x] # "recovered"
  /\ IF r \in InputRequests THEN InputRequired(r, c) ELSE ApprovalRequired(r, c)
  /\ Dispatch(routed)
  /\ op' = [method |-> "require", req |-> r, call |-> c]
  /\ UNCHANGED <<turnVars, tools, ran, ledger, envVars>>

\* Mutant: the wait is not registered with the request ledger.
WaitUnregistered(c, r) ==
  /\ UNCHANGED ledger
  /\ tools' = [tools EXCEPT ![c].asks = @ \union {r}]

Wait(c, r) ==
  /\ ledger' = [ledger EXCEPT ![r] = "asked"]
  /\ tools' = [tools EXCEPT ![c].asks = @ \union {r}]

Failing ==
  [at |-> IF ctx = "live" THEN "rejecting" ELSE "back", asks |-> {}]

\* Its second commit fails: the request stays pending without a waiter, and
\* the call with it.  A tool that asks concurrently goes on.
RequiredFails ==
  /\ op.method = "require" /\ tools[op.call].at = "run"
  /\ faults < MaxFaults /\ faults' = faults + 1
  /\ IF ConcurrentAsks
     THEN UNCHANGED <<tools, ledger>>
     ELSE /\ tools' = [tools EXCEPT ![op.call] = Failing]
          /\ ledger' = [ledger EXCEPT ![op.req] = "recovered"]
  /\ op' = Free
  /\ UNCHANGED <<vars, routed, turnVars, ran, ctx, crashes>>

\* Its second commit, and the registration of the wait.  When the first effect
\* of the call is another, started one, the ask fails.
Required ==
  /\ op.method = "require"
  /\ \E e \in WaitEffect(op.req, op.call) :
       \/ Start(e) /\ Wait(op.call, op.req)
       \/ ~CanStart(e) /\ UNCHANGED <<vars, routed, tools, ledger>>
  /\ op' = Free
  /\ UNCHANGED <<turnVars, ran, envVars>>

\* A restored executor reconnects to the request that survived the restart.
AskRecovered(c, r) ==
  /\ Unlocked
  /\ tools[c].at = "run"
  /\ ledger[r] = "recovered" /\ CallOf(r) = c
  /\ Wait(c, r)
  /\ UNCHANGED <<vars, routed, turnVars, ran, op, envVars>>

\* Mutant: the executor is resumed before the reply is durable.
ReplyResumes(r, cancels) ==
  /\ ledger[r] = "asked"
  /\ ledger' = [ledger EXCEPT ![r] = "resumed"]
  /\ UNCHANGED <<vars, routed, turnVars, tools, ran, op, envVars>>

\* The user's reply takes the request from the ledger and is staged with the
\* waiter, unless that has left in between (ReplyLate).
Reply(r, cancels) ==
  /\ ledger[r] = "asked"
  /\ \E c \in Calls : r \in tools[c].asks
  /\ cancels => r \notin InputRequests /\ "other" \in CancelReasons
  /\ ledger' = [ledger EXCEPT ![r] = IF cancels THEN "canceling" ELSE "staged"]
  /\ UNCHANGED <<vars, routed, turnVars, tools, ran, op, envVars>>

\* The wait expires, or an input wait ends with its context.
Expire(r) ==
  /\ ledger[r] = "asked"
  /\ \E c \in Calls : r \in tools[c].asks
  /\ ledger' = [ledger EXCEPT ![r] = "expiring"]
  /\ UNCHANGED <<vars, routed, turnVars, tools, ran, op, envVars>>

Leave(c, r) == tools' = [tools EXCEPT ![c].asks = @ \ {r}]

\* The waiter goes on: resumed, with a canceled context, or because its timer
\* beat a reply that was already staged.
StopWaiting(c, r) ==
  /\ r \in tools[c].asks
  /\ \/ ledger[r] = "resumed"
     \/ ctx = "done" /\ ledger[r] # "expiring"
          /\ (r \in InputRequests => ledger[r] # "asked")
     \/ ledger[r] \in {"staged", "canceling"}
  /\ Leave(c, r)
  /\ UNCHANGED <<vars, routed, turnVars, ran, ledger, op, envVars>>

\* Mutant: only a canceling reply resumes the executor.
AnswerDoneGrantLost(r, accepted) ==
  /\ ledger' = [ledger EXCEPT ![r] =
       IF accepted /\ @ = "canceling" THEN "resumed" ELSE "closed"]
  /\ tools' = [c \in Calls |->
       IF ledger[r] # "expiring" THEN tools[c]
       ELSE [tools[c] EXCEPT !.asks = @ \ {r}]]

\* What an answer that was committed, or failed, leaves behind.
AnswerDone(r, accepted) ==
  /\ ledger' = [ledger EXCEPT ![r] =
       IF accepted /\ @ # "expiring" THEN "resumed" ELSE "closed"]
  /\ tools' = [c \in Calls |->
       IF ledger[r] # "expiring" THEN tools[c]
       ELSE [at |-> IF ~accepted /\ tools[c].at = "rejecting" /\ CallOf(r) = c
                    THEN "back" ELSE tools[c].at,
             asks |-> tools[c].asks \ {r}]]

WaitResult(r) ==
  [cmd |-> IF r \in InputRequests THEN "input" ELSE "approval", req |-> r,
   cancels |-> ledger[r] = "canceling"]

Answering(r) == ledger[r] \in {"staged", "canceling", "expiring"}

\* ResolveApproval and ResolveInput: a restored effect is started first.
ResolveStarts(r) ==
  /\ Unlocked
  /\ Answering(r) /\ StillPending(r)
  /\ \E e \in WaitEffect(r, CallOf(r)) : Start(e)
  /\ op' = [method |-> "resolve", req |-> r, call |-> CallOf(r)]
  /\ UNCHANGED <<turnVars, tools, ran, ledger, envVars>>

ResolveWait(r) ==
  /\ Unlocked \/ (op.method = "resolve" /\ op.req = r)
  /\ Answering(r) /\ StillPending(r)
  /\ \E e \in WaitEffect(r, CallOf(r)) :
       /\ routed[e].state = "started"
       /\ \/ ResolveAccepted(e, WaitResult(r)) /\ AnswerDone(r, TRUE)
          \/ ResolveRefused(e, WaitResult(r)) /\ AnswerDone(r, FALSE)
  /\ op' = Free
  /\ UNCHANGED <<turnVars, ran>>

\* The waiter left before the reply was staged: the reply fails, with its
\* request taken from the ledger and still pending.
ReplyLate(r) ==
  /\ ledger[r] \in {"staged", "canceling"}
  /\ \A c \in Calls : r \notin tools[c].asks
  /\ op.method = "resolve" => op.req # r
  /\ ledger' = [ledger EXCEPT ![r] = "closed"]
  /\ UNCHANGED <<vars, routed, turnVars, tools, ran, op, envVars>>

\* The request is gone, or has no effect that can be started.
ResolveFails(r) ==
  /\ Unlocked
  /\ Answering(r)
  /\ StillPending(r) =>
       \A e \in WaitEffect(r, CallOf(r)) :
         routed[e].state = "idle" /\ ~CanStart(e)
  /\ AnswerDone(r, FALSE)
  /\ UNCHANGED <<vars, routed, turnVars, ran, op, envVars>>

\* The executor returns, with an error when a wait of its failed; with an error
\* and a live context it first denies the approvals of its call that are left.
Return(c, failed) ==
  /\ tools[c].at = "run"
  /\ op.method = "none" \/ op.call # c
  /\ \A r \in tools[c].asks : ConcurrentAsks /\ ledger[r] # "expiring"
  /\ \/ failed \/ ConcurrentAsks
     \/ \A r \in RequestsOf(c) : ledger[r] \in {"none", "recovered", "resumed"}
  /\ tools' = [tools EXCEPT ![c] =
       IF failed THEN Failing ELSE [at |-> "back", asks |-> {}]]
  /\ UNCHANGED <<vars, routed, turnVars, ran, ledger, op, envVars>>

\* rejectUnresumedApproval, one request at a time.
RejectUnresumed(c) ==
  /\ tools[c].at = "rejecting"
  /\ \A r \in Waiting(c) : ledger[r] # "expiring"
  /\ IF Waiting(c) = {}
     THEN /\ tools' = [tools EXCEPT ![c].at = "back"]
          /\ UNCHANGED ledger
     ELSE \E r \in Waiting(c) :
            IF ledger[r] \in {"none", "recovered", "asked"}
            THEN /\ ledger' = [ledger EXCEPT ![r] = "expiring"]
                 /\ UNCHANGED tools
            ELSE /\ tools' = [tools EXCEPT ![c].at = "back"]
                 /\ UNCHANGED ledger
  /\ UNCHANGED <<vars, routed, turnVars, ran, op, envVars>>

-----------------------------------------------------------------------------
(* Cancellation, crashes and restarts                                       *)

Over == pc \in {"done", "stuck", "pending", "down"}

\* Scope.Cancel commits the cancellation and then cancels the contexts, also
\* when the reducer refused the cancellation because of an earlier one.
Cancel ==
  /\ Unlocked /\ ~Over
  /\ "interrupt" \in CancelReasons
  /\ CancelRequested("interrupt")
  /\ UNCHANGED rtVars

CancelContext ==
  /\ ctx = "live" /\ ~Over
  /\ Shutdowns \/ (cancel # "none" /\ "interrupt" \in CancelReasons)
  /\ ctx' = "done"
  /\ UNCHANGED <<vars, routed, turnVars, hostVars, crashes, faults>>

\* Everything but the durable facts is lost.
Crash ==
  /\ \/ pc \notin {"done", "down", "pending"} /\ crashes < MaxCrashes
          /\ crashes' = crashes + 1
     \/ pc = "pending" /\ UNCHANGED crashes
  /\ pc' = "down" /\ todo' = {} /\ settling' = FALSE /\ broken' = FALSE
  /\ routed' = [e \in EffectIds |-> Absent]
  /\ tools' = [c \in Calls |-> Off]
  /\ ledger' = [r \in Requests |-> "none"]
  /\ op' = Free /\ ctx' = "live"
  /\ UNCHANGED <<vars, want, ran, faults>>

Running == {e \in EffectIds : effects[e].status = "running"}

\* RestoreTurnCoordinator: requeue, one commit each, then dispatch.
Requeue(e) ==
  /\ pc = "down"
  /\ EffectRequeued(e)
  /\ UNCHANGED rtVars

Restore ==
  /\ pc = "down"
  /\ Running = {}
  /\ routed' = [e \in EffectIds |->
       IF Pending(e) THEN Idle(effects[e].attempt) ELSE Absent]
  /\ ledger' = [r \in Requests |->
       IF approvals[r] # None \/ input.req = r THEN "recovered" ELSE "none"]
  /\ ctx' = IF cancel = "none" THEN "live" ELSE "done"
  /\ CASE phase = "created" -> Goto("open")
       [] phase \in TerminalPhases -> Goto("done")
       [] phase = "committing" ->
            /\ pc' = "journal" /\ want' = decision /\ settling' = TRUE
            /\ UNCHANGED <<todo, broken>>
       [] phase \notin TerminalPhases \union {"created", "committing"}
            /\ cancel # "none" -> Finalize(CancelDecision, TRUE)
       [] OTHER ->
            Goto(IF \E c \in OpenCalls, e \in PendingEffects :
                      effects[e].kind = "execute_tool" /\ effects[e].call = c
                 THEN "admit" ELSE "loop")
  /\ UNCHANGED <<vars, tools, ran, op, crashes, faults>>

-----------------------------------------------------------------------------
(* FinalizeTerminal                                                         *)

\* AbortForTerminal, the input wait: Abort(await_input), then InputResolved.
\* A retained reply that Abort resubmits resolves the wait by itself, and
\* InputResolved is then refused.
AbortInput ==
  /\ At("abort_input")
  /\ LET E == Find("await_input", None) IN
     \/ /\ input.req = None
        /\ Goto("abort_samples")
        /\ UNCHANGED <<vars, routed, envVars>>
     \/ /\ input.req # None /\ E = {}
        /\ InputResolved(input.req)
        /\ Goto("abort_samples")
        /\ UNCHANGED <<routed, envVars>>
     \/ /\ input.req # None
        /\ \E e \in E :
             \/ Start(e) /\ Goto("abort_input") /\ UNCHANGED envVars
             \/ /\ routed[e].state = "idle" /\ ~CanStart(e)
                /\ FinalizeFailed
                /\ UNCHANGED <<vars, routed, envVars>>
             \/ /\ routed[e].state = "started"
                /\ \/ /\ ResolveAccepted(e, Result("abort"))
                      /\ IF Retained(e, Result("abort")).cmd = "abort"
                         THEN Goto("abort_input") ELSE FinalizeFailed
                   \/ /\ ResolveRefused(e, Result("abort"))
                      /\ FinalizeFailed
  /\ UNCHANGED hostVars

\* AbortTools takes the requests that are pending when it begins; the error
\* of AbortProviderSamples is joined with its own.
ToAbortTools(failed) ==
  /\ pc' = "abort_tools" /\ broken' = failed
  /\ todo' = {r \in Requests : approvals'[r] # None}
  /\ UNCHANGED <<want, settling>>

\* Mutant: a sample that has not been started is not started for the abort.
AbortSamplesUnstarted ==
  /\ At("abort_samples")
  /\ \/ /\ SampleEffect = {}
        /\ UNCHANGED <<vars, routed, envVars>>
        /\ ToAbortTools(FALSE)
     \/ \E e \in SampleEffect :
          \/ ResolveAccepted(e, Result("failed")) /\ ToAbortTools(FALSE)
          \/ ResolveRefused(e, Result("failed")) /\ ToAbortTools(TRUE)
  /\ UNCHANGED hostVars

\* AbortProviderSamples: started if need be, then finished as failed.
AbortSamples ==
  /\ At("abort_samples")
  /\ \/ /\ SampleEffect = {}
        /\ UNCHANGED <<vars, routed, envVars>>
        /\ ToAbortTools(FALSE)
     \/ \E e \in SampleEffect :
          \/ Start(e) /\ Goto("abort_samples") /\ UNCHANGED envVars
          \/ /\ routed[e].state = "idle" /\ ~CanStart(e)
             /\ UNCHANGED <<vars, routed, envVars>>
             /\ ToAbortTools(TRUE)
          \/ /\ routed[e].state = "started"
             /\ \/ ResolveAccepted(e, Result("failed")) /\ ToAbortTools(FALSE)
                \/ ResolveRefused(e, Result("failed")) /\ ToAbortTools(TRUE)
  /\ UNCHANGED hostVars

\* The call a request was asked for, also once the request is gone.
AskedBy(r) == CHOOSE c \in Calls : r \in RequestsOf(c)

\* AbortTools, the approvals: each request that was pending is denied on the
\* first routed approval effect of its call.
AbortApproval(r) ==
  /\ pc = "abort_tools" /\ OpenCalls # {}
  /\ r \in todo
  /\ op = Free \/ op.req = r
  /\ LET E == Find("await_approval", AskedBy(r))
         denied == [cmd |-> "approval", req |-> r, cancels |-> FALSE] IN
     \/ /\ \A e \in E : routed[e].state = "idle" /\ ~CanStart(e)
        /\ FinalizeFailed /\ op' = Free
        /\ UNCHANGED <<vars, routed, envVars>>
     \/ \E e \in E :
          \/ /\ Start(e) /\ Goto("abort_tools")
             /\ op' = [method |-> "abort", req |-> r, call |-> AskedBy(r)]
             /\ UNCHANGED envVars
          \/ /\ routed[e].state = "started" /\ op' = Free
             /\ \/ /\ ResolveAccepted(e, denied)
                   /\ todo' = todo \ {r}
                   /\ UNCHANGED <<pc, want, settling, broken>>
                \/ ResolveRefused(e, denied) /\ FinalizeFailed
  /\ UNCHANGED <<tools, ran, ledger>>

\* Mutant: a tool effect that was not started is not started for the abort.
AbortToolUnstarted ==
  /\ At("abort_tools")
  /\ OpenCalls # {} /\ todo = {}
  /\ \E e \in Find("execute_tool", None) :
       \/ ResolveAccepted(e, Result("abort")) /\ Goto("abort_tools")
       \/ ResolveRefused(e, Result("abort")) /\ FinalizeFailed
  /\ UNCHANGED hostVars

\* AbortTools, the tool effects, and then the calls still open.
AbortTool ==
  /\ At("abort_tools")
  /\ OpenCalls # {} /\ todo = {}
  /\ \E e \in Find("execute_tool", None) :
       \/ Start(e) /\ Goto("abort_tools") /\ UNCHANGED envVars
       \/ /\ routed[e].state = "started"
          /\ \/ ResolveAccepted(e, Result("abort")) /\ Goto("abort_tools")
             \/ ResolveRefused(e, Result("abort")) /\ FinalizeFailed
  /\ UNCHANGED hostVars

AbortCalls ==
  /\ At("abort_tools")
  /\ todo = {} /\ Find("execute_tool", None) = {}
  /\ AbortOpenCalls
  /\ Goto("abort_tools")
  /\ UNCHANGED <<routed, hostVars, envVars>>

AbortDone ==
  /\ At("abort_tools")
  /\ OpenCalls = {}
  /\ IF broken THEN FinalizeFailed ELSE Goto("discard")
  /\ UNCHANGED <<vars, routed, hostVars, envVars>>

\* Mutant: the text of the failed turn is kept.
DiscardOutputKept ==
  /\ At("discard")
  /\ Goto("request")
  /\ UNCHANGED <<vars, routed, hostVars, envVars>>

DiscardOutput ==
  /\ At("discard")
  /\ IF provisional = "empty" THEN UNCHANGED vars ELSE DiscardProvisionalOutput
  /\ Goto("request")
  /\ UNCHANGED <<routed, hostVars, envVars>>

\* RequestTerminal.
RequestTerminal ==
  /\ At("request")
  /\ TerminalRequested(want)
  /\ Dispatch(routed)
  /\ Goto("journal")
  /\ UNCHANGED <<hostVars, envVars>>

\* StartJournal, the journal driver and FinishJournal.  When the commit of the
\* result fails, kernelStarted keeps settle from another attempt.
RunJournal ==
  /\ At("journal")
  /\ \E e \in PendingEffects :
       \/ Start(e) /\ Goto("journal") /\ UNCHANGED envVars
       \/ /\ routed[e].state = "started"
          /\ \/ /\ JournalResult(e, TRUE)
                /\ routed' = [routed EXCEPT ![e] = Absent]
                /\ Goto("journal") /\ UNCHANGED envVars
             \/ /\ faults < MaxFaults /\ faults' = faults + 1
                /\ JournalResult(e, FALSE)
                /\ routed' = [routed EXCEPT ![e].state = "idle"]
                /\ Goto("pending") /\ UNCHANGED <<ctx, crashes>>
             \/ /\ faults < MaxFaults /\ faults' = faults + 1
                /\ Goto("stuck")
                /\ UNCHANGED <<vars, routed, ctx, crashes>>
  /\ UNCHANGED hostVars

EndTurn ==
  /\ At("journal")
  /\ PendingEffects = {}
  /\ FinishTerminal
  /\ Goto("done")
  /\ UNCHANGED <<routed, hostVars, envVars>>

\* Nothing is left to do: the turn is over, or settle has given up.
Ended == pc \in {"done", "stuck"} /\ UNCHANGED allVars

-----------------------------------------------------------------------------

TurnStep ==
  \/ OpenTurn \/ ResumeSample \/ LoopFails \/ Answer
  \/ \E s \in Samples : RequestSample(s)
  \/ \E e \in EffectIds :
       \/ StartSample(e) \/ RecordProgress(e) \/ LeaveTransport(e)
       \/ \E cmd \in {"failed", "text", "calls"} : FinishSample(e, cmd)
  \/ AdmitBatch \/ AdmissionFails \/ StartToolFails \/ ExecuteBatch
  \/ BatchReturned \/ BatchClosed
  \/ \E c \in Calls : StartTool(c) \/ CloseTool(c)

FinalizeStep ==
  \/ AbortInput \/ AbortSamples \/ AbortTool \/ AbortCalls \/ AbortDone
  \/ \E r \in Requests : AbortApproval(r)
  \/ DiscardOutput \/ RequestTerminal \/ RunJournal \/ EndTurn

AskStep ==
  \/ Required \/ RequiredFails
  \/ \E c \in Calls :
       \/ \E failed \in BOOLEAN : Return(c, failed)
       \/ RejectUnresumed(c)
       \/ \E r \in Requests : Ask(c, r) \/ AskRecovered(c, r) \/ StopWaiting(c, r)
  \/ \E r \in Requests :
       \/ Expire(r) \/ ResolveStarts(r) \/ ResolveWait(r) \/ ResolveFails(r)
       \/ ReplyLate(r) \/ (\E cancels \in BOOLEAN : Reply(r, cancels))

CrashStep == Crash \/ Restore \/ (\E e \in EffectIds : Requeue(e))

RuntimeNext ==
  \/ TurnStep \/ FinalizeStep \/ AskStep
  \/ Cancel \/ CancelContext \/ CrashStep \/ Ended

RuntimeSpec == RuntimeInit /\ [][RuntimeNext]_allVars

\* What is always scheduled: the turn's goroutine, each executor, an answer in
\* hand, an input wait whose context is canceled, the restart of a process that
\* went down, and the second half of Scope.Cancel.  Users, timers (there is none
\* unless a time to live is configured), crashes and failed commits are not.
ExecutorStep(c) ==
  \/ \E failed \in BOOLEAN : Return(c, failed)
  \/ RejectUnresumed(c)
  \/ \E r \in Requests : AskRecovered(c, r) \/ StopWaiting(c, r)

RequestStep(r) ==
  \/ ResolveStarts(r) \/ ResolveWait(r) \/ ResolveFails(r) \/ ReplyLate(r)
  \/ r \in InputRequests /\ ctx = "done" /\ Expire(r)

RestartStep == Restore \/ (\E e \in EffectIds : Requeue(e))

Fairness ==
  /\ WF_allVars(TurnStep \/ FinalizeStep)
  /\ WF_allVars(Required \/ RequiredFails)
  /\ \A c \in Calls : WF_allVars(ExecutorStep(c))
  /\ \A r \in Requests : WF_allVars(RequestStep(r))
  /\ WF_allVars(RestartStep)
  /\ WF_allVars(cancel = "interrupt" /\ CancelContext)

FairSpec == RuntimeSpec /\ Fairness

-----------------------------------------------------------------------------
(* Properties                                                               *)

\* While the process is up, every effect the durable state still owes is
\* routed, with the same attempt, and started exactly when the state says so:
\* no pending effect is left without someone who can finish or abort it.
RegistryCovers ==
  pc # "down" =>
    \A e \in PendingEffects :
      /\ routed[e].state =
           (IF effects[e].status = "running" THEN "started" ELSE "idle")
      /\ routed[e].attempt = effects[e].attempt

\* The reducer would accept a second sample while one is requested; the
\* runtime never has two, across retries, aborts and restarts.
SingleSample ==
  \A e, f \in PendingEffects :
    effects[e].kind = "sample_provider" /\ effects[f].kind = "sample_provider"
      => e = f

\* A call reaches its executor at most once per durable start of its effect,
\* and only while that start is on record.
ExecutionCovered ==
  \A c \in Calls :
    /\ tools[c].at \in {"run", "rejecting"} =>
         \E e \in EffectIds : /\ effects[e].kind = "execute_tool"
                              /\ effects[e].call = c
                              /\ effects[e].status = "running"
    /\ ran[c] # 0 =>
         \E e \in EffectIds : /\ effects[e].kind = "execute_tool"
                              /\ effects[e].call = c
                              /\ ran[c] <= effects[e].attempt

\* A call whose admission was rejected durably is never executed from then
\* on, not by a restart either.
RejectionHolds == [][\A c \in rejected : ran'[c] = ran[c]]_allVars

\* An executor does not go on with an approval or an answer before that is
\* durable.
ResumedIsDurable ==
  \A r \in Requests : ledger[r] = "resumed" => ~StillPending(r)

\* While no cancellation was accepted, a request of a call that is being
\* executed can still be answered: it is waited for, or an answer is on its
\* way.  The one exception is a reply that came too late to be staged, and then
\* the executor has stopped waiting.
RequestAnswerable ==
  \A r \in Requests :
    StillPending(r) /\ op = Free /\ cancel = "none"
      /\ tools[CallOf(r)].at = "run" =>
      \/ ledger[r] \in {"recovered", "asked", "staged", "canceling", "expiring"}
      \/ ledger[r] = "closed" /\ r \notin tools[CallOf(r)].asks

\* When no commit fails, settle gives up only on a turn one of whose effects
\* retains a result that the reducer refuses, and will refuse every time.
StuckIsPoisoned ==
  pc = "stuck" /\ faults = 0 =>
    \E e \in PendingEffects :
      routed[e].result # NoResult /\ ~Legal(e, routed[e].result)

\* A turn in committing can always finish, whatever failed or crashed on the
\* way: it owes its journal effect or its journal is settled, and the text
\* FinishTerminal would refuse has been withdrawn before the decision.
CommittingFinishes ==
  /\ CommittingSettles
  /\ phase = "committing" /\ decision # "completed" => provisional = "empty"

\* An executor waits for a request nobody has answered, or for one that is still
\* pending because its answer was refused after it had been staged.
Waits ==
  \E c \in Calls : \E r \in tools[c].asks :
    ledger[r] = "asked" \/ (ledger[r] = "closed" /\ StillPending(r))

\* A turn ends, unless an executor waits for ever: for a user who stays silent
\* while no time to live is configured, or for an answer the reducer refused.
\* What leaves it to a restart instead is a failed commit, a failed journal or a
\* cancel that beat the model's answer (EndsExplicitly).
TurnEnds ==
  []<>~Waits => <>( \/ pc = "done"
                    \/ pc = "stuck" /\ (cancel # "none" \/ faults # 0)
                    \/ pc = "pending" /\ faults # 0 )

\* A restart settles a canceled turn, whatever it was doing, unless a commit or
\* the journal fails once more.
RestartSettles ==
  pc = "down" /\ cancel # "none" ~>
    (pc = "done" \/ (pc \in {"stuck", "pending"} /\ faults # 0))

\* Cancellation and failure are explicit terminal states: the turn's
\* goroutine never leaves without one.
EndsExplicitly == pc # "stuck"

=============================================================================
