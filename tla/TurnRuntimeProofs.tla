-------------------------- MODULE TurnRuntimeProofs --------------------------
(***************************************************************************)
(* The runtime implements the reducer: each of its steps is one command of *)
(* the reducer or leaves the reducer's state alone.  What is proved of the *)
(* reducer therefore holds of the runtime, with crashes, failed commits    *)
(* and refused results.  The second half proves what the runtime adds:     *)
(* DriverInv, the inductive invariant of the registry, the driver and the  *)
(* executors of a batch, WaitInv, that of the requests and their answers,  *)
(* and PoisonInv, that of the aborts and of the turns settle gives up on.  *)
(***************************************************************************)
EXTENDS TurnRuntime, TurnKernelProofs, WellFoundedInduction

\* The results an effect may retain: an approval or an answer names a request.
Proper ==
  {r \in Results : /\ r.cmd # "none"
                   /\ r.cmd \in {"approval", "input"} => r.req \in Requests}

Registry(reg) ==
  /\ reg \in [EffectIds -> Entries]
  /\ \A e \in EffectIds : reg[e].result \in Proper \union {NoResult}

RegistryOK == Registry(routed)

WantOK == want \in Decisions

RuntimeInv == IInv /\ RegistryOK /\ WantOK

\* What is shown of every step.
Sound == [Next]_vars /\ RegistryOK' /\ WantOK'

-----------------------------------------------------------------------------
(* Commands                                                                 *)

\* What the driver submits for a sample is a command of the reducer.
LEMMA SampleCommands ==
  ASSUME NEW s \in Samples, NEW e \in EffectIds
  PROVE  /\ ModelSampleRequested(s) => Next
         /\ ModelSampleProgress(e, s) => Next
         /\ ModelSampleFailed(e, s) => Next
         /\ ModelSampleAnswered(e, s, "text") => Next
         /\ ProviderRetryRequested(e, s) => Next
  BY DEF Next, SampleStep, Texts

\* What is submitted for an effect of any kind is a command of the reducer.
LEMMA EffectCommands ==
  ASSUME NEW e \in EffectIds
  PROVE  /\ EffectRequeued(e) => Next
         /\ EffectResult(e) => Next
         /\ \A attempt \in 1 .. MaxAttempts : EffectStarted(e, attempt) => Next
         /\ \A success \in BOOLEAN : JournalResult(e, success) => Next
  BY DEF Next, EffectStep, TerminalStep

\* What is submitted for a tool batch is a command of the reducer.
LEMMA ToolCommands ==
  ASSUME NEW e \in EffectIds, NEW c \in Calls
  PROVE  /\ \A failed, changes \in BOOLEAN :
              ToolResult(e, c, failed, changes) => Next
         /\ \A batch \in SUBSET Calls : ToolBatchAdmissionRejected(batch) => Next
  BY DEF Next, ToolStep

\* What is submitted for a request is a command of the reducer.
LEMMA InteractionCommands ==
  ASSUME NEW r \in Requests
  PROVE  /\ \A c \in Calls : ApprovalRequired(r, c) => Next
         /\ \A c \in Calls : InputRequired(r, c) => Next
         /\ \A e \in EffectIds, canceled \in BOOLEAN :
              ApprovalResult(e, r, canceled) => Next
         /\ \A e \in EffectIds : InputResult(e, r) => Next
         /\ InputResolved(r) => Next
  BY DEF Next, InteractionStep

\* What is submitted for the turn as a whole is a command of the reducer.
LEMMA OtherCommands ==
  /\ StartTurn \/ PreparationFinished => Next
  /\ ReleaseProvisionalOutput \/ DiscardProvisionalOutput => Next
  /\ AbortOpenCalls => Next
  /\ \A reason \in CancelReasons : CancelRequested(reason) => Next
  /\ \A d \in Decisions : TerminalRequested(d) => Next
  /\ FinishTerminal => Next
  BY DEF Next, OutputStep, ToolStep, InteractionStep, TerminalStep

-----------------------------------------------------------------------------
(* The registry                                                             *)

\* The sample, call or tool effect that ResolveWith submits a result for is of
\* the kind the result calls for, so the command names an existing identity.
LEMMA SubmitIsCommand ==
  ASSUME TypeOK, NEW e \in EffectIds, NEW r \in Proper, Submit(e, r)
  PROVE  Next
<1>. DEFINE c == effects[e].call
<1>0. Shaped(effects[e])
  BY DEF TypeOK, EffectTypeOK
<1>1. CASE r.cmd = "failed"
  <2>1. ModelSampleFailed(e, c)
    BY <1>1 DEF Submit
  <2>2. c \in Samples
    BY <1>0, <2>1 DEF ModelSampleFailed, Shaped
  <2>. QED
    BY <2>1, <2>2, SampleCommands
<1>2. CASE r.cmd = "text"
  <2>1. ModelSampleAnswered(e, c, "text")
    BY <1>2 DEF Submit
  <2>2. c \in Samples
    BY <1>0, <2>1 DEF ModelSampleAnswered, Shaped
  <2>. QED
    BY <2>1, <2>2, SampleCommands
<1>3. CASE r.cmd = "calls"
  <2>1. PICK n \in 1 .. MaxBatch : \E batch \in [1 .. n -> Calls] :
          ModelSampleCalled(e, c, n, batch, FALSE)
    BY <1>3 DEF Submit
  <2>2. PICK batch \in [1 .. n -> Calls] :
          ModelSampleCalled(e, c, n, batch, FALSE)
    BY <2>1
  <2>3. c \in Samples
    BY <1>0, <2>2 DEF ModelSampleCalled, Shaped
  <2>. QED
    BY <2>2, <2>3 DEF Next, SampleStep
<1>4. CASE r.cmd = "tool"
  <2>1. PICK failed \in BOOLEAN, changes \in BOOLEAN :
          ToolResult(e, c, failed, changes)
    BY <1>4 DEF Submit
  <2>2. c \in Calls
    BY <1>0, <2>1 DEF ToolResult, Shaped
  <2>. QED
    BY <2>1, <2>2, ToolCommands
<1>5. CASE r.cmd = "abort"
  BY <1>5, EffectCommands DEF Submit
<1>6. CASE r.cmd = "approval"
  <2>1. ApprovalResult(e, r.req, r.cancels)
    BY <1>6 DEF Submit
  <2>2. r.req \in Requests /\ r.cancels \in BOOLEAN
    BY <1>6 DEF Proper, Results
  <2>. QED
    BY <2>1, <2>2, InteractionCommands
<1>7. CASE r.cmd = "input"
  <2>1. InputResult(e, r.req)
    BY <1>7 DEF Submit
  <2>2. r.req \in Requests
    BY <1>7 DEF Proper
  <2>. QED
    BY <2>1, <2>2, InteractionCommands
<1>. QED
  BY <1>1, <1>2, <1>3, <1>4, <1>5, <1>6, <1>7 DEF Proper, Results

\* A fresh entry of the registry retains nothing.
LEMMA AbsentOK ==
  /\ Absent \in Entries /\ Absent.result = NoResult
  /\ \A attempt \in 0 .. MaxAttempts :
       Idle(attempt) \in Entries /\ Idle(attempt).result = NoResult
<1>1. NoResult \in Results
  BY DEF NoResult, Result, Results
<1>. QED
  BY <1>1, TurnKernelAssumption DEF Absent, Idle, Entries

\* One entry is replaced.
LEMMA EntryReplaced ==
  ASSUME NEW reg, Registry(reg), NEW e \in EffectIds, NEW x \in Entries,
         x.result \in Proper \union {NoResult}
  PROVE  Registry([reg EXCEPT ![e] = x])
  BY DEF Registry

\* An effect that goes back to the schedule keeps what it retains.
LEMMA EntryStateSet ==
  ASSUME RegistryOK, NEW e \in EffectIds,
         routed' = [routed EXCEPT ![e].state = "idle"]
  PROVE  RegistryOK'
<1>. DEFINE x == [routed[e] EXCEPT !.state = "idle"]
<1>1. x \in Entries /\ x.result = routed[e].result
  BY DEF RegistryOK, Registry, Entries
<1>2. routed' = [routed EXCEPT ![e] = x]
  OBVIOUS
<1>. HIDE DEF x
<1>. QED
  BY <1>1, <1>2, EntryReplaced DEF RegistryOK, Registry

\* Dispatch adds fresh entries only.
LEMMA DispatchOK ==
  ASSUME NEW reg, Registry(reg), Dispatch(reg)
  PROVE  RegistryOK'
<1>1. Idle(0) \in Entries /\ Idle(0).result = NoResult
  BY AbsentOK, TurnKernelAssumption
<1>2. \A e \in EffectIds : routed'[e] \in {Idle(0), reg[e]}
  BY DEF Dispatch
<1>3. routed' = [e \in EffectIds |-> routed'[e]]
  BY DEF Dispatch
<1>. QED
  BY <1>1, <1>2, <1>3 DEF RegistryOK, Registry

\* Start persists the next attempt of an effect.
LEMMA StartOK ==
  ASSUME RegistryOK, NEW e \in EffectIds, Start(e)
  PROVE  Next /\ RegistryOK'
<1>. DEFINE n == routed[e].attempt + 1
            x == [routed[e] EXCEPT !.state = "started", !.attempt = n]
<1>1. routed[e] \in Entries /\ routed[e].attempt < MaxAttempts
  BY DEF RegistryOK, Registry, Start
<1>2. n \in 1 .. MaxAttempts
  BY <1>1, TurnKernelAssumption DEF Entries
<1>3. Next
  BY <1>2, EffectCommands DEF Start
<1>5. routed' = [routed EXCEPT ![e] = x]
  BY DEF Start
<1>4. x \in Entries /\ x.result = routed[e].result
  <2>1. n \in 0 .. MaxAttempts
    BY <1>2, TurnKernelAssumption
  <2>2. ASSUME NEW m \in 0 .. MaxAttempts
        PROVE  LET y == [routed[e] EXCEPT !.state = "started", !.attempt = m]
               IN  y \in Entries /\ y.result = routed[e].result
    BY <1>1 DEF Entries
  <2>. QED
    BY <2>1, <2>2
<1>. HIDE DEF x
<1>. QED
  BY <1>3, <1>4, <1>5, EntryReplaced DEF RegistryOK, Registry

\* What ResolveWith submits is a proper result, the first one or this one.
LEMMA RetainedProper ==
  ASSUME RegistryOK, NEW e \in EffectIds, NEW first \in Proper
  PROVE  Retained(e, first) \in Proper
  BY DEF Retained, RegistryOK, Registry

\* A result the reducer accepts is one of its commands; it leaves the registry
\* with the effects it requested and without its own.
LEMMA AcceptedOK ==
  ASSUME TypeOK, RegistryOK, NEW e \in EffectIds, NEW first \in Proper,
         ResolveAccepted(e, first)
  PROVE  Next /\ RegistryOK'
<1>1. Next
  BY RetainedProper, SubmitIsCommand DEF ResolveAccepted
<1>2. Registry([routed EXCEPT ![e] = Absent])
  BY AbsentOK, EntryReplaced DEF RegistryOK
<1>. QED
  BY <1>1, <1>2, DispatchOK DEF ResolveAccepted

\* A refused result is retained and changes nothing durable.
LEMMA RefusedOK ==
  ASSUME RegistryOK, NEW e \in EffectIds, NEW first \in Proper,
         ResolveRefused(e, first)
  PROVE  UNCHANGED vars /\ RegistryOK'
<1>. DEFINE r == Retained(e, first)
            x == [routed[e] EXCEPT !.result = r]
<1>1. r \in Proper
  BY RetainedProper
<1>2. x \in Entries /\ x.result = r
  <2>. HIDE DEF r
  <2>. QED BY <1>1 DEF RegistryOK, Registry, Entries, Proper
<1>3. routed' = [routed EXCEPT ![e] = x] \/ routed' = routed
  BY DEF ResolveRefused
<1>4. RegistryOK'
  <2>. HIDE DEF x, r
  <2>. QED BY <1>1, <1>2, <1>3, EntryReplaced DEF RegistryOK, Registry
<1>. QED
  BY <1>4 DEF ResolveRefused

\* The results the runtime hands to ResolveWith are proper ones.
LEMMA ResultsProper ==
  /\ \A cmd \in {"failed", "text", "calls", "tool", "abort"} :
       Result(cmd) \in Proper
  /\ \A r \in Requests : WaitResult(r) \in Proper
  /\ \A r \in Requests :
       [cmd |-> "approval", req |-> r, cancels |-> FALSE] \in Proper
  BY DEF Result, Proper, Results, WaitResult

\* findLocked returns an effect of the turn.
LEMMA FindIn ==
  ASSUME NEW kind, NEW call
  PROVE  Find(kind, call) \subseteq EffectIds
  BY DEF Find

-----------------------------------------------------------------------------
(* The decision the driver works towards                                    *)

\* terminalEvent and the cancellation yield terminal decisions.
LEMMA DecisionsOK ==
  /\ CancelDecision \in Decisions
  /\ \A failure \in Decisions : SettleDecision(failure) \in Decisions
  BY DEF CancelDecision, SettleDecision, Decisions

\* Every move of the driver leaves it with a terminal decision to work towards.
LEMMA WantKept ==
  ASSUME WantOK
  PROVE  /\ \A p : Goto(p) => WantOK'
         /\ \A failed : ToAbortTools(failed) => WantOK'
         /\ UNCHANGED want => WantOK'
         /\ UNCHANGED turnVars => WantOK'
         /\ \A d \in Decisions, last \in BOOLEAN : Finalize(d, last) => WantOK'
         /\ \A failure \in Decisions : Settle(failure) => WantOK'
         /\ FinalizeFailed => WantOK'
<1>1. \A p : Goto(p) => WantOK'
  BY DEF Goto, WantOK
<1>2. \A d \in Decisions, last \in BOOLEAN : Finalize(d, last) => WantOK'
  BY DEF Finalize, WantOK
<1>3. \A failure \in Decisions : Settle(failure) => WantOK'
  BY <1>2, DecisionsOK DEF Settle
<1>4. FinalizeFailed => WantOK'
  BY <1>1, <1>3 DEF FinalizeFailed, Decisions
<1>. QED
  BY <1>1, <1>2, <1>3, <1>4 DEF ToAbortTools, WantOK, turnVars

\* A step that leaves the registry alone keeps it proper.
LEMMA RegistryKept == RegistryOK /\ UNCHANGED routed => RegistryOK'
  BY DEF RegistryOK, Registry

-----------------------------------------------------------------------------
(* Every step is sound                                                      *)

\* A provider effect names a sample.
LEMMA SampleIdentity ==
  ASSUME TypeOK, NEW e \in EffectIds, effects[e].kind = "sample_provider"
  PROVE  effects[e].call \in Samples
  BY DEF TypeOK, EffectTypeOK, Shaped

\* Opening the turn, sampling and answering.
LEMMA SamplingSound ==
  ASSUME RuntimeInv,
         \/ OpenTurn \/ ResumeSample \/ LoopFails \/ Answer
         \/ \E s \in Samples : RequestSample(s)
         \/ \E e \in EffectIds :
              \/ StartSample(e) \/ RecordProgress(e) \/ LeaveTransport(e)
              \/ \E cmd \in {"failed", "text", "calls"} : FinishSample(e, cmd)
  PROVE  Sound
<1>0. TypeOK /\ IInv /\ RegistryOK /\ WantOK
  BY DEF RuntimeInv, IInv
<1>1. CASE OpenTurn
  BY <1>0, <1>1, OtherCommands, WantKept, RegistryKept DEF OpenTurn, Sound
<1>2. CASE ResumeSample
  BY <1>0, <1>2, WantKept, RegistryKept DEF ResumeSample, Sound
<1>3. CASE LoopFails
  BY <1>0, <1>3, WantKept, RegistryKept DEF LoopFails, Sound, Decisions
<1>4. CASE Answer
  <2>1. Next \/ UNCHANGED vars
    BY <1>4, OtherCommands DEF Answer
  <2>2. WantOK'
    BY <1>0, <1>4, WantKept DEF Answer, WantOK, Decisions
  <2>3. RegistryOK'
    BY <1>0, <1>4, RegistryKept DEF Answer
  <2>. QED
    BY <2>1, <2>2, <2>3 DEF Sound
<1>5. ASSUME NEW s \in Samples, RequestSample(s)
      PROVE  Sound
  <2>1. Next
    BY <1>5 DEF RequestSample, Next, SampleStep
  <2>2. RegistryOK'
    BY <1>0, <1>5, DispatchOK DEF RequestSample, RegistryOK
  <2>. QED
    BY <1>0, <1>5, <2>1, <2>2, WantKept DEF RequestSample, Sound
<1>6. ASSUME NEW e \in EffectIds, StartSample(e)
      PROVE  Sound
  BY <1>0, <1>6, StartOK, WantKept DEF StartSample, Sound
<1>7. ASSUME NEW e \in EffectIds, RecordProgress(e)
      PROVE  Sound
  <2>1. effects[e].call \in Samples
    BY <1>0, <1>7, SampleIdentity DEF RecordProgress, ModelSampleProgress
  <2>. QED
    BY <1>0, <1>7, <2>1, SampleCommands, WantKept, RegistryKept
    DEF RecordProgress, Sound
<1>8. ASSUME NEW e \in EffectIds, LeaveTransport(e)
      PROVE  Sound
  <2>1. CASE ProviderRetryRequested(e, effects[e].call)
    <3>1. effects[e].call \in Samples
      BY <1>0, <2>1, SampleIdentity DEF ProviderRetryRequested
    <3>. QED
      BY <1>0, <1>8, <2>1, <3>1, SampleCommands, WantKept, EntryStateSet
      DEF LeaveTransport, Sound
  <2>2. CASE EffectRequeued(e)
    BY <1>0, <1>8, <2>2, EffectCommands, WantKept, EntryStateSet
    DEF LeaveTransport, Sound
  <2>. QED
    BY <1>8, <2>1, <2>2 DEF LeaveTransport
<1>9. ASSUME NEW e \in EffectIds, NEW cmd \in {"failed", "text", "calls"},
             FinishSample(e, cmd)
      PROVE  Sound
  <2>1. Result(cmd) \in Proper
    BY ResultsProper
  <2>2. [Next]_vars /\ RegistryOK'
    BY <1>0, <1>9, <2>1, AcceptedOK, RefusedOK DEF FinishSample
  <2>3. WantOK'
    BY <1>0, <1>9, WantKept DEF FinishSample, Decisions
  <2>. QED
    BY <2>2, <2>3 DEF Sound
<1>. QED
  BY <1>1, <1>2, <1>3, <1>4, <1>5, <1>6, <1>7, <1>8, <1>9

\* Admission, start and close of a tool batch.
LEMMA BatchSound ==
  ASSUME RuntimeInv,
         \/ AdmitBatch \/ AdmissionFails \/ StartToolFails \/ ExecuteBatch
         \/ BatchReturned \/ BatchClosed
         \/ \E c \in Calls : StartTool(c) \/ CloseTool(c)
  PROVE  Sound
<1>0. TypeOK /\ RegistryOK /\ WantOK
  BY DEF RuntimeInv, IInv
<1>1. CASE AdmitBatch
  <2>1. Batch \ rejected \in SUBSET Calls
    BY DEF Batch, OpenCalls
  <2>2. Next \/ UNCHANGED vars
    BY <1>1, <2>1 DEF AdmitBatch, Next, ToolStep
  <2>. QED
    BY <1>0, <1>1, <2>2, WantKept, RegistryKept DEF AdmitBatch, Sound
<1>2. CASE AdmissionFails \/ StartToolFails \/ BatchReturned
  BY <1>0, <1>2, WantKept, RegistryKept
  DEF AdmissionFails, StartToolFails, BatchReturned, Sound, Decisions
<1>3. CASE ExecuteBatch
  BY <1>0, <1>3, WantKept, RegistryKept DEF ExecuteBatch, Launch, Sound
<1>4. CASE BatchClosed
  <2>1. WantOK'
    BY <1>0, <1>4, WantKept, DecisionsOK DEF BatchClosed, Decisions
  <2>. QED
    BY <1>0, <1>4, <2>1, RegistryKept DEF BatchClosed, Sound
<1>5. ASSUME NEW c \in Calls, StartTool(c)
      PROVE  Sound
  <2>1. PICK e \in ToolEffect(c) : Start(e)
    BY <1>5 DEF StartTool
  <2>2. e \in EffectIds
    BY FindIn DEF ToolEffect
  <2>. QED
    BY <1>0, <1>5, <2>1, <2>2, StartOK, WantKept DEF StartTool, Sound
<1>6. ASSUME NEW c \in Calls, CloseTool(c)
      PROVE  Sound
  <2>1. PICK e \in ToolEffect(c) :
          ResolveAccepted(e, Result("tool")) \/ ResolveRefused(e, Result("tool"))
    BY <1>6 DEF CloseTool
  <2>2. e \in EffectIds /\ Result("tool") \in Proper
    BY FindIn, ResultsProper DEF ToolEffect
  <2>3. [Next]_vars /\ RegistryOK'
    BY <1>0, <2>1, <2>2, AcceptedOK, RefusedOK
  <2>. QED
    BY <1>0, <1>6, <2>3, WantKept DEF CloseTool, Sound
<1>. QED
  BY <1>1, <1>2, <1>3, <1>4, <1>5, <1>6

\* Executors that ask, replies, timers and resumed waits.
LEMMA AskSound ==
  ASSUME RuntimeInv, AskStep
  PROVE  Sound
<1>0. TypeOK /\ RegistryOK /\ WantOK
  BY DEF RuntimeInv, IInv
<1>1. CASE Required
  <2>1. PICK e \in WaitEffect(op.req, op.call) :
          Start(e) \/ UNCHANGED <<vars, routed>>
    BY <1>1 DEF Required
  <2>2. e \in EffectIds
    BY FindIn DEF WaitEffect
  <2>3. [Next]_vars /\ RegistryOK'
    BY <1>0, <2>1, <2>2, StartOK, RegistryKept
  <2>. QED
    BY <1>0, <1>1, <2>3, WantKept DEF Required, Sound
<1>9. CASE RequiredFails
  BY <1>0, <1>9, WantKept, RegistryKept DEF RequiredFails, Sound
<1>2. ASSUME NEW c \in Calls, NEW r \in Requests, Ask(c, r)
      PROVE  Sound
  <2>1. Next
    BY <1>2, InteractionCommands DEF Ask
  <2>2. RegistryOK'
    BY <1>0, <1>2, DispatchOK DEF Ask, RegistryOK
  <2>. QED
    BY <1>0, <1>2, <2>1, <2>2, WantKept DEF Ask, Sound
<1>3. ASSUME NEW r \in Requests, ResolveStarts(r)
      PROVE  Sound
  <2>1. PICK e \in WaitEffect(r, CallOf(r)) : Start(e)
    BY <1>3 DEF ResolveStarts
  <2>2. e \in EffectIds
    BY FindIn DEF WaitEffect
  <2>. QED
    BY <1>0, <1>3, <2>1, <2>2, StartOK, WantKept DEF ResolveStarts, Sound
<1>4. ASSUME NEW r \in Requests, ResolveWait(r)
      PROVE  Sound
  <2>1. PICK e \in WaitEffect(r, CallOf(r)) :
          ResolveAccepted(e, WaitResult(r)) \/ ResolveRefused(e, WaitResult(r))
    BY <1>4 DEF ResolveWait
  <2>2. e \in EffectIds /\ WaitResult(r) \in Proper
    BY FindIn, ResultsProper DEF WaitEffect
  <2>3. [Next]_vars /\ RegistryOK'
    BY <1>0, <2>1, <2>2, AcceptedOK, RefusedOK
  <2>. QED
    BY <1>0, <1>4, <2>3, WantKept DEF ResolveWait, Sound
<1>5. ASSUME NEW c \in Calls, NEW r \in Requests, NEW b \in BOOLEAN,
             \/ Return(c, b) \/ RejectUnresumed(c)
             \/ AskRecovered(c, r) \/ StopWaiting(c, r)
             \/ Expire(r) \/ ResolveFails(r) \/ ReplyLate(r) \/ Reply(r, b)
      PROVE  UNCHANGED <<vars, routed, turnVars>>
  BY <1>5 DEF Return, RejectUnresumed, AskRecovered, StopWaiting, Expire,
              ResolveFails, ReplyLate, Reply
<1>6. ASSUME UNCHANGED <<vars, routed, turnVars>>
      PROVE  Sound
  BY <1>0, <1>6, WantKept, RegistryKept DEF Sound
<1>7. ASSUME NEW c \in Calls, NEW b \in BOOLEAN,
             Return(c, b) \/ RejectUnresumed(c)
      PROVE  UNCHANGED <<vars, routed, turnVars>>
  BY <1>7 DEF Return, RejectUnresumed
<1>8. ASSUME NEW r \in Requests, NEW b \in BOOLEAN,
             Expire(r) \/ ResolveFails(r) \/ ReplyLate(r) \/ Reply(r, b)
      PROVE  UNCHANGED <<vars, routed, turnVars>>
  BY <1>8 DEF Expire, ResolveFails, ReplyLate, Reply
<1>. QED
  BY <1>1, <1>2, <1>3, <1>4, <1>5, <1>6, <1>7, <1>8, <1>9 DEF AskStep

\* The aborts of FinalizeTerminal.
LEMMA AbortSound ==
  ASSUME RuntimeInv,
         \/ AbortInput \/ AbortSamples \/ AbortTool \/ AbortCalls \/ AbortDone
         \/ \E r \in Requests : AbortApproval(r)
  PROVE  Sound
<1>0. TypeOK /\ RegistryOK /\ WantOK
  BY DEF RuntimeInv, IInv
<1>1. CASE AbortInput
  <2>1. WantOK'
    BY <1>0, <1>1, WantKept DEF AbortInput
  <2>2. CASE UNCHANGED <<vars, routed>>
    BY <1>0, <2>1, <2>2, RegistryKept DEF Sound
  <2>3. CASE input.req # None /\ InputResolved(input.req) /\ UNCHANGED routed
    <3>1. input.req \in Requests
      BY <1>0, <2>3 DEF TypeOK, WorkTypeOK
    <3>. QED
      BY <1>0, <2>1, <2>3, <3>1, InteractionCommands, RegistryKept DEF Sound
  <2>4. ASSUME NEW e \in Find("await_input", None),
               \/ Start(e) \/ ResolveAccepted(e, Result("abort"))
               \/ ResolveRefused(e, Result("abort"))
        PROVE  Sound
    <3>1. e \in EffectIds /\ Result("abort") \in Proper
      BY FindIn, ResultsProper
    <3>. QED
      BY <1>0, <2>1, <2>4, <3>1, StartOK, AcceptedOK, RefusedOK DEF Sound
  <2>. QED
    BY <1>1, <2>2, <2>3, <2>4 DEF AbortInput
<1>2. CASE AbortSamples
  <2>1. WantOK'
    BY <1>0, <1>2, WantKept DEF AbortSamples
  <2>2. CASE UNCHANGED <<vars, routed>>
    BY <1>0, <2>1, <2>2, RegistryKept DEF Sound
  <2>3. ASSUME NEW e \in SampleEffect,
               \/ Start(e) \/ ResolveAccepted(e, Result("failed"))
               \/ ResolveRefused(e, Result("failed"))
        PROVE  Sound
    <3>1. e \in EffectIds /\ Result("failed") \in Proper
      BY FindIn, ResultsProper DEF SampleEffect
    <3>. QED
      BY <1>0, <2>1, <2>3, <3>1, StartOK, AcceptedOK, RefusedOK DEF Sound
  <2>. QED
    BY <1>2, <2>2, <2>3 DEF AbortSamples
<1>3. CASE AbortTool
  <2>1. PICK e \in Find("execute_tool", None) :
          \/ Start(e) /\ Goto("abort_tools")
          \/ ResolveAccepted(e, Result("abort")) /\ Goto("abort_tools")
          \/ ResolveRefused(e, Result("abort")) /\ FinalizeFailed
    BY <1>3 DEF AbortTool
  <2>2. e \in EffectIds /\ Result("abort") \in Proper
    BY FindIn, ResultsProper
  <2>3. WantOK'
    BY <1>0, <2>1, WantKept
  <2>. QED
    BY <1>0, <2>1, <2>2, <2>3, StartOK, AcceptedOK, RefusedOK DEF Sound
<1>4. CASE AbortCalls
  BY <1>0, <1>4, OtherCommands, WantKept, RegistryKept DEF AbortCalls, Sound
<1>5. CASE AbortDone
  BY <1>0, <1>5, WantKept, RegistryKept DEF AbortDone, Sound
<1>6. ASSUME NEW r \in Requests, AbortApproval(r)
      PROVE  Sound
  <2>. DEFINE denied == [cmd |-> "approval", req |-> r, cancels |-> FALSE]
  <2>0. denied \in Proper
    BY ResultsProper
  <2>1. WantOK'
    BY <1>0, <1>6, WantKept DEF AbortApproval
  <2>2. CASE UNCHANGED <<vars, routed>>
    BY <1>0, <2>1, <2>2, RegistryKept DEF Sound
  <2>3. ASSUME NEW e \in Find("await_approval", AskedBy(r)),
               \/ Start(e) \/ ResolveAccepted(e, denied)
               \/ ResolveRefused(e, denied)
        PROVE  Sound
    <3>1. e \in EffectIds
      BY FindIn
    <3>. HIDE DEF denied
    <3>. QED
      BY <1>0, <2>0, <2>1, <2>3, <3>1, StartOK, AcceptedOK, RefusedOK DEF Sound
  <2>. QED
    BY <1>6, <2>2, <2>3 DEF AbortApproval
<1>. QED
  BY <1>1, <1>2, <1>3, <1>4, <1>5, <1>6

\* The terminal transaction and its journal.
LEMMA TerminalSound ==
  ASSUME RuntimeInv,
         DiscardOutput \/ RequestTerminal \/ RunJournal \/ EndTurn
  PROVE  Sound
<1>0. TypeOK /\ RegistryOK /\ WantOK
  BY DEF RuntimeInv, IInv
<1>1. CASE DiscardOutput
  BY <1>0, <1>1, OtherCommands, WantKept, RegistryKept DEF DiscardOutput, Sound
<1>2. CASE RequestTerminal
  <2>1. RegistryOK'
    BY <1>0, <1>2, DispatchOK DEF RequestTerminal, RegistryOK
  <2>. QED
    BY <1>0, <1>2, <2>1, OtherCommands, WantKept
    DEF RequestTerminal, Sound, WantOK
<1>3. CASE RunJournal
  <2>1. WantOK'
    BY <1>0, <1>3, WantKept DEF RunJournal
  <2>2. PICK e \in PendingEffects :
          \/ Start(e)
          \/ JournalResult(e, TRUE) /\ routed' = [routed EXCEPT ![e] = Absent]
          \/ JournalResult(e, FALSE)
               /\ routed' = [routed EXCEPT ![e].state = "idle"]
          \/ UNCHANGED <<vars, routed>>
    BY <1>3 DEF RunJournal
  <2>3. e \in EffectIds
    BY DEF PendingEffects
  <2>7. CASE UNCHANGED <<vars, routed>>
    BY <1>0, <2>1, <2>7, RegistryKept DEF Sound
  <2>4. CASE Start(e)
    BY <1>0, <2>1, <2>3, <2>4, StartOK DEF Sound
  <2>5. CASE JournalResult(e, TRUE) /\ routed' = [routed EXCEPT ![e] = Absent]
    <3>1. RegistryOK'
      BY <1>0, <2>3, <2>5, AbsentOK, EntryReplaced DEF RegistryOK, Registry
    <3>. QED
      BY <2>1, <2>3, <2>5, <3>1, EffectCommands DEF Sound
  <2>6. CASE JournalResult(e, FALSE)
               /\ routed' = [routed EXCEPT ![e].state = "idle"]
    BY <1>0, <2>1, <2>3, <2>6, EntryStateSet, EffectCommands DEF Sound
  <2>. QED
    BY <2>2, <2>4, <2>5, <2>6, <2>7
<1>4. CASE EndTurn
  BY <1>0, <1>4, OtherCommands, WantKept, RegistryKept DEF EndTurn, Sound
<1>. QED
  BY <1>1, <1>2, <1>3, <1>4

\* Cancellation, crashes and restarts.
LEMMA OutsideSound ==
  ASSUME RuntimeInv, Cancel \/ CancelContext \/ CrashStep \/ Ended
  PROVE  Sound
<1>0. IInv /\ TypeOK /\ RegistryOK /\ WantOK
  BY DEF RuntimeInv, IInv
<1>1. CASE Cancel
  <2>1. Next
    BY <1>1, OtherCommands DEF Cancel
  <2>2. UNCHANGED <<routed, turnVars>>
    BY <1>1 DEF Cancel, rtVars
  <2>. QED
    BY <1>0, <2>1, <2>2, WantKept, RegistryKept DEF Sound
<1>2. CASE CancelContext
  BY <1>0, <1>2, WantKept, RegistryKept DEF CancelContext, Sound
<1>3. CASE Ended
  BY <1>0, <1>3, WantKept, RegistryKept DEF Ended, allVars, rtVars, Sound
<1>4. CASE Crash
  <2>1. RegistryOK'
    BY <1>4, AbsentOK DEF Crash, RegistryOK, Registry
  <2>. QED
    BY <1>0, <1>4, <2>1, WantKept DEF Crash, Sound
<1>5. CASE Restore
  <2>1. RegistryOK'
    <3>1. \A e \in EffectIds : effects[e].attempt \in 0 .. MaxAttempts
      BY <1>0 DEF TypeOK, EffectTypeOK, Effects
    <3>2. \A e \in EffectIds : /\ routed'[e] \in Entries
                               /\ routed'[e].result = NoResult
      BY <1>5, <3>1, AbsentOK DEF Restore
    <3>3. routed' = [e \in EffectIds |-> routed'[e]]
      BY <1>5 DEF Restore
    <3>. QED
      BY <3>2, <3>3 DEF RegistryOK, Registry
  <2>2. WantOK'
    <3>1. phase = "committing" => decision \in Decisions
      BY <1>0 DEF IInv, Valid, ValidTerminal, TypeOK, ControlTypeOK
    <3>. QED
      BY <1>0, <1>5, <3>1, WantKept, DecisionsOK DEF Restore, WantOK
  <2>. QED
    BY <1>5, <2>1, <2>2 DEF Restore, Sound
<1>6. ASSUME NEW e \in EffectIds, Requeue(e)
      PROVE  Sound
  <2>1. UNCHANGED <<routed, turnVars>>
    BY <1>6 DEF Requeue, rtVars
  <2>. QED
    BY <1>0, <1>6, <2>1, EffectCommands, WantKept, RegistryKept
    DEF Requeue, Sound
<1>. QED
  BY <1>1, <1>2, <1>3, <1>4, <1>5, <1>6 DEF CrashStep

\* Every step of the runtime is sound.
LEMMA StepSound == RuntimeInv /\ [RuntimeNext]_allVars => Sound
<1>. SUFFICES ASSUME RuntimeInv, [RuntimeNext]_allVars PROVE Sound
  OBVIOUS
<1>1. CASE UNCHANGED allVars
  <2>1. UNCHANGED <<vars, routed, turnVars>>
    BY <1>1 DEF allVars, rtVars
  <2>. QED
    BY <2>1, WantKept, RegistryKept DEF RuntimeInv, Sound
<1>2. CASE TurnStep
  BY <1>2, SamplingSound, BatchSound DEF TurnStep
<1>3. CASE FinalizeStep
  BY <1>3, AbortSound, TerminalSound DEF FinalizeStep
<1>. QED
  BY <1>1, <1>2, <1>3, AskSound, OutsideSound DEF RuntimeNext

\* Every step of the runtime preserves the invariant.
LEMMA RuntimeStep == RuntimeInv /\ [RuntimeNext]_allVars => RuntimeInv'
<1>. SUFFICES ASSUME RuntimeInv, [RuntimeNext]_allVars PROVE RuntimeInv'
  OBVIOUS
<1>1. [Next]_vars /\ RegistryOK' /\ WantOK'
  BY StepSound DEF Sound
<1>2. IInv'
  BY <1>1, IInvStep DEF RuntimeInv
<1>. QED
  BY <1>1, <1>2 DEF RuntimeInv

\* A new turn satisfies the invariant.
LEMMA RuntimeStart == RuntimeInit => RuntimeInv
<1>. SUFFICES ASSUME RuntimeInit PROVE RuntimeInv
  OBVIOUS
<1>1. IInv
  BY IInvInit DEF RuntimeInit
<1>2. RegistryOK
  BY AbsentOK DEF RuntimeInit, RegistryOK, Registry
<1>. QED
  BY <1>1, <1>2 DEF RuntimeInv, RuntimeInit, WantOK, Decisions

-----------------------------------------------------------------------------
(* What a step does to the effects and their entries                        *)

\* The entry of e says what it said.
Held(e) ==
  routed'[e].state = routed[e].state /\ routed'[e].attempt = routed[e].attempt

\* Nothing happens to e.
Stays(e) == effects'[e] = effects[e] /\ Held(e)

\* e is finished, by its own result or by that of another effect.
Finishes(e) ==
  /\ Same(e)
  /\ effects'[e].status = "done" /\ effects'[e].attempt = effects[e].attempt

\* e is started: the attempt of the entry is the durable one.
Begins(e) ==
  /\ Same(e)
  /\ effects[e].status = "requested" /\ effects'[e].status = "running"
  /\ effects'[e].attempt = routed[e].attempt + 1
  /\ routed'[e].state = "started"
  /\ routed'[e].attempt = routed[e].attempt + 1

\* e goes back to the schedule.
Yields(e) ==
  /\ Same(e)
  /\ effects[e].status = "running" /\ effects'[e].status = "requested"
  /\ effects'[e].attempt = effects[e].attempt
  /\ routed'[e].state = "idle" /\ routed'[e].attempt = routed[e].attempt

\* e is requested, and dispatched with the commit that requests it.
Issues(e) ==
  /\ nextEffect < e /\ e <= nextEffect'
  /\ effects'[e].status = "requested" /\ effects'[e].attempt = 0
  /\ routed'[e] = Idle(0)

\* A step moves effects of the kinds M only and requests effects of the kinds
\* N only.
Moves(M, N) ==
  /\ nextEffect \in Nat /\ nextEffect' \in Nat /\ nextEffect <= nextEffect'
  /\ \A e \in EffectIds :
       \/ Stays(e)
       \/ effects[e].kind \in M /\ (Finishes(e) \/ Begins(e) \/ Yields(e))
       \/ Issues(e) /\ effects'[e].kind \in N

\* A step that leaves the ledger and the registry alone moves nothing.
LEMMA NothingMoves ==
  ASSUME TypeOK, UNCHANGED <<routed, effects, nextEffect>>, NEW M, NEW N
  PROVE  Moves(M, N)
  BY TurnKernelAssumption DEF Moves, Stays, Held, TypeOK, EffectTypeOK

\* A step may be said to move more than it does.
LEMMA MovesMore ==
  ASSUME NEW M, NEW N, NEW K, NEW L, Moves(M, N), M \subseteq K, N \subseteq L
  PROVE  Moves(K, L)
  BY DEF Moves

\* Start moves the effect it starts.
LEMMA StartMoves ==
  ASSUME TypeOK, RegistryOK, NEW e \in EffectIds, Start(e)
  PROVE  /\ Begins(e)
         /\ \A f \in EffectIds \ {e} : Stays(f)
         /\ Moves({effects[e].kind}, {})
         /\ UNCHANGED <<phase, workVars, nextEffect, cancel>>
<1>0. effects \in [EffectIds -> Effects] /\ routed \in [EffectIds -> Entries]
  BY DEF TypeOK, EffectTypeOK, RegistryOK, Registry
<1>1. EffectStarted(e, routed[e].attempt + 1)
  BY DEF Start
<1>2. UNCHANGED <<phase, workVars, nextEffect, cancel>>
  BY <1>1 DEF EffectStarted, controlVars
<1>3. /\ effects' = [effects EXCEPT ![e] =
             [@ EXCEPT !.status = "running", !.attempt = routed[e].attempt + 1]]
      /\ effects[e].status = "requested"
  BY <1>1 DEF EffectStarted
<1>4. routed' = [routed EXCEPT ![e] =
             [@ EXCEPT !.state = "started", !.attempt = routed[e].attempt + 1]]
  BY DEF Start
<1>5. Begins(e)
  BY <1>0, <1>3, <1>4 DEF Begins, Same, Effects, Entries
<1>6. \A f \in EffectIds \ {e} : Stays(f)
  BY <1>0, <1>3, <1>4 DEF Stays, Held
<1>7. nextEffect \in Nat /\ nextEffect' = nextEffect
  BY <1>2, TurnKernelAssumption DEF TypeOK, EffectTypeOK
<1>. QED
  BY <1>2, <1>5, <1>6, <1>7 DEF Moves

\* finishEffect on the effects of E; the entries of the others are held.
LEMMA FinishMoves ==
  ASSUME TypeOK, NEW E, effects' = Finish(effects, E), UNCHANGED nextEffect,
         \A e \in EffectIds : e \notin E => Held(e),
         NEW M, \A e \in EffectIds : e \in E => effects[e].kind \in M
  PROVE  /\ \A e \in EffectIds : IF e \in E THEN Finishes(e) ELSE Stays(e)
         /\ Moves(M, {})
<1>0. effects \in [EffectIds -> Effects]
  BY DEF TypeOK, EffectTypeOK
<1>1. \A e \in EffectIds : IF e \in E THEN Finishes(e) ELSE Stays(e)
  BY <1>0 DEF Finish, Finishes, Stays, Same, Effects
<1>2. nextEffect \in Nat /\ nextEffect' = nextEffect
  BY TurnKernelAssumption DEF TypeOK, EffectTypeOK
<1>. QED
  BY <1>1, <1>2 DEF Moves

\* requestEffect, dispatched on the registry as it is.
LEMMA RequestMoves ==
  ASSUME TypeOK, NEW kind, NEW key, NEW call,
         RequestEffect(kind, key, call), Dispatch(routed)
  PROVE  /\ Moves({}, {kind})
         /\ \A e \in EffectIds : nextEffect < e /\ e <= nextEffect' =>
              /\ effects'[e] = NewEffect(kind, key, call)
              /\ Issues(e)
         /\ \A e \in EffectIds : ~(nextEffect < e /\ e <= nextEffect') => Stays(e)
         /\ nextEffect + 1 \in EffectIds /\ nextEffect' = nextEffect + 1
<1>0. nextEffect \in Nat /\ nextEffect' = nextEffect + 1
  BY TurnKernelAssumption
  DEF RequestEffect, RequestEffects, TypeOK, EffectTypeOK
<1>1. Requested(NewEffect(kind, key, call))
  BY RequestRequests
<1>2. \A e \in EffectIds : nextEffect < e /\ e <= nextEffect' => e = nextEffect + 1
  BY <1>0, TurnKernelAssumption DEF EffectIds
<1>3. nextEffect < nextEffect + 1 /\ nextEffect + 1 <= nextEffect'
  BY <1>0
<1>4. \A e \in EffectIds : routed'[e] =
        IF nextEffect < e /\ e <= nextEffect' THEN Idle(0) ELSE routed[e]
  BY DEF Dispatch
<1>5. \A e \in EffectIds : nextEffect < e /\ e <= nextEffect' =>
              /\ effects'[e] = NewEffect(kind, key, call)
              /\ Issues(e)
  BY <1>1, <1>2, <1>4 DEF Requested, Issues, NewEffect
<1>6. \A e \in EffectIds : ~(nextEffect < e /\ e <= nextEffect') => Stays(e)
  BY <1>1, <1>3, <1>4 DEF Requested, Stays, Held
<1>7. NewEffect(kind, key, call).kind = kind
  BY DEF NewEffect
<1>. QED
  BY <1>0, <1>1, <1>5, <1>6, <1>7 DEF Moves, Requested

WaitKinds == {"await_approval", "await_input"}

\* The effects a result ends beside its own are those of waits.
LEMMA WaitEffectsWait ==
  ASSUME NEW c, NEW key, NEW f \in EffectIds
  PROVE  /\ f \in WaitEffects(c) => effects[f].kind \in WaitKinds
         /\ f \in FirstPending("await_approval", key)
              => effects[f].kind \in WaitKinds
         /\ f \in FirstPending("await_input", key)
              => effects[f].kind \in WaitKinds
  BY DEF WaitEffects, FirstPending, WaitKinds

\* Submitted for an effect that is not a sample, a result ends this effect and
\* the waits of its call at most.
LEMMA SubmitEnds ==
  ASSUME TypeOK, NEW e \in EffectIds, NEW r \in Proper, Submit(e, r),
         effects[e].kind # "sample_provider"
  PROVE  /\ \E E : /\ effects' = Finish(effects, E) /\ e \in E
                   /\ \A f \in EffectIds : f \in E => f = e \/ effects[f].kind \in WaitKinds
         /\ UNCHANGED nextEffect
         /\ \A c \in Calls :
              \/ calls'[c] = calls[c]
              \/ effects[e].kind = "execute_tool" /\ calls'[c] \in {"ok", "error"}
         /\ \A x \in Requests : approvals'[x] \in {approvals[x], None}
<1>. DEFINE c == effects[e].call
<1>0. calls \in [Calls -> {"new", "open", "ok", "error"}] /\ approvals \in [Requests -> Calls \union {None}]
  BY DEF TypeOK, WorkTypeOK
<1>1. r.cmd \notin {"failed", "text", "calls"}
  BY DEF Submit, ModelSampleFailed, ModelSampleAnswered, ModelSampleCalled
<1>2. CASE r.cmd = "tool"
  <2>1. PICK failed \in BOOLEAN, changes \in BOOLEAN : ToolResult(e, c, failed, changes)
    BY <1>2 DEF Submit
  <2>2. /\ effects' = Finish(effects, {e} \union WaitEffects(c))
        /\ effects[e].kind = "execute_tool"
        /\ calls' = [calls EXCEPT ![c] = IF failed THEN "error" ELSE "ok"]
        /\ approvals' = [x \in Requests |-> IF x \in Waiting(c) THEN None ELSE approvals[x]]
        /\ nextEffect' = nextEffect
    BY <2>1 DEF ToolResult
  <2>. QED
    BY <1>0, <2>2, WaitEffectsWait
<1>3. CASE r.cmd = "abort"
  <2>1. effects' = Finish(effects, {e}) /\ UNCHANGED <<workVars, nextEffect>>
    BY <1>3 DEF Submit, EffectResult
  <2>. QED
    BY <2>1 DEF workVars
<1>4. CASE r.cmd = "approval"
  <2>1. ApprovalResult(e, r.req, r.cancels)
    BY <1>4 DEF Submit
  <2>2. /\ effects' = Finish(effects, {e} \union FirstPending("await_approval", r.req))
        /\ approvals' = [approvals EXCEPT ![r.req] = None]
        /\ UNCHANGED <<calls, nextEffect>>
    BY <2>1 DEF ApprovalResult
  <2>. QED
    BY <1>0, <2>2, WaitEffectsWait
<1>5. CASE r.cmd = "input"
  <2>1. ResolveInputWait(r.req, {e})
    BY <1>5 DEF Submit, InputResult
  <2>2. /\ effects' = Finish(effects, {e} \union FirstPending("await_input", r.req))
        /\ UNCHANGED <<calls, approvals, nextEffect>>
    BY <2>1 DEF ResolveInputWait
  <2>. QED
    BY <2>2, WaitEffectsWait
<1>. QED
  BY <1>1, <1>2, <1>3, <1>4, <1>5 DEF Proper, Results

\* The same once the result was accepted and the entry is gone.
LEMMA AcceptedEnds ==
  ASSUME TypeOK, RegistryOK, NEW e \in EffectIds, NEW first \in Proper,
         ResolveAccepted(e, first), effects[e].kind # "sample_provider"
  PROVE  /\ Finishes(e) /\ routed'[e] = Absent
         /\ \A f \in EffectIds \ {e} : effects[f].kind \notin WaitKinds => Stays(f)
         /\ Moves({effects[e].kind} \union WaitKinds, {})
         /\ UNCHANGED nextEffect
         /\ \A c \in Calls :
              \/ calls'[c] = calls[c]
              \/ effects[e].kind = "execute_tool" /\ calls'[c] \in {"ok", "error"}
         /\ \A x \in Requests : approvals'[x] \in {approvals[x], None}
<1>1. Submit(e, Retained(e, first)) /\ Retained(e, first) \in Proper
  BY RetainedProper DEF ResolveAccepted
<1>2. /\ UNCHANGED nextEffect
      /\ \A c \in Calls :
              \/ calls'[c] = calls[c]
              \/ effects[e].kind = "execute_tool" /\ calls'[c] \in {"ok", "error"}
      /\ \A x \in Requests : approvals'[x] \in {approvals[x], None}
  BY <1>1, SubmitEnds
<1>3. PICK E : /\ effects' = Finish(effects, E) /\ e \in E
               /\ \A f \in EffectIds : f \in E => f = e \/ effects[f].kind \in WaitKinds
  BY <1>1, SubmitEnds
<1>4. nextEffect \in Nat /\ nextEffect' = nextEffect
  BY <1>2, TurnKernelAssumption DEF TypeOK, EffectTypeOK
<1>5. \A f \in EffectIds : routed'[f] = IF f = e THEN Absent ELSE routed[f]
  <2>1. \A f \in EffectIds : ~(nextEffect < f /\ f <= nextEffect')
    BY <1>4 DEF EffectIds
  <2>2. routed \in [EffectIds -> Entries]
    BY DEF RegistryOK, Registry
  <2>. QED
    BY <2>1, <2>2 DEF ResolveAccepted, Dispatch
<1>6. \A f \in EffectIds : f \notin E => Held(f)
  BY <1>3, <1>5 DEF Held
<1>7. \A f \in EffectIds : f \in E => effects[f].kind \in {effects[e].kind} \union WaitKinds
  BY <1>3
<1>8. /\ \A f \in EffectIds : IF f \in E THEN Finishes(f) ELSE Stays(f)
      /\ Moves({effects[e].kind} \union WaitKinds, {})
  BY <1>2, <1>3, <1>6, <1>7, FinishMoves
<1>. QED
  BY <1>2, <1>3, <1>5, <1>8

\* Accepted for a sample, a result ends it and requests the effects of the
\* calls it proposes, all of them new.
LEMMA AcceptedSample ==
  ASSUME TypeOK, RegistryOK, NEW e \in EffectIds, NEW first \in Proper,
         ResolveAccepted(e, first), effects[e].kind = "sample_provider"
  PROVE  /\ Moves({"sample_provider"}, {"execute_tool"})
         /\ phase = "sampling" /\ UNCHANGED <<approvals, input>>
         /\ \A c \in Calls : \/ calls'[c] = calls[c]
                             \/ calls[c] = "new" /\ calls'[c] = "open"
         /\ \A f \in EffectIds : nextEffect < f /\ f <= nextEffect' =>
              /\ Issues(f) /\ effects'[f].kind = "execute_tool"
              /\ effects'[f].call \in Calls
              /\ calls[effects'[f].call] = "new"
<1>. DEFINE r == Retained(e, first)
            s == effects[e].call
<1>0. /\ calls \in [Calls -> {"new", "open", "ok", "error"}]
      /\ effects \in [EffectIds -> Effects]
      /\ routed \in [EffectIds -> Entries]
      /\ nextEffect \in Nat
  BY TurnKernelAssumption
  DEF TypeOK, WorkTypeOK, EffectTypeOK, RegistryOK, Registry
<1>1. Submit(e, r) /\ r \in Proper
  BY RetainedProper DEF ResolveAccepted
<1>. HIDE DEF r
<1>2. \A f \in EffectIds : routed'[f] =
        IF nextEffect < f /\ f <= nextEffect' THEN Idle(0)
        ELSE IF f = e THEN Absent ELSE routed[f]
  BY <1>0 DEF ResolveAccepted, Dispatch
<1>3. CASE r.cmd \in {"failed", "text"}
  <2>1. /\ effects' = Finish(effects, {e})
        /\ UNCHANGED <<workVars, nextEffect>> /\ phase = "sampling"
    BY <1>1, <1>3 DEF Submit, ModelSampleFailed, ModelSampleAnswered
  <2>2. \A f \in EffectIds : ~(nextEffect < f /\ f <= nextEffect')
    BY <1>0, <2>1 DEF EffectIds
  <2>3. \A f \in EffectIds : f \notin {e} => Held(f)
    BY <1>2, <2>2 DEF Held
  <2>4. \A f \in EffectIds : f \in {e} => effects[f].kind \in {"sample_provider"}
    OBVIOUS
  <2>5. Moves({"sample_provider"}, {})
    BY <2>1, <2>3, <2>4, FinishMoves
  <2>6. Moves({"sample_provider"}, {"execute_tool"})
    BY <2>5, MovesMore
  <2>. QED
    BY <2>1, <2>2, <2>6 DEF workVars
<1>4. CASE r.cmd = "calls"
  <2>1. PICK n \in 1 .. MaxBatch : \E batch \in [1 .. n -> Calls] :
          ModelSampleCalled(e, s, n, batch, FALSE)
    BY <1>1, <1>4 DEF Submit
  <2>2. PICK batch \in [1 .. n -> Calls] :
          ModelSampleCalled(e, s, n, batch, FALSE)
    BY <2>1
  <2>3. /\ ToolCalls(Finish(effects, {e}), n, batch)
        /\ phase = "sampling" /\ UNCHANGED <<approvals, input>>
    BY <2>2 DEF ModelSampleCalled
  <2>4. /\ \A i \in 1 .. n : calls[batch[i]] = "new"
        /\ calls' = [c \in Calls |->
             IF \E i \in 1 .. n : batch[i] = c THEN "open" ELSE calls[c]]
        /\ RequestEffects(Finish(effects, {e}), n, [i \in 1 .. n |->
             NewEffect("execute_tool", batch[i], batch[i])])
    BY <2>3 DEF ToolCalls
  <2>5. n \in Nat /\ nextEffect' = nextEffect + n
    BY <2>4, TurnKernelAssumption DEF RequestEffects
  <2>6. \A f \in EffectIds : effects'[f] =
          IF nextEffect < f /\ f <= nextEffect + n
          THEN [i \in 1 .. n |->
                  NewEffect("execute_tool", batch[i], batch[i])][f - nextEffect]
          ELSE Finish(effects, {e})[f]
    BY <2>4 DEF RequestEffects
  <2>7. ASSUME NEW f \in EffectIds, nextEffect < f, f <= nextEffect'
        PROVE  /\ Issues(f) /\ effects'[f].kind = "execute_tool"
               /\ effects'[f].call \in Calls
               /\ calls[effects'[f].call] = "new"
    <3>1. f - nextEffect \in 1 .. n
      BY <1>0, <2>5, <2>7 DEF EffectIds
    <3>2. PICK i \in 1 .. n : effects'[f] = NewEffect("execute_tool", batch[i], batch[i])
      BY <2>5, <2>6, <2>7, <3>1
    <3>3. routed'[f] = Idle(0)
      BY <1>2, <2>7
    <3>. QED
      BY <2>4, <2>7, <3>2, <3>3 DEF NewEffect, Issues
  <2>8. ASSUME NEW f \in EffectIds, ~(nextEffect < f /\ f <= nextEffect')
        PROVE  Stays(f) \/ (effects[f].kind = "sample_provider" /\ Finishes(f))
    <3>1. effects'[f] = Finish(effects, {e})[f]
      BY <2>5, <2>6, <2>8
    <3>2. CASE f = e
      BY <1>0, <3>1, <3>2 DEF Finish, Finishes, Same, Effects
    <3>3. CASE f # e
      <4>1. effects'[f] = effects[f]
        BY <3>1, <3>3 DEF Finish
      <4>2. routed'[f] = routed[f]
        BY <1>2, <2>8, <3>3
      <4>. QED
        BY <4>1, <4>2 DEF Stays, Held
    <3>. QED
      BY <3>2, <3>3
  <2>9. Moves({"sample_provider"}, {"execute_tool"})
    <3>1. nextEffect <= nextEffect' /\ nextEffect' \in Nat
      BY <1>0, <2>5
    <3>. QED
      BY <1>0, <2>7, <2>8, <3>1 DEF Moves
  <2>10. \A c \in Calls : \/ calls'[c] = calls[c]
                          \/ calls[c] = "new" /\ calls'[c] = "open"
    BY <2>4
  <2>. QED
    BY <2>3, <2>7, <2>9, <2>10
<1>5. r.cmd \in {"failed", "text", "calls"}
  BY <1>1 DEF Submit, ToolResult, EffectResult, ApprovalResult, InputResult,
              Proper, Results
<1>. QED
  BY <1>3, <1>4, <1>5

\* A refused result moves nothing.
LEMMA RefusedStays ==
  ASSUME TypeOK, RegistryOK, NEW e \in EffectIds, NEW first,
         ResolveRefused(e, first)
  PROVE  (\A f \in EffectIds : Stays(f)) /\ UNCHANGED vars /\ Moves({}, {})
<1>1. UNCHANGED vars
  BY DEF ResolveRefused
<1>2. UNCHANGED <<effects, nextEffect>>
  BY <1>1 DEF vars, effectVars
<1>3. routed \in [EffectIds -> Entries]
  BY DEF RegistryOK, Registry
<1>4. \A f \in EffectIds : Held(f)
  BY <1>3 DEF ResolveRefused, Held, Entries
<1>5. nextEffect \in Nat /\ nextEffect' = nextEffect
  BY <1>2, TurnKernelAssumption DEF TypeOK, EffectTypeOK
<1>. QED
  BY <1>1, <1>2, <1>4, <1>5 DEF Stays, Moves

-----------------------------------------------------------------------------
(* The inductive invariant                                                  *)

IsTool(e) == effects[e].kind = "execute_tool"

\* A sequence number that was not issued has no effect.
Unissued ==
  \A e \in EffectIds :
    nextEffect < e => effects[e].kind = "none" /\ effects[e].key = None

\* Executors run only while the driver waits for them.
Idling ==
  pc # "running" => \A c \in Calls : tools[c].at \in {"off", "back"}

\* What an executor runs was started and has no result.
Executing ==
  \A c \in Calls : tools[c].at \in {"run", "rejecting"} =>
    \E e \in EffectIds :
      IsTool(e) /\ effects[e].call = c /\ effects[e].status = "running"

\* A call is executed at most once per durable start,
Counted ==
  \A e \in EffectIds : IsTool(e) => ran[effects[e].call] <= effects[e].attempt

\* and only if it has an effect,
Recorded ==
  \A c \in Calls : ran[c] # 0 =>
    \E e \in EffectIds : IsTool(e) /\ effects[e].call = c

\* which a call that was not proposed has not.
Untried == \A c \in Calls : calls[c] = "new" => ran[c] = 0

\* Nothing of a batch was started when it is admitted.
Admitting ==
  pc = "admit" =>
    \A e \in PendingEffects : IsTool(e) => effects[e].status = "requested"

\* A call that was started since was not executed yet.
Starting ==
  pc = "starting" =>
    \A e \in PendingEffects : IsTool(e) =>
      IF effects[e].call \in todo
      THEN effects[e].status = "requested"
      ELSE /\ effects[e].status = "running"
           /\ ran[effects[e].call] < effects[e].attempt

\* The entry of a tool effect that is over outlives the call's closing at most.
Owed ==
  \A e \in EffectIds :
    /\ IsTool(e) /\ routed[e].state # "absent"
    /\ calls[effects[e].call] = "open"
    => Pending(e)

Batches ==
  /\ Idling /\ Executing /\ Counted /\ Recorded /\ Untried
  /\ Admitting /\ Starting /\ Owed

\* A pending approval has an effect of its call, and what AbortTools denies was
\* asked by a call.
Asked == \A r \in PendingApprovals : r \in RequestsOf(approvals[r])
Denying ==
  pc = "abort_tools" =>
    \A r \in todo : r \in Requests /\ \E c \in Calls : r \in RequestsOf(c)

\* A step forgets no request of a call.
Remembered ==
  \A c \in Calls : \A r \in RequestsOf(c) :
    \E e \in EffectIds : effects'[e].key = r /\ effects'[e].call = c

Base ==
  /\ RuntimeInv /\ RuntimeTypeOK
  /\ RegistryCovers /\ SingleSample /\ Unissued /\ Batches /\ Asked

\* What a step has to preserve beside RuntimeInv and the types.
Kept ==
  /\ RegistryCovers' /\ SingleSample' /\ Unissued' /\ Batches' /\ Asked'
  /\ Remembered

-----------------------------------------------------------------------------
(* What moves preserve                                                      *)

\* Moves keep the registry and the ledger in step.
LEMMA CoversMoved ==
  ASSUME RegistryCovers, pc # "down", NEW M, NEW N, Moves(M, N)
  PROVE  RegistryCovers'
<1>. SUFFICES ASSUME NEW e \in EffectIds, Pending(e)'
              PROVE  /\ routed'[e].state =
                          (IF effects'[e].status = "running" THEN "started" ELSE "idle")
                     /\ routed'[e].attempt = effects'[e].attempt
  BY DEF RegistryCovers, PendingEffects, Pending
<1>1. CASE Stays(e)
  BY <1>1 DEF Stays, Held, RegistryCovers, PendingEffects, Pending
<1>2. CASE Finishes(e)
  BY <1>2 DEF Finishes, Pending
<1>3. CASE Begins(e)
  BY <1>3 DEF Begins
<1>4. CASE Yields(e)
  BY <1>4 DEF Yields, RegistryCovers, PendingEffects, Pending
<1>5. CASE Issues(e)
  BY <1>5 DEF Issues, Idle
<1>. QED
  BY <1>1, <1>2, <1>3, <1>4, <1>5 DEF Moves

\* No move gives an effect to a number that was not issued.
LEMMA UnissuedMoved ==
  ASSUME Unissued, NEW M, NEW N, Moves(M, N)
  PROVE  Unissued'
<1>. SUFFICES ASSUME NEW e \in EffectIds, nextEffect' < e
              PROVE  effects'[e].kind = "none" /\ effects'[e].key = None
  BY DEF Unissued
<1>1. nextEffect < e /\ ~(e <= nextEffect')
  BY DEF Moves, EffectIds
<1>2. effects[e].kind = "none" /\ effects[e].key = None
  BY <1>1 DEF Unissued
<1>. QED
  BY <1>1, <1>2 DEF Moves, Stays, Finishes, Begins, Yields, Issues, Same

\* A step that requests no sample keeps the pending one alone.
LEMMA SingleMoved ==
  ASSUME SingleSample, NEW M, NEW N, Moves(M, N), "sample_provider" \notin N
  PROVE  SingleSample'
<1>1. ASSUME NEW e \in EffectIds, Pending(e)', effects'[e].kind = "sample_provider"
      PROVE  Pending(e) /\ effects[e].kind = "sample_provider"
  <2>1. CASE Stays(e)
    BY <1>1, <2>1 DEF Stays, Pending
  <2>2. CASE Finishes(e)
    BY <1>1, <2>2 DEF Finishes, Pending
  <2>3. CASE Begins(e) \/ Yields(e)
    BY <1>1, <2>3 DEF Begins, Yields, Same, Pending
  <2>. QED
    BY <1>1, <2>1, <2>2, <2>3 DEF Moves
<1>. QED
  BY <1>1 DEF SingleSample, PendingEffects

\* The requests of a call are not forgotten.
LEMMA RequestsMoved ==
  ASSUME Unissued, NEW M, NEW N, Moves(M, N), NEW c, NEW r \in RequestsOf(c)
  PROVE  \E e \in EffectIds : effects'[e].key = r /\ effects'[e].call = c
<1>1. PICK e \in EffectIds : effects[e].key = r /\ effects[e].call = c
  BY DEF RequestsOf
<1>2. ~(nextEffect < e)
  BY <1>1, TurnKernelAssumption DEF RequestsOf, Unissued
<1>. QED
  BY <1>1, <1>2 DEF Moves, Stays, Finishes, Begins, Yields, Issues, Same

\* An effect of a kind that is not moved stays, and no other becomes one.
LEMMA KindStays ==
  ASSUME Unissued, NEW M, NEW N, Moves(M, N), NEW kind, kind \notin M,
         kind # "none"
  PROVE  \A e \in EffectIds :
           /\ effects[e].kind = kind => Stays(e)
           /\ effects'[e].kind = kind /\ kind \notin N =>
                effects[e].kind = kind /\ Stays(e)
<1>. SUFFICES ASSUME NEW e \in EffectIds
              PROVE  /\ effects[e].kind = kind => Stays(e)
                     /\ effects'[e].kind = kind /\ kind \notin N =>
                          effects[e].kind = kind /\ Stays(e)
  OBVIOUS
<1>1. effects[e].kind = kind => Stays(e)
  BY DEF Moves, Issues, Unissued
<1>2. effects'[e].kind = kind /\ kind \notin N => effects[e].kind = kind
  BY DEF Moves, Stays, Finishes, Begins, Yields, Same
<1>. QED
  BY <1>1, <1>2

-----------------------------------------------------------------------------
(* Executors and batches                                                    *)

\* Executors only come back, or begin to deny what they left.
Eased ==
  \A c \in Calls :
    \/ tools'[c].at \in {tools[c].at, "off", "back"}
    \/ tools[c].at = "run" /\ tools'[c].at = "rejecting"

\* The driver stays where it is, or moves between places that say nothing of
\* a batch.
Aside ==
  \/ UNCHANGED <<pc, todo>>
  \/ pc # "running" /\ pc' \notin {"running", "admit", "starting"}

\* A tool effect belongs to a call.
LEMMA ToolIdentity ==
  ASSUME TypeOK, NEW e \in EffectIds, IsTool(e)
  PROVE  effects[e].call \in Calls /\ effects[e].key = effects[e].call
  BY DEF TypeOK, EffectTypeOK, Shaped, IsTool

\* There is one tool effect for a call.
LEMMA ToolUnique ==
  ASSUME TypeOK, EffectKeysUnique, NEW e \in EffectIds, NEW f \in EffectIds,
         IsTool(e), IsTool(f), effects[e].call = effects[f].call
  PROVE  e = f
<1>1. effects[e].key = effects[f].key /\ effects[e].kind = effects[f].kind
  BY ToolIdentity DEF IsTool
<1>. QED
  BY <1>1 DEF EffectKeysUnique, IsTool

\* A step that touches no tool effect and no call.
LEMMA BatchesAside ==
  ASSUME TypeOK, RuntimeTypeOK, Batches,
         \A e \in EffectIds : IsTool(e) \/ IsTool(e)' => IsTool(e) /\ Stays(e),
         UNCHANGED <<calls, ran>>, Eased, Aside
  PROVE  Batches'
<1>1. \A e \in EffectIds : IsTool(e)' => IsTool(e) /\ Stays(e)
  OBVIOUS
<1>2. \A e \in EffectIds : IsTool(e) => IsTool(e)' /\ Stays(e)
  BY DEF Stays, IsTool
<1>3. \A e \in EffectIds : IsTool(e) => effects'[e] = effects[e] /\ routed'[e].state = routed[e].state
  BY <1>2 DEF Stays, Held
<1>4. Idling'
  BY DEF Batches, Idling, Eased, Aside
<1>5. Executing'
  <2>. SUFFICES ASSUME NEW c \in Calls, tools'[c].at \in {"run", "rejecting"}
                PROVE  \E e \in EffectIds : /\ IsTool(e)' /\ effects'[e].call = c
                                            /\ effects'[e].status = "running"
    BY DEF Executing
  <2>1. tools[c].at \in {"run", "rejecting"}
    BY DEF Eased
  <2>2. PICK e \in EffectIds : /\ IsTool(e) /\ effects[e].call = c
                               /\ effects[e].status = "running"
    BY <2>1 DEF Batches, Executing
  <2>. QED
    BY <1>2, <1>3, <2>2
<1>6. Counted'
  BY <1>1, <1>3 DEF Batches, Counted
<1>7. Recorded'
  <2>. SUFFICES ASSUME NEW c \in Calls, ran[c] # 0
                PROVE  \E e \in EffectIds : IsTool(e)' /\ effects'[e].call = c
    BY DEF Recorded
  <2>1. PICK e \in EffectIds : IsTool(e) /\ effects[e].call = c
    BY DEF Batches, Recorded
  <2>. QED
    BY <1>2, <1>3, <2>1
<1>8. Untried'
  BY DEF Batches, Untried
<1>9. Admitting' /\ Starting'
  <2>1. CASE pc' \in {"admit", "starting"}
    <3>1. UNCHANGED <<pc, todo>>
      BY <2>1 DEF Aside
    <3>. QED
      BY <1>1, <1>3, <3>1 DEF Batches, Admitting, Starting, PendingEffects, Pending
  <2>. QED
    BY <2>1 DEF Admitting, Starting
<1>10. Owed'
  BY <1>1, <1>3 DEF Batches, Owed, Pending
<1>. QED
  BY <1>4, <1>5, <1>6, <1>7, <1>8, <1>9, <1>10 DEF Batches

\* The same from what the step moves.
LEMMA BatchesMoved ==
  ASSUME TypeOK, RuntimeTypeOK, Batches, Unissued, NEW M, NEW N, Moves(M, N),
         "execute_tool" \notin M, "execute_tool" \notin N,
         UNCHANGED <<calls, ran>>, Eased, Aside
  PROVE  Batches'
<1>1. \A e \in EffectIds : IsTool(e) \/ IsTool(e)' => IsTool(e) /\ Stays(e)
  BY KindStays DEF IsTool
<1>. QED
  BY <1>1, BatchesAside

\* No executor runs, and the driver is at a place that says nothing of a batch:
\* tool effects may be started, and finished with their entry or their call.
LEMMA BatchesEnd ==
  ASSUME TypeOK, RuntimeTypeOK, Batches, RegistryCovers,
         pc \notin {"running", "down"},
         pc' \notin {"running", "admit", "starting"},
         \A e \in EffectIds :
           /\ IsTool(e)' => IsTool(e)
           /\ IsTool(e) => \/ Stays(e)
                           \/ Begins(e)
                           \/ Finishes(e) /\ (\/ routed'[e].state = "absent"
                                              \/ calls'[effects[e].call] # "open"),
         \A c \in Calls : \/ calls'[c] = calls[c]
                          \/ calls'[c] \notin {"new", "open"},
         UNCHANGED ran, Eased
  PROVE  Batches'
<1>0. \A c \in Calls : tools'[c].at \in {"off", "back"}
  BY DEF Batches, Idling, Eased
<1>1. Idling' /\ Executing' /\ Admitting' /\ Starting'
  BY <1>0 DEF Idling, Executing, Admitting, Starting
<1>2. ASSUME NEW e \in EffectIds, IsTool(e)
      PROVE  /\ IsTool(e)' /\ effects'[e].call = effects[e].call
             /\ effects'[e].attempt \in Nat
             /\ effects[e].attempt <= effects'[e].attempt
  <2>0. effects[e].attempt \in Nat /\ routed[e].attempt \in Nat
    BY TurnKernelAssumption
    DEF TypeOK, EffectTypeOK, Effects, RuntimeTypeOK, Entries
  <2>1. CASE Stays(e)
    BY <1>2, <2>0, <2>1 DEF Stays, IsTool
  <2>2. CASE Finishes(e)
    BY <1>2, <2>0, <2>2 DEF Finishes, Same, IsTool
  <2>3. CASE Begins(e)
    <3>1. effects[e].attempt = routed[e].attempt
      BY <2>3 DEF Begins, RegistryCovers, PendingEffects, Pending
    <3>. QED
      BY <1>2, <2>0, <2>3, <3>1 DEF Begins, Same, IsTool
  <2>. QED
    BY <1>2, <2>1, <2>2, <2>3
<1>3. Counted'
  <2>. SUFFICES ASSUME NEW e \in EffectIds, IsTool(e)'
                PROVE  ran[effects'[e].call] <= effects'[e].attempt
    BY DEF Counted
  <2>1. IsTool(e) /\ ran[effects[e].call] <= effects[e].attempt
    BY DEF Batches, Counted
  <2>2. /\ ran[effects[e].call] \in Nat /\ effects[e].attempt \in Nat
    BY <2>1, ToolIdentity, TurnKernelAssumption
    DEF TypeOK, EffectTypeOK, Effects, RuntimeTypeOK
  <2>. QED
    BY <1>2, <2>1, <2>2
<1>4. Recorded'
  <2>. SUFFICES ASSUME NEW c \in Calls, ran[c] # 0
                PROVE  \E e \in EffectIds : IsTool(e)' /\ effects'[e].call = c
    BY DEF Recorded
  <2>1. PICK e \in EffectIds : IsTool(e) /\ effects[e].call = c
    BY DEF Batches, Recorded
  <2>. QED
    BY <1>2, <2>1
<1>5. Untried'
  BY DEF Batches, Untried
<1>6. Owed'
  <2>. SUFFICES ASSUME NEW e \in EffectIds, IsTool(e)', routed'[e].state # "absent",
                       calls'[effects'[e].call] = "open"
                PROVE  Pending(e)'
    BY DEF Owed
  <2>1. IsTool(e) /\ effects'[e].call = effects[e].call /\ effects[e].call \in Calls
    BY <1>2, ToolIdentity
  <2>2. calls[effects[e].call] = "open"
    BY <2>1
  <2>3. CASE Stays(e)
    BY <2>1, <2>2, <2>3 DEF Stays, Held, Batches, Owed, Pending
  <2>4. CASE Begins(e)
    BY <2>4 DEF Begins, Pending
  <2>. QED
    BY <2>1, <2>3, <2>4
<1>. QED
  BY <1>1, <1>3, <1>4, <1>5, <1>6 DEF Batches

\* A sample is settled: the effects of the calls it proposes are new.
LEMMA BatchesProposed ==
  ASSUME TypeOK, RuntimeTypeOK, IInv, Batches, Unissued,
         Moves({"sample_provider"}, {"execute_tool"}), phase = "sampling",
         \A c \in Calls : \/ calls'[c] = calls[c]
                          \/ calls[c] = "new" /\ calls'[c] = "open",
         \A f \in EffectIds : nextEffect < f /\ f <= nextEffect' =>
              /\ Issues(f) /\ effects'[f].kind = "execute_tool"
              /\ effects'[f].call \in Calls
              /\ calls[effects'[f].call] = "new",
         pc # "running", pc' \notin {"running", "starting"},
         UNCHANGED <<tools, ran>>
  PROVE  Batches'
<1>0. \A c \in Calls : tools'[c].at \in {"off", "back"}
  BY DEF Batches, Idling
<1>1. Idling' /\ Executing' /\ Starting'
  BY <1>0 DEF Idling, Executing, Starting
<1>2. \A e \in EffectIds : IsTool(e) => Stays(e) /\ IsTool(e)'
  BY KindStays DEF IsTool, Stays
<1>3. ASSUME NEW e \in EffectIds, IsTool(e)', ~IsTool(e)
      PROVE  /\ Issues(e) /\ effects'[e].call \in Calls
             /\ calls[effects'[e].call] = "new"
  <2>1. Issues(e)
    BY <1>3 DEF Moves, Stays, Finishes, Begins, Yields, Same, IsTool
  <2>. QED
    BY <2>1 DEF Issues
<1>4. Counted'
  <2>. SUFFICES ASSUME NEW e \in EffectIds, IsTool(e)'
                PROVE  ran[effects'[e].call] <= effects'[e].attempt
    BY DEF Counted
  <2>1. CASE IsTool(e)
    BY <1>2, <2>1 DEF Stays, Batches, Counted
  <2>2. CASE ~IsTool(e)
    <3>1. ran[effects'[e].call] = 0 /\ effects'[e].attempt = 0
      BY <1>3, <2>2 DEF Issues, Batches, Untried
    <3>. QED
      BY <3>1
  <2>. QED
    BY <2>1, <2>2
<1>5. Recorded'
  <2>. SUFFICES ASSUME NEW c \in Calls, ran[c] # 0
                PROVE  \E e \in EffectIds : IsTool(e)' /\ effects'[e].call = c
    BY DEF Recorded
  <2>1. PICK e \in EffectIds : IsTool(e) /\ effects[e].call = c
    BY DEF Batches, Recorded
  <2>. QED
    BY <1>2, <2>1 DEF Stays
<1>6. Untried'
  BY DEF Batches, Untried
<1>7. Admitting'
  <2>. SUFFICES ASSUME NEW e \in EffectIds, Pending(e)', IsTool(e)'
                PROVE  effects'[e].status = "requested"
    BY DEF Admitting, PendingEffects
  <2>1. CASE IsTool(e)
    <3>1. Pending(e)
      BY <1>2, <2>1 DEF Stays, Pending
    <3>2. effects[e].call \in OpenCalls
      BY <2>1, <3>1 DEF IInv, NoOrphanEffect, PendingEffects, IsTool
    <3>. QED
      BY <3>2 DEF IInv, Valid, ValidCalls
  <2>2. CASE ~IsTool(e)
    BY <1>3, <2>2 DEF Issues
  <2>. QED
    BY <2>1, <2>2
<1>8. Owed'
  <2>. SUFFICES ASSUME NEW e \in EffectIds, IsTool(e)', routed'[e].state # "absent",
                       calls'[effects'[e].call] = "open"
                PROVE  Pending(e)'
    BY DEF Owed
  <2>1. CASE IsTool(e)
    <3>1. effects'[e] = effects[e] /\ routed'[e].state = routed[e].state
      BY <1>2, <2>1 DEF Stays, Held
    <3>2. effects[e].call \in Calls /\ calls[effects[e].call] # "new"
      BY <2>1, ToolIdentity DEF IInv, History, IsTool
    <3>3. calls[effects[e].call] = "open"
      BY <3>1, <3>2
    <3>. QED
      BY <2>1, <3>1, <3>3 DEF Batches, Owed, Pending
  <2>2. CASE ~IsTool(e)
    BY <1>3, <2>2 DEF Issues, Pending
  <2>. QED
    BY <2>1, <2>2
<1>. QED
  BY <1>1, <1>4, <1>5, <1>6, <1>7, <1>8 DEF Batches

-----------------------------------------------------------------------------
(* findLocked                                                               *)

\* Of several sequence numbers one is the first.
LEMMA FirstEffect ==
  ASSUME NEW E \in SUBSET EffectIds, E # {}
  PROVE  \E e \in E : \A x \in E : e <= x
<1>. DEFINE Less == {p \in Nat \X Nat : p[1] < p[2]}
<1>1. IsWellFoundedOn(Less, Nat)
  BY NatLessThanWellFounded, Zenon DEF OpToRel
<1>2. E \subseteq Nat
  BY DEF EffectIds
<1>3. PICK e \in E : \A x \in E : ~(<<x, e>> \in Less)
  BY <1>1, <1>2, WFMin
<1>4. \A x \in E : x < e => <<x, e>> \in Less
  BY <1>2
<1>5. \A x \in E : ~(x < e)
  BY <1>3, <1>4
<1>. QED
  BY <1>2, <1>5

\* What Find returns is routed and of the kind and the call asked for.
LEMMA FindFound ==
  ASSUME NEW kind, NEW call, NEW e \in Find(kind, call)
  PROVE  /\ e \in EffectIds /\ routed[e].state # "absent"
         /\ effects[e].kind = kind
         /\ call \in {None, effects[e].call}
  BY DEF Find

\* Find misses nothing.
LEMMA FindSome ==
  ASSUME NEW e \in EffectIds, routed[e].state # "absent", NEW call,
         call \in {None, effects[e].call}
  PROVE  Find(effects[e].kind, call) # {}
<1>. DEFINE same == {x \in EffectIds : /\ routed[x].state # "absent"
                                       /\ effects[x].kind = effects[e].kind
                                       /\ call \in {None, effects[x].call}}
<1>1. e \in same /\ same \in SUBSET EffectIds
  OBVIOUS
<1>2. Find(effects[e].kind, call) = {x \in same : \A y \in same : x <= y}
  BY DEF Find
<1>. HIDE DEF same
<1>3. \E x \in same : \A y \in same : x <= y
  BY <1>1, FirstEffect
<1>. QED
  BY <1>2, <1>3

-----------------------------------------------------------------------------
(* What a step keeps                                                        *)

\* Every request that is still pending was asked before.
LEMMA AskedMoved ==
  ASSUME TypeOK, Asked, Unissued, NEW M, NEW N, Moves(M, N),
         \A r \in Requests : approvals'[r] \in {approvals[r], None}
  PROVE  Asked' /\ Remembered
<1>0. Remembered
  BY RequestsMoved DEF Remembered
<1>. SUFFICES ASSUME NEW r \in Requests, approvals'[r] # None
              PROVE  \E e \in EffectIds :
                       effects'[e].key = r /\ effects'[e].call = approvals'[r]
  BY <1>0 DEF Asked, PendingApprovals, RequestsOf
<1>1. approvals'[r] = approvals[r] /\ r \in RequestsOf(approvals[r])
  BY DEF Asked, PendingApprovals
<1>. QED
  BY <1>1, RequestsMoved

\* A step beside the tool effects.
LEMMA KeptMoved ==
  ASSUME Base, pc = "down" => pc' = "down", NEW M, NEW N, Moves(M, N),
         "execute_tool" \notin M, N \subseteq WaitKinds \union JournalKinds,
         UNCHANGED <<calls, ran>>, Eased, Aside,
         \A r \in Requests : approvals'[r] \in {approvals[r], None}
  PROVE  Kept
<1>0. TypeOK /\ RegistryCovers /\ SingleSample /\ Unissued /\ Batches /\ Asked
        /\ RuntimeTypeOK
  BY DEF Base, RuntimeInv, IInv
<1>1. "execute_tool" \notin N /\ "sample_provider" \notin N
  BY DEF WaitKinds, JournalKinds
<1>2. RegistryCovers'
  <2>1. CASE pc = "down"
    BY <2>1 DEF RegistryCovers
  <2>2. CASE pc # "down"
    BY <1>0, <2>2, CoversMoved
  <2>. QED
    BY <2>1, <2>2
<1>3. SingleSample' /\ Unissued'
  BY <1>0, <1>1, SingleMoved, UnissuedMoved
<1>4. Batches'
  BY <1>0, <1>1, BatchesMoved
<1>5. Asked' /\ Remembered
  BY <1>0, AskedMoved
<1>. QED
  BY <1>2, <1>3, <1>4, <1>5 DEF Kept

\* A step beside the effects.
LEMMA KeptStill ==
  ASSUME Base, pc = "down" => pc' = "down",
         UNCHANGED <<routed, effects, nextEffect, calls, approvals, ran>>,
         Eased, Aside
  PROVE  Kept
<1>1. Moves({}, {})
  BY NothingMoves DEF Base, RuntimeInv, IInv
<1>. QED
  BY <1>1, KeptMoved

\* A step that starts or finishes effects while no batch is executed.
LEMMA KeptEnd ==
  ASSUME Base, pc \notin {"running", "down"},
         pc' \notin {"running", "admit", "starting"},
         NEW M, Moves(M, {}),
         \A e \in EffectIds : IsTool(e) =>
           \/ Stays(e)
           \/ Begins(e)
           \/ Finishes(e) /\ (\/ routed'[e].state = "absent"
                              \/ calls'[effects[e].call] # "open"),
         \A c \in Calls : \/ calls'[c] = calls[c]
                          \/ calls'[c] \notin {"new", "open"},
         \A r \in Requests : approvals'[r] \in {approvals[r], None},
         UNCHANGED ran, Eased
  PROVE  Kept
<1>0. TypeOK /\ RegistryCovers /\ SingleSample /\ Unissued /\ Batches /\ Asked
        /\ RuntimeTypeOK
  BY DEF Base, RuntimeInv, IInv
<1>1. RegistryCovers' /\ SingleSample' /\ Unissued'
  BY <1>0, CoversMoved, SingleMoved, UnissuedMoved
<1>2. \A e \in EffectIds : IsTool(e)' => IsTool(e)
  BY DEF Moves, Stays, Finishes, Begins, Yields, Same, IsTool
<1>3. Batches'
  BY <1>0, <1>2, BatchesEnd
<1>4. Asked' /\ Remembered
  BY <1>0, AskedMoved
<1>. QED
  BY <1>1, <1>3, <1>4 DEF Kept

\* A start while no batch is executed.
LEMMA KeptStart ==
  ASSUME Base, pc \notin {"running", "down"},
         pc' \notin {"running", "admit", "starting"},
         NEW e \in EffectIds, Start(e), UNCHANGED <<tools, ran>>
  PROVE  Kept
<1>0. TypeOK /\ RegistryOK
  BY DEF Base, RuntimeInv, IInv
<1>1. /\ Begins(e)
      /\ \A f \in EffectIds \ {e} : Stays(f)
      /\ Moves({effects[e].kind}, {})
      /\ UNCHANGED <<calls, approvals>>
  BY <1>0, StartMoves DEF workVars
<1>2. Eased
  BY DEF Eased
<1>. QED
  BY <1>1, <1>2, KeptEnd

\* A result that is accepted while no batch is executed.
LEMMA KeptAccepted ==
  ASSUME Base, pc \notin {"running", "down"},
         pc' \notin {"running", "admit", "starting"},
         NEW e \in EffectIds, NEW first \in Proper, ResolveAccepted(e, first),
         effects[e].kind # "sample_provider", UNCHANGED ran, Eased
  PROVE  Kept
<1>0. TypeOK /\ RegistryOK
  BY DEF Base, RuntimeInv, IInv
<1>. DEFINE M == {effects[e].kind} \union WaitKinds
<1>1. /\ Finishes(e) /\ routed'[e] = Absent
      /\ \A f \in EffectIds \ {e} : effects[f].kind \notin WaitKinds => Stays(f)
      /\ Moves(M, {})
      /\ \A c \in Calls :
           calls'[c] = calls[c] \/ calls'[c] \in {"ok", "error"}
      /\ \A x \in Requests : approvals'[x] \in {approvals[x], None}
  BY <1>0, AcceptedEnds
<1>. HIDE DEF M
<1>2. \A f \in EffectIds : IsTool(f) =>
           \/ Stays(f)
           \/ Begins(f)
           \/ Finishes(f) /\ (\/ routed'[f].state = "absent"
                              \/ calls'[effects[f].call] # "open")
  BY <1>1 DEF IsTool, WaitKinds, Absent
<1>3. \A c \in Calls : calls'[c] = calls[c] \/ calls'[c] \notin {"new", "open"}
  BY <1>1
<1>. QED
  BY <1>1, <1>2, <1>3, KeptEnd

\* A result that is refused.
LEMMA KeptRefused ==
  ASSUME Base, pc = "down" => pc' = "down",
         NEW e \in EffectIds, NEW first, ResolveRefused(e, first),
         UNCHANGED ran, Eased, Aside
  PROVE  Kept
<1>1. UNCHANGED vars /\ Moves({}, {})
  BY RefusedStays DEF Base, RuntimeInv, IInv
<1>2. UNCHANGED <<calls, approvals>>
  BY <1>1 DEF vars, workVars
<1>. QED
  BY <1>1, <1>2, KeptMoved

\* The result of a sample is accepted.
LEMMA KeptSampled ==
  ASSUME Base, pc \notin {"running", "down"}, pc' \notin {"running", "starting"},
         NEW e \in EffectIds, NEW first \in Proper, ResolveAccepted(e, first),
         effects[e].kind = "sample_provider", UNCHANGED <<tools, ran>>
  PROVE  Kept
<1>0. /\ TypeOK /\ RegistryOK /\ IInv /\ RuntimeTypeOK /\ RegistryCovers
      /\ SingleSample /\ Unissued /\ Batches /\ Asked
  BY DEF Base, RuntimeInv, IInv
<1>1. /\ Moves({"sample_provider"}, {"execute_tool"})
      /\ phase = "sampling" /\ UNCHANGED approvals
      /\ \A c \in Calls : \/ calls'[c] = calls[c]
                          \/ calls[c] = "new" /\ calls'[c] = "open"
      /\ \A f \in EffectIds : nextEffect < f /\ f <= nextEffect' =>
              /\ Issues(f) /\ effects'[f].kind = "execute_tool"
              /\ effects'[f].call \in Calls
              /\ calls[effects'[f].call] = "new"
  BY <1>0, AcceptedSample
<1>2. Batches'
  BY <1>0, <1>1, BatchesProposed
<1>3. RegistryCovers' /\ SingleSample' /\ Unissued'
  BY <1>0, <1>1, CoversMoved, SingleMoved, UnissuedMoved
<1>4. Asked' /\ Remembered
  BY <1>0, <1>1, AskedMoved
<1>. QED
  BY <1>2, <1>3, <1>4 DEF Kept

-----------------------------------------------------------------------------
(* Sampling                                                                 *)

\* findLocked finds the sample that is pending.
LEMMA SamplePending ==
  ASSUME RegistryCovers, pc # "down", NEW e \in EffectIds, Pending(e),
         effects[e].kind = "sample_provider"
  PROVE  SampleEffect # {}
<1>1. routed[e].state # "absent"
  BY DEF RegistryCovers, PendingEffects
<1>. QED
  BY <1>1, FindSome DEF SampleEffect

\* A sample is requested when none is pending.
LEMMA KeptRequested ==
  ASSUME Base, NEW s \in Samples, RequestSample(s)
  PROVE  Kept
<1>0. /\ TypeOK /\ RuntimeTypeOK /\ RegistryCovers
      /\ SingleSample /\ Unissued /\ Batches /\ Asked
  BY DEF Base, RuntimeInv, IInv
<1>1. /\ RequestEffect("sample_provider", s, s) /\ Dispatch(routed)
      /\ UNCHANGED <<workVars, hostVars>>
      /\ pc = "loop" /\ pc' = "begin" /\ SampleEffect = {}
  BY DEF RequestSample, ModelSampleRequested, At, Goto
<1>2. /\ Moves({}, {"sample_provider"})
      /\ \A e \in EffectIds : nextEffect < e /\ e <= nextEffect' => Issues(e)
      /\ \A e \in EffectIds : ~(nextEffect < e /\ e <= nextEffect') => Stays(e)
      /\ nextEffect' = nextEffect + 1 /\ nextEffect \in Nat
  <2>1. nextEffect \in Nat
    BY <1>0, TurnKernelAssumption DEF TypeOK, EffectTypeOK
  <2>. QED
    BY <1>0, <1>1, <2>1, RequestMoves
<1>3. UNCHANGED <<calls, approvals, tools, ran>>
  BY <1>1 DEF workVars, hostVars
<1>4. RegistryCovers' /\ Unissued'
  BY <1>0, <1>1, <1>2, CoversMoved, UnissuedMoved
<1>5. SingleSample'
  <2>1. ASSUME NEW e \in EffectIds, Pending(e)', effects'[e].kind = "sample_provider"
        PROVE  e = nextEffect + 1
    <3>1. CASE nextEffect < e /\ e <= nextEffect'
      BY <1>2, <3>1 DEF EffectIds
    <3>2. CASE Stays(e)
      <4>1. Pending(e) /\ effects[e].kind = "sample_provider"
        BY <2>1, <3>2 DEF Stays, Pending
      <4>. QED
        BY <1>0, <1>1, <4>1, SamplePending
    <3>. QED
      BY <1>2, <3>1, <3>2
  <2>. QED
    BY <2>1 DEF SingleSample, PendingEffects
<1>6. Batches'
  <2>1. Eased /\ Aside
    BY <1>1, <1>3 DEF Eased, Aside
  <2>. QED
    BY <1>0, <1>2, <1>3, <2>1, BatchesMoved
<1>7. Asked' /\ Remembered
  BY <1>0, <1>2, <1>3, AskedMoved
<1>. QED
  BY <1>4, <1>5, <1>6, <1>7 DEF Kept

\* A sample goes back to the schedule.
LEMMA YieldMoves ==
  ASSUME TypeOK, RegistryOK, NEW e \in EffectIds,
         effects[e].status = "running", effects' = SetStatus(e, "requested"),
         routed' = [routed EXCEPT ![e].state = "idle"], UNCHANGED nextEffect
  PROVE  Moves({effects[e].kind}, {})
<1>0. effects \in [EffectIds -> Effects] /\ routed \in [EffectIds -> Entries]
  BY DEF TypeOK, EffectTypeOK, RegistryOK, Registry
<1>1. Yields(e)
  BY <1>0 DEF Yields, Same, SetStatus, Effects, Entries
<1>2. \A f \in EffectIds \ {e} : Stays(f)
  BY <1>0 DEF Stays, Held, SetStatus
<1>3. nextEffect \in Nat /\ nextEffect' = nextEffect
  BY TurnKernelAssumption DEF TypeOK, EffectTypeOK
<1>. QED
  BY <1>1, <1>2, <1>3 DEF Moves

\* Where settle and FinalizeTerminal lead.
LEMMA WhereTo ==
  /\ \A p : Goto(p) => pc' = p
  /\ \A d, last : Finalize(d, last) => pc' = "abort_input"
  /\ \A failure : Settle(failure) => pc' = "abort_input"
  /\ FinalizeFailed => pc' \in {"stuck", "abort_input"}
  /\ \A failed : ToAbortTools(failed) => pc' = "abort_tools"
  BY DEF Goto, Finalize, Settle, FinalizeFailed, ToAbortTools

\* Opening the turn, sampling and answering.
LEMMA SamplingKept ==
  ASSUME Base,
         \/ OpenTurn \/ ResumeSample \/ LoopFails \/ Answer
         \/ \E s \in Samples : RequestSample(s)
         \/ \E e \in EffectIds :
              \/ StartSample(e) \/ RecordProgress(e) \/ LeaveTransport(e)
              \/ \E cmd \in {"failed", "text", "calls"} : FinishSample(e, cmd)
  PROVE  Kept
<1>0. TypeOK /\ RegistryOK
  BY DEF Base, RuntimeInv, IInv
<1>1. ASSUME UNCHANGED <<routed, workVars, effectVars, hostVars>>,
             pc \notin {"running", "down"},
             pc' \notin {"running", "admit", "starting"}
      PROVE  Kept
  <2>1. UNCHANGED <<routed, effects, nextEffect, calls, approvals, ran, tools>>
    BY <1>1 DEF workVars, effectVars, hostVars
  <2>2. Eased /\ Aside
    BY <1>1, <2>1 DEF Eased, Aside
  <2>. QED
    BY <1>1, <2>1, <2>2, KeptStill
<1>2. CASE OpenTurn
  BY <1>1, <1>2, WhereTo DEF OpenTurn, StartTurn, PreparationFinished, At
<1>3. CASE ResumeSample \/ LoopFails
  BY <1>1, <1>3, WhereTo DEF ResumeSample, LoopFails, At, vars
<1>4. CASE Answer
  <2>1. UNCHANGED <<workVars, effectVars>>
    BY <1>4 DEF Answer, ReleaseProvisionalOutput, DiscardProvisionalOutput, vars
  <2>2. pc = "answered" /\ pc' \in {"request", "loop"} /\ UNCHANGED <<routed, hostVars>>
    BY <1>4, WhereTo DEF Answer, At
  <2>. QED
    BY <1>1, <2>1, <2>2
<1>5. ASSUME NEW e \in EffectIds, StartSample(e)
      PROVE  Kept
  <2>1. Start(e) /\ pc = "begin" /\ pc' = "sampling" /\ UNCHANGED <<tools, ran>>
    BY <1>5 DEF StartSample, At, Goto, hostVars
  <2>. QED
    BY <2>1, KeptStart
<1>6. ASSUME NEW e \in EffectIds, RecordProgress(e)
      PROVE  Kept
  BY <1>1, <1>6, WhereTo DEF RecordProgress, ModelSampleProgress, At
<1>7. ASSUME NEW e \in EffectIds, LeaveTransport(e)
      PROVE  Kept
  <2>1. /\ pc = "sampling" /\ pc' = "begin"
        /\ routed' = [routed EXCEPT ![e].state = "idle"]
        /\ UNCHANGED hostVars /\ e \in SampleEffect
    BY <1>7 DEF LeaveTransport, At, Goto
  <2>2. /\ effects[e].status = "running" /\ effects' = SetStatus(e, "requested")
        /\ UNCHANGED <<workVars, nextEffect>>
    BY <1>7 DEF LeaveTransport, ProviderRetryRequested, EffectRequeued
  <2>3. Moves({"sample_provider"}, {})
    <3>1. effects[e].kind = "sample_provider"
      BY <2>1, FindFound DEF SampleEffect
    <3>. QED
      BY <1>0, <2>1, <2>2, <3>1, YieldMoves
  <2>4. UNCHANGED <<calls, approvals, tools, ran>>
    BY <2>1, <2>2 DEF workVars, hostVars
  <2>5. Eased /\ Aside
    BY <2>1, <2>4 DEF Eased, Aside
  <2>. QED
    BY <2>1, <2>3, <2>4, <2>5, KeptMoved
<1>8. ASSUME NEW e \in EffectIds, NEW cmd \in {"failed", "text", "calls"},
             FinishSample(e, cmd)
      PROVE  Kept
  <2>1. /\ pc \in {"sampling", "begin"} /\ UNCHANGED <<tools, ran>>
        /\ e \in SampleEffect
    BY <1>8 DEF FinishSample, At, hostVars
  <2>2. effects[e].kind = "sample_provider" /\ Result(cmd) \in Proper
    BY <2>1, FindFound, ResultsProper DEF SampleEffect
  <2>3. CASE ResolveAccepted(e, Result(cmd))
    <3>1. pc' \in {"answered", "admit", "abort_input"}
      BY <1>8, WhereTo DEF FinishSample
    <3>. QED
      BY <2>1, <2>2, <2>3, <3>1, KeptSampled
  <2>4. CASE ResolveRefused(e, Result(cmd)) /\ Settle("failed_recoverable")
    <3>1. pc' = "abort_input"
      BY <2>4, WhereTo
    <3>2. Eased /\ Aside
      BY <2>1, <3>1 DEF Eased, Aside
    <3>. QED
      BY <2>1, <2>4, <3>1, <3>2, KeptRefused
  <2>. QED
    BY <1>8, <2>3, <2>4 DEF FinishSample
<1>. QED
  BY <1>2, <1>3, <1>4, <1>5, <1>6, <1>7, <1>8, KeptRequested

-----------------------------------------------------------------------------
(* Tool batches                                                             *)

\* What the batch is made of.
LEMMA BatchMember ==
  ASSUME Base, NEW e \in EffectIds, IsTool(e), Pending(e), pc # "down"
  PROVE  effects[e].call \in Batch
<1>1. routed[e].state # "absent"
  BY DEF Base, RegistryCovers, PendingEffects
<1>2. effects[e].call \in OpenCalls
  BY DEF Base, RuntimeInv, IInv, NoOrphanEffect, PendingEffects, IsTool
<1>3. ToolEffect(effects[e].call) # {}
  BY <1>1, FindSome DEF ToolEffect, IsTool
<1>. QED
  BY <1>2, <1>3 DEF Batch

\* The one effect of a call.
LEMMA ToolFound ==
  ASSUME TypeOK, EffectKeysUnique, NEW c \in Calls, NEW e \in ToolEffect(c)
  PROVE  /\ e \in EffectIds /\ IsTool(e) /\ effects[e].call = c
         /\ routed[e].state # "absent"
         /\ \A f \in EffectIds : IsTool(f) /\ effects[f].call = c => f = e
<1>1. /\ e \in EffectIds /\ IsTool(e) /\ effects[e].call = c
      /\ routed[e].state # "absent"
  BY FindFound, TurnKernelAssumption DEF ToolEffect, IsTool
<1>. QED
  BY <1>1, ToolUnique

\* Every call of the batch is still to be started.
LEMMA KeptAdmitted ==
  ASSUME Base, AdmitBatch
  PROVE  Kept
<1>0. /\ TypeOK /\ RuntimeTypeOK /\ RegistryCovers
      /\ SingleSample /\ Unissued /\ Batches /\ Asked
  BY DEF Base, RuntimeInv, IInv
<1>1. /\ UNCHANGED <<effects, nextEffect, calls, approvals, routed, tools, ran>>
      /\ pc = "admit" /\ pc' = "starting" /\ todo' = Batch
  BY DEF AdmitBatch, ToolBatchAdmissionRejected, At, vars, effectVars, workVars,
         hostVars
<1>2. Moves({}, {})
  BY <1>0, <1>1, NothingMoves
<1>3. RegistryCovers' /\ SingleSample' /\ Unissued' /\ Asked' /\ Remembered
  BY <1>0, <1>1, <1>2, CoversMoved, SingleMoved, UnissuedMoved, AskedMoved
<1>4. Starting'
  <2>1. ASSUME NEW e \in EffectIds, IsTool(e), Pending(e)
        PROVE  effects[e].call \in Batch /\ effects[e].status = "requested"
    BY <1>0, <1>1, <2>1, BatchMember DEF Batches, Admitting, PendingEffects
  <2>. QED
    BY <1>1, <2>1 DEF Starting, PendingEffects, Pending, IsTool
<1>5. Batches'
  BY <1>0, <1>1, <1>4 DEF Batches, Idling, Executing, Counted, Recorded, Untried,
     Admitting, Owed, IsTool, Pending
<1>. QED
  BY <1>3, <1>5 DEF Kept

\* One call is started.
LEMMA KeptStarted ==
  ASSUME Base, NEW c \in Calls, StartTool(c)
  PROVE  Kept
<1>0. /\ TypeOK /\ RuntimeTypeOK /\ RegistryCovers /\ RegistryOK
      /\ SingleSample /\ Unissued /\ Batches /\ Asked /\ EffectKeysUnique
  BY DEF Base, RuntimeInv, IInv
<1>1. PICK e \in ToolEffect(c) : Start(e)
  BY DEF StartTool
<1>2. /\ e \in EffectIds /\ IsTool(e) /\ effects[e].call = c
      /\ \A f \in EffectIds : IsTool(f) /\ effects[f].call = c => f = e
  BY <1>0, ToolFound
<1>3. /\ pc = "starting" /\ pc' = "starting" /\ todo' = todo \ {c}
      /\ UNCHANGED <<tools, ran>>
  BY DEF StartTool, At, hostVars
<1>4. /\ Begins(e)
      /\ \A f \in EffectIds \ {e} : Stays(f)
      /\ Moves({effects[e].kind}, {})
      /\ UNCHANGED <<calls, approvals>>
  BY <1>0, <1>1, <1>2, StartMoves DEF workVars
<1>5. RegistryCovers' /\ SingleSample' /\ Unissued' /\ Asked' /\ Remembered
  BY <1>0, <1>3, <1>4, CoversMoved, SingleMoved, UnissuedMoved, AskedMoved
<1>6. /\ IsTool(e)' /\ effects'[e].call = c /\ effects'[e].status = "running"
      /\ effects[e].attempt \in Nat /\ effects'[e].attempt = effects[e].attempt + 1
      /\ ran[c] \in Nat /\ ran[c] <= effects[e].attempt
  <2>1. effects[e].attempt = routed[e].attempt
    BY <1>0, <1>2, <1>3, <1>4 DEF Begins, RegistryCovers, PendingEffects, Pending
  <2>2. effects[e].attempt \in Nat /\ ran[c] \in Nat
    BY <1>0, <1>2, TurnKernelAssumption DEF TypeOK, EffectTypeOK, Effects, RuntimeTypeOK
  <2>3. ran[c] <= effects[e].attempt
    BY <1>0, <1>2 DEF Batches, Counted
  <2>. QED
    BY <1>2, <1>4, <2>1, <2>2, <2>3 DEF Begins, Same, IsTool
<1>7. \A f \in EffectIds \ {e} :
        effects'[f] = effects[f] /\ routed'[f].state = routed[f].state
  BY <1>4 DEF Stays, Held
<1>8. Counted'
  <2>. SUFFICES ASSUME NEW f \in EffectIds, IsTool(f)'
                PROVE  ran[effects'[f].call] <= effects'[f].attempt
    BY <1>3 DEF Counted
  <2>1. CASE f = e
    BY <1>6, <2>1
  <2>2. CASE f # e
    BY <1>0, <1>7, <2>2 DEF Batches, Counted, IsTool
  <2>. QED
    BY <2>1, <2>2
<1>9. Starting'
  <2>. SUFFICES ASSUME NEW f \in EffectIds, Pending(f)', IsTool(f)'
                PROVE  IF effects'[f].call \in todo \ {c}
                       THEN effects'[f].status = "requested"
                       ELSE /\ effects'[f].status = "running"
                            /\ ran[effects'[f].call] < effects'[f].attempt
    BY <1>3 DEF Starting, PendingEffects
  <2>1. CASE f = e
    BY <1>6, <2>1
  <2>2. CASE f # e
    <3>1. effects'[f] = effects[f] /\ IsTool(f) /\ Pending(f)
      BY <1>7, <2>2 DEF IsTool, Pending
    <3>2. effects[f].call # c
      BY <1>2, <2>2, <3>1
    <3>. QED
      BY <1>0, <1>3, <3>1, <3>2 DEF Batches, Starting, PendingEffects
  <2>. QED
    BY <2>1, <2>2
<1>10. Idling' /\ Executing' /\ Admitting' /\ Untried'
  BY <1>0, <1>3, <1>4 DEF Batches, Idling, Executing, Admitting, Untried
<1>11. Recorded'
  <2>. SUFFICES ASSUME NEW x \in Calls, ran[x] # 0
                PROVE  \E f \in EffectIds : IsTool(f)' /\ effects'[f].call = x
    BY <1>3 DEF Recorded
  <2>1. PICK f \in EffectIds : IsTool(f) /\ effects[f].call = x
    BY <1>0 DEF Batches, Recorded
  <2>2. IsTool(f)' /\ effects'[f].call = x
    BY <1>2, <1>6, <1>7, <2>1 DEF IsTool
  <2>. QED
    BY <2>2
<1>12. Owed'
  <2>. SUFFICES ASSUME NEW f \in EffectIds, IsTool(f)', routed'[f].state # "absent",
                       calls[effects'[f].call] = "open"
                PROVE  Pending(f)'
    BY <1>4 DEF Owed
  <2>1. CASE f = e
    BY <1>6, <2>1 DEF Pending
  <2>2. CASE f # e
    BY <1>0, <1>7, <2>2 DEF Batches, Owed, IsTool, Pending
  <2>. QED
    BY <2>1, <2>2
<1>. QED
  BY <1>5, <1>8, <1>9, <1>10, <1>11, <1>12 DEF Kept, Batches

\* A call of a batch whose starts are all durable.
LEMMA BatchStarted ==
  ASSUME Base, At("starting"), todo = {}, NEW c \in Batch
  PROVE  /\ c \in Calls /\ calls[c] = "open"
         /\ \E e \in EffectIds :
              /\ IsTool(e) /\ effects[e].call = c
              /\ effects[e].status = "running" /\ ran[c] < effects[e].attempt
              /\ \A f \in EffectIds : IsTool(f) /\ effects[f].call = c => f = e
<1>1. c \in Calls /\ calls[c] = "open"
  BY DEF Batch, OpenCalls
<1>2. PICK e \in ToolEffect(c) : TRUE
  BY DEF Batch
<1>3. /\ e \in EffectIds /\ IsTool(e) /\ effects[e].call = c
      /\ routed[e].state # "absent"
      /\ \A f \in EffectIds : IsTool(f) /\ effects[f].call = c => f = e
  BY <1>1, ToolFound DEF Base, RuntimeInv, IInv
<1>4. Pending(e)
  BY <1>1, <1>3 DEF Base, Batches, Owed
<1>5. effects[e].status = "running" /\ ran[c] < effects[e].attempt
  BY <1>3, <1>4 DEF Base, Batches, Starting, PendingEffects, At
<1>. QED
  BY <1>1, <1>3, <1>5

\* The batch is executed.
LEMMA KeptExecuted ==
  ASSUME Base, ExecuteBatch
  PROVE  Kept /\ ran' \in [Calls -> 0 .. MaxAttempts]
<1>. DEFINE run == Batch \ rejected
<1>0. /\ TypeOK /\ RuntimeTypeOK /\ RegistryCovers
      /\ SingleSample /\ Unissued /\ Batches /\ Asked
  BY DEF Base, RuntimeInv, IInv
<1>1. At("starting") /\ todo = {} /\ Launch(run)
  BY DEF ExecuteBatch
<1>2. \A c \in run : c \in Batch
  OBVIOUS
<1>. HIDE DEF run
<1>3. /\ UNCHANGED <<effects, nextEffect, calls, approvals, routed>>
      /\ pc = "starting" /\ pc' = "running"
      /\ \A c \in Calls : tools'[c].at \in {"run", "rejecting"} => c \in run
      /\ ran' = [c \in Calls |-> IF c \in run THEN ran[c] + 1 ELSE ran[c]]
  BY <1>1 DEF Launch, At, Goto, vars, effectVars, workVars, Off
<1>4. Moves({}, {})
  BY <1>0, <1>3, NothingMoves
<1>5. RegistryCovers' /\ SingleSample' /\ Unissued' /\ Asked' /\ Remembered
  BY <1>0, <1>3, <1>4, CoversMoved, SingleMoved, UnissuedMoved, AskedMoved
<1>6. ASSUME NEW c \in run
      PROVE  /\ c \in Calls /\ calls[c] = "open"
             /\ \E e \in EffectIds :
                  /\ IsTool(e) /\ effects[e].call = c
                  /\ effects[e].status = "running"
                  /\ ran[c] < effects[e].attempt
                  /\ \A f \in EffectIds : IsTool(f) /\ effects[f].call = c => f = e
  BY <1>1, <1>2, BatchStarted
<1>7. ASSUME NEW c \in Calls PROVE ran[c] \in 0 .. MaxAttempts
  BY <1>0 DEF RuntimeTypeOK
<1>8. \A e \in EffectIds : effects[e].attempt \in 0 .. MaxAttempts
  BY <1>0 DEF TypeOK, EffectTypeOK, Effects
<1>9. ran' \in [Calls -> 0 .. MaxAttempts]
  <2>. SUFFICES ASSUME NEW c \in Calls PROVE ran'[c] \in 0 .. MaxAttempts
    BY <1>3
  <2>1. CASE c \in run
    <3>1. PICK e \in EffectIds : ran[c] < effects[e].attempt
      BY <1>6, <2>1
    <3>2. ran[c] + 1 \in 0 .. MaxAttempts
      BY <1>7, <1>8, <3>1, TurnKernelAssumption
    <3>. QED
      BY <1>3, <2>1, <3>2
  <2>2. CASE c \notin run
    BY <1>3, <1>7, <2>2
  <2>. QED
    BY <2>1, <2>2
<1>10. Idling' /\ Admitting' /\ Starting'
  BY <1>3 DEF Idling, Admitting, Starting
<1>11. Executing'
  BY <1>3, <1>6 DEF Executing, IsTool
<1>12. Counted'
  <2>. SUFFICES ASSUME NEW e \in EffectIds, IsTool(e)
                PROVE  ran'[effects[e].call] <= effects[e].attempt
    BY <1>3 DEF Counted, IsTool
  <2>0. effects[e].call \in Calls
    BY <1>0, ToolIdentity
  <2>1. CASE effects[e].call \in run
    <3>1. ran[effects[e].call] < effects[e].attempt
      BY <1>6, <2>1
    <3>. QED
      BY <1>3, <1>7, <1>8, <2>0, <2>1, <3>1
  <2>2. CASE effects[e].call \notin run
    BY <1>0, <1>3, <2>0, <2>2 DEF Batches, Counted
  <2>. QED
    BY <2>1, <2>2
<1>13. Recorded'
  <2>. SUFFICES ASSUME NEW c \in Calls, ran'[c] # 0
                PROVE  \E e \in EffectIds : IsTool(e) /\ effects[e].call = c
    BY <1>3 DEF Recorded, IsTool
  <2>1. CASE c \in run
    BY <1>6, <2>1
  <2>2. CASE c \notin run
    BY <1>0, <1>3, <2>2 DEF Batches, Recorded
  <2>. QED
    BY <2>1, <2>2
<1>14. Untried'
  BY <1>0, <1>3, <1>6 DEF Batches, Untried
<1>15. Owed'
  BY <1>0, <1>3 DEF Batches, Owed, IsTool, Pending
<1>. QED
  BY <1>5, <1>9, <1>10, <1>11, <1>12, <1>13, <1>14, <1>15 DEF Kept, Batches

\* Every executor has returned.
LEMMA KeptReturned ==
  ASSUME Base, BatchReturned
  PROVE  Kept
<1>0. /\ TypeOK /\ RegistryCovers /\ SingleSample /\ Unissued /\ Batches /\ Asked
  BY DEF Base, RuntimeInv, IInv
<1>1. /\ UNCHANGED <<effects, nextEffect, calls, approvals, routed, tools, ran>>
      /\ pc = "running" /\ pc' = "closing"
      /\ \A c \in Calls : tools[c].at \in {"off", "back"}
  BY DEF BatchReturned, vars, effectVars, workVars, hostVars
<1>2. Moves({}, {})
  BY <1>0, <1>1, NothingMoves
<1>3. RegistryCovers' /\ SingleSample' /\ Unissued' /\ Asked' /\ Remembered
  BY <1>0, <1>1, <1>2, CoversMoved, SingleMoved, UnissuedMoved, AskedMoved
<1>4. Batches'
  BY <1>0, <1>1 DEF Batches, Idling, Executing, Counted, Recorded, Untried,
     Admitting, Starting, Owed, IsTool, Pending
<1>. QED
  BY <1>3, <1>4 DEF Kept

\* Admission, start and close of a tool batch.
LEMMA BatchKept ==
  ASSUME Base,
         \/ AdmitBatch \/ AdmissionFails \/ StartToolFails \/ ExecuteBatch
         \/ BatchReturned \/ BatchClosed
         \/ \E c \in Calls : StartTool(c) \/ CloseTool(c)
  PROVE  Kept
<1>1. CASE AdmissionFails \/ StartToolFails \/ BatchClosed
  <2>1. pc \in {"admit", "starting", "closing"} /\ pc' \in {"abort_input", "loop"}
    BY <1>1, WhereTo DEF AdmissionFails, StartToolFails, BatchClosed, At
  <2>2. UNCHANGED <<routed, effects, nextEffect, calls, approvals, ran, tools>>
    BY <1>1 DEF AdmissionFails, StartToolFails, BatchClosed, vars, effectVars, workVars, hostVars
  <2>3. Eased /\ Aside
    BY <2>1, <2>2 DEF Eased, Aside
  <2>. QED
    BY <2>1, <2>2, <2>3, KeptStill
<1>2. ASSUME NEW c \in Calls, CloseTool(c)
      PROVE  Kept
  <2>1. PICK e \in ToolEffect(c) :
          ResolveAccepted(e, Result("tool")) \/ ResolveRefused(e, Result("tool"))
    BY <1>2 DEF CloseTool
  <2>2. /\ e \in EffectIds /\ effects[e].kind # "sample_provider"
        /\ Result("tool") \in Proper
    BY FindFound, ResultsProper DEF ToolEffect
  <2>3. /\ pc = "closing" /\ pc' = "closing" /\ UNCHANGED ran
        /\ tools' = [tools EXCEPT ![c] = Off]
    BY <1>2 DEF CloseTool, At
  <2>4. Eased /\ Aside
    BY <2>3 DEF Eased, Aside, Off, Base, RuntimeTypeOK
  <2>. QED
    BY <2>1, <2>2, <2>3, <2>4, KeptAccepted, KeptRefused
<1>. QED
  BY <1>1, <1>2, KeptAdmitted, KeptExecuted, KeptReturned, KeptStarted

-----------------------------------------------------------------------------
(* Executors that ask                                                       *)

\* The effect a method takes for a request is that of a wait.
LEMMA WaitFound ==
  ASSUME NEW r, NEW c, NEW e \in WaitEffect(r, c)
  PROVE  e \in EffectIds /\ effects[e].kind \in WaitKinds
  BY FindFound DEF WaitEffect, WaitKind, WaitKinds

\* A wait is started; executors come back at most.
LEMMA KeptWaitStarted ==
  ASSUME Base, pc = "down" => pc' = "down",
         NEW e \in EffectIds, effects[e].kind \in WaitKinds, Start(e),
         UNCHANGED ran, Eased, Aside
  PROVE  Kept
<1>1. /\ Moves({effects[e].kind}, {}) /\ UNCHANGED <<calls, approvals>>
  BY StartMoves DEF Base, RuntimeInv, IInv, workVars
<1>2. effects[e].kind # "execute_tool"
  BY DEF WaitKinds
<1>. QED
  BY <1>1, <1>2, KeptMoved

\* An answer is accepted; executors come back at most.
LEMMA KeptWaitAccepted ==
  ASSUME Base, pc = "down" => pc' = "down", NEW e \in EffectIds,
         effects[e].kind \in WaitKinds, NEW first \in Proper,
         ResolveAccepted(e, first), UNCHANGED ran, Eased, Aside
  PROVE  Kept
<1>0. effects[e].kind \notin {"execute_tool", "sample_provider"}
  BY DEF WaitKinds
<1>1. /\ Moves({effects[e].kind} \union WaitKinds, {})
      /\ \A c \in Calls :
           \/ calls'[c] = calls[c]
           \/ effects[e].kind = "execute_tool" /\ calls'[c] \in {"ok", "error"}
      /\ \A x \in Requests : approvals'[x] \in {approvals[x], None}
  BY <1>0, AcceptedEnds DEF Base, RuntimeInv, IInv
<1>2. Moves(WaitKinds, {})
  BY <1>1, MovesMore
<1>3. calls' = calls
  <2>1. calls \in [Calls -> {"new", "open", "ok", "error"}]
    BY DEF Base, RuntimeInv, IInv, TypeOK, WorkTypeOK
  <2>2. calls' \in [Calls -> {"new", "open", "ok", "error"}]
    <3>1. Next
      BY AcceptedOK DEF Base, RuntimeInv, IInv
    <3>2. TypeOK'
      BY <3>1, TypeStep DEF Base, RuntimeInv, IInv
    <3>. QED
      BY <3>2 DEF TypeOK, WorkTypeOK
  <2>. QED
    BY <1>0, <1>1, <2>1, <2>2
<1>4. "execute_tool" \notin WaitKinds
  BY DEF WaitKinds
<1>. QED
  BY <1>1, <1>2, <1>3, <1>4, KeptMoved

\* A call asks for an approval or for input.
LEMMA KeptAsked ==
  ASSUME Base, NEW c \in Calls, NEW r \in Requests, Ask(c, r)
  PROVE  Kept
<1>0. /\ TypeOK /\ RuntimeTypeOK /\ RegistryCovers
      /\ SingleSample /\ Unissued /\ Batches /\ Asked
  BY DEF Base, RuntimeInv, IInv
<1>. DEFINE kind == IF r \in InputRequests THEN "await_input" ELSE "await_approval"
<1>1. /\ RequestEffect(kind, r, c) /\ Dispatch(routed)
      /\ UNCHANGED <<calls, tools, ran, pc, todo>>
      /\ approvals' = approvals \/ approvals' = [approvals EXCEPT ![r] = c]
  BY DEF Ask, InputRequired, ApprovalRequired, turnVars
<1>2. kind \in WaitKinds
  BY DEF WaitKinds
<1>. HIDE DEF kind
<1>3. /\ Moves({}, {kind})
      /\ \A e \in EffectIds : nextEffect < e /\ e <= nextEffect' =>
           effects'[e] = NewEffect(kind, r, c)
      /\ nextEffect + 1 \in EffectIds /\ nextEffect' = nextEffect + 1
  BY <1>0, <1>1, RequestMoves
<1>4. Eased /\ Aside
  BY <1>1 DEF Eased, Aside
<1>5. kind \notin {"execute_tool", "sample_provider"}
  BY <1>2 DEF WaitKinds
<1>6. Batches'
  BY <1>0, <1>1, <1>3, <1>4, <1>5, BatchesMoved
<1>7. RegistryCovers' /\ SingleSample' /\ Unissued'
  <2>1. pc # "down"
    BY <1>0 DEF Ask, Batches, Idling
  <2>. QED
    BY <1>0, <1>3, <1>5, <2>1, CoversMoved, SingleMoved, UnissuedMoved
<1>8. Asked'
  <2>1. r \in RequestsOf(c)'
    <3>1. nextEffect < nextEffect + 1 /\ nextEffect + 1 <= nextEffect'
      BY <1>0, <1>3, TurnKernelAssumption DEF TypeOK, EffectTypeOK
    <3>2. effects'[nextEffect + 1].key = r /\ effects'[nextEffect + 1].call = c
      BY <1>3, <3>1 DEF NewEffect
    <3>. QED
      BY <1>3, <3>2 DEF RequestsOf
  <2>2. ASSUME NEW x \in Requests, approvals'[x] # None
        PROVE  \/ x = r /\ approvals'[x] = c
               \/ approvals'[x] = approvals[x] /\ x \in PendingApprovals
    BY <1>0, <1>1, <2>2 DEF TypeOK, WorkTypeOK, PendingApprovals
  <2>3. \A x \in PendingApprovals : \E e \in EffectIds :
          effects'[e].key = x /\ effects'[e].call = approvals[x]
    BY <1>0, <1>3, RequestsMoved DEF Asked
  <2>4. ASSUME NEW x \in Requests, approvals'[x] # None
        PROVE  \E e \in EffectIds : effects'[e].key = x /\ effects'[e].call = approvals'[x]
    BY <2>1, <2>2, <2>3, <2>4 DEF RequestsOf
  <2>. QED
    BY <2>4 DEF Asked, PendingApprovals, RequestsOf
<1>9. Remembered
  BY <1>0, <1>3, RequestsMoved DEF Remembered
<1>. QED
  BY <1>6, <1>7, <1>8, <1>9 DEF Kept

\* What the waits and the answers do to the executors.
LEMMA WaitsEase ==
  ASSUME RuntimeTypeOK, NEW c \in Calls, NEW r \in Requests
  PROVE  /\ UNCHANGED tools => Eased
         /\ Wait(c, r) => Eased
         /\ Leave(c, r) => Eased
         /\ \A accepted \in BOOLEAN : AnswerDone(r, accepted) => Eased
<1>0. tools \in [Calls -> [at : {"off", "run", "rejecting", "back"},
                           asks : SUBSET Requests]]
  BY DEF RuntimeTypeOK
<1>1. UNCHANGED tools => Eased
  BY DEF Eased
<1>2. Wait(c, r) => Eased
  BY <1>0 DEF Wait, Eased
<1>3. Leave(c, r) => Eased
  BY <1>0 DEF Leave, Eased
<1>4. ASSUME NEW accepted \in BOOLEAN, AnswerDone(r, accepted)
      PROVE  Eased
  BY <1>0, <1>4 DEF AnswerDone, Eased
<1>. QED
  BY <1>1, <1>2, <1>3, <1>4

\* Executors that ask, replies, timers and resumed waits.
LEMMA AskKept ==
  ASSUME Base, AskStep
  PROVE  Kept
<1>0. RuntimeTypeOK /\ RegistryOK /\ TypeOK
  BY DEF Base, RuntimeInv, IInv
<1>1. CASE Required
  <2>1. PICK e \in WaitEffect(op.req, op.call) :
          \/ Start(e) /\ Wait(op.call, op.req)
          \/ UNCHANGED <<vars, routed, tools>>
    BY <1>1 DEF Required
  <2>2. UNCHANGED <<pc, todo, ran>> /\ Aside
    BY <1>1 DEF Required, turnVars, Aside
  <2>3. e \in EffectIds /\ effects[e].kind \in WaitKinds
    BY WaitFound
  <2>4. CASE Start(e) /\ Wait(op.call, op.req)
    <3>1. Eased
      BY <1>0, <2>4 DEF Wait, Eased, RuntimeTypeOK
    <3>. QED
      BY <2>2, <2>3, <2>4, <3>1, KeptWaitStarted
  <2>5. CASE UNCHANGED <<vars, routed, tools>>
    <3>1. UNCHANGED <<effects, nextEffect, calls, approvals>> /\ Eased
      BY <2>5 DEF vars, workVars, effectVars, Eased
    <3>. QED
      BY <2>2, <2>5, <3>1, KeptStill
  <2>. QED
    BY <2>1, <2>4, <2>5
<1>8. CASE RequiredFails
  <2>1. UNCHANGED <<effects, nextEffect, calls, approvals, pc, routed, ran>> /\ Aside
    BY <1>8 DEF RequiredFails, vars, workVars, effectVars, turnVars, Aside
  <2>2. Eased
    BY <1>0, <1>8 DEF RequiredFails, Failing, Eased, RuntimeTypeOK
  <2>. QED
    BY <2>1, <2>2, KeptStill
<1>2. ASSUME NEW r \in Requests, ResolveStarts(r)
      PROVE  Kept
  <2>1. PICK e \in WaitEffect(r, CallOf(r)) : Start(e)
    BY <1>2 DEF ResolveStarts
  <2>2. UNCHANGED <<pc, ran>> /\ Aside /\ Eased
    BY <1>2 DEF ResolveStarts, turnVars, Aside, Eased
  <2>3. e \in EffectIds /\ effects[e].kind \in WaitKinds
    BY WaitFound
  <2>. QED
    BY <2>1, <2>2, <2>3, KeptWaitStarted
<1>3. ASSUME NEW r \in Requests, ResolveWait(r)
      PROVE  Kept
  <2>1. PICK e \in WaitEffect(r, CallOf(r)) :
          /\ \/ ResolveAccepted(e, WaitResult(r)) \/ ResolveRefused(e, WaitResult(r))
          /\ \E accepted \in BOOLEAN : AnswerDone(r, accepted)
    BY <1>3 DEF ResolveWait
  <2>2. UNCHANGED <<pc, ran>> /\ Aside
    BY <1>3 DEF ResolveWait, turnVars, Aside
  <2>3. Eased
    BY <1>0, <2>1 DEF AnswerDone, Eased, RuntimeTypeOK
  <2>4. e \in EffectIds /\ effects[e].kind \in WaitKinds /\ WaitResult(r) \in Proper
    BY WaitFound, ResultsProper
  <2>. QED
    BY <2>1, <2>2, <2>3, <2>4, KeptWaitAccepted, KeptRefused
<1>4. ASSUME UNCHANGED <<vars, routed, turnVars, ran>>, Eased
      PROVE  Kept
  <2>1. UNCHANGED <<effects, nextEffect, calls, approvals, pc>> /\ Aside
    BY <1>4 DEF vars, workVars, effectVars, turnVars, Aside
  <2>. QED
    BY <1>4, <2>1, KeptStill
<1>5. ASSUME NEW c \in Calls, NEW b \in BOOLEAN,
             Return(c, b) \/ RejectUnresumed(c)
      PROVE  Kept
  <2>1. UNCHANGED <<vars, routed, turnVars, ran>>
    BY <1>5 DEF Return, RejectUnresumed
  <2>2. Eased
    BY <1>0, <1>5 DEF Return, Failing, RejectUnresumed, Eased, RuntimeTypeOK
  <2>. QED
    BY <1>4, <2>1, <2>2
<1>6. ASSUME NEW c \in Calls, NEW r \in Requests,
             AskRecovered(c, r) \/ StopWaiting(c, r)
      PROVE  Kept
  <2>1. UNCHANGED <<vars, routed, turnVars, ran>> /\ (Wait(c, r) \/ Leave(c, r))
    BY <1>6 DEF AskRecovered, StopWaiting
  <2>. QED
    BY <1>0, <1>4, <2>1, WaitsEase
<1>7. ASSUME NEW r \in Requests, NEW b \in BOOLEAN,
             Expire(r) \/ Reply(r, b) \/ ResolveFails(r) \/ ReplyLate(r)
      PROVE  Kept
  <2>1. UNCHANGED <<vars, routed, turnVars, ran>>
    BY <1>7 DEF Expire, Reply, ResolveFails, ReplyLate
  <2>2. Eased
    BY <1>0, <1>7 DEF Expire, Reply, ResolveFails, ReplyLate, AnswerDone, Eased, RuntimeTypeOK
  <2>. QED
    BY <1>4, <2>1, <2>2
<1>. QED
  BY <1>1, <1>2, <1>3, <1>5, <1>6, <1>7, <1>8, KeptAsked DEF AskStep

-----------------------------------------------------------------------------
(* FinalizeTerminal                                                         *)

\* Places the driver passes while it ends the turn.
Ending == {"abort_input", "abort_samples", "abort_tools", "discard", "request",
           "journal", "done", "pending", "stuck"}

\* A step of FinalizeTerminal beside the effects.
LEMMA KeptEnding ==
  ASSUME Base, pc \in Ending, pc' \in Ending,
         UNCHANGED <<routed, effects, nextEffect, calls, approvals, tools, ran>>
  PROVE  Kept
<1>1. pc \notin {"running", "down"} /\ pc' \notin {"running", "admit", "starting"}
  BY DEF Ending
<1>2. Eased /\ Aside
  BY <1>1 DEF Eased, Aside
<1>. QED
  BY <1>1, <1>2, KeptStill

\* A step of FinalizeTerminal that starts or resolves an effect that is not a
\* sample.
LEMMA KeptAborted ==
  ASSUME Base, pc \in Ending, pc' \in Ending, UNCHANGED <<tools, ran>>,
         NEW e \in EffectIds, effects[e].kind # "sample_provider",
         NEW first \in Proper,
         \/ Start(e) \/ ResolveAccepted(e, first) \/ ResolveRefused(e, first)
  PROVE  Kept
<1>1. pc \notin {"running", "down"} /\ pc' \notin {"running", "admit", "starting"}
  BY DEF Ending
<1>2. Eased /\ Aside
  BY <1>1 DEF Eased, Aside
<1>. QED
  BY <1>1, <1>2, KeptStart, KeptAccepted, KeptRefused

\* The aborts of FinalizeTerminal.
LEMMA AbortKept ==
  ASSUME Base,
         \/ AbortInput \/ AbortSamples \/ AbortTool \/ AbortCalls \/ AbortDone
         \/ \E r \in Requests : AbortApproval(r)
  PROVE  Kept
<1>0. TypeOK
  BY DEF Base, RuntimeInv, IInv
<1>1. UNCHANGED vars =>
        UNCHANGED <<effects, nextEffect, calls, approvals>>
  BY DEF vars, effectVars, workVars
<1>2. CASE AbortInput
  <2>1. pc \in Ending /\ pc' \in Ending /\ UNCHANGED <<tools, ran>>
    BY <1>2, WhereTo DEF AbortInput, At, hostVars, Ending
  <2>2. CASE UNCHANGED <<vars, routed>>
    BY <1>1, <2>1, <2>2, KeptEnding
  <2>3. CASE InputResolved(input.req) /\ UNCHANGED routed
    <3>. DEFINE E == FirstPending("await_input", input.req)
    <3>1. effects' = Finish(effects, E) /\ UNCHANGED <<nextEffect, calls, approvals>>
      BY <2>3 DEF InputResolved, ResolveInputWait
    <3>2. \A e \in EffectIds : e \in E => effects[e].kind \in WaitKinds
      BY WaitEffectsWait
    <3>3. \A e \in EffectIds : e \notin E => Held(e)
      BY <2>3 DEF Held
    <3>. HIDE DEF E
    <3>4. Moves(WaitKinds, {})
      BY <1>0, <3>1, <3>2, <3>3, FinishMoves
    <3>5. "execute_tool" \notin WaitKinds /\ pc # "down" /\ Eased /\ Aside
      BY <2>1 DEF WaitKinds, Ending, Eased, Aside
    <3>. QED
      BY <2>1, <3>1, <3>4, <3>5, KeptMoved
  <2>4. ASSUME NEW e \in Find("await_input", None),
               \/ Start(e) \/ ResolveAccepted(e, Result("abort"))
               \/ ResolveRefused(e, Result("abort"))
        PROVE  Kept
    <3>1. e \in EffectIds /\ effects[e].kind # "sample_provider"
      BY FindFound
    <3>2. Result("abort") \in Proper
      BY ResultsProper
    <3>. QED
      BY <2>1, <2>4, <3>1, <3>2, KeptAborted
  <2>. QED
    BY <1>2, <2>2, <2>3, <2>4 DEF AbortInput
<1>3. CASE AbortSamples
  <2>1. pc \in Ending /\ pc' \in Ending /\ UNCHANGED <<tools, ran>>
    BY <1>3, WhereTo DEF AbortSamples, At, hostVars, Ending
  <2>2. CASE UNCHANGED <<vars, routed>>
    BY <1>1, <2>1, <2>2, KeptEnding
  <2>3. ASSUME NEW e \in SampleEffect,
               \/ Start(e) \/ ResolveAccepted(e, Result("failed"))
               \/ ResolveRefused(e, Result("failed"))
        PROVE  Kept
    <3>1. e \in EffectIds /\ effects[e].kind = "sample_provider"
      BY FindFound DEF SampleEffect
    <3>2. Result("failed") \in Proper
      BY ResultsProper
    <3>3. pc \notin {"running", "down"} /\ pc' \notin {"running", "admit", "starting"}
      BY <2>1 DEF Ending
    <3>4. Eased /\ Aside
      BY <2>1, <3>3 DEF Eased, Aside
    <3>. QED
      BY <2>1, <2>3, <3>1, <3>2, <3>3, <3>4, KeptStart, KeptSampled, KeptRefused
  <2>. QED
    BY <1>3, <2>2, <2>3 DEF AbortSamples
<1>4. CASE AbortTool
  <2>1. PICK e \in Find("execute_tool", None) :
          \/ Start(e) /\ Goto("abort_tools")
          \/ ResolveAccepted(e, Result("abort")) /\ Goto("abort_tools")
          \/ ResolveRefused(e, Result("abort")) /\ FinalizeFailed
    BY <1>4 DEF AbortTool
  <2>2. pc \in Ending /\ pc' \in Ending /\ UNCHANGED <<tools, ran>>
    BY <1>4, <2>1, WhereTo DEF AbortTool, At, hostVars, Ending
  <2>3. /\ e \in EffectIds /\ effects[e].kind # "sample_provider"
        /\ Result("abort") \in Proper
    BY FindFound, ResultsProper
  <2>. QED
    BY <2>1, <2>2, <2>3, KeptAborted
<1>5. CASE AbortCalls
  <2>1. /\ pc = "abort_tools" /\ pc' = "abort_tools"
        /\ UNCHANGED <<routed, tools, ran>> /\ AbortOpenCalls
    BY <1>5 DEF AbortCalls, At, Goto, hostVars
  <2>. DEFINE M == {effects[e].kind : e \in EffectIds}
  <2>2. /\ effects' = Finish(effects, OpenEffects) /\ UNCHANGED nextEffect
        /\ calls' = [c \in Calls |-> IF c \in OpenCalls THEN "error" ELSE calls[c]]
        /\ approvals' = [r \in Requests |-> None]
    BY <2>1 DEF AbortOpenCalls
  <2>3. \A e \in EffectIds : e \notin OpenEffects => Held(e)
    BY <2>1 DEF Held
  <2>4. \A e \in EffectIds : e \in OpenEffects => effects[e].kind \in M
    OBVIOUS
  <2>. HIDE DEF M
  <2>5. /\ \A e \in EffectIds : IF e \in OpenEffects THEN Finishes(e) ELSE Stays(e)
        /\ Moves(M, {})
    BY <1>0, <2>2, <2>3, <2>4, FinishMoves
  <2>6. \A e \in EffectIds : IsTool(e) /\ e \in OpenEffects =>
          calls'[effects[e].call] # "open"
    BY <1>0, <2>2, ToolIdentity DEF OpenEffects, FirstPending, IsTool, OpenCalls
  <2>7. /\ \A e \in EffectIds : IsTool(e) =>
             \/ Stays(e) \/ Begins(e)
             \/ Finishes(e) /\ (\/ routed'[e].state = "absent"
                                \/ calls'[effects[e].call] # "open")
        /\ \A c \in Calls : calls'[c] = calls[c] \/ calls'[c] \notin {"new", "open"}
        /\ \A r \in Requests : approvals'[r] \in {approvals[r], None}
        /\ Eased
    BY <2>1, <2>2, <2>5, <2>6 DEF Eased
  <2>. QED
    BY <2>1, <2>5, <2>7, KeptEnd
<1>6. CASE AbortDone
  <2>1. pc \in Ending /\ pc' \in Ending /\ UNCHANGED <<vars, routed, tools, ran>>
    BY <1>6, WhereTo DEF AbortDone, At, hostVars, Ending
  <2>. QED
    BY <1>1, <2>1, KeptEnding
<1>7. ASSUME NEW r \in Requests, AbortApproval(r)
      PROVE  Kept
  <2>. DEFINE denied == [cmd |-> "approval", req |-> r, cancels |-> FALSE]
  <2>0. denied \in Proper
    BY ResultsProper
  <2>1. pc \in Ending /\ pc' \in Ending /\ UNCHANGED <<tools, ran>>
    BY <1>7, WhereTo DEF AbortApproval, Ending
  <2>2. CASE UNCHANGED <<vars, routed>>
    BY <1>1, <2>1, <2>2, KeptEnding
  <2>3. ASSUME NEW e \in Find("await_approval", AskedBy(r)),
               \/ Start(e) \/ ResolveAccepted(e, denied)
               \/ ResolveRefused(e, denied)
        PROVE  Kept
    <3>1. e \in EffectIds /\ effects[e].kind # "sample_provider"
      BY FindFound
    <3>. HIDE DEF denied
    <3>. QED
      BY <2>0, <2>1, <2>3, <3>1, KeptAborted
  <2>. QED
    BY <1>7, <2>2, <2>3 DEF AbortApproval
<1>. QED
  BY <1>2, <1>3, <1>4, <1>5, <1>6, <1>7

\* The journal a terminal decision calls for.
LEMMA JournalEffects ==
  \A d : JournalEffect(d) \in JournalKinds
  BY DEF JournalEffect, JournalKinds

\* The terminal transaction and its journal.
LEMMA TerminalKept ==
  ASSUME Base, DiscardOutput \/ RequestTerminal \/ RunJournal \/ EndTurn
  PROVE  Kept
<1>0. TypeOK /\ RegistryOK
  BY DEF Base, RuntimeInv, IInv
<1>1. pc \in Ending /\ pc' \in Ending /\ UNCHANGED <<tools, ran>>
  BY WhereTo DEF DiscardOutput, RequestTerminal, RunJournal, EndTurn, At, hostVars,
                 Ending
<1>2. pc \notin {"running", "down"} /\ pc' \notin {"running", "admit", "starting"}
  BY <1>1 DEF Ending
<1>3. Eased /\ Aside
  BY <1>1, <1>2 DEF Eased, Aside
<1>4. CASE DiscardOutput \/ EndTurn
  <2>1. UNCHANGED <<routed, effectVars, workVars>>
    BY <1>4 DEF DiscardOutput, EndTurn, DiscardProvisionalOutput, FinishTerminal, vars
  <2>. QED
    BY <1>1, <2>1, KeptEnding DEF effectVars, workVars
<1>5. CASE RequestTerminal
  <2>1. /\ UNCHANGED workVars /\ Dispatch(routed)
        /\ \/ RequestEffect(JournalEffect(want), None, None)
           \/ UNCHANGED effectVars
    BY <1>5 DEF RequestTerminal, TerminalRequested
  <2>2. CASE RequestEffect(JournalEffect(want), None, None)
    <3>1. Moves({}, {JournalEffect(want)})
      BY <1>0, <2>1, <2>2, RequestMoves
    <3>2. {JournalEffect(want)} \subseteq WaitKinds \union JournalKinds
      BY JournalEffects
    <3>3. UNCHANGED <<calls, approvals>>
      BY <2>1 DEF workVars
    <3>. QED
      BY <1>1, <1>2, <1>3, <3>1, <3>2, <3>3, KeptMoved
  <2>3. CASE UNCHANGED effectVars
    <3>1. \A e \in EffectIds : ~(nextEffect < e /\ e <= nextEffect')
      BY <1>0, <2>3, TurnKernelAssumption DEF effectVars, TypeOK, EffectTypeOK, EffectIds
    <3>2. routed' = routed
      BY <1>0, <2>1, <3>1 DEF Dispatch, RegistryOK, Registry
    <3>. QED
      BY <1>1, <2>1, <2>3, <3>2, KeptEnding DEF effectVars, workVars
  <2>. QED
    BY <2>1, <2>2, <2>3
<1>6. CASE RunJournal
  <2>1. PICK e \in PendingEffects :
          \/ Start(e)
          \/ JournalResult(e, TRUE) /\ routed' = [routed EXCEPT ![e] = Absent]
          \/ JournalResult(e, FALSE)
               /\ routed' = [routed EXCEPT ![e].state = "idle"]
          \/ UNCHANGED <<vars, routed>>
    BY <1>6 DEF RunJournal
  <2>8. CASE UNCHANGED <<vars, routed>>
    BY <1>1, <2>8, KeptEnding DEF vars, effectVars, workVars
  <2>2. e \in EffectIds
    BY DEF PendingEffects
  <2>3. CASE Start(e)
    BY <1>1, <1>2, <2>2, <2>3, KeptStart
  <2>4. ASSUME NEW b \in BOOLEAN, JournalResult(e, b)
        PROVE  /\ UNCHANGED <<calls, approvals, nextEffect>>
               /\ effects[e].kind \in JournalKinds /\ effects[e].status = "running"
               /\ effects' = IF b THEN Finish(effects, {e}) ELSE SetStatus(e, "requested")
    BY <2>4, JournalEffects DEF JournalResult, workVars
  <2>5. ASSUME NEW b \in BOOLEAN, JournalResult(e, b), Moves({effects[e].kind}, {})
        PROVE  Kept
    <3>1. "execute_tool" \notin {effects[e].kind}
      BY <2>4, <2>5 DEF JournalKinds
    <3>2. UNCHANGED <<calls, approvals, ran>>
      BY <1>1, <2>4, <2>5
    <3>. QED
      BY <1>2, <1>3, <2>5, <3>1, <3>2, KeptMoved
  <2>6. CASE JournalResult(e, TRUE) /\ routed' = [routed EXCEPT ![e] = Absent]
    <3>1. \A f \in EffectIds : f \notin {e} => Held(f)
      BY <1>0, <2>6 DEF Held, RegistryOK, Registry
    <3>2. \A f \in EffectIds : f \in {e} => effects[f].kind \in {effects[e].kind}
      OBVIOUS
    <3>3. Moves({effects[e].kind}, {})
      BY <1>0, <2>4, <2>6, <3>1, <3>2, FinishMoves
    <3>. QED
      BY <2>5, <2>6, <3>3
  <2>7. CASE JournalResult(e, FALSE)
               /\ routed' = [routed EXCEPT ![e].state = "idle"]
    <3>1. Moves({effects[e].kind}, {})
      BY <1>0, <2>2, <2>4, <2>7, YieldMoves
    <3>. QED
      BY <2>5, <2>7, <3>1
  <2>. QED
    BY <2>1, <2>3, <2>6, <2>7, <2>8
<1>. QED
  BY <1>4, <1>5, <1>6

-----------------------------------------------------------------------------
(* Cancellation, crashes and restarts                                       *)

\* The durable facts survive the crash.
LEMMA CrashKept ==
  ASSUME Base, Crash
  PROVE  Kept
<1>0. SingleSample /\ Unissued /\ Batches /\ Asked
  BY DEF Base
<1>1. /\ UNCHANGED <<effects, nextEffect, calls, approvals, ran>>
      /\ pc' = "down" /\ \A c \in Calls : tools'[c].at = "off"
      /\ \A e \in EffectIds : routed'[e].state = "absent"
  BY DEF Crash, vars, effectVars, workVars, Off, Absent
<1>2. RegistryCovers' /\ Idling' /\ Executing' /\ Admitting' /\ Starting' /\ Owed'
  BY <1>1 DEF RegistryCovers, Idling, Executing, Admitting, Starting, Owed
<1>3. SingleSample' /\ Unissued' /\ Asked' /\ Remembered
  BY <1>0, <1>1 DEF SingleSample, Unissued, Asked, PendingEffects, Pending,
     PendingApprovals, RequestsOf, Remembered
<1>4. Counted' /\ Recorded' /\ Untried'
  BY <1>0, <1>1 DEF Batches, Counted, Recorded, Untried, IsTool
<1>. QED
  BY <1>2, <1>3, <1>4 DEF Kept, Batches

\* A running effect is requeued before the turn is driven again.
LEMMA RequeueKept ==
  ASSUME Base, NEW e \in EffectIds, Requeue(e)
  PROVE  Kept
<1>0. /\ TypeOK /\ SingleSample /\ Unissued /\ Batches /\ Asked
  BY DEF Base, RuntimeInv, IInv
<1>1. /\ effects' = SetStatus(e, "requested") /\ effects[e].status = "running"
      /\ UNCHANGED <<routed, tools, ran, pc, nextEffect, calls, approvals>>
      /\ pc = "down"
  BY DEF Requeue, EffectRequeued, rtVars, hostVars, turnVars, workVars
<1>2. \A f \in EffectIds :
        Same(f) /\ (Pending(f)' <=> Pending(f)) /\ effects'[f].attempt = effects[f].attempt
  BY <1>0, <1>1 DEF SetStatus, Same, Pending, TypeOK, EffectTypeOK, Effects
<1>3. RegistryCovers' /\ Idling' /\ Executing' /\ Admitting' /\ Starting'
  <2>1. \A c \in Calls : tools[c].at \in {"off", "back"}
    BY <1>0, <1>1 DEF Batches, Idling
  <2>. QED
    BY <1>1, <2>1 DEF RegistryCovers, Idling, Executing, Admitting, Starting
<1>4. SingleSample' /\ Unissued'
  BY <1>0, <1>1, <1>2 DEF SingleSample, Unissued, PendingEffects, Same
<1>5. Asked'
  <2>. SUFFICES ASSUME NEW r \in Requests, approvals[r] # None
                PROVE  \E f \in EffectIds :
                         effects'[f].key = r /\ effects'[f].call = approvals[r]
    BY <1>1 DEF Asked, PendingApprovals, RequestsOf
  <2>1. r \in RequestsOf(approvals[r])
    BY <1>0 DEF Asked, PendingApprovals
  <2>. QED
    BY <1>2, <2>1 DEF RequestsOf, Same
<1>6. Counted'
  BY <1>0, <1>1, <1>2 DEF Batches, Counted, IsTool, Same
<1>7. Recorded'
  <2>. SUFFICES ASSUME NEW c \in Calls, ran[c] # 0
                PROVE  \E f \in EffectIds : IsTool(f)' /\ effects'[f].call = c
    BY <1>1 DEF Recorded
  <2>1. PICK f \in EffectIds : IsTool(f) /\ effects[f].call = c
    BY <1>0 DEF Batches, Recorded
  <2>. QED
    BY <1>2, <2>1 DEF IsTool, Same
<1>8. Untried'
  BY <1>0, <1>1 DEF Batches, Untried
<1>9. Owed'
  BY <1>0, <1>1, <1>2 DEF Batches, Owed, IsTool, Same
<1>10. Remembered
  BY <1>2 DEF Remembered, RequestsOf, Same
<1>. QED
  BY <1>3, <1>4, <1>5, <1>6, <1>7, <1>8, <1>9, <1>10 DEF Kept, Batches

\* The restart routes what the durable state still owes.
LEMMA RestoreKept ==
  ASSUME Base, Restore
  PROVE  Kept
<1>0. SingleSample /\ Unissued /\ Batches /\ Asked /\ TypeOK
  BY DEF Base, RuntimeInv, IInv
<1>1. /\ UNCHANGED <<effects, nextEffect, calls, approvals, ran, tools>>
      /\ pc = "down" /\ Running = {}
      /\ routed' = [e \in EffectIds |->
           IF Pending(e) THEN Idle(effects[e].attempt) ELSE Absent]
  BY DEF Restore, vars, effectVars, workVars
<1>2. pc' \in {"open", "done", "journal", "abort_input", "admit", "loop"}
  BY WhereTo DEF Restore
<1>3. \A e \in EffectIds : Pending(e) => effects[e].status = "requested"
  BY <1>1 DEF Running, Pending
<1>4. RegistryCovers' /\ Owed'
  <2>1. \A e \in EffectIds :
          /\ Pending(e) => routed'[e].state = "idle" /\ routed'[e].attempt = effects[e].attempt
          /\ ~Pending(e) => routed'[e].state = "absent"
    BY <1>1 DEF Idle, Absent
  <2>. QED
    BY <1>1, <1>3, <2>1 DEF RegistryCovers, Owed, PendingEffects, Pending, IsTool
<1>5. Idling' /\ Executing' /\ Admitting' /\ Starting'
  <2>1. \A c \in Calls : tools'[c].at \in {"off", "back"}
    BY <1>0, <1>1 DEF Batches, Idling
  <2>2. \A e \in EffectIds : Pending(e)' => effects'[e].status = "requested"
    BY <1>1, <1>3 DEF Pending
  <2>. QED
    BY <1>2, <2>1, <2>2 DEF Idling, Executing, Admitting, Starting, PendingEffects
<1>6. SingleSample' /\ Unissued' /\ Asked' /\ Remembered
  BY <1>0, <1>1 DEF SingleSample, Unissued, Asked, PendingEffects, Pending,
     PendingApprovals, RequestsOf, Remembered
<1>7. Counted' /\ Recorded' /\ Untried'
  BY <1>0, <1>1 DEF Batches, Counted, Recorded, Untried, IsTool
<1>. QED
  BY <1>4, <1>5, <1>6, <1>7 DEF Kept, Batches

\* Cancellation, crashes and restarts.
LEMMA OutsideKept ==
  ASSUME Base, Cancel \/ CancelContext \/ CrashStep \/ Ended \/ UNCHANGED allVars
  PROVE  Kept
<1>1. CASE Cancel \/ CancelContext \/ Ended \/ UNCHANGED allVars
  <2>1. UNCHANGED <<routed, effectVars, workVars, hostVars, turnVars>>
    BY <1>1 DEF Cancel, CancelContext, Ended, CancelRequested, allVars, vars, rtVars
  <2>2. UNCHANGED <<routed, effects, nextEffect, calls, approvals, tools, ran, pc, todo>>
    BY <2>1 DEF effectVars, workVars, hostVars, turnVars
  <2>3. Eased /\ Aside
    BY <2>2 DEF Eased, Aside
  <2>. QED
    BY <2>2, <2>3, KeptStill
<1>. QED
  BY <1>1, CrashKept, RequeueKept, RestoreKept DEF CrashStep

\* Every step of the runtime.
LEMMA StepKept == Base /\ [RuntimeNext]_allVars => Kept
<1>. SUFFICES ASSUME Base, [RuntimeNext]_allVars PROVE Kept
  OBVIOUS
<1>1. CASE TurnStep
  BY <1>1, SamplingKept, BatchKept DEF TurnStep
<1>2. CASE FinalizeStep
  BY <1>2, AbortKept, TerminalKept DEF FinalizeStep
<1>. QED
  BY <1>1, <1>2, AskKept, OutsideKept DEF RuntimeNext

-----------------------------------------------------------------------------
(* Types                                                                    *)

Places == {"open", "loop", "begin", "sampling", "answered", "admit",
           "starting", "running", "closing", "abort_input",
           "abort_samples", "abort_tools", "discard", "request",
           "journal", "done", "pending", "stuck", "down"}

DriverOK ==
  /\ pc \in Places /\ todo \in SUBSET (Calls \union Requests)
  /\ settling \in BOOLEAN /\ broken \in BOOLEAN

Executors == [Calls -> [at : {"off", "run", "rejecting", "back"},
                        asks : SUBSET Requests]]
Ledgers == [Requests -> {"none", "recovered", "asked", "staged",
                         "canceling", "expiring", "resumed", "closed"}]
Methods == [method : {"none", "require", "resolve", "abort"},
            req : Requests \union {None}, call : Calls \union {None}]

ToolsOK  == tools \in Executors
RanOK    == ran \in [Calls -> 0 .. MaxAttempts]
LedgerOK == ledger \in Ledgers
OpOK     ==
  /\ op \in Methods
  /\ op.method = "require" => op.req \in Requests /\ op.call \in Calls
HostOK   == ToolsOK /\ RanOK /\ LedgerOK /\ OpOK

EnvOK ==
  /\ ctx \in {"live", "done"}
  /\ crashes \in 0 .. MaxCrashes /\ faults \in 0 .. MaxFaults

\* The type invariant in its parts.
LEMMA TypesInParts ==
  /\ RuntimeTypeOK /\ OpOK => DriverOK /\ HostOK /\ EnvOK
  /\ RegistryOK /\ WantOK /\ DriverOK /\ HostOK /\ EnvOK => RuntimeTypeOK
  BY DEF RuntimeTypeOK, RegistryOK, Registry, WantOK, DriverOK, HostOK, EnvOK,
     Places, ToolsOK, RanOK, LedgerOK, OpOK, Executors, Ledgers, Methods

\* The same of the next state.
LEMMA TypesInPartsNext ==
  RegistryOK' /\ WantOK' /\ DriverOK' /\ HostOK' /\ EnvOK' => RuntimeTypeOK'
  BY DEF RuntimeTypeOK, RegistryOK, Registry, WantOK, DriverOK, HostOK, EnvOK,
     Places, ToolsOK, RanOK, LedgerOK, OpOK, Executors, Ledgers, Methods

\* AbortTools denies the requests that are pending when it begins, and no
\* other.
Denies ==
  pc' = "abort_tools" =>
    \/ pc = "abort_tools" /\ todo' \subseteq todo
    \/ todo' = {r \in Requests : approvals'[r] # None}

Typed == DriverOK' /\ HostOK' /\ EnvOK' /\ Denies

\* Every move of the driver leads to a place of it.
LEMMA DriverMoves ==
  ASSUME DriverOK
  PROVE  /\ \A p \in Places \ {"abort_tools"} : Goto(p) => DriverOK' /\ Denies
         /\ pc = "abort_tools" /\ Goto("abort_tools") => DriverOK' /\ Denies
         /\ UNCHANGED turnVars => DriverOK' /\ Denies
         /\ \A d : \A last \in BOOLEAN : Finalize(d, last) => DriverOK' /\ Denies
         /\ \A failure : Settle(failure) => DriverOK' /\ Denies
         /\ FinalizeFailed => DriverOK' /\ Denies
         /\ \A failed \in BOOLEAN : ToAbortTools(failed) => DriverOK' /\ Denies
<1>1. \A p \in Places \ {"abort_tools"} : Goto(p) => DriverOK' /\ Denies
  BY DEF DriverOK, Goto, Denies
<1>2. pc = "abort_tools" /\ Goto("abort_tools") => DriverOK' /\ Denies
  BY DEF DriverOK, Goto, Denies, Places
<1>3. UNCHANGED turnVars => DriverOK' /\ Denies
  BY DEF DriverOK, turnVars, Denies
<1>4. ASSUME NEW d, NEW last \in BOOLEAN, Finalize(d, last)
      PROVE  DriverOK' /\ Denies
  BY <1>4 DEF DriverOK, Finalize, Places, Denies
<1>5. \A failure : Settle(failure) => DriverOK' /\ Denies
  BY <1>4 DEF Settle
<1>6. FinalizeFailed => DriverOK' /\ Denies
  <2>1. "stuck" \in Places \ {"abort_tools"}
    BY DEF Places
  <2>. QED
    BY <1>1, <1>5, <2>1 DEF FinalizeFailed
<1>7. ASSUME NEW failed \in BOOLEAN, ToAbortTools(failed)
      PROVE  DriverOK' /\ Denies
  BY <1>7 DEF DriverOK, ToAbortTools, Places, Denies
<1>. QED
  BY <1>1, <1>2, <1>3, <1>4, <1>5, <1>6, <1>7

\* Only a failed commit is counted among the faults.
LEMMA EnvMoves ==
  ASSUME EnvOK
  PROVE  /\ UNCHANGED envVars => EnvOK'
         /\ \A e, first : ResolveAccepted(e, first) => EnvOK'
         /\ \A e, first : ResolveRefused(e, first) => EnvOK'
<1>1. UNCHANGED envVars => EnvOK'
  BY DEF EnvOK, envVars
<1>2. ASSUME NEW e, NEW first, ResolveRefused(e, first)
      PROVE  EnvOK'
  <2>1. /\ UNCHANGED <<ctx, crashes>>
        /\ UNCHANGED faults \/ (faults < MaxFaults /\ faults' = faults + 1)
    BY <1>2 DEF ResolveRefused
  <2>. QED
    BY <2>1, TurnRuntimeAssumption DEF EnvOK
<1>. QED
  BY <1>1, <1>2 DEF ResolveAccepted

\* What the executors hold is not touched.
LEMMA HostStays ==
  /\ HostOK /\ UNCHANGED hostVars => HostOK'
  /\ ToolsOK /\ UNCHANGED tools => ToolsOK'
  /\ RanOK /\ UNCHANGED ran => RanOK'
  /\ LedgerOK /\ UNCHANGED ledger => LedgerOK'
  /\ OpOK /\ UNCHANGED op => OpOK'
  /\ op' = Free => OpOK'
  BY DEF HostOK, hostVars, ToolsOK, RanOK, LedgerOK, OpOK, Free, Methods

\* Opening the turn, sampling and answering.
LEMMA SamplingTyped ==
  ASSUME DriverOK, HostOK, EnvOK,
         \/ OpenTurn \/ ResumeSample \/ LoopFails \/ Answer
         \/ \E s \in Samples : RequestSample(s)
         \/ \E e \in EffectIds :
              \/ StartSample(e) \/ RecordProgress(e) \/ LeaveTransport(e)
              \/ \E cmd \in {"failed", "text", "calls"} : FinishSample(e, cmd)
  PROVE  Typed
<1>1. {"open", "loop", "begin", "sampling", "answered", "admit"}
        \subseteq Places \ {"abort_tools"}
  BY DEF Places
<1>2. CASE OpenTurn
  BY <1>1, <1>2, DriverMoves, HostStays, EnvMoves DEF OpenTurn, Typed
<1>3. CASE ResumeSample
  BY <1>1, <1>3, DriverMoves, HostStays, EnvMoves DEF ResumeSample, Typed
<1>4. CASE LoopFails
  BY <1>1, <1>4, DriverMoves, HostStays, EnvMoves DEF LoopFails, Typed
<1>5. CASE Answer
  <2>1. DriverOK' /\ Denies
    <3>1. CASE pc' = "request" /\ UNCHANGED <<todo, settling, broken>>
      BY <3>1 DEF DriverOK, Denies, Places
    <3>. QED
      BY <1>1, <1>5, <3>1, DriverMoves DEF Answer
  <2>. QED
    BY <1>5, <2>1, HostStays, EnvMoves DEF Answer, Typed
<1>6. ASSUME NEW s \in Samples, RequestSample(s)
      PROVE  Typed
  BY <1>1, <1>6, DriverMoves, HostStays, EnvMoves DEF RequestSample, Typed
<1>7. ASSUME NEW e \in EffectIds,
             StartSample(e) \/ RecordProgress(e) \/ LeaveTransport(e)
      PROVE  Typed
  <2>1. (Goto("sampling") \/ Goto("begin")) /\ UNCHANGED <<hostVars, envVars>>
    BY <1>7 DEF StartSample, RecordProgress, LeaveTransport
  <2>. QED
    BY <1>1, <2>1, DriverMoves, HostStays, EnvMoves DEF Typed
<1>8. ASSUME NEW e \in EffectIds, NEW cmd \in {"failed", "text", "calls"},
             FinishSample(e, cmd)
      PROVE  Typed
  <2>1. DriverOK' /\ Denies
    BY <1>1, <1>8, DriverMoves DEF FinishSample
  <2>2. EnvOK'
    BY <1>8, EnvMoves DEF FinishSample
  <2>3. HostOK'
    BY <1>8, HostStays DEF FinishSample
  <2>. QED
    BY <2>1, <2>2, <2>3 DEF Typed
<1>. QED
  BY <1>2, <1>3, <1>4, <1>5, <1>6, <1>7, <1>8

\* Admission, start and close of a tool batch.
LEMMA BatchTyped ==
  ASSUME Base, DriverOK, HostOK, EnvOK,
         \/ AdmitBatch \/ AdmissionFails \/ StartToolFails \/ ExecuteBatch
         \/ BatchReturned \/ BatchClosed
         \/ \E c \in Calls : StartTool(c) \/ CloseTool(c)
  PROVE  Typed
<1>1. CASE AdmitBatch
  <2>1. pc' = "starting" /\ todo' \subseteq Calls /\ UNCHANGED <<settling, broken>>
    BY <1>1 DEF AdmitBatch, Batch, OpenCalls
  <2>2. DriverOK' /\ Denies
    BY <2>1 DEF DriverOK, Denies, Places
  <2>. QED
    BY <1>1, <2>2, HostStays, EnvMoves DEF AdmitBatch, Typed
<1>2. CASE AdmissionFails
  BY <1>2, DriverMoves, HostStays, EnvMoves DEF AdmissionFails, Typed
<1>8. CASE StartToolFails
  <2>1. EnvOK'
    BY <1>8, TurnRuntimeAssumption DEF StartToolFails, EnvOK
  <2>. QED
    BY <1>8, <2>1, DriverMoves, HostStays DEF StartToolFails, Typed
<1>3. CASE ExecuteBatch
  <2>1. Launch(Batch \ rejected)
    BY <1>3 DEF ExecuteBatch
  <2>2. DriverOK' /\ Denies
    BY <2>1, DriverMoves DEF Launch, Places
  <2>3. ToolsOK'
    BY <2>1 DEF Launch, ToolsOK, Executors, Off
  <2>4. RanOK'
    BY <1>3, KeptExecuted DEF RanOK
  <2>. QED
    BY <2>1, <2>2, <2>3, <2>4, HostStays, EnvMoves DEF Launch, Typed, HostOK
<1>4. CASE BatchReturned
  <2>1. pc' = "closing" /\ todo' \subseteq Calls /\ UNCHANGED <<settling, broken>>
    BY <1>4 DEF BatchReturned
  <2>2. DriverOK' /\ Denies
    BY <2>1 DEF DriverOK, Denies, Places
  <2>. QED
    BY <1>4, <2>2, HostStays, EnvMoves DEF BatchReturned, Typed
<1>5. CASE BatchClosed
  <2>1. DriverOK' /\ Denies
    BY <1>5, DriverMoves DEF BatchClosed, Places
  <2>. QED
    BY <1>5, <2>1, HostStays, EnvMoves DEF BatchClosed, Typed
<1>6. ASSUME NEW c \in Calls, StartTool(c)
      PROVE  Typed
  <2>1. pc = "starting" /\ pc' = pc /\ todo' \subseteq todo /\ UNCHANGED <<settling, broken>>
    BY <1>6 DEF StartTool, At
  <2>2. DriverOK' /\ Denies
    BY <2>1 DEF DriverOK, Denies
  <2>. QED
    BY <1>6, <2>2, HostStays, EnvMoves DEF StartTool, Typed
<1>7. ASSUME NEW c \in Calls, CloseTool(c)
      PROVE  Typed
  <2>1. /\ pc = "closing" /\ pc' = pc /\ todo' \subseteq todo /\ UNCHANGED settling
        /\ UNCHANGED broken \/ broken' = TRUE
    BY <1>7 DEF CloseTool, At
  <2>2. DriverOK' /\ Denies
    BY <2>1 DEF DriverOK, Denies
  <2>3. EnvOK'
    BY <1>7, EnvMoves DEF CloseTool
  <2>4. ToolsOK'
    BY <1>7 DEF CloseTool, HostOK, ToolsOK, Executors, Off
  <2>. QED
    BY <1>7, <2>2, <2>3, <2>4, HostStays DEF CloseTool, Typed, HostOK
<1>. QED
  BY <1>1, <1>2, <1>3, <1>4, <1>5, <1>6, <1>7, <1>8

\* Waits and answers leave executors and ledger entries of their types.
LEMMA WaitsTyped ==
  ASSUME HostOK, NEW c \in Calls, NEW r \in Requests
  PROVE  /\ Wait(c, r) => ToolsOK' /\ LedgerOK'
         /\ Leave(c, r) => ToolsOK'
         /\ \A accepted \in BOOLEAN : AnswerDone(r, accepted) => ToolsOK' /\ LedgerOK'
         /\ \A state \in {"canceling", "staged", "expiring"} :
              ledger' = [ledger EXCEPT ![r] = state] => LedgerOK'
<1>1. Wait(c, r) => ToolsOK' /\ LedgerOK'
  BY DEF Wait, HostOK, ToolsOK, LedgerOK, Executors, Ledgers
<1>2. Leave(c, r) => ToolsOK'
  BY DEF Leave, HostOK, ToolsOK, Executors
<1>3. ASSUME NEW accepted \in BOOLEAN, AnswerDone(r, accepted)
      PROVE  ToolsOK' /\ LedgerOK'
  BY <1>3 DEF AnswerDone, HostOK, ToolsOK, LedgerOK, Executors, Ledgers
<1>4. \A state \in {"canceling", "staged", "expiring"} :
        ledger' = [ledger EXCEPT ![r] = state] => LedgerOK'
  BY DEF HostOK, LedgerOK, Ledgers
<1>. QED
  BY <1>1, <1>2, <1>3, <1>4

\* Executors that ask, replies, timers and resumed waits.
LEMMA AskTyped ==
  ASSUME Base, DriverOK, HostOK, EnvOK, AskStep
  PROVE  Typed
<1>0. TypeOK /\ ToolsOK /\ RanOK /\ LedgerOK /\ OpOK
  BY DEF Base, RuntimeInv, IInv, HostOK
<1>1. ASSUME UNCHANGED turnVars, EnvOK', ToolsOK', LedgerOK', OpOK', UNCHANGED ran
      PROVE  Typed
  BY <1>0, <1>1, DriverMoves, HostStays DEF Typed, HostOK
<1>2. CASE Required
  <2>1. UNCHANGED <<turnVars, ran, envVars>> /\ op' = Free
    BY <1>2 DEF Required
  <2>2. ToolsOK' /\ LedgerOK'
    <3>1. CASE Wait(op.call, op.req)
      <4>1. op.req \in Requests /\ op.call \in Calls
        BY <1>0, <1>2 DEF Required, OpOK
      <4>. QED
        BY <3>1, <4>1, WaitsTyped
    <3>2. CASE UNCHANGED <<tools, ledger>>
      BY <1>0, <3>2, HostStays
    <3>. QED
      BY <1>2, <3>1, <3>2 DEF Required
  <2>. QED
    BY <1>1, <2>1, <2>2, HostStays, EnvMoves
<1>9. CASE RequiredFails
  <2>1. UNCHANGED <<turnVars, ran, ctx, crashes>> /\ op' = Free
        /\ faults < MaxFaults /\ faults' = faults + 1
    BY <1>9 DEF RequiredFails
  <2>2. EnvOK'
    BY <2>1, TurnRuntimeAssumption DEF EnvOK
  <2>3. ToolsOK' /\ LedgerOK'
    BY <1>0, <1>9 DEF RequiredFails, Failing, ToolsOK, LedgerOK, Executors, Ledgers
  <2>. QED
    BY <1>1, <2>1, <2>2, <2>3, HostStays
<1>3. ASSUME NEW c \in Calls, NEW r \in Requests, Ask(c, r)
      PROVE  Typed
  <2>1. OpOK'
    BY <1>3 DEF Ask, OpOK, Methods
  <2>. QED
    BY <1>0, <1>1, <1>3, <2>1, HostStays, EnvMoves DEF Ask
<1>4. ASSUME NEW r \in Requests, ResolveStarts(r)
      PROVE  Typed
  <2>1. CallOf(r) \in Calls \union {None}
    BY <1>0 DEF CallOf, TypeOK, WorkTypeOK
  <2>2. OpOK'
    BY <1>4, <2>1 DEF ResolveStarts, OpOK, Methods
  <2>. QED
    BY <1>0, <1>1, <1>4, <2>2, HostStays, EnvMoves DEF ResolveStarts
<1>5. ASSUME NEW r \in Requests, ResolveWait(r)
      PROVE  Typed
  <2>1. UNCHANGED <<turnVars, ran>> /\ op' = Free
    BY <1>5 DEF ResolveWait
  <2>2. PICK accepted \in BOOLEAN : AnswerDone(r, accepted)
    BY <1>5 DEF ResolveWait
  <2>3. ToolsOK' /\ LedgerOK'
    BY <2>2 DEF AnswerDone, HostOK, ToolsOK, LedgerOK, Executors, Ledgers
  <2>4. EnvOK'
    BY <1>5, EnvMoves DEF ResolveWait
  <2>. QED
    BY <1>1, <2>1, <2>3, <2>4, HostStays
<1>6. ASSUME NEW c \in Calls, NEW b \in BOOLEAN,
             Return(c, b) \/ RejectUnresumed(c)
      PROVE  Typed
  <2>1. UNCHANGED <<turnVars, ran, op, envVars>>
    BY <1>6 DEF Return, RejectUnresumed
  <2>2. ToolsOK' /\ LedgerOK'
    BY <1>0, <1>6 DEF Return, Failing, RejectUnresumed, ToolsOK, LedgerOK, Executors,
       Ledgers, Waiting
  <2>. QED
    BY <1>0, <1>1, <2>1, <2>2, HostStays, EnvMoves
<1>7. ASSUME NEW c \in Calls, NEW r \in Requests,
             AskRecovered(c, r) \/ StopWaiting(c, r)
      PROVE  Typed
  <2>1. UNCHANGED <<turnVars, ran, op, envVars>>
    BY <1>7 DEF AskRecovered, StopWaiting
  <2>2. ToolsOK' /\ LedgerOK'
    BY <1>0, <1>7, WaitsTyped, HostStays DEF AskRecovered, StopWaiting
  <2>. QED
    BY <1>0, <1>1, <2>1, <2>2, HostStays, EnvMoves
<1>8. ASSUME NEW r \in Requests, NEW b \in BOOLEAN,
             Expire(r) \/ Reply(r, b) \/ ResolveFails(r) \/ ReplyLate(r)
      PROVE  Typed
  <2>1. UNCHANGED <<turnVars, ran, op, envVars>>
    BY <1>8 DEF Expire, Reply, ResolveFails, ReplyLate
  <2>2. ToolsOK' /\ LedgerOK'
    <3>1. CASE Expire(r) \/ Reply(r, b)
      BY <1>0, <3>1, HostStays DEF Expire, Reply, LedgerOK, Ledgers
    <3>2. CASE ResolveFails(r) \/ ReplyLate(r)
      BY <1>0, <3>2 DEF ResolveFails, ReplyLate, AnswerDone, ToolsOK, LedgerOK, Executors, Ledgers
    <3>. QED
      BY <1>8, <3>1, <3>2
  <2>. QED
    BY <1>0, <1>1, <2>1, <2>2, HostStays, EnvMoves
<1>. QED
  BY <1>2, <1>3, <1>4, <1>5, <1>6, <1>7, <1>8, <1>9 DEF AskStep

\* FinalizeTerminal.
LEMMA FinalizeTyped ==
  ASSUME Base, Denying, DriverOK, HostOK, EnvOK, FinalizeStep
  PROVE  Typed
<1>0. {"abort_input", "abort_samples", "discard", "request", "journal", "pending",
       "done"} \subseteq Places \ {"abort_tools"}
  BY DEF Places
<1>1. CASE AbortInput
  <2>1. DriverOK' /\ Denies
    BY <1>0, <1>1, DriverMoves DEF AbortInput
  <2>2. EnvOK'
    BY <1>1, EnvMoves DEF AbortInput
  <2>. QED
    BY <1>1, <2>1, <2>2, HostStays DEF AbortInput, Typed
<1>2. CASE AbortSamples
  <2>1. DriverOK' /\ Denies
    BY <1>0, <1>2, DriverMoves DEF AbortSamples
  <2>2. EnvOK'
    BY <1>2, EnvMoves DEF AbortSamples
  <2>. QED
    BY <1>2, <2>1, <2>2, HostStays DEF AbortSamples, Typed
<1>3. CASE AbortTool
  <2>1. DriverOK' /\ Denies
    BY <1>3, DriverMoves DEF AbortTool, At
  <2>2. EnvOK'
    BY <1>3, EnvMoves DEF AbortTool
  <2>. QED
    BY <1>3, <2>1, <2>2, HostStays DEF AbortTool, Typed
<1>4. CASE AbortCalls
  BY <1>4, DriverMoves, HostStays, EnvMoves DEF AbortCalls, At, Typed
<1>5. CASE AbortDone
  BY <1>0, <1>5, DriverMoves, HostStays, EnvMoves DEF AbortDone, Typed
<1>6. ASSUME NEW r \in Requests, AbortApproval(r)
      PROVE  Typed
  <2>1. DriverOK' /\ Denies
    <3>1. CASE todo' = todo \ {r} /\ UNCHANGED <<pc, want, settling, broken>>
      BY <1>6, <3>1 DEF AbortApproval, DriverOK, Denies
    <3>2. CASE FinalizeFailed \/ Goto("abort_tools")
      BY <1>6, <3>2, DriverMoves DEF AbortApproval
    <3>. QED
      BY <1>6, <3>1, <3>2 DEF AbortApproval
  <2>2. EnvOK'
    BY <1>6, EnvMoves DEF AbortApproval
  <2>3. OpOK'
    <3>1. AskedBy(r) \in Calls
      <4>1. pc = "abort_tools" /\ r \in todo
        BY <1>6 DEF AbortApproval
      <4>2. \E c \in Calls : r \in RequestsOf(c)
        BY <4>1 DEF Denying
      <4>. QED
        BY <4>2 DEF AskedBy
    <3>2. op' = Free \/ op' = [method |-> "abort", req |-> r, call |-> AskedBy(r)]
      BY <1>6 DEF AbortApproval
    <3>. QED
      BY <3>1, <3>2, HostStays DEF OpOK, Methods
  <2>. QED
    BY <1>6, <2>1, <2>2, <2>3, HostStays DEF AbortApproval, HostOK, Typed
<1>7. CASE DiscardOutput
  BY <1>0, <1>7, DriverMoves, HostStays, EnvMoves DEF DiscardOutput, Typed
<1>8. CASE RequestTerminal
  BY <1>0, <1>8, DriverMoves, HostStays, EnvMoves DEF RequestTerminal, Typed
<1>9. CASE RunJournal
  <2>1. DriverOK' /\ Denies
    BY <1>0, <1>9, DriverMoves DEF RunJournal, Places
  <2>2. EnvOK'
    <3>1. CASE UNCHANGED envVars
      BY <3>1, EnvMoves
    <3>2. CASE faults < MaxFaults /\ faults' = faults + 1 /\ UNCHANGED <<ctx, crashes>>
      BY <3>2, TurnRuntimeAssumption DEF EnvOK
    <3>. QED
      BY <1>9, <3>1, <3>2 DEF RunJournal
  <2>. QED
    BY <1>9, <2>1, <2>2, HostStays DEF RunJournal, Typed
<1>10. CASE EndTurn
  BY <1>0, <1>10, DriverMoves, HostStays, EnvMoves DEF EndTurn, Typed
<1>. QED
  BY <1>1, <1>2, <1>3, <1>4, <1>5, <1>6, <1>7, <1>8, <1>9, <1>10 DEF FinalizeStep

\* Cancellation, crashes and restarts.
LEMMA OutsideTyped ==
  ASSUME Base, DriverOK, HostOK, EnvOK,
         Cancel \/ CancelContext \/ CrashStep \/ Ended \/ UNCHANGED allVars
  PROVE  Typed
<1>1. CASE Cancel \/ Ended \/ UNCHANGED allVars
  <2>1. UNCHANGED <<turnVars, hostVars, envVars>>
    BY <1>1 DEF Cancel, Ended, allVars, rtVars
  <2>. QED
    BY <2>1, DriverMoves, HostStays, EnvMoves DEF Typed
<1>2. CASE CancelContext
  <2>1. EnvOK'
    BY <1>2 DEF CancelContext, EnvOK
  <2>. QED
    BY <1>2, <2>1, DriverMoves, HostStays DEF CancelContext, Typed
<1>3. CASE Crash
  <2>1. DriverOK' /\ Denies
    BY <1>3 DEF Crash, DriverOK, Denies, Places
  <2>2. EnvOK'
    <3>1. UNCHANGED crashes \/ (crashes < MaxCrashes /\ crashes' = crashes + 1)
      BY <1>3 DEF Crash
    <3>2. ctx' = "live" /\ UNCHANGED faults
      BY <1>3 DEF Crash
    <3>. QED
      BY <3>1, <3>2, TurnRuntimeAssumption DEF EnvOK
  <2>3. ToolsOK' /\ LedgerOK'
    BY <1>3 DEF Crash, ToolsOK, LedgerOK, Executors, Ledgers, Off
  <2>. QED
    BY <1>3, <2>1, <2>2, <2>3, HostStays DEF Crash, HostOK, Typed
<1>4. CASE Restore
  <2>0. {"open", "done", "admit", "loop"} \subseteq Places \ {"abort_tools"}
    BY DEF Places
  <2>1. DriverOK' /\ Denies
    <3>1. CASE pc' = "journal" /\ settling' = TRUE /\ UNCHANGED <<todo, broken>>
      BY <3>1 DEF DriverOK, Denies, Places
    <3>. QED
      BY <1>4, <2>0, <3>1, DriverMoves DEF Restore
  <2>2. EnvOK'
    BY <1>4 DEF Restore, EnvOK
  <2>3. LedgerOK'
    BY <1>4 DEF Restore, LedgerOK, Ledgers
  <2>. QED
    BY <1>4, <2>1, <2>2, <2>3, HostStays DEF Restore, HostOK, Typed
<1>5. ASSUME NEW e \in EffectIds, Requeue(e)
      PROVE  Typed
  <2>1. UNCHANGED <<turnVars, hostVars, envVars>>
    BY <1>5 DEF Requeue, rtVars
  <2>. QED
    BY <2>1, DriverMoves, HostStays, EnvMoves DEF Typed
<1>. QED
  BY <1>1, <1>2, <1>3, <1>4, <1>5 DEF CrashStep

\* Every step of the runtime.
LEMMA StepTyped ==
  Base /\ Denying /\ DriverOK /\ HostOK /\ EnvOK /\ [RuntimeNext]_allVars => Typed
<1>. SUFFICES ASSUME Base, Denying, DriverOK, HostOK, EnvOK, [RuntimeNext]_allVars
              PROVE  Typed
  OBVIOUS
<1>1. CASE TurnStep
  BY <1>1, SamplingTyped, BatchTyped DEF TurnStep
<1>. QED
  BY <1>1, FinalizeTyped, AskTyped, OutsideTyped DEF RuntimeNext

-----------------------------------------------------------------------------
(* Invariance                                                               *)

\* The inductive invariant of the driver, its executors and its registry.
DriverInv == Base /\ OpOK /\ Denying

\* A new turn satisfies it.
LEMMA DriverStart == RuntimeInit => DriverInv
<1>. SUFFICES ASSUME RuntimeInit PROVE DriverInv
  OBVIOUS
<1>1. RuntimeInv
  BY RuntimeStart
<1>2. RegistryOK /\ WantOK
  BY <1>1 DEF RuntimeInv
<1>3. DriverOK
  BY DEF RuntimeInit, DriverOK, Places
<1>4. OpOK
  BY HostStays DEF RuntimeInit, OpOK, Methods, Free
<1>5. ToolsOK /\ RanOK /\ LedgerOK
  BY TurnKernelAssumption
  DEF RuntimeInit, ToolsOK, RanOK, LedgerOK, Executors, Ledgers, Off
<1>6. EnvOK
  BY TurnRuntimeAssumption DEF RuntimeInit, EnvOK
<1>7. RuntimeTypeOK
  BY <1>2, <1>3, <1>4, <1>5, <1>6, TypesInParts DEF HostOK
<1>8. /\ \A e \in EffectIds : /\ effects[e].kind = "none" /\ effects[e].key = None
                               /\ effects[e].status = "unused"
                               /\ routed[e].state = "absent"
      /\ \A c \in Calls : tools[c].at = "off" /\ ran[c] = 0
      /\ \A r \in Requests : approvals[r] = None
      /\ pc = "open"
  BY DEF RuntimeInit, Init, Absent, Off
<1>9. RegistryCovers /\ SingleSample /\ Unissued /\ Asked
  BY <1>8 DEF RegistryCovers, SingleSample, Unissued, Asked, PendingEffects, Pending,
              PendingApprovals
<1>10. Batches
  BY <1>8 DEF Batches, Idling, Executing, Counted, Recorded, Untried, Admitting,
              Starting, Owed, IsTool
<1>11. Denying
  BY <1>8 DEF Denying
<1>. QED
  BY <1>1, <1>4, <1>7, <1>9, <1>10, <1>11 DEF DriverInv, Base

\* Every step of the runtime preserves it.
LEMMA DriverStep == DriverInv /\ [RuntimeNext]_allVars => DriverInv'
<1>. SUFFICES ASSUME DriverInv, [RuntimeNext]_allVars PROVE DriverInv'
  OBVIOUS
<1>1. Base /\ RuntimeInv /\ DriverOK /\ HostOK /\ EnvOK /\ Denying
  BY TypesInParts DEF DriverInv, Base
<1>2. RuntimeInv' /\ Kept /\ Typed
  BY <1>1, RuntimeStep, StepKept, StepTyped
<1>3. RuntimeTypeOK' /\ OpOK'
  BY <1>2, TypesInPartsNext DEF RuntimeInv, Typed, HostOK
<1>4. Base'
  BY <1>2, <1>3 DEF Base, Kept
<1>5. Denying'
  <2>. SUFFICES ASSUME pc' = "abort_tools", NEW r \in todo'
                PROVE  r \in Requests /\ \E c \in Calls : \E e \in EffectIds :
                         effects'[e].key = r /\ effects'[e].call = c
    BY DEF Denying, RequestsOf
  <2>1. CASE pc = "abort_tools" /\ todo' \subseteq todo
    <3>1. r \in Requests /\ \E c \in Calls : r \in RequestsOf(c)
      BY <1>1, <2>1 DEF Denying
    <3>. QED
      BY <1>2, <3>1 DEF Kept, Remembered
  <2>2. CASE todo' = {x \in Requests : approvals'[x] # None}
    <3>1. r \in Requests /\ approvals'[r] # None
      BY <2>2
    <3>2. approvals'[r] \in Calls
      BY <1>2, <3>1 DEF RuntimeInv, IInv, TypeOK, WorkTypeOK
    <3>3. \E e \in EffectIds : effects'[e].key = r /\ effects'[e].call = approvals'[r]
      BY <1>2, <3>1 DEF Kept, Asked, PendingApprovals, RequestsOf
    <3>. QED
      BY <3>1, <3>2, <3>3
  <2>. QED
    BY <1>2, <2>1, <2>2 DEF Typed, Denies
<1>. QED
  BY <1>3, <1>4, <1>5 DEF DriverInv

\* What DriverInv implies of the executors.
LEMMA DriverExecutes == DriverInv => ExecutionCovered
<1>. SUFFICES ASSUME DriverInv, NEW c \in Calls
              PROVE  /\ tools[c].at \in {"run", "rejecting"} =>
                          \E e \in EffectIds : /\ effects[e].kind = "execute_tool"
                                               /\ effects[e].call = c
                                               /\ effects[e].status = "running"
                     /\ ran[c] # 0 =>
                          \E e \in EffectIds : /\ effects[e].kind = "execute_tool"
                                               /\ effects[e].call = c
                                               /\ ran[c] <= effects[e].attempt
  BY DEF ExecutionCovered
<1>1. Executing /\ Counted /\ Recorded
  BY DEF DriverInv, Base, Batches
<1>. QED
  BY <1>1 DEF Executing, Counted, Recorded, IsTool

\* A step executes calls of the batch that carry no rejection.
LEMMA StepRejects ==
  DriverInv /\ [RuntimeNext]_allVars => \A c \in rejected : ran'[c] = ran[c]
<1>. SUFFICES ASSUME DriverInv, [RuntimeNext]_allVars
              PROVE  \A c \in rejected : ran'[c] = ran[c]
  OBVIOUS
<1>1. CASE ExecuteBatch
  <2>1. ran' = [c \in Calls |-> IF c \in Batch \ rejected THEN ran[c] + 1 ELSE ran[c]]
    BY <1>1 DEF ExecuteBatch, Launch
  <2>2. rejected \subseteq Calls
    BY DEF DriverInv, Base, RuntimeInv, IInv, TypeOK, WorkTypeOK
  <2>. QED
    BY <2>1, <2>2
<1>2. CASE TurnStep /\ ~ExecuteBatch
  BY <1>2 DEF TurnStep, OpenTurn, ResumeSample, LoopFails, Answer, RequestSample,
     StartSample, RecordProgress, LeaveTransport, FinishSample, AdmitBatch,
     AdmissionFails, StartToolFails, BatchReturned, BatchClosed, StartTool, CloseTool, hostVars
<1>3. CASE FinalizeStep
  BY <1>3 DEF FinalizeStep, AbortInput, AbortSamples, AbortTool, AbortCalls, AbortDone,
     AbortApproval, DiscardOutput, RequestTerminal, RunJournal, EndTurn, hostVars
<1>4. CASE AskStep
  BY <1>4 DEF AskStep, Required, RequiredFails, Return, RejectUnresumed, Ask, AskRecovered, StopWaiting,
     Expire, ResolveStarts, ResolveWait, ResolveFails, ReplyLate, Reply
<1>5. CASE Cancel \/ CancelContext \/ CrashStep \/ Ended \/ UNCHANGED allVars
  BY <1>5 DEF Cancel, CancelContext, CrashStep, Crash, Restore, Requeue, Ended, allVars,
     rtVars, hostVars
<1>. QED
  BY <1>1, <1>2, <1>3, <1>4, <1>5 DEF RuntimeNext

-----------------------------------------------------------------------------
(* Waits and their answers                                                  *)

\* No two approvals of one call are pending.
Lone ==
  \A r, q \in PendingApprovals : approvals[r] = approvals[q] => r = q

\* A result a wait may retain is an answer to its own request.  The failed commit
\* of an abort leaves another one with an input wait.
Answers(e, result) ==
  /\ effects[e].kind \in WaitKinds /\ result # NoResult
  /\ effects[e].kind = "await_input" => MaxFaults = 0
  => /\ result.cmd = IF effects[e].kind = "await_input" THEN "input" ELSE "approval"
     /\ result.req = effects[e].key
Owned == \A e \in EffectIds : Pending(e) => Answers(e, routed[e].result)

\* A pending approval is known to the request ledger, but while it is required.
Registered ==
  \A r \in PendingApprovals :
    /\ r \notin InputRequests
    /\ ledger[r] = "none" => pc = "down" \/ (op.method = "require" /\ op.req = r)

\* A request is asked once, before the ledger or the turn knows it.
AskedOnce ==
  /\ \A e, f \in EffectIds :
       effects[e].key = effects[f].key /\ effects[e].key \in Requests => e = f
  /\ \A r \in Requests :
       ledger[r] # "none" \/ input.req = r \/ (op.method = "require" /\ op.req = r)
         => ~Fresh(r)

\* A method that is between its commits has not started the wait, and keeps the
\* driver from aborting; nothing is known of a process that is down.
Midway ==
  /\ op.method = "require" =>
       /\ \A e \in EffectIds :
            Pending(e) /\ effects[e].key = op.req => effects[e].status = "requested"
       /\ op.req \in PendingApprovals => approvals[op.req] = op.call
  /\ pc \in {"abort_input", "abort_tools"} => op.method \in {"none", "abort"}
  /\ pc = "down" => op.method = "none" /\ \A r \in Requests : ledger[r] = "none"

\* AbortTools denies what is pending.
Denied == pc = "abort_tools" => todo \subseteq PendingApprovals

\* The entry of an approval that is over outlives the call's closing at most.
Closed(c) == calls[c] \in {"ok", "error"}
Retired ==
  \A e \in EffectIds :
    /\ effects[e].kind = "await_approval" /\ routed[e].state # "absent"
    /\ ~Closed(effects[e].call)
    => Pending(e)

\* A pending approval is waited for.
Waited ==
  \A r \in PendingApprovals : \E e \in EffectIds :
    Pending(e) /\ effects[e].kind = "await_approval" /\ effects[e].key = r

\* Without failed commits the request of one is closed by a cancellation, or
\* when the executor has left.
Unwaited(r) == \A c \in Calls : r \notin tools[c].asks
Answered ==
  MaxFaults = 0 =>
    \A r \in PendingApprovals : ledger[r] = "closed" => cancel # "none" \/ Unwaited(r)

\* What the executors were told is durable.
Told ==
  \A r \in Requests : ledger[r] = "resumed" =>
    approvals[r] = None /\ (MaxFaults = 0 => input.req # r)

WaitInv ==
  /\ Lone /\ Owned /\ Registered /\ AskedOnce
  /\ Midway /\ Denied /\ Retired /\ Waited /\ Answered /\ Told

\* A step that asks nothing: what it does to an effect e, which it may have
\* issued,
Carried(e) ==
  \/ /\ Same(e)
     /\ Pending(e)' => Pending(e)
     /\ Pending(e)' => \/ routed'[e].result = routed[e].result
                       \/ Answers(e, routed'[e].result)
     /\ effects[e].kind = "await_approval" =>
          /\ Pending(e) => Pending(e)' \/ approvals'[effects[e].key] = None
          /\ \/ routed'[e].state = "absent"
             \/ Closed(effects[e].call)'
             \/ routed[e].state # "absent" /\ (Pending(e) => Pending(e)')
  \/ /\ nextEffect < e
     /\ effects'[e].kind \notin WaitKinds /\ effects'[e].key \notin Requests

\* and to the calls and the requests.
Plain ==
  /\ \A e \in EffectIds : Carried(e)
  /\ \A c \in Calls : Closed(c) => Closed(c)'
  /\ \A r \in Requests : approvals'[r] \in {approvals[r], None}
  /\ input' \in {input, NoInput}

\* A cancellation stays, and who begins to wait is registered.
Lasts == cancel # "none" => cancel' # "none"
Joins ==
  \A c \in Calls : \A r \in Requests :
    r \in tools'[c].asks => r \in tools[c].asks \/ ledger'[r] = "asked"
Lasting == Lasts /\ Joins

\* What such a step may do to the ledger of requests, to the mutex and to the
\* driver.
Calm ==
  /\ \A r \in Requests :
       /\ ledger'[r] = "none" => ledger[r] = "none"
       /\ ledger'[r] # "none" => ledger[r] # "none" \/ ~Fresh(r)
       /\ ledger'[r] = "resumed" =>
            \/ ledger[r] = "resumed"
            \/ approvals'[r] = None /\ (MaxFaults = 0 => input'.req # r)
       /\ ledger'[r] = "closed" =>
            \/ ledger[r] = "closed" \/ approvals'[r] = None
            \/ MaxFaults = 0 => cancel # "none" \/ Unwaited(r)'
  /\ op'.method = "require" => op' = op /\ UNCHANGED effects
  /\ op.method = "require" =>
       op' = op \/ approvals'[op.req] = None \/ ledger'[op.req] # "none"
  /\ pc = "down" => pc' = "down"
  /\ pc' = "down" =>
       /\ pc = "down" /\ UNCHANGED op
       /\ \A r \in Requests : ledger'[r] = ledger[r]
  /\ pc' \in {"abort_input", "abort_tools"} => op'.method \in {"none", "abort"}
  /\ Denied'

\* The constants and the types the arguments below use.
LEMMA WaitTypes ==
  ASSUME Base
  PROVE  /\ None \notin Requests /\ None \notin Calls /\ NoInput.req = None
         /\ effects \in [EffectIds -> Effects] /\ routed \in [EffectIds -> Entries]
         /\ approvals \in [Requests -> Calls \union {None}]
         /\ calls \in [Calls -> {"new", "open", "ok", "error"}]
         /\ \A e \in EffectIds : Shaped(effects[e])
         /\ nextEffect \in Nat
  BY TurnKernelAssumption
  DEF Base, RuntimeInv, IInv, TypeOK, WorkTypeOK, EffectTypeOK, RegistryOK, Registry,
      NoInput

\* A step that asks nothing and is calm keeps the invariant.
LEMMA WaitCalm ==
  ASSUME Base, OpOK, WaitInv, Lasting, Plain, Calm
  PROVE  WaitInv'
<1>0. None \notin Requests /\ NoInput.req = None /\ Unissued
  BY WaitTypes DEF Base
<1>1. Lone'
  BY DEF WaitInv, Plain, Lone, PendingApprovals
<1>2. Owned'
  <2>. SUFFICES ASSUME NEW e \in EffectIds, Pending(e)'
                PROVE  Answers(e, routed[e].result)'
    BY DEF Owned
  <2>1. CASE Same(e) /\ Pending(e) /\ (\/ routed'[e].result = routed[e].result
                                       \/ Answers(e, routed'[e].result))
    BY <2>1 DEF WaitInv, Owned, Answers, Same
  <2>2. CASE effects'[e].kind \notin WaitKinds
    BY <2>2 DEF Answers
  <2>. QED
    BY <2>1, <2>2 DEF Plain, Carried
<1>3. Registered'
  <2>. SUFFICES ASSUME NEW r \in Requests, approvals'[r] # None
                PROVE  /\ r \notin InputRequests
                       /\ ledger'[r] = "none" =>
                            pc' = "down" \/ (op'.method = "require" /\ op'.req = r)
    BY DEF Registered, PendingApprovals
  <2>1. r \in PendingApprovals
    BY DEF Plain, PendingApprovals
  <2>. QED
    BY <2>1 DEF WaitInv, Registered, Calm
<1>4. \A r \in Requests : Fresh(r)' => Fresh(r)
  BY <1>0 DEF Fresh, Plain, Carried, Unissued, Same
<1>5. AskedOnce'
  <2>1. ASSUME NEW e \in EffectIds, NEW f \in EffectIds,
               effects'[e].key = effects'[f].key, effects'[e].key \in Requests
        PROVE  e = f
    BY <2>1 DEF WaitInv, AskedOnce, Plain, Carried, Same
  <2>2. ASSUME NEW r \in Requests,
               \/ ledger'[r] # "none" \/ input'.req = r
               \/ op'.method = "require" /\ op'.req = r
        PROVE  ~Fresh(r)
    BY <1>0, <2>2 DEF WaitInv, AskedOnce, Plain, Calm
  <2>. QED
    BY <1>4, <2>1, <2>2 DEF AskedOnce
<1>6. Midway'
  <2>1. op'.method = "require" =>
          \A e \in EffectIds :
            Pending(e)' /\ effects'[e].key = op'.req => effects'[e].status = "requested"
    BY DEF WaitInv, Midway, Calm, Pending
  <2>2. op'.method = "require" /\ op'.req \in PendingApprovals'
          => approvals'[op'.req] = op'.call
    BY DEF WaitInv, Midway, Calm, Plain, PendingApprovals
  <2>3. pc' \in {"abort_input", "abort_tools"} => op'.method \in {"none", "abort"}
    BY DEF Calm
  <2>4. pc' = "down" => op'.method = "none" /\ \A r \in Requests : ledger'[r] = "none"
    BY DEF WaitInv, Midway, Calm
  <2>. QED
    BY <2>1, <2>2, <2>3, <2>4 DEF Midway
<1>7. Denied'
  BY DEF Calm
<1>8. Retired'
  <2>. SUFFICES ASSUME NEW e \in EffectIds, effects'[e].kind = "await_approval",
                       routed'[e].state # "absent", ~Closed(effects[e].call)'
                PROVE  Pending(e)'
    BY DEF Retired
  <2>1. Same(e)
    BY DEF Plain, Carried, WaitKinds
  <2>2. effects[e].kind = "await_approval" /\ ~Closed(effects[e].call)'
    BY <2>1 DEF Same, Closed
  <2>3. routed[e].state # "absent" /\ (Pending(e) => Pending(e)')
    BY <2>2 DEF Plain, Carried, WaitKinds
  <2>4. effects[e].call \in Calls
    BY <2>2, WaitTypes DEF Shaped
  <2>5. ~Closed(effects[e].call)
    BY <2>1, <2>2, <2>4 DEF Plain, Closed, Same
  <2>. QED
    BY <2>2, <2>3, <2>5 DEF WaitInv, Retired
<1>9. Told'
  BY <1>0 DEF WaitInv, Told, Calm, Plain
<1>10. Waited'
  <2>. SUFFICES ASSUME NEW r \in Requests, approvals'[r] # None
                PROVE  \E e \in EffectIds : /\ Pending(e)' /\ effects'[e].key = r
                                            /\ effects'[e].kind = "await_approval"
    BY DEF Waited, PendingApprovals
  <2>1. r \in PendingApprovals
    BY DEF Plain, PendingApprovals
  <2>2. PICK e \in EffectIds :
          Pending(e) /\ effects[e].kind = "await_approval" /\ effects[e].key = r
    BY <2>1 DEF WaitInv, Waited
  <2>3. Carried(e) /\ ~(nextEffect < e)
    BY <1>0, <2>2 DEF Plain, Unissued
  <2>. QED
    BY <2>2, <2>3 DEF Carried, Same
<1>11. Answered'
  <2>. SUFFICES ASSUME MaxFaults = 0, NEW r \in Requests, approvals'[r] # None,
                       ledger'[r] = "closed"
                PROVE  cancel' # "none" \/ Unwaited(r)'
    BY DEF Answered, PendingApprovals
  <2>1. r \in PendingApprovals
    BY DEF Plain, PendingApprovals
  <2>2. Unwaited(r) => Unwaited(r)'
    BY DEF Unwaited, Lasting, Joins
  <2>. QED
    BY <2>1, <2>2 DEF WaitInv, Answered, Calm, Lasting, Lasts
<1>. QED
  BY <1>1, <1>2, <1>3, <1>5, <1>6, <1>7, <1>8, <1>9, <1>10, <1>11 DEF WaitInv

-----------------------------------------------------------------------------
(* Steps that ask nothing                                                   *)

\* A step beside the waits.
LEMMA PlainMoved ==
  ASSUME Base, NEW M, NEW N, Moves(M, N),
         \A kind \in WaitKinds : kind \notin M /\ kind \notin N,
         \A e \in EffectIds : effects[e].kind \in WaitKinds =>
           routed'[e].result = routed[e].result,
         \A e \in EffectIds : nextEffect < e /\ effects'[e].kind \in N =>
           effects'[e].key \notin Requests,
         \A c \in Calls : Closed(c) => Closed(c)',
         UNCHANGED <<approvals, input>>
  PROVE  Plain
<1>1. ASSUME NEW e \in EffectIds
      PROVE  Carried(e)
  <2>1. CASE Stays(e)
    <3>1. Same(e) /\ (Pending(e)' <=> Pending(e)) /\ routed'[e].state = routed[e].state
      BY <2>1 DEF Stays, Held, Same, Pending
    <3>2. routed'[e].result = routed[e].result \/ Answers(e, routed'[e].result)
      BY DEF Answers
    <3>. QED
      BY <3>1, <3>2 DEF Carried
  <2>2. CASE effects[e].kind \in M /\ (Finishes(e) \/ Begins(e) \/ Yields(e))
    <3>1. Same(e) /\ (Pending(e)' => Pending(e))
      BY <2>2 DEF Finishes, Begins, Yields, Pending
    <3>2. effects[e].kind \notin WaitKinds
      BY <2>2
    <3>. QED
      BY <3>1, <3>2 DEF Carried, Answers, WaitKinds
  <2>3. CASE Issues(e) /\ effects'[e].kind \in N
    BY <2>3 DEF Carried, Issues
  <2>. QED
    BY <2>1, <2>2, <2>3 DEF Moves
<1>2. \A r \in Requests : approvals'[r] \in {approvals[r], None}
  OBVIOUS
<1>. QED
  BY <1>1, <1>2 DEF Plain

\* A step beside the effects.
LEMMA PlainStill ==
  ASSUME Base, UNCHANGED <<effects, nextEffect, routed, calls, approvals, input>>
  PROVE  Plain
<1>1. Moves({}, {})
  BY NothingMoves DEF Base, RuntimeInv, IInv
<1>2. \A c \in Calls : Closed(c) => Closed(c)'
  BY DEF Closed
<1>. QED
  BY <1>1, <1>2, PlainMoved

\* An effect is started, a wait or another one.
LEMMA PlainStarted ==
  ASSUME Base, NEW e \in EffectIds, Start(e)
  PROVE  Plain /\ UNCHANGED <<calls, approvals, input>>
<1>0. routed \in [EffectIds -> Entries]
  BY WaitTypes
<1>1. /\ Begins(e) /\ \A f \in EffectIds \ {e} : Stays(f)
      /\ UNCHANGED <<calls, approvals, input>>
  BY StartMoves DEF Base, RuntimeInv, IInv, workVars
<1>2. routed[e].state = "idle" /\ \A f \in EffectIds : routed'[f].result = routed[f].result
  BY <1>0 DEF Start, CanStart, Entries
<1>3. Carried(e)
  BY <1>1, <1>2 DEF Carried, Begins, Pending
<1>4. \A f \in EffectIds \ {e} : Carried(f)
  BY <1>1, <1>2 DEF Carried, Stays, Held, Same, Pending
<1>5. \A c \in Calls : Closed(c) => Closed(c)'
  BY <1>1 DEF Closed
<1>. QED
  BY <1>1, <1>3, <1>4, <1>5 DEF Plain

\* A result is refused.
LEMMA PlainRefused ==
  ASSUME Base, NEW e \in EffectIds, NEW first, ResolveRefused(e, first),
         Pending(e) /\ routed[e].result = NoResult => Answers(e, first)
  PROVE  Plain /\ UNCHANGED vars
<1>0. routed \in [EffectIds -> Entries]
  BY WaitTypes
<1>1. (\A f \in EffectIds : Stays(f)) /\ UNCHANGED vars
  BY RefusedStays DEF Base, RuntimeInv, IInv
<1>2. \A f \in EffectIds \ {e} : routed'[f].result = routed[f].result
  BY <1>0 DEF ResolveRefused
<1>3. \/ routed'[e].result = routed[e].result
      \/ routed[e].result = NoResult /\ routed'[e].result = first
  BY <1>0 DEF ResolveRefused, Retained, Entries
<1>4. \A f \in EffectIds : Carried(f)
  BY <1>1, <1>2, <1>3 DEF Carried, Stays, Held, Same, Pending
<1>5. UNCHANGED <<calls, approvals, input>>
  BY <1>1 DEF vars, workVars
<1>6. \A c \in Calls : Closed(c) => Closed(c)'
  BY <1>5 DEF Closed
<1>. QED
  BY <1>1, <1>4, <1>5, <1>6 DEF Plain

\* The result of a sample is accepted.
LEMMA PlainSampled ==
  ASSUME Base, TypeOK', NEW e \in EffectIds, NEW first \in Proper,
         ResolveAccepted(e, first), effects[e].kind = "sample_provider"
  PROVE  Plain /\ UNCHANGED approvals
<1>0. routed \in [EffectIds -> Entries] /\ nextEffect \in Nat
  BY WaitTypes
<1>1. /\ Moves({"sample_provider"}, {"execute_tool"})
      /\ UNCHANGED <<approvals, input>>
      /\ \A c \in Calls : \/ calls'[c] = calls[c]
                          \/ calls[c] = "new" /\ calls'[c] = "open"
  BY AcceptedSample DEF Base, RuntimeInv, IInv
<1>2. ASSUME NEW f \in EffectIds, effects[f].kind \in WaitKinds
      PROVE  routed'[f].result = routed[f].result
  <2>1. ~(nextEffect < f /\ f <= nextEffect')
    BY <1>2 DEF Base, Unissued, WaitKinds
  <2>2. f # e
    BY <1>2 DEF WaitKinds
  <2>. QED
    BY <1>0, <2>1, <2>2 DEF ResolveAccepted, Dispatch
<1>3. \A f \in EffectIds : effects'[f].kind \in {"execute_tool"} =>
        effects'[f].key \notin Requests
  BY TurnRuntimeAssumption DEF TypeOK, EffectTypeOK, Shaped
<1>4. \A c \in Calls : Closed(c) => Closed(c)'
  BY <1>1 DEF Closed
<1>5. \A kind \in WaitKinds :
        kind \notin {"sample_provider"} /\ kind \notin {"execute_tool"}
  BY DEF WaitKinds
<1>. QED
  BY <1>1, <1>2, <1>3, <1>4, <1>5, PlainMoved

\* Effects are finished; the entry of an approval goes with it, or its call is
\* closed.
LEMMA PlainFinished ==
  ASSUME Base, NEW E, effects' = Finish(effects, E),
         \A f \in EffectIds : f \notin E => routed'[f] = routed[f],
         \A f \in EffectIds : f \in E /\ effects[f].kind = "await_approval" =>
           /\ routed'[f].state = "absent" \/ calls'[effects[f].call] \in {"ok", "error"}
           /\ approvals'[effects[f].key] = None,
         \A c \in Calls : Closed(c) => Closed(c)',
         \A r \in Requests : approvals'[r] \in {approvals[r], None},
         input' \in {input, NoInput}
  PROVE  Plain
<1>0. effects \in [EffectIds -> Effects]
  BY WaitTypes
<1>1. ASSUME NEW f \in EffectIds
      PROVE  Carried(f)
  <2>1. CASE f \in E
    <3>1. Same(f) /\ ~Pending(f)'
      BY <1>0, <2>1 DEF Finish, Same, Pending, Effects
    <3>2. calls'[effects[f].call] \in {"ok", "error"} => Closed(effects[f].call)'
      BY <3>1 DEF Closed, Same
    <3>. QED
      BY <2>1, <3>1, <3>2 DEF Carried
  <2>2. CASE f \notin E
    <3>1. effects'[f] = effects[f] /\ routed'[f] = routed[f]
      BY <2>2 DEF Finish
    <3>. QED
      BY <3>1 DEF Carried, Same, Pending
  <2>. QED
    BY <2>1, <2>2
<1>. QED
  BY <1>1 DEF Plain

\* What an accepted result does to the registry when it requests nothing.
LEMMA AcceptedRouted ==
  ASSUME Base, NEW e \in EffectIds, NEW first, ResolveAccepted(e, first),
         UNCHANGED nextEffect
  PROVE  \A f \in EffectIds : routed'[f] = IF f = e THEN Absent ELSE routed[f]
<1>0. routed \in [EffectIds -> Entries] /\ nextEffect \in Nat
  BY WaitTypes
<1>1. \A f \in EffectIds : ~(nextEffect < f /\ f <= nextEffect')
  BY <1>0 DEF EffectIds
<1>. QED
  BY <1>0, <1>1 DEF ResolveAccepted, Dispatch

\* An effect that is aborted is finished alone.
LEMMA PlainEnded ==
  ASSUME Base, NEW e \in EffectIds, NEW first, ResolveAccepted(e, first),
         EffectResult(e)
  PROVE  Plain /\ UNCHANGED <<approvals, input>>
<1>1. /\ effects' = Finish(effects, {e}) /\ effects[e].kind # "await_approval"
      /\ UNCHANGED <<calls, approvals, input, nextEffect>>
  BY DEF EffectResult, workVars
<1>2. \A f \in EffectIds : routed'[f] = IF f = e THEN Absent ELSE routed[f]
  BY <1>1, AcceptedRouted
<1>3. \A c \in Calls : Closed(c) => Closed(c)'
  BY <1>1 DEF Closed
<1>. QED
  BY <1>1, <1>2, <1>3, PlainFinished DEF Absent

\* The result of a tool effect is accepted.
LEMMA PlainTool ==
  ASSUME Base, NEW e \in EffectIds, NEW first \in Proper,
         ResolveAccepted(e, first), effects[e].kind = "execute_tool"
  PROVE  Plain
<1>. DEFINE r == Retained(e, first)
            c == effects[e].call
<1>0. /\ c \in Calls /\ NoOrphanEffect
      /\ calls \in [Calls -> {"new", "open", "ok", "error"}]
  BY WaitTypes DEF Shaped, Base, RuntimeInv, IInv
<1>1. Submit(e, r) /\ r \in Proper
  BY RetainedProper DEF ResolveAccepted, Base, RuntimeInv
<1>. HIDE DEF r
<1>2. CASE r.cmd = "tool"
  <2>1. PICK failed \in BOOLEAN, changes \in BOOLEAN : ToolResult(e, c, failed, changes)
    BY <1>1, <1>2 DEF Submit
  <2>. DEFINE E == {e} \union WaitEffects(c)
  <2>2. /\ effects' = Finish(effects, E) /\ UNCHANGED nextEffect
        /\ calls' = [calls EXCEPT ![c] = IF failed THEN "error" ELSE "ok"]
        /\ approvals' = [x \in Requests |-> IF x \in Waiting(c) THEN None ELSE approvals[x]]
        /\ input' \in {input, NoInput}
    BY <2>1 DEF ToolResult
  <2>3. \A f \in EffectIds : routed'[f] = IF f = e THEN Absent ELSE routed[f]
    BY <2>2, AcceptedRouted
  <2>4. calls'[c] \in {"ok", "error"}
    BY <1>0, <2>2
  <2>5. ASSUME NEW f \in EffectIds, f \in E, effects[f].kind = "await_approval"
        PROVE  /\ calls'[effects[f].call] \in {"ok", "error"}
               /\ approvals'[effects[f].key] = None
    <3>1. f \in WaitEffects(c)
      BY <2>5
    <3>2. PICK x \in Waiting(c) : f \in FirstPending("await_approval", x)
      BY <2>5, <3>1 DEF WaitEffects, FirstPending
    <3>3. f \in PendingEffects /\ effects[f].key = x /\ approvals[x] = c
      BY <3>2 DEF FirstPending, Waiting
    <3>4. effects[f].call = c
      BY <1>0, <2>5, <3>3 DEF NoOrphanEffect
    <3>5. approvals'[x] = None
      BY <2>2, <3>2 DEF Waiting
    <3>. QED
      BY <2>4, <3>3, <3>4, <3>5
  <2>6. \A f \in EffectIds : f \notin E => routed'[f] = routed[f]
    BY <2>3
  <2>7. \A x \in Calls : Closed(x) => Closed(x)'
    BY <1>0, <2>2 DEF Closed
  <2>8. \A x \in Requests : approvals'[x] \in {approvals[x], None}
    BY <2>2
  <2>. HIDE DEF E, c
  <2>. QED
    BY <2>2, <2>5, <2>6, <2>7, <2>8, PlainFinished
<1>3. CASE r.cmd = "abort"
  <2>1. EffectResult(e)
    BY <1>1, <1>3 DEF Submit
  <2>. QED
    BY <2>1, PlainEnded
<1>4. r.cmd \in {"tool", "abort"}
  BY <1>1 DEF Submit, ModelSampleFailed, ModelSampleAnswered, ModelSampleCalled,
              ApprovalResult, InputResult, Proper, Results
<1>. QED
  BY <1>2, <1>3, <1>4

\* The result of an input wait is accepted.
LEMMA PlainInput ==
  ASSUME Base, NEW e \in EffectIds, NEW first \in Proper,
         ResolveAccepted(e, first), effects[e].kind = "await_input"
  PROVE  /\ Plain /\ UNCHANGED approvals /\ Pending(e)
         /\ Retained(e, first).cmd = "abort" \/ input' = NoInput
<1>. DEFINE r == Retained(e, first)
<1>1. Submit(e, r) /\ r \in Proper /\ Legal(e, r)
  BY RetainedProper DEF ResolveAccepted, Base, RuntimeInv
<1>. HIDE DEF r
<1>2. CASE r.cmd = "input"
  <2>. DEFINE E == {e} \union FirstPending("await_input", r.req)
  <2>1. InputResult(e, r.req)
    BY <1>1, <1>2 DEF Submit
  <2>2. /\ effects' = Finish(effects, E) /\ input' = NoInput
        /\ UNCHANGED <<calls, approvals, nextEffect>> /\ Pending(e)
    BY <2>1 DEF InputResult, ResolveInputWait, Pending
  <2>3. \A f \in EffectIds : routed'[f] = IF f = e THEN Absent ELSE routed[f]
    BY <2>2, AcceptedRouted
  <2>4. \A f \in EffectIds : f \in E => effects[f].kind # "await_approval"
    BY DEF FirstPending
  <2>5. \A f \in EffectIds : f \notin E => routed'[f] = routed[f]
    BY <2>3
  <2>6. \A c \in Calls : Closed(c) => Closed(c)'
    BY <2>2 DEF Closed
  <2>. HIDE DEF E
  <2>. QED
    BY <2>2, <2>4, <2>5, <2>6, PlainFinished
<1>3. CASE r.cmd = "abort"
  <2>1. EffectResult(e) /\ Pending(e)
    BY <1>1, <1>3 DEF Submit, Legal
  <2>. QED
    BY <1>3, <2>1, PlainEnded DEF r
<1>4. r.cmd \in {"input", "abort"}
  BY <1>1 DEF Submit, ModelSampleFailed, ModelSampleAnswered, ModelSampleCalled,
              ApprovalResult, ToolResult, Proper, Results
<1>. QED
  BY <1>2, <1>3, <1>4

\* An approval is accepted with the result of its own request.
LEMMA PlainAnswered ==
  ASSUME Base, NEW e \in EffectIds, NEW r, ResolveAccepted(e, r),
         NEW q \in Requests, effects[e].kind = "await_approval", effects[e].key = q,
         Retained(e, r).cmd = "approval", Retained(e, r).req = q
  PROVE  /\ Plain /\ approvals' = [approvals EXCEPT ![q] = None]
         /\ UNCHANGED input
<1>0. EffectKeysUnique /\ approvals \in [Requests -> Calls \union {None}]
  BY WaitTypes DEF Base, RuntimeInv, IInv
<1>. DEFINE E == {e} \union FirstPending("await_approval", q)
<1>1. ApprovalResult(e, q, Retained(e, r).cancels)
  BY DEF ResolveAccepted, Submit
<1>2. /\ effects' = Finish(effects, E) /\ Pending(e)
      /\ approvals' = [approvals EXCEPT ![q] = None]
      /\ UNCHANGED <<calls, input, nextEffect>>
  BY <1>1 DEF ApprovalResult, Pending
<1>3. \A f \in EffectIds : f \in E => f = e
  BY <1>0, <1>2 DEF FirstPending, EffectKeysUnique, PendingEffects
<1>4. \A f \in EffectIds : routed'[f] = IF f = e THEN Absent ELSE routed[f]
  BY <1>2, AcceptedRouted
<1>5. /\ \A f \in EffectIds : f \notin E => routed'[f] = routed[f]
      /\ \A f \in EffectIds : f \in E =>
           routed'[f].state = "absent" /\ approvals'[effects[f].key] = None
  BY <1>0, <1>2, <1>3, <1>4 DEF Absent
<1>6. \A c \in Calls : Closed(c) => Closed(c)'
  BY <1>2 DEF Closed
<1>7. \A x \in Requests : approvals'[x] \in {approvals[x], None}
  BY <1>0, <1>2
<1>. HIDE DEF E
<1>. QED
  BY <1>2, <1>5, <1>6, <1>7, PlainFinished

\* AbortTools closes the calls that are left.
LEMMA PlainAborted ==
  ASSUME Base, AbortOpenCalls, UNCHANGED routed
  PROVE  Plain
<1>0. /\ NoOrphanEffect /\ ValidWaits
      /\ calls \in [Calls -> {"new", "open", "ok", "error"}] /\ None \notin Calls
      /\ \A e \in EffectIds : Shaped(effects[e])
  BY WaitTypes DEF Base, RuntimeInv, IInv, Valid
<1>1. /\ effects' = Finish(effects, OpenEffects)
      /\ calls' = [c \in Calls |-> IF c \in OpenCalls THEN "error" ELSE calls[c]]
      /\ approvals' = [r \in Requests |-> None] /\ UNCHANGED input
  BY DEF AbortOpenCalls
<1>2. ASSUME NEW f \in EffectIds, f \in OpenEffects, effects[f].kind = "await_approval"
      PROVE  /\ calls'[effects[f].call] \in {"ok", "error"}
             /\ approvals'[effects[f].key] = None
  <2>1. f \in PendingEffects
    BY <1>2 DEF OpenEffects
  <2>2. /\ effects[f].key \in Requests /\ effects[f].call \in Calls
        /\ approvals[effects[f].key] = effects[f].call
    BY <1>0, <1>2, <2>1 DEF NoOrphanEffect, Shaped
  <2>3. effects[f].call \in OpenCalls
    BY <1>0, <2>2 DEF ValidWaits, PendingApprovals
  <2>. QED
    BY <1>1, <2>2, <2>3
<1>3. \A c \in Calls : Closed(c) => Closed(c)'
  BY <1>0, <1>1 DEF Closed, OpenCalls
<1>4. \A r \in Requests : approvals'[r] \in {approvals[r], None}
  BY <1>1
<1>. QED
  BY <1>1, <1>2, <1>3, <1>4, PlainFinished

\* The effect findLocked finds for a pending approval is that approval's.
LEMMA OwnWait ==
  ASSUME Base, Lone, Retired, NEW r \in PendingApprovals,
         NEW e \in Find("await_approval", approvals[r])
  PROVE  e \in EffectIds /\ Pending(e) /\ effects[e].key = r
           /\ effects[e].kind = "await_approval"
<1>0. NoOrphanEffect /\ ValidWaits /\ None \notin Calls
  BY WaitTypes DEF Base, RuntimeInv, IInv, Valid
<1>1. approvals[r] \in Calls /\ calls[approvals[r]] = "open"
  BY <1>0 DEF ValidWaits, OpenCalls
<1>2. /\ e \in EffectIds /\ routed[e].state # "absent"
      /\ effects[e].kind = "await_approval" /\ effects[e].call = approvals[r]
  BY <1>0, <1>1, FindFound
<1>3. Pending(e)
  BY <1>1, <1>2 DEF Retired, Closed
<1>4. effects[e].key \in PendingApprovals /\ approvals[effects[e].key] = approvals[r]
  BY <1>0, <1>1, <1>2, <1>3 DEF NoOrphanEffect, PendingEffects, PendingApprovals
<1>. QED
  BY <1>2, <1>3, <1>4 DEF Lone

-----------------------------------------------------------------------------
(* Waits: the driver                                                        *)

\* A step of the driver that asks nothing.
LEMMA WaitQuiet ==
  ASSUME Base, OpOK, WaitInv, Lasting, Plain, Denies, UNCHANGED <<ledger, op>>,
         pc # "down", pc' # "down",
         \/ op = Free
         \/ UNCHANGED effects /\ pc' \notin {"abort_input", "abort_tools"},
         pc = "abort_tools" /\ pc' = "abort_tools" => todo = {} \/ UNCHANGED approvals
  PROVE  WaitInv'
<1>1. Denied'
  <2>. SUFFICES ASSUME pc' = "abort_tools"
                PROVE  todo' \subseteq PendingApprovals'
    BY DEF Denied
  <2>1. CASE pc = "abort_tools" /\ todo' \subseteq todo
    BY <2>1 DEF WaitInv, Denied, PendingApprovals
  <2>2. CASE todo' = {r \in Requests : approvals'[r] # None}
    BY <2>2 DEF PendingApprovals
  <2>. QED
    BY <2>1, <2>2 DEF Denies
<1>2. Calm
  BY <1>1 DEF Calm, Free
<1>. QED
  BY <1>2, WaitCalm

\* Opening the turn, sampling and answering.
LEMMA SamplingWaits ==
  ASSUME Base, OpOK, WaitInv, Lasting, TypeOK', Denies,
         \/ OpenTurn \/ ResumeSample \/ LoopFails \/ Answer
         \/ \E s \in Samples : RequestSample(s)
         \/ \E e \in EffectIds :
              \/ StartSample(e) \/ RecordProgress(e) \/ LeaveTransport(e)
              \/ \E cmd \in {"failed", "text", "calls"} : FinishSample(e, cmd)
  PROVE  WaitInv'
<1>0. \A kind \in WaitKinds : kind # "sample_provider"
  BY DEF WaitKinds
<1>1. /\ op = Free /\ UNCHANGED <<ledger, op>>
      /\ pc \notin {"abort_tools", "down"} /\ pc' # "down"
  <2>1. op = Free /\ pc \notin {"abort_tools", "down"} /\ UNCHANGED <<ledger, op>>
    BY DEF OpenTurn, ResumeSample, LoopFails, Answer, RequestSample, StartSample,
           RecordProgress, LeaveTransport, FinishSample, At, hostVars
  <2>2. pc' # "down"
    BY WhereTo DEF OpenTurn, ResumeSample, LoopFails, Answer, RequestSample, StartSample,
           RecordProgress, LeaveTransport, FinishSample
  <2>. QED
    BY <2>1, <2>2
<1>2. ASSUME Plain
      PROVE  WaitInv'
  BY <1>1, <1>2, WaitQuiet
<1>3. ASSUME UNCHANGED <<routed, workVars, effectVars>>
      PROVE  WaitInv'
  <2>1. Plain
    BY <1>3, PlainStill DEF workVars, effectVars
  <2>. QED
    BY <1>2, <2>1
<1>4. CASE OpenTurn \/ ResumeSample \/ LoopFails \/ Answer
  <2>1. UNCHANGED <<routed, workVars, effectVars>>
    BY <1>4 DEF OpenTurn, StartTurn, PreparationFinished, ResumeSample, LoopFails, Answer,
       ReleaseProvisionalOutput, DiscardProvisionalOutput, vars
  <2>. QED
    BY <1>3, <2>1
<1>5. ASSUME NEW s \in Samples, RequestSample(s)
      PROVE  WaitInv'
  <2>1. /\ RequestEffect("sample_provider", s, s) /\ Dispatch(routed)
        /\ UNCHANGED <<calls, approvals, input>>
    BY <1>5 DEF RequestSample, ModelSampleRequested, workVars
  <2>2. Moves({}, {"sample_provider"})
    BY <2>1, RequestMoves DEF Base, RuntimeInv, IInv
  <2>3. ASSUME NEW e \in EffectIds, effects[e].kind \in WaitKinds
        PROVE  routed'[e].result = routed[e].result
    <3>1. ~(nextEffect < e /\ e <= nextEffect')
      BY <2>3 DEF Base, Unissued, WaitKinds
    <3>. QED
      BY <2>1, <3>1 DEF Dispatch
  <2>4. \A e \in EffectIds : effects'[e].kind \in {"sample_provider"} =>
          effects'[e].key \notin Requests
    BY TurnRuntimeAssumption DEF TypeOK, EffectTypeOK, Shaped
  <2>5. \A c \in Calls : Closed(c) => Closed(c)'
    BY <2>1 DEF Closed
  <2>6. Plain
    BY <1>0, <2>1, <2>2, <2>3, <2>4, <2>5, PlainMoved
  <2>. QED
    BY <1>2, <2>6
<1>6. ASSUME NEW e \in EffectIds, StartSample(e)
      PROVE  WaitInv'
  BY <1>2, <1>6, PlainStarted DEF StartSample
<1>7. ASSUME NEW e \in EffectIds, RecordProgress(e)
      PROVE  WaitInv'
  BY <1>3, <1>7 DEF RecordProgress, ModelSampleProgress
<1>8. ASSUME NEW e \in EffectIds, LeaveTransport(e)
      PROVE  WaitInv'
  <2>1. /\ routed' = [routed EXCEPT ![e].state = "idle"] /\ e \in SampleEffect
        /\ effects[e].status = "running" /\ effects' = SetStatus(e, "requested")
        /\ UNCHANGED <<calls, approvals, input, nextEffect>>
    BY <1>8 DEF LeaveTransport, ProviderRetryRequested, EffectRequeued, workVars
  <2>2. effects[e].kind = "sample_provider"
    BY <2>1, FindFound DEF SampleEffect
  <2>3. Moves({"sample_provider"}, {})
    BY <2>1, <2>2, YieldMoves DEF Base, RuntimeInv, IInv
  <2>4. \A f \in EffectIds : routed'[f].result = routed[f].result
    BY <2>1, WaitTypes DEF Entries
  <2>5. \A c \in Calls : Closed(c) => Closed(c)'
    BY <2>1 DEF Closed
  <2>6. Plain
    BY <1>0, <2>1, <2>3, <2>4, <2>5, PlainMoved
  <2>. QED
    BY <1>2, <2>6
<1>9. ASSUME NEW e \in EffectIds, NEW cmd \in {"failed", "text", "calls"},
             FinishSample(e, cmd)
      PROVE  WaitInv'
  <2>1. /\ e \in SampleEffect
        /\ ResolveAccepted(e, Result(cmd)) \/ ResolveRefused(e, Result(cmd))
    BY <1>9 DEF FinishSample
  <2>2. effects[e].kind = "sample_provider" /\ Result(cmd) \in Proper
    BY <2>1, FindFound, ResultsProper DEF SampleEffect
  <2>3. Answers(e, Result(cmd))
    BY <2>2 DEF Answers, WaitKinds
  <2>4. Plain
    BY <2>1, <2>2, <2>3, PlainSampled, PlainRefused
  <2>. QED
    BY <1>2, <2>4
<1>. QED
  BY <1>4, <1>5, <1>6, <1>7, <1>8, <1>9

\* Tool batches.
LEMMA BatchWaits ==
  ASSUME Base, OpOK, WaitInv, Lasting, Denies,
         \/ AdmitBatch \/ AdmissionFails \/ StartToolFails \/ ExecuteBatch
         \/ BatchReturned \/ BatchClosed
         \/ \E c \in Calls : StartTool(c) \/ CloseTool(c)
  PROVE  WaitInv'
<1>1. CASE BatchReturned
  <2>1. /\ pc = "running" /\ pc' = "closing" /\ UNCHANGED <<routed, ledger, op>>
        /\ UNCHANGED <<effects, nextEffect, calls, approvals, input>>
    BY <1>1 DEF BatchReturned, hostVars, vars, workVars, effectVars
  <2>2. Plain
    BY <2>1, PlainStill
  <2>. QED
    BY <2>1, <2>2, WaitQuiet
<1>2. CASE AdmitBatch \/ AdmissionFails \/ StartToolFails \/ ExecuteBatch \/ BatchClosed
  <2>1. op = Free /\ pc \notin {"abort_tools", "down"} /\ UNCHANGED <<ledger, op>>
    BY <1>2 DEF AdmitBatch, AdmissionFails, StartToolFails, ExecuteBatch, BatchClosed, Launch, At, hostVars
  <2>2. pc' # "down"
    BY <1>2, WhereTo DEF AdmitBatch, AdmissionFails, StartToolFails, ExecuteBatch, BatchClosed, Launch
  <2>3. UNCHANGED <<routed, effects, nextEffect, calls, approvals, input>>
    BY <1>2 DEF AdmitBatch, AdmissionFails, StartToolFails, ExecuteBatch, BatchClosed, Launch,
       ToolBatchAdmissionRejected, vars, workVars, effectVars
  <2>4. Plain
    BY <2>3, PlainStill
  <2>. QED
    BY <2>1, <2>2, <2>4, WaitQuiet
<1>3. ASSUME NEW c \in Calls, StartTool(c) \/ CloseTool(c)
      PROVE  WaitInv'
  <2>1. /\ op = Free /\ pc \in {"starting", "closing"} /\ UNCHANGED <<pc, ledger, op>>
        /\ \E e \in ToolEffect(c) :
             \/ Start(e)
             \/ ResolveAccepted(e, Result("tool")) \/ ResolveRefused(e, Result("tool"))
    BY <1>3 DEF StartTool, CloseTool, At, hostVars
  <2>2. PICK e \in ToolEffect(c) :
             \/ Start(e)
             \/ ResolveAccepted(e, Result("tool")) \/ ResolveRefused(e, Result("tool"))
    BY <2>1
  <2>3. e \in EffectIds /\ effects[e].kind = "execute_tool" /\ Result("tool") \in Proper
    BY FindFound, ResultsProper DEF ToolEffect
  <2>4. Answers(e, Result("tool"))
    BY <2>3 DEF Answers, WaitKinds
  <2>5. Plain
    BY <2>2, <2>3, <2>4, PlainStarted, PlainTool, PlainRefused
  <2>. QED
    BY <2>1, <2>5, WaitQuiet
<1>. QED
  BY <1>1, <1>2, <1>3

-----------------------------------------------------------------------------
(* Waits: FinalizeTerminal                                                  *)

\* An abort of the input wait is refused only when its commit fails.
LEMMA AbortAnswers ==
  ASSUME Base, NEW e \in EffectIds, routed[e].state = "started", input.req # None,
         ResolveRefused(e, Result("abort")), Pending(e), routed[e].result = NoResult
  PROVE  MaxFaults # 0
<1>1. phase = "awaiting_input"
  BY DEF Base, RuntimeInv, IInv, Valid, ValidWaits
<1>2. Retained(e, Result("abort")) = Result("abort") /\ Resolvable(e, Result("abort"))
  BY DEF Retained, Resolvable
<1>3. Legal(e, Result("abort"))
  BY <1>1 DEF Legal, Result, TerminalPhases
<1>4. faults < MaxFaults
  BY <1>2, <1>3 DEF ResolveRefused
<1>5. faults \in 0 .. MaxFaults
  BY DEF Base, RuntimeTypeOK
<1>. QED
  BY <1>4, <1>5

\* The aborts, but those of the approvals.
LEMMA AbortWaits ==
  ASSUME Base, OpOK, WaitInv, Lasting, TypeOK', Denies,
         AbortInput \/ AbortSamples \/ AbortTool \/ AbortCalls \/ AbortDone
  PROVE  WaitInv'
<1>0. UNCHANGED vars => UNCHANGED <<effects, nextEffect, calls, approvals, input>>
  BY DEF vars, workVars, effectVars
<1>1. op = Free /\ pc # "down" /\ pc' # "down" /\ UNCHANGED <<ledger, op>>
  <2>1. op = Free /\ pc # "down" /\ UNCHANGED <<ledger, op>>
    BY DEF AbortInput, AbortSamples, AbortTool, AbortCalls, AbortDone, At, hostVars
  <2>2. pc' # "down"
    BY WhereTo DEF AbortInput, AbortSamples, AbortTool, AbortCalls, AbortDone
  <2>. QED
    BY <2>1, <2>2
<1>2. ASSUME Plain, pc # "abort_tools" \/ pc' # "abort_tools" \/ todo = {}
      PROVE  WaitInv'
  BY <1>1, <1>2, WaitQuiet
<1>3. CASE AbortInput
  <2>0. pc # "abort_tools"
    BY <1>3 DEF AbortInput, At
  <2>1. CASE UNCHANGED <<vars, routed>>
    BY <1>0, <1>2, <2>0, <2>1, PlainStill
  <2>2. CASE InputResolved(input.req) /\ UNCHANGED routed
    <3>. DEFINE E == {} \union FirstPending("await_input", input.req)
    <3>1. /\ effects' = Finish(effects, E) /\ input' = NoInput
          /\ UNCHANGED <<calls, approvals>>
      BY <2>2 DEF InputResolved, ResolveInputWait
    <3>2. \A f \in EffectIds : f \in E => effects[f].kind # "await_approval"
      BY DEF FirstPending
    <3>3. \A c \in Calls : Closed(c) => Closed(c)'
      BY <3>1 DEF Closed
    <3>. HIDE DEF E
    <3>4. Plain
      BY <2>2, <3>1, <3>2, <3>3, PlainFinished
    <3>. QED
      BY <1>2, <2>0, <3>4
  <2>3. ASSUME NEW e \in Find("await_input", None), input.req # None,
               \/ Start(e)
               \/ routed[e].state = "started" /\ ResolveAccepted(e, Result("abort"))
               \/ routed[e].state = "started" /\ ResolveRefused(e, Result("abort"))
        PROVE  WaitInv'
    <3>1. e \in EffectIds /\ effects[e].kind = "await_input" /\ Result("abort") \in Proper
      BY FindFound, ResultsProper
    <3>2. CASE Start(e)
      BY <1>2, <2>0, <3>1, <3>2, PlainStarted
    <3>3. CASE ResolveAccepted(e, Result("abort"))
      BY <1>2, <2>0, <3>1, <3>3, PlainInput
    <3>4. CASE routed[e].state = "started" /\ ResolveRefused(e, Result("abort"))
      <4>1. Pending(e) /\ routed[e].result = NoResult => Answers(e, Result("abort"))
        BY <2>3, <3>1, <3>4, AbortAnswers DEF Answers
      <4>. QED
        BY <1>2, <2>0, <3>1, <3>4, <4>1, PlainRefused
    <3>. QED
      BY <2>3, <3>2, <3>3, <3>4
  <2>. QED
    BY <1>3, <2>1, <2>2, <2>3 DEF AbortInput
<1>4. CASE AbortSamples
  <2>0. pc # "abort_tools"
    BY <1>4 DEF AbortSamples, At
  <2>1. CASE UNCHANGED <<vars, routed>>
    BY <1>0, <1>2, <2>0, <2>1, PlainStill
  <2>2. ASSUME NEW e \in SampleEffect,
               \/ Start(e) \/ ResolveAccepted(e, Result("failed"))
               \/ ResolveRefused(e, Result("failed"))
        PROVE  WaitInv'
    <3>1. /\ e \in EffectIds /\ effects[e].kind = "sample_provider"
          /\ Result("failed") \in Proper
      BY FindFound, ResultsProper DEF SampleEffect
    <3>2. Answers(e, Result("failed"))
      BY <3>1 DEF Answers, WaitKinds
    <3>3. Plain
      BY <2>2, <3>1, <3>2, PlainStarted, PlainSampled, PlainRefused
    <3>. QED
      BY <1>2, <2>0, <3>3
  <2>. QED
    BY <1>4, <2>1, <2>2 DEF AbortSamples
<1>5. CASE AbortTool
  <2>1. PICK e \in Find("execute_tool", None) :
          \/ Start(e) \/ ResolveAccepted(e, Result("abort"))
          \/ ResolveRefused(e, Result("abort"))
    BY <1>5 DEF AbortTool
  <2>2. /\ e \in EffectIds /\ effects[e].kind = "execute_tool"
        /\ Result("abort") \in Proper
    BY FindFound, ResultsProper
  <2>3. Answers(e, Result("abort"))
    BY <2>2 DEF Answers, WaitKinds
  <2>4. Plain
    BY <2>1, <2>2, <2>3, PlainStarted, PlainTool, PlainRefused
  <2>5. todo = {}
    BY <1>5 DEF AbortTool
  <2>. QED
    BY <1>2, <2>4, <2>5
<1>6. CASE AbortCalls
  BY <1>2, <1>6, PlainAborted DEF AbortCalls
<1>7. CASE AbortDone
  <2>1. UNCHANGED <<vars, routed>> /\ pc' # "abort_tools"
    BY <1>7, WhereTo DEF AbortDone
  <2>. QED
    BY <1>0, <1>2, <2>1, PlainStill
<1>. QED
  BY <1>3, <1>4, <1>5, <1>6, <1>7

\* AbortTools denies an approval on its own effect.
LEMMA DenyWaits ==
  ASSUME Base, OpOK, WaitInv, Lasting, NEW r \in Requests, AbortApproval(r)
  PROVE  WaitInv'
<1>. DEFINE denied == [cmd |-> "approval", req |-> r, cancels |-> FALSE]
<1>0. /\ Lone /\ Retired /\ Asked /\ AskedOnce /\ Owned /\ ValidWaits
      /\ approvals \in [Requests -> Calls \union {None}]
  BY WaitTypes DEF WaitInv, Base, RuntimeInv, IInv, Valid
<1>1. /\ pc = "abort_tools" /\ r \in todo /\ r \in PendingApprovals
      /\ todo \subseteq PendingApprovals
      /\ op.method # "require" /\ UNCHANGED ledger
  BY DEF AbortApproval, WaitInv, Denied, Midway
<1>2. AskedBy(r) = approvals[r]
  <2>1. approvals[r] \in Calls /\ r \in RequestsOf(approvals[r])
    BY <1>0, <1>1 DEF Asked, ValidWaits, OpenCalls
  <2>2. \A c \in Calls : r \in RequestsOf(c) => c = approvals[r]
    BY <1>0, <2>1 DEF RequestsOf, AskedOnce
  <2>. QED
    BY <2>1, <2>2 DEF AskedBy
<1>3. ASSUME Plain, Denied', pc' # "down", op'.method \in {"none", "abort"}
      PROVE  WaitInv'
  <2>1. Calm
    BY <1>1, <1>3 DEF Calm
  <2>. QED
    BY <1>3, <2>1, WaitCalm
<1>4. op'.method \in {"none", "abort"}
  BY DEF AbortApproval, Free
<1>5. CASE UNCHANGED <<vars, routed>> /\ FinalizeFailed
  <2>1. UNCHANGED <<effects, nextEffect, calls, approvals, input>>
    BY <1>5 DEF vars, workVars, effectVars
  <2>2. pc' \notin {"abort_tools", "down"}
    BY <1>5, WhereTo
  <2>. QED
    BY <1>3, <1>4, <1>5, <2>1, <2>2, PlainStill DEF Denied
<1>6. ASSUME NEW e \in Find("await_approval", AskedBy(r)),
             \/ Start(e) /\ Goto("abort_tools")
             \/ /\ ResolveAccepted(e, denied)
                /\ todo' = todo \ {r} /\ UNCHANGED pc
             \/ ResolveRefused(e, denied) /\ FinalizeFailed
      PROVE  WaitInv'
  <2>1. /\ e \in EffectIds /\ Pending(e) /\ effects[e].key = r
        /\ effects[e].kind = "await_approval"
    BY <1>0, <1>1, <1>2, OwnWait
  <2>2. CASE Start(e) /\ Goto("abort_tools")
    <3>1. Plain /\ UNCHANGED approvals
      BY <2>1, <2>2, PlainStarted
    <3>2. pc' = "abort_tools" /\ todo' = todo
      BY <2>2 DEF Goto
    <3>3. Denied'
      BY <1>1, <3>1, <3>2 DEF Denied, PendingApprovals
    <3>. QED
      BY <1>3, <1>4, <3>1, <3>2, <3>3
  <2>3. CASE ResolveAccepted(e, denied) /\ todo' = todo \ {r} /\ UNCHANGED pc
    <3>1. Retained(e, denied).cmd = "approval" /\ Retained(e, denied).req = r
      <4>1. Answers(e, routed[e].result)
        BY <1>0, <2>1 DEF Owned
      <4>2. routed[e].result # NoResult =>
              routed[e].result.cmd = "approval" /\ routed[e].result.req = r
        BY <2>1, <4>1 DEF Answers, WaitKinds
      <4>. QED
        BY <4>2 DEF Retained
    <3>. HIDE DEF denied
    <3>2. Plain /\ approvals' = [approvals EXCEPT ![r] = None]
      BY <2>1, <2>3, <3>1, PlainAnswered
    <3>3. Denied'
      BY <1>0, <1>1, <2>3, <3>2 DEF Denied, PendingApprovals
    <3>. QED
      BY <1>1, <1>3, <1>4, <2>3, <3>2, <3>3
  <2>4. CASE ResolveRefused(e, denied) /\ FinalizeFailed
    <3>1. Answers(e, denied)
      BY <2>1 DEF Answers
    <3>. HIDE DEF denied
    <3>2. Plain
      BY <2>1, <2>4, <3>1, PlainRefused
    <3>3. pc' \notin {"abort_tools", "down"}
      BY <2>4, WhereTo
    <3>. QED
      BY <1>3, <1>4, <3>2, <3>3 DEF Denied
  <2>. QED
    BY <1>6, <2>2, <2>3, <2>4
<1>. QED
  BY <1>5, <1>6 DEF AbortApproval

\* The terminal transaction and its journal.
LEMMA TerminalWaits ==
  ASSUME Base, OpOK, WaitInv, Lasting, Denies,
         DiscardOutput \/ RequestTerminal \/ RunJournal \/ EndTurn
  PROVE  WaitInv'
<1>0. /\ op = Free /\ UNCHANGED <<ledger, op>>
      /\ pc \notin {"abort_tools", "down"} /\ pc' # "down"
  BY WhereTo DEF DiscardOutput, RequestTerminal, RunJournal, EndTurn, At, hostVars
<1>1. ASSUME Plain
      PROVE  WaitInv'
  BY <1>0, <1>1, WaitQuiet
<1>2. \A d : \A kind \in WaitKinds : kind # JournalEffect(d)
  BY JournalEffects DEF WaitKinds, JournalKinds
<1>3. CASE DiscardOutput \/ EndTurn
  <2>1. UNCHANGED <<routed, effects, nextEffect, calls, approvals, input>>
    BY <1>3 DEF DiscardOutput, EndTurn, DiscardProvisionalOutput, FinishTerminal, vars,
       effectVars, workVars
  <2>. QED
    BY <1>1, <2>1, PlainStill
<1>4. CASE RequestTerminal
  <2>1. /\ UNCHANGED <<calls, approvals, input>> /\ Dispatch(routed)
        /\ \/ RequestEffect(JournalEffect(want), None, None)
           \/ UNCHANGED <<effects, nextEffect>>
    BY <1>4 DEF RequestTerminal, TerminalRequested, workVars, effectVars
  <2>2. CASE RequestEffect(JournalEffect(want), None, None)
    <3>1. /\ Moves({}, {JournalEffect(want)})
          /\ \A e \in EffectIds : nextEffect < e /\ e <= nextEffect' =>
               effects'[e] = NewEffect(JournalEffect(want), None, None)
          /\ \A e \in EffectIds : ~(nextEffect < e /\ e <= nextEffect') => Stays(e)
      BY <2>1, <2>2, RequestMoves DEF Base, RuntimeInv, IInv
    <3>2. ASSUME NEW e \in EffectIds, effects[e].kind \in WaitKinds
          PROVE  routed'[e].result = routed[e].result
      <4>1. ~(nextEffect < e /\ e <= nextEffect')
        BY <3>2 DEF Base, Unissued, WaitKinds
      <4>. QED
        BY <2>1, <4>1 DEF Dispatch
    <3>3. ASSUME NEW e \in EffectIds, nextEffect < e
          PROVE  effects'[e].key \notin Requests
      <4>1. effects[e].key = None
        BY <3>3 DEF Base, Unissued
      <4>2. effects'[e].key = None
        BY <3>1, <3>3, <4>1 DEF Stays, NewEffect
      <4>. QED
        BY <4>2, WaitTypes
    <3>4. \A c \in Calls : Closed(c) => Closed(c)'
      BY <2>1 DEF Closed
    <3>5. Plain
      BY <1>2, <2>1, <3>1, <3>2, <3>3, <3>4, PlainMoved
    <3>. QED
      BY <1>1, <3>5
  <2>3. CASE UNCHANGED <<effects, nextEffect>>
    <3>1. \A e \in EffectIds : ~(nextEffect < e /\ e <= nextEffect')
      BY <2>3, WaitTypes DEF EffectIds
    <3>2. routed' = routed
      BY <2>1, <3>1, WaitTypes DEF Dispatch
    <3>. QED
      BY <1>1, <2>1, <2>3, <3>2, PlainStill
  <2>. QED
    BY <2>1, <2>2, <2>3
<1>5. CASE RunJournal
  <2>1. PICK e \in PendingEffects :
          \/ Start(e)
          \/ JournalResult(e, TRUE) /\ routed' = [routed EXCEPT ![e] = Absent]
          \/ JournalResult(e, FALSE)
               /\ routed' = [routed EXCEPT ![e].state = "idle"]
          \/ UNCHANGED <<vars, routed>>
    BY <1>5 DEF RunJournal
  <2>7. CASE UNCHANGED <<vars, routed>>
    <3>1. UNCHANGED <<routed, effects, nextEffect, calls, approvals, input>>
      BY <2>7 DEF vars, effectVars, workVars
    <3>. QED
      BY <1>1, <3>1, PlainStill
  <2>2. e \in EffectIds
    BY DEF PendingEffects
  <2>3. CASE Start(e)
    BY <1>1, <2>2, <2>3, PlainStarted
  <2>4. ASSUME NEW b \in BOOLEAN, JournalResult(e, b)
        PROVE  /\ UNCHANGED <<calls, approvals, input, nextEffect>>
               /\ effects[e].kind \notin WaitKinds /\ effects[e].status = "running"
               /\ effects' = IF b THEN Finish(effects, {e}) ELSE SetStatus(e, "requested")
               /\ \A c \in Calls : Closed(c) => Closed(c)'
    BY <1>2, <2>4 DEF JournalResult, workVars, Closed
  <2>5. CASE JournalResult(e, TRUE) /\ routed' = [routed EXCEPT ![e] = Absent]
    <3>1. /\ \A f \in EffectIds : f \notin {e} => routed'[f] = routed[f]
          /\ \A f \in EffectIds : f \in {e} => effects[f].kind # "await_approval"
      BY <2>4, <2>5, WaitTypes DEF WaitKinds
    <3>2. effects' = Finish(effects, {e})
      BY <2>4, <2>5
    <3>3. Plain
      BY <2>4, <2>5, <3>1, <3>2, PlainFinished
    <3>. QED
      BY <1>1, <3>3
  <2>6. CASE JournalResult(e, FALSE)
               /\ routed' = [routed EXCEPT ![e].state = "idle"]
    <3>. DEFINE M == {effects[e].kind}
    <3>1. Moves(M, {})
      BY <2>2, <2>4, <2>6, YieldMoves DEF Base, RuntimeInv, IInv
    <3>2. \A f \in EffectIds : routed'[f].result = routed[f].result
      BY <2>6, WaitTypes DEF Entries
    <3>3. /\ \A kind \in WaitKinds : kind \notin M
          /\ UNCHANGED <<calls, approvals, input>>
          /\ \A c \in Calls : Closed(c) => Closed(c)'
      BY <2>4, <2>6
    <3>. HIDE DEF M
    <3>4. Plain
      BY <3>1, <3>2, <3>3, PlainMoved
    <3>. QED
      BY <1>1, <3>4
  <2>. QED
    BY <2>1, <2>3, <2>5, <2>6, <2>7
<1>. QED
  BY <1>3, <1>4, <1>5

-----------------------------------------------------------------------------
(* Waits: executors that ask                                                *)

\* A step of an executor, a user or a timer that changes what is known of one
\* request.
LEMMA WaitHost ==
  ASSUME Base, OpOK, WaitInv, Lasting, UNCHANGED <<vars, routed, turnVars, op>>,
         NEW r \in Requests, \A x \in Requests : x # r => ledger'[x] = ledger[x],
         \/ ledger'[r] = ledger[r]
         \/ /\ pc # "down" /\ ledger'[r] \notin {"none", "resumed"}
            /\ ledger[r] = "none" => ~Fresh(r)
            /\ ledger'[r] = "closed" => approvals[r] = None \/ Unwaited(r)'
  PROVE  WaitInv'
<1>1. UNCHANGED <<effects, nextEffect, calls, approvals, input, pc, todo>>
  BY DEF vars, workVars, effectVars, turnVars
<1>2. Plain
  BY <1>1, PlainStill
<1>3. pc = "down" => \A x \in Requests : ledger'[x] = ledger[x]
  OBVIOUS
<1>4. Denied'
  BY <1>1 DEF WaitInv, Denied, PendingApprovals
<1>5. Calm
  BY <1>1, <1>3, <1>4 DEF Calm, WaitInv, Midway
<1>. QED
  BY <1>2, <1>5, WaitCalm

\* A call asks; without ConcurrentAsks everything it asked before was answered.
LEMMA AskWaits ==
  ASSUME Base, OpOK, WaitInv, Lasting, ~ConcurrentAsks, NEW c \in Calls, NEW r \in Requests,
         Ask(c, r)
  PROVE  WaitInv'
<1>. DEFINE kind == IF r \in InputRequests THEN "await_input" ELSE "await_approval"
            n    == nextEffect + 1
<1>0. /\ TypeOK /\ Asked /\ Unissued /\ nextEffect \in Nat
      /\ approvals \in [Requests -> Calls \union {None}]
      /\ None \notin Requests /\ None \notin Calls
  BY WaitTypes DEF Base, RuntimeInv, IInv
<1>1. /\ RequestEffect(kind, r, c) /\ Dispatch(routed) /\ op = Free
      /\ tools[c].at = "run" /\ Fresh(r)
      /\ UNCHANGED <<calls, pc, todo, ledger>>
      /\ op' = [method |-> "require", req |-> r, call |-> c]
  BY DEF Ask, InputRequired, ApprovalRequired, turnVars, Unlocked
<1>2. \/ UNCHANGED approvals /\ input' = [req |-> r, call |-> c]
      \/ /\ r \notin InputRequests /\ UNCHANGED input
         /\ approvals' = [approvals EXCEPT ![r] = c]
  BY DEF Ask, InputRequired, ApprovalRequired
<1>. HIDE DEF kind
<1>3. /\ n \in EffectIds /\ effects'[n] = NewEffect(kind, r, c)
      /\ routed'[n] = Idle(0)
      /\ \A e \in EffectIds : e # n => effects'[e] = effects[e] /\ routed'[e] = routed[e]
  <2>1. n \in EffectIds /\ nextEffect' = n
    BY <1>0, <1>1, RequestMoves
  <2>2. \A e \in EffectIds : nextEffect < e /\ e <= nextEffect' <=> e = n
    BY <1>0, <2>1 DEF EffectIds
  <2>3. Requested(NewEffect(kind, r, c))
    BY <1>0, <1>1, RequestRequests
  <2>. QED
    BY <1>1, <2>1, <2>2, <2>3 DEF Requested, Dispatch
<1>. HIDE DEF n
<1>4. /\ effects'[n].key = r /\ effects'[n].call = c /\ effects'[n].status = "requested"
      /\ routed'[n].result = NoResult
  BY <1>3 DEF NewEffect, Idle
<1>5. pc = "running" /\ ledger[r] = "none"
  BY <1>1 DEF Base, Batches, Idling, WaitInv, AskedOnce
<1>6. \A q \in PendingApprovals : approvals[q] # c
  <2>. SUFFICES ASSUME NEW q \in PendingApprovals, approvals[q] = c PROVE FALSE
    OBVIOUS
  <2>1. q \in Requests /\ q \in RequestsOf(c)
    BY <1>0 DEF Asked, PendingApprovals
  <2>2. ledger[q] \in {"none", "resumed"}
    BY <2>1 DEF Ask
  <2>3. ledger[q] # "none"
    BY <1>1, <1>5 DEF WaitInv, Registered, Free
  <2>4. ledger[q] # "resumed"
    BY <2>1 DEF WaitInv, Told, PendingApprovals
  <2>. QED
    BY <2>2, <2>3, <2>4
<1>7. Lone'
  BY <1>0, <1>2, <1>6 DEF WaitInv, Lone, PendingApprovals
<1>8. Owned'
  <2>. SUFFICES ASSUME NEW e \in EffectIds, Pending(e)'
                PROVE  Answers(e, routed[e].result)'
    BY DEF Owned
  <2>1. CASE e = n
    BY <1>4, <2>1 DEF Answers
  <2>2. CASE e # n
    BY <1>3, <2>2 DEF WaitInv, Owned, Answers, Pending
  <2>. QED
    BY <2>1, <2>2
<1>9. Registered'
  BY <1>0, <1>1, <1>2, <1>5 DEF WaitInv, Registered, PendingApprovals, Free
<1>10. AskedOnce'
  <2>1. \A e \in EffectIds : effects[e].key # r
    BY <1>1 DEF Fresh
  <2>2. ASSUME NEW e \in EffectIds, NEW f \in EffectIds,
               effects'[e].key = effects'[f].key, effects'[e].key \in Requests
        PROVE  e = f
    BY <1>3, <1>4, <2>1, <2>2 DEF WaitInv, AskedOnce
  <2>3. \A x \in Requests : ~Fresh(x) \/ x = r => ~Fresh(x)'
    <3>1. effects[n].key = None
      <4>1. nextEffect < n
        BY <1>0 DEF n
      <4>. QED
        BY <1>0, <1>3, <4>1 DEF Unissued
    <3>. QED
      BY <1>0, <1>3, <1>4, <3>1 DEF Fresh
  <2>4. \A x \in Requests :
          ledger'[x] # "none" \/ input'.req = x \/ (op'.method = "require" /\ op'.req = x)
            => ~Fresh(x) \/ x = r
    BY <1>1, <1>2 DEF WaitInv, AskedOnce
  <2>. QED
    BY <2>2, <2>3, <2>4 DEF AskedOnce
<1>11. Midway'
  <2>1. \A e \in EffectIds : effects'[e].key = r => e = n
    BY <1>1, <1>3 DEF Fresh
  <2>2. r \in PendingApprovals' => approvals'[r] = c
    <3>1. approvals[r] = None
      <4>1. \A x \in Requests : x \in PendingApprovals => ~Fresh(x)
        BY <1>0 DEF Asked, RequestsOf, Fresh
      <4>. QED
        BY <1>1, <4>1 DEF PendingApprovals
    <3>. QED
      BY <1>0, <1>2, <3>1 DEF PendingApprovals
  <2>. QED
    BY <1>1, <1>4, <1>5, <2>1, <2>2 DEF Midway
<1>12. Denied'
  BY <1>1, <1>5 DEF Denied
<1>13. Retired'
  <2>. SUFFICES ASSUME NEW e \in EffectIds, effects'[e].kind = "await_approval",
                       routed'[e].state # "absent", ~Closed(effects[e].call)'
                PROVE  Pending(e)'
    BY DEF Retired
  <2>1. CASE e = n
    BY <1>4, <2>1 DEF Pending
  <2>2. CASE e # n
    BY <1>1, <1>3, <2>2 DEF WaitInv, Retired, Pending, Closed
  <2>. QED
    BY <2>1, <2>2
<1>14. Told'
  BY <1>0, <1>1, <1>2, <1>5 DEF WaitInv, Told
<1>15. Waited'
  <2>. SUFFICES ASSUME NEW x \in Requests, approvals'[x] # None
                PROVE  \E e \in EffectIds : /\ Pending(e)' /\ effects'[e].key = x
                                            /\ effects'[e].kind = "await_approval"
    BY DEF Waited, PendingApprovals
  <2>1. CASE approvals[x] # None
    <3>1. PICK e \in EffectIds :
            Pending(e) /\ effects[e].kind = "await_approval" /\ effects[e].key = x
      BY <2>1 DEF WaitInv, Waited, PendingApprovals
    <3>2. e # n
      BY <1>0, <3>1 DEF Unissued, n
    <3>. QED
      BY <1>3, <3>1, <3>2 DEF Pending
  <2>2. CASE approvals[x] = None
    <3>1. x = r /\ r \notin InputRequests
      BY <1>0, <1>2, <2>2
    <3>2. effects'[n].kind = "await_approval"
      BY <1>3, <3>1 DEF NewEffect, kind
    <3>. QED
      BY <1>3, <1>4, <3>1, <3>2 DEF Pending
  <2>. QED
    BY <2>1, <2>2
<1>16. Answered'
  <2>. SUFFICES ASSUME MaxFaults = 0, NEW x \in Requests, approvals'[x] # None,
                       ledger'[x] = "closed"
                PROVE  cancel' # "none" \/ Unwaited(x)'
    BY DEF Answered, PendingApprovals
  <2>1. x \in PendingApprovals
    BY <1>0, <1>1, <1>2, <1>5 DEF PendingApprovals
  <2>2. Unwaited(x) => Unwaited(x)'
    BY DEF Unwaited, Lasting, Joins
  <2>. QED
    BY <1>1, <2>1, <2>2 DEF WaitInv, Answered, Lasting, Lasts
<1>. QED
  BY <1>7, <1>8, <1>9, <1>10, <1>11, <1>12, <1>13, <1>14, <1>15, <1>16 DEF WaitInv

\* The wait of a request that was asked is started and registered, or the request
\* is left behind.
LEMMA RequiredWaits ==
  ASSUME Base, OpOK, WaitInv, Lasting, ~ConcurrentAsks, Required \/ RequiredFails
  PROVE  WaitInv'
<1>. DEFINE r == op.req
<1>0. /\ op.method = "require" /\ r \in Requests /\ op.call \in Calls /\ op' = Free
      /\ UNCHANGED <<pc, todo>> /\ pc # "down" /\ ledger \in Ledgers
  BY DEF Required, RequiredFails, OpOK, turnVars, WaitInv, Midway, Base, RuntimeTypeOK,
         Ledgers
<1>1. ASSUME Required
      PROVE  \E e \in WaitEffect(r, op.call) :
               \/ Start(e) /\ Wait(op.call, r)
               \/ ~CanStart(e) /\ UNCHANGED <<vars, routed, tools, ledger>>
  BY <1>1 DEF Required
<1>2. \A e \in WaitEffect(r, op.call) : e \in EffectIds
  BY WaitFound
<1>. HIDE DEF r
<1>3. ASSUME Plain, UNCHANGED approvals,
             \A x \in Requests : x # r => ledger'[x] = ledger[x],
             \/ ledger'[r] \in {"asked", "recovered"}
             \/ /\ ledger'[r] = ledger[r]
                /\ approvals[r] = None \/ ledger[r] # "none"
      PROVE  WaitInv'
  <2>1. Denied'
    BY <1>0, <1>3 DEF WaitInv, Denied, PendingApprovals
  <2>2. ~Fresh(r)
    BY <1>0 DEF WaitInv, AskedOnce, r
  <2>3. Calm
    BY <1>0, <1>3, <2>1, <2>2 DEF Calm, Free, r
  <2>. QED
    BY <1>3, <2>3, WaitCalm
<1>4. ASSUME NEW e \in WaitEffect(r, op.call), Start(e) /\ Wait(op.call, r)
      PROVE  WaitInv'
  <2>1. Plain /\ UNCHANGED approvals
    BY <1>2, <1>4, PlainStarted
  <2>2. ledger' = [ledger EXCEPT ![r] = "asked"]
    BY <1>4 DEF Wait
  <2>. QED
    BY <1>0, <1>3, <2>1, <2>2 DEF Ledgers
<1>5. ASSUME NEW e \in WaitEffect(r, op.call),
             ~CanStart(e) /\ UNCHANGED <<vars, routed, tools, ledger>>
      PROVE  WaitInv'
  <2>1. UNCHANGED <<effects, nextEffect, calls, approvals, input>>
    BY <1>5 DEF vars, workVars, effectVars
  <2>2. approvals[r] = None
    <3>. SUFFICES ASSUME approvals[r] # None PROVE FALSE
      OBVIOUS
    <3>1. r \in PendingApprovals /\ r \notin InputRequests
      BY <1>0 DEF PendingApprovals, WaitInv, Registered
    <3>2. approvals[r] = op.call
      BY <1>0, <3>1 DEF WaitInv, Midway, r
    <3>3. e \in Find("await_approval", approvals[r])
      BY <1>5, <3>1, <3>2 DEF WaitEffect, WaitKind
    <3>4. Pending(e) /\ effects[e].key = r /\ effects[e].kind = "await_approval"
      BY <3>1, <3>3, OwnWait DEF WaitInv
    <3>5. effects[e].status = "requested"
      BY <1>0, <1>2, <3>4 DEF WaitInv, Midway, r
    <3>6. routed[e].state = "idle"
      BY <1>0, <1>2, <3>4, <3>5 DEF Base, RegistryCovers, PendingEffects
    <3>7. phase = "awaiting_approval"
      BY <3>1 DEF Base, RuntimeInv, IInv, Valid, ValidWaits
    <3>. QED
      BY <1>5, <3>4, <3>5, <3>6, <3>7 DEF CanStart, StartLegal, TerminalPhases
  <2>3. Plain
    BY <1>5, <2>1, PlainStill
  <2>. QED
    BY <1>3, <1>5, <2>1, <2>2, <2>3
<1>6. CASE RequiredFails
  <2>1. /\ UNCHANGED <<effects, nextEffect, calls, approvals, input, routed>>
        /\ ledger' = [ledger EXCEPT ![r] = "recovered"]
    BY <1>6 DEF RequiredFails, vars, workVars, effectVars, r
  <2>2. Plain
    BY <2>1, PlainStill
  <2>. QED
    BY <1>0, <1>3, <2>1, <2>2 DEF Ledgers
<1>. QED
  BY <1>1, <1>4, <1>5, <1>6

\* What a request that is being answered says of the mutex and of the driver.
LEMMA AnsweringFacts ==
  ASSUME Base, OpOK, WaitInv, NEW r \in Requests, Answering(r),
         Unlocked \/ (op.method = "resolve" /\ op.req = r)
  PROVE  /\ op.method \in {"none", "resolve"} /\ pc # "down"
         /\ pc \notin {"abort_input", "abort_tools"}
         /\ ledger[r] # "none" /\ ledger \in Ledgers
  BY DEF Answering, Unlocked, Free, WaitInv, Midway, Base, RuntimeTypeOK, Ledgers

\* A restored wait is started before it is answered.
LEMMA StartsWaits ==
  ASSUME Base, OpOK, WaitInv, Lasting, NEW r \in Requests, ResolveStarts(r)
  PROVE  WaitInv'
<1>1. /\ op.method # "require" /\ pc # "down" /\ pc \notin {"abort_input", "abort_tools"}
      /\ UNCHANGED <<ledger, pc>> /\ op'.method = "resolve"
  BY AnsweringFacts DEF ResolveStarts, turnVars
<1>2. PICK e \in WaitEffect(r, CallOf(r)) : Start(e)
  BY DEF ResolveStarts
<1>3. Plain
  BY <1>2, WaitFound, PlainStarted
<1>4. Calm
  BY <1>1 DEF Calm, Denied
<1>. QED
  BY <1>3, <1>4, WaitCalm

\* An answer is committed, or not.
LEMMA AnswerWaits ==
  ASSUME Base, OpOK, WaitInv, Lasting, NEW r \in Requests, ResolveWait(r)
  PROVE  WaitInv'
<1>. DEFINE answer == WaitResult(r)
<1>0. /\ op.method # "require" /\ pc # "down" /\ pc \notin {"abort_input", "abort_tools"}
      /\ UNCHANGED pc /\ op' = Free /\ ledger[r] # "none" /\ ledger \in Ledgers
      /\ StillPending(r)
  BY AnsweringFacts DEF ResolveWait, turnVars
<1>1. /\ Lone /\ Retired /\ Owned /\ ValidWaits /\ NoOrphanEffect
      /\ approvals \in [Requests -> Calls \union {None}] /\ None \notin Requests
      /\ NoInput.req = None
  BY WaitTypes DEF WaitInv, Base, RuntimeInv, IInv, Valid
<1>2. PICK e \in WaitEffect(r, CallOf(r)) :
        /\ routed[e].state = "started"
        /\ \/ ResolveAccepted(e, answer) /\ AnswerDone(r, TRUE)
           \/ ResolveRefused(e, answer) /\ AnswerDone(r, FALSE)
  BY DEF ResolveWait
<1>3. /\ e \in EffectIds /\ effects[e].kind = WaitKind(r)
      /\ answer.cmd = IF r \in InputRequests THEN "input" ELSE "approval"
      /\ answer.req = r
  BY <1>2, FindFound DEF WaitEffect, WaitResult
<1>4. answer \in Proper
  BY TurnRuntimeAssumption DEF WaitResult, Proper, Results
<1>5. r \notin InputRequests => Pending(e) /\ effects[e].key = r
  BY <1>0, <1>1, <1>2, OwnWait
  DEF StillPending, CallOf, WaitEffect, WaitKind, PendingApprovals
<1>6. r \in InputRequests => input.req = r /\ approvals[r] = None
  BY <1>0, <1>1 DEF StillPending, ValidWaits, PendingApprovals
<1>7. r \in InputRequests /\ Pending(e) => effects[e].key = r
  BY <1>1, <1>3, <1>6 DEF NoOrphanEffect, PendingEffects, WaitKind
<1>8. Answers(e, answer) \/ ~Pending(e)
  BY <1>3, <1>5, <1>7 DEF Answers, WaitKind
<1>. HIDE DEF answer
<1>9. ASSUME Plain,
             \/ /\ ledger' = [ledger EXCEPT ![r] = "closed"]
                /\ approvals'[r] = None \/ (MaxFaults = 0 => cancel # "none")
             \/ /\ ledger' = [ledger EXCEPT ![r] = "resumed"]
                /\ approvals'[r] = None /\ (MaxFaults = 0 => input'.req # r)
      PROVE  WaitInv'
  <2>1. \A x \in Requests : x # r => ledger'[x] = ledger[x]
    BY <1>0, <1>9 DEF Ledgers
  <2>2. \/ /\ ledger'[r] = "closed"
           /\ approvals'[r] = None \/ (MaxFaults = 0 => cancel # "none")
        \/ /\ ledger'[r] = "resumed"
           /\ approvals'[r] = None /\ (MaxFaults = 0 => input'.req # r)
    BY <1>0, <1>9 DEF Ledgers
  <2>3. Calm
    BY <1>0, <2>1, <2>2 DEF Calm, Denied, Free
  <2>. QED
    BY <1>9, <2>3, WaitCalm
<1>10. CASE ResolveRefused(e, answer) /\ AnswerDone(r, FALSE)
  <2>1. Plain
    BY <1>3, <1>8, <1>10, PlainRefused
  <2>2. ledger' = [ledger EXCEPT ![r] = "closed"]
    BY <1>10 DEF AnswerDone
  <2>3. r \in InputRequests => approvals'[r] = None
    BY <1>6, <2>1 DEF Plain
  <2>4. r \notin InputRequests /\ MaxFaults = 0 => cancel # "none"
    <3>. SUFFICES ASSUME r \notin InputRequests, MaxFaults = 0 PROVE cancel # "none"
      OBVIOUS
    <3>1. /\ effects[e].kind = "await_approval" /\ effects[e].key = r /\ Pending(e)
          /\ answer.cmd = "approval"
      BY <1>3, <1>5 DEF WaitKind
    <3>2. Retained(e, answer).cmd = "approval" /\ Retained(e, answer).req = r
      BY <1>1, <1>3, <3>1 DEF Owned, Answers, WaitKinds, Retained
    <3>3. ~Legal(e, Retained(e, answer))
      <4>1. faults \in 0 .. MaxFaults /\ MaxFaults \in Nat
        BY TurnRuntimeAssumption DEF Base, RuntimeTypeOK
      <4>2. Resolvable(e, answer)
        BY <1>2 DEF Resolvable
      <4>. QED
        BY <1>10, <4>1, <4>2 DEF ResolveRefused
    <3>4. phase = "awaiting_approval" /\ approvals[r] # None
      BY <1>0, <1>1 DEF StillPending, ValidWaits, PendingApprovals
    <3>5. effects[e].status = "running"
      BY <1>0, <1>2, <1>3, <3>1 DEF Base, RegistryCovers, PendingEffects
    <3>. QED
      BY <3>2, <3>3, <3>4, <3>5 DEF Legal
  <2>. QED
    BY <1>9, <2>1, <2>2, <2>3, <2>4
<1>11. CASE ResolveAccepted(e, answer) /\ AnswerDone(r, TRUE)
  <2>1. \/ ledger' = [ledger EXCEPT ![r] = "closed"]
        \/ ledger' = [ledger EXCEPT ![r] = "resumed"]
    BY <1>11 DEF AnswerDone
  <2>2. CASE r \notin InputRequests
    <3>1. effects[e].kind = "await_approval" /\ effects[e].key = r /\ Pending(e)
      BY <1>3, <1>5, <2>2 DEF WaitKind
    <3>2. Retained(e, answer).cmd = "approval" /\ Retained(e, answer).req = r
      <4>1. Answers(e, routed[e].result)
        BY <1>1, <1>3, <3>1 DEF Owned
      <4>2. routed[e].result # NoResult =>
              routed[e].result.cmd = "approval" /\ routed[e].result.req = r
        BY <3>1, <4>1 DEF Answers, WaitKinds
      <4>. QED
        BY <1>3, <2>2, <4>2 DEF Retained
    <3>3. Plain /\ approvals' = [approvals EXCEPT ![r] = None] /\ UNCHANGED input
      BY <1>3, <1>11, <3>1, <3>2, PlainAnswered
    <3>4. input.req = None
      BY <1>0, <1>1, <2>2 DEF StillPending, ValidWaits, PendingApprovals
    <3>5. approvals'[r] = None /\ input'.req # r
      BY <1>1, <3>3, <3>4
    <3>. QED
      BY <1>9, <2>1, <3>3, <3>5
  <2>3. CASE r \in InputRequests
    <3>1. effects[e].kind = "await_input"
      BY <1>3, <2>3 DEF WaitKind
    <3>2. /\ Plain /\ UNCHANGED approvals /\ Pending(e)
          /\ Retained(e, answer).cmd = "abort" \/ input' = NoInput
      BY <1>3, <1>4, <1>11, <3>1, PlainInput
    <3>3. MaxFaults = 0 => Retained(e, answer).cmd = "input"
      <4>1. Answers(e, routed[e].result)
        BY <1>1, <1>3, <3>2 DEF Owned
      <4>2. MaxFaults = 0 /\ routed[e].result # NoResult => routed[e].result.cmd = "input"
        BY <3>1, <4>1 DEF Answers, WaitKinds
      <4>. QED
        BY <1>3, <2>3, <4>2 DEF Retained
    <3>4. approvals'[r] = None /\ (MaxFaults = 0 => input'.req # r)
      BY <1>1, <1>6, <2>3, <3>2, <3>3
    <3>. QED
      BY <1>9, <2>1, <3>2, <3>4
  <2>. QED
    BY <2>2, <2>3
<1>. QED
  BY <1>2, <1>10, <1>11

\* A pending approval has a wait that can be started.
LEMMA FailsGone ==
  ASSUME Base, WaitInv, NEW r \in Requests, pc # "down",
         StillPending(r) =>
           \A e \in WaitEffect(r, CallOf(r)) : routed[e].state = "idle" /\ ~CanStart(e)
  PROVE  approvals[r] = None
<1>. SUFFICES ASSUME approvals[r] # None PROVE FALSE
  OBVIOUS
<1>1. r \in PendingApprovals /\ r \notin InputRequests
  BY DEF PendingApprovals, WaitInv, Registered
<1>2. PICK x \in EffectIds :
        Pending(x) /\ effects[x].kind = "await_approval" /\ effects[x].key = r
  BY <1>1 DEF WaitInv, Waited
<1>3. effects[x].call = approvals[r] /\ routed[x].state # "absent"
  BY <1>2 DEF Base, RuntimeInv, IInv, NoOrphanEffect, RegistryCovers, PendingEffects
<1>4. Find("await_approval", approvals[r]) # {}
  BY <1>2, <1>3, FindSome
<1>5. PICK e \in Find("await_approval", approvals[r]) :
        routed[e].state = "idle" /\ ~CanStart(e)
  BY <1>1, <1>4 DEF StillPending, WaitEffect, WaitKind, CallOf
<1>6. e \in EffectIds /\ Pending(e) /\ effects[e].kind = "await_approval"
  BY <1>1, OwnWait DEF WaitInv
<1>7. effects[e].status = "requested"
  BY <1>5, <1>6 DEF Base, RegistryCovers, PendingEffects, Pending
<1>8. phase = "awaiting_approval"
  BY <1>1 DEF Base, RuntimeInv, IInv, Valid, ValidWaits
<1>. QED
  BY <1>5, <1>6, <1>7, <1>8 DEF CanStart, StartLegal, TerminalPhases

\* The other steps of the executors, the users and the timers.
LEMMA HostWaits ==
  ASSUME Base, OpOK, WaitInv, Lasting,
         \/ \E c \in Calls :
              \/ \E failed \in BOOLEAN : Return(c, failed)
              \/ RejectUnresumed(c)
              \/ \E r \in Requests : AskRecovered(c, r) \/ StopWaiting(c, r)
         \/ \E r \in Requests :
              \/ Expire(r) \/ ResolveFails(r) \/ ReplyLate(r)
              \/ \E cancels \in BOOLEAN : Reply(r, cancels)
  PROVE  WaitInv'
<1>0. /\ ledger \in Ledgers /\ Asked /\ Idling /\ None \notin Calls
      /\ pc = "down" => \A r \in Requests : ledger[r] = "none"
  BY WaitTypes DEF Base, Batches, RuntimeTypeOK, Ledgers, WaitInv, Midway
<1>1. UNCHANGED <<vars, routed, turnVars, op>>
  BY DEF Return, RejectUnresumed, AskRecovered, StopWaiting, Expire, ResolveFails, ReplyLate, Reply
<1>2. ASSUME UNCHANGED ledger
      PROVE  WaitInv'
  <2>1. UNCHANGED <<effects, nextEffect, calls, approvals, input, pc, todo>>
    BY <1>1 DEF vars, workVars, effectVars, turnVars
  <2>2. Plain
    BY <1>1, <2>1, PlainStill
  <2>3. Denied'
    BY <2>1 DEF WaitInv, Denied, PendingApprovals
  <2>4. Calm
    BY <1>1, <1>2, <2>1, <2>3 DEF Calm, WaitInv, Midway
  <2>. QED
    BY <2>2, <2>4, WaitCalm
<1>3. ASSUME NEW r \in Requests,
             NEW v \in {"asked", "staged", "canceling", "expiring", "closed"},
             ledger' = [ledger EXCEPT ![r] = v],
             ledger[r] # "none" \/ (pc # "down" /\ ~Fresh(r)),
             v = "closed" => approvals[r] = None \/ Unwaited(r)'
      PROVE  WaitInv'
  <2>1. ledger'[r] = v /\ \A x \in Requests : x # r => ledger'[x] = ledger[x]
    BY <1>0, <1>3 DEF Ledgers
  <2>. QED
    BY <1>0, <1>1, <1>3, <2>1, WaitHost
<1>4. ASSUME NEW c \in Calls, \E failed \in BOOLEAN : Return(c, failed)
      PROVE  WaitInv'
  BY <1>2, <1>4 DEF Return
<1>5. ASSUME NEW c \in Calls, RejectUnresumed(c)
      PROVE  WaitInv'
  <2>1. ASSUME NEW r \in Waiting(c), ledger' = [ledger EXCEPT ![r] = "expiring"]
        PROVE  WaitInv'
    <3>1. r \in Requests /\ approvals[r] = c
      BY <2>1 DEF Waiting
    <3>2. r \in RequestsOf(c)
      BY <1>0, <3>1 DEF Asked, PendingApprovals
    <3>3. ~Fresh(r)
      BY <3>2 DEF RequestsOf, Fresh
    <3>4. pc # "down"
      BY <1>0, <1>5 DEF RejectUnresumed, Idling
    <3>. QED
      BY <1>3, <2>1, <3>1, <3>3, <3>4
  <2>. QED
    BY <1>2, <1>5, <2>1 DEF RejectUnresumed
<1>6. ASSUME NEW r \in Requests, NEW c \in Calls, AskRecovered(c, r)
      PROVE  WaitInv'
  <2>1. ledger' = [ledger EXCEPT ![r] = "asked"] /\ ledger[r] = "recovered"
    BY <1>6 DEF AskRecovered, Wait
  <2>. QED
    BY <1>3, <2>1
<1>7. ASSUME NEW r \in Requests, NEW c \in Calls, StopWaiting(c, r)
      PROVE  WaitInv'
  BY <1>2, <1>7 DEF StopWaiting
<1>8. ASSUME NEW r \in Requests,
             \/ Expire(r) \/ ResolveFails(r) \/ ReplyLate(r)
             \/ \E cancels \in BOOLEAN : Reply(r, cancels)
      PROVE  WaitInv'
  <2>1. ledger[r] # "none"
    BY <1>8 DEF Expire, ResolveFails, ReplyLate, Reply, Answering
  <2>2. CASE \E v \in {"expiring", "canceling", "staged"} :
               ledger' = [ledger EXCEPT ![r] = v]
    BY <1>3, <2>1, <2>2
  <2>3. CASE ResolveFails(r)
    <3>1. approvals[r] = None
      BY <1>0, <2>1, <2>3, FailsGone DEF ResolveFails
    <3>2. ledger' = [ledger EXCEPT ![r] = "closed"]
      BY <2>3 DEF ResolveFails, AnswerDone
    <3>. QED
      BY <1>3, <2>1, <3>1, <3>2
  <2>4. CASE ReplyLate(r)
    <3>1. Unwaited(r)' /\ ledger' = [ledger EXCEPT ![r] = "closed"]
      BY <2>4 DEF ReplyLate, Unwaited
    <3>. QED
      BY <1>3, <2>1, <3>1
  <2>. QED
    BY <1>8, <2>2, <2>3, <2>4 DEF Expire, Reply
<1>. QED
  BY <1>4, <1>5, <1>6, <1>7, <1>8

-----------------------------------------------------------------------------
(* Waits: cancellation, crashes and restarts                                *)

\* A crash forgets the waits; the durable state keeps the requests.
LEMMA CrashWaits ==
  ASSUME Base, WaitInv, Crash
  PROVE  WaitInv'
<1>1. /\ UNCHANGED <<effects, approvals, input, calls>> /\ pc' = "down" /\ op' = Free
      /\ \A e \in EffectIds : routed'[e] = Absent
      /\ \A r \in Requests : ledger'[r] = "none"
  BY DEF Crash, vars, workVars, effectVars
<1>2. Lone' /\ Registered' /\ AskedOnce'
  BY <1>1 DEF WaitInv, Lone, Registered, AskedOnce, Fresh, PendingApprovals, Free
<1>3. Owned' /\ Retired' /\ Waited'
  BY <1>1 DEF WaitInv, Owned, Retired, Answers, Absent, Waited, Pending, PendingApprovals
<1>4. Midway' /\ Denied' /\ Answered' /\ Told'
  BY <1>1 DEF Midway, Denied, Answered, Told, Free, PendingApprovals
<1>. QED
  BY <1>2, <1>3, <1>4 DEF WaitInv

\* A restart recovers the requests of the durable state.
LEMMA RestoreWaits ==
  ASSUME Base, WaitInv, Restore
  PROVE  WaitInv'
<1>0. Asked /\ pc = "down" /\ op.method = "none" /\ UNCHANGED op
  BY DEF Restore, WaitInv, Midway, Base
<1>1. /\ UNCHANGED <<effects, approvals, input, calls>>
      /\ \A e \in EffectIds :
           routed'[e] = IF Pending(e) THEN Idle(effects[e].attempt) ELSE Absent
      /\ \A r \in Requests : ledger'[r] =
           IF approvals[r] # None \/ input.req = r THEN "recovered" ELSE "none"
  BY DEF Restore, vars, workVars, effectVars
<1>2. pc' \notin {"down", "abort_tools"}
  BY WhereTo DEF Restore
<1>3. Lone' /\ Registered'
  BY <1>1 DEF WaitInv, Lone, Registered, PendingApprovals
<1>4. AskedOnce'
  <2>1. \A r \in Requests : approvals[r] # None => ~Fresh(r)
    BY <1>0 DEF Asked, PendingApprovals, RequestsOf, Fresh
  <2>. QED
    BY <1>0, <1>1, <2>1 DEF WaitInv, AskedOnce, Fresh
<1>5. Owned'
  <2>1. \A e \in EffectIds : routed'[e].result = NoResult
    <3>1. Absent.result = NoResult /\ \A n : Idle(n).result = NoResult
      BY DEF Absent, Idle
    <3>. QED
      BY <1>1, <3>1
  <2>. QED
    BY <2>1 DEF Owned, Answers
<1>6. Retired'
  BY <1>1 DEF Retired, Absent, Pending, Closed
<1>7. Midway' /\ Denied' /\ Answered' /\ Told'
  BY <1>0, <1>1, <1>2 DEF Midway, Denied, Answered, Told, PendingApprovals
<1>8. Waited'
  BY <1>1 DEF WaitInv, Waited, Pending, PendingApprovals
<1>. QED
  BY <1>3, <1>4, <1>5, <1>6, <1>7, <1>8 DEF WaitInv

\* Steps around the turn.
LEMMA OutsideWaits ==
  ASSUME Base, OpOK, WaitInv, Lasting,
         Cancel \/ CancelContext \/ CrashStep \/ Ended \/ UNCHANGED allVars
  PROVE  WaitInv'
<1>1. ASSUME Plain, UNCHANGED <<approvals, ledger, op, pc, todo>>,
             op.method = "require" => UNCHANGED effects
      PROVE  WaitInv'
  <2>1. Denied'
    BY <1>1 DEF WaitInv, Denied, PendingApprovals
  <2>2. Calm
    BY <1>1, <2>1 DEF Calm, WaitInv, Midway
  <2>. QED
    BY <1>1, <2>2, WaitCalm
<1>2. CASE Cancel \/ CancelContext \/ Ended \/ UNCHANGED allVars
  <2>1. UNCHANGED <<routed, effectVars, workVars, hostVars, turnVars>>
    BY <1>2 DEF Cancel, CancelContext, Ended, CancelRequested, allVars, vars, rtVars
  <2>2. UNCHANGED <<routed, effects, nextEffect, calls, approvals, input, ledger, op, pc,
                    todo>>
    BY <2>1 DEF effectVars, workVars, hostVars, turnVars
  <2>3. Plain
    BY <2>2, PlainStill
  <2>. QED
    BY <1>1, <2>2, <2>3
<1>3. ASSUME NEW e \in EffectIds, Requeue(e)
      PROVE  WaitInv'
  <2>1. /\ effects' = SetStatus(e, "requested") /\ effects[e].status = "running"
        /\ UNCHANGED <<routed, ledger, op, pc, todo, calls, approvals, input>>
        /\ pc = "down"
    BY <1>3 DEF Requeue, EffectRequeued, rtVars, hostVars, turnVars, workVars
  <2>2. \A f \in EffectIds : Same(f) /\ (Pending(f)' <=> Pending(f))
    BY <2>1, WaitTypes DEF SetStatus, Same, Pending, Effects
  <2>3. \A f \in EffectIds : Carried(f)
    BY <2>1, <2>2 DEF Carried
  <2>4. \A c \in Calls : Closed(c) => Closed(c)'
    BY <2>1 DEF Closed
  <2>5. Plain
    BY <2>1, <2>3, <2>4 DEF Plain
  <2>6. op.method = "none"
    BY <2>1 DEF WaitInv, Midway
  <2>. QED
    BY <1>1, <2>1, <2>5, <2>6
<1>. QED
  BY <1>2, <1>3, CrashWaits, RestoreWaits DEF CrashStep

-----------------------------------------------------------------------------
(* Waits: invariance                                                        *)

\* A new turn satisfies the invariant.
LEMMA StartWaits == RuntimeInit => WaitInv
<1>. SUFFICES ASSUME RuntimeInit PROVE WaitInv
  OBVIOUS
<1>0. None \notin Requests
  BY TurnKernelAssumption
<1>1. /\ \A e \in EffectIds : effects[e].key = None /\ routed[e] = Absent
      /\ \A r \in Requests : approvals[r] = None /\ ledger[r] = "none"
      /\ input.req = None /\ op = Free /\ pc = "open"
  BY DEF RuntimeInit, Init, NoInput
<1>2. Lone /\ Registered /\ Denied /\ Waited /\ Answered
  BY <1>1 DEF Lone, Registered, Denied, Waited, Answered, PendingApprovals
<1>3. Owned /\ Retired
  BY <1>1 DEF Owned, Answers, Retired, Absent
<1>4. AskedOnce /\ Midway /\ Told
  BY <1>0, <1>1 DEF AskedOnce, Midway, Told, Free
<1>. QED
  BY <1>2, <1>3, <1>4 DEF WaitInv

\* No command takes a cancellation back.
LEMMA CancelLasts == [Next]_vars => Lasts
<1>. SUFFICES ASSUME [Next]_vars PROVE Lasts
  OBVIOUS
<1>1. CASE SampleStep
  <2>1. PICK s \in Samples :
          \/ ModelSampleRequested(s)
          \/ \E e \in EffectIds :
               \/ ModelSampleProgress(e, s) \/ ModelSampleFailed(e, s)
               \/ \E text \in Texts : ModelSampleAnswered(e, s, text)
               \/ \E n, batch, captured : ModelSampleCalled(e, s, n, batch, captured)
               \/ ProviderRetryRequested(e, s)
    BY <1>1, Zenon DEF SampleStep
  <2>2. ASSUME NEW e, NEW n, NEW batch, NEW captured,
               ModelSampleCalled(e, s, n, batch, captured)
        PROVE  UNCHANGED cancel
    BY <2>2 DEF ModelSampleCalled, controlVars
  <2>3. ASSUME NEW e \in EffectIds,
               \/ ModelSampleProgress(e, s) \/ ModelSampleFailed(e, s)
               \/ \E text \in Texts : ModelSampleAnswered(e, s, text)
               \/ ProviderRetryRequested(e, s)
        PROVE  UNCHANGED cancel
    BY <2>3 DEF ModelSampleProgress, ModelSampleFailed, ModelSampleAnswered,
       ProviderRetryRequested, controlVars
  <2>4. ModelSampleRequested(s) => UNCHANGED cancel
    BY DEF ModelSampleRequested, controlVars
  <2>. QED
    BY <2>1, <2>2, <2>3, <2>4 DEF Lasts
<1>2. CASE EffectStep \/ ToolStep
  BY <1>2 DEF Lasts, EffectStep, ToolStep, EffectStarted, EffectRequeued, EffectResult,
     ToolCallsProposed, ToolBatchAdmissionRejected, ToolResult, AbortOpenCalls, controlVars
<1>3. CASE InteractionStep
  BY <1>3 DEF Lasts, InteractionStep, ApprovalRequired, ApprovalResult, InputRequired,
     InputResolved, InputResult, ResolveInputWait, CancelRequested, controlVars
<1>4. CASE OutputStep
  BY <1>4 DEF Lasts, OutputStep, CompletionAccepted, CompletionRefused,
     CompletionInvalidated, WorkspaceReconciled, ModelTextReceived,
     ReleaseProvisionalOutput, DiscardProvisionalOutput, BeginConvergence,
     ConvergenceFinalizationStarted, RepairDeclaration, controlVars
<1>5. CASE TerminalStep
  BY <1>5 DEF Lasts, TerminalStep, TerminalRequested, JournalResult, FinishTerminal,
     controlVars
<1>6. CASE UNCHANGED vars
  BY <1>6 DEF Lasts, vars, controlVars
<1>. QED
  BY <1>1, <1>2, <1>3, <1>4, <1>5, <1>6
  DEF Lasts, Next, StartTurn, PreparationFinished, RecoveryRequested, controlVars

\* Who begins to wait is registered with the request ledger.
LEMMA StepJoins ==
  ASSUME RuntimeTypeOK, [RuntimeNext]_allVars
  PROVE  Joins
<1>0. /\ tools \in Executors /\ ledger \in Ledgers
  BY DEF RuntimeTypeOK, Executors, Ledgers
<1>1. ASSUME UNCHANGED tools PROVE Joins
  BY <1>1 DEF Joins
<1>2. ASSUME NEW c \in Calls, NEW r, Wait(c, r) PROVE Joins
  BY <1>0, <1>2 DEF Wait, Joins, Executors, Ledgers
<1>3. ASSUME \A c \in Calls : tools'[c].asks \subseteq tools[c].asks PROVE Joins
  BY <1>3 DEF Joins
<1>4. CASE TurnStep
  <2>1. ASSUME NEW c \in Calls, CloseTool(c) PROVE Joins
    BY <1>0, <1>3, <2>1 DEF CloseTool, Off, Executors
  <2>2. CASE ExecuteBatch
    BY <1>0, <1>3, <2>2 DEF ExecuteBatch, Launch, Off, Executors
  <2>3. ASSUME NEW c \in Calls, StartTool(c) PROVE Joins
    BY <1>1, <2>3 DEF StartTool, hostVars
  <2>4. CASE \/ OpenTurn \/ ResumeSample \/ LoopFails \/ Answer
             \/ AdmitBatch \/ AdmissionFails \/ StartToolFails
             \/ BatchReturned \/ BatchClosed
    BY <1>1, <2>4 DEF OpenTurn, ResumeSample, LoopFails, Answer, AdmitBatch,
       AdmissionFails, StartToolFails, BatchReturned, BatchClosed, hostVars
  <2>5. CASE \/ \E s \in Samples : RequestSample(s)
             \/ \E e \in EffectIds :
                  \/ StartSample(e) \/ RecordProgress(e) \/ LeaveTransport(e)
                  \/ \E cmd \in {"failed", "text", "calls"} : FinishSample(e, cmd)
    BY <1>1, <2>5 DEF RequestSample, StartSample, RecordProgress, LeaveTransport,
       FinishSample, hostVars
  <2>. QED
    BY <1>4, <2>1, <2>2, <2>3, <2>4, <2>5 DEF TurnStep
<1>5. CASE FinalizeStep
  BY <1>1, <1>5 DEF FinalizeStep, AbortInput, AbortSamples, AbortTool, AbortCalls,
     AbortDone, AbortApproval, DiscardOutput, RequestTerminal, RunJournal, EndTurn, hostVars
<1>6. CASE AskStep
  <2>1. ASSUME NEW c \in Calls, NEW failed \in BOOLEAN,
               Return(c, failed) \/ RejectUnresumed(c)
        PROVE  Joins
    BY <1>0, <1>3, <2>1 DEF Return, Failing, RejectUnresumed, Executors
  <2>2. ASSUME NEW c \in Calls, NEW r \in Requests,
               Ask(c, r) \/ AskRecovered(c, r) \/ StopWaiting(c, r)
        PROVE  Joins
    BY <1>0, <1>1, <1>2, <1>3, <2>2 DEF Ask, AskRecovered, StopWaiting, Leave, Executors
  <2>3. ASSUME NEW r \in Requests, NEW b \in BOOLEAN, AnswerDone(r, b)
        PROVE  Joins
    BY <1>0, <1>3, <2>3 DEF AnswerDone, Executors
  <2>4. ASSUME NEW r \in Requests, NEW b \in BOOLEAN,
               \/ Expire(r) \/ ResolveStarts(r) \/ ResolveWait(r) \/ ResolveFails(r)
               \/ ReplyLate(r) \/ Reply(r, b)
        PROVE  Joins
    BY <1>1, <2>3, <2>4 DEF Expire, ResolveStarts, ResolveWait, ResolveFails, ReplyLate,
       Reply
  <2>5. CASE Required
    <3>1. CASE op.call \in Calls
      BY <1>1, <1>2, <2>5, <3>1 DEF Required
    <3>2. CASE op.call \notin Calls
      BY <1>0, <1>1, <1>3, <2>5, <3>2 DEF Required, Wait, Executors
    <3>. QED
      BY <3>1, <3>2
  <2>6. CASE RequiredFails
    BY <1>0, <1>1, <1>3, <2>6 DEF RequiredFails, Failing, Executors
  <2>. QED
    BY <1>6, <2>1, <2>2, <2>4, <2>5, <2>6 DEF AskStep
<1>7. CASE Crash
  BY <1>3, <1>7 DEF Crash, Off
<1>8. CASE Restore \/ (\E e \in EffectIds : Requeue(e))
  BY <1>1, <1>8 DEF Restore, Requeue, rtVars, hostVars
<1>9. CASE Cancel \/ CancelContext \/ Ended \/ UNCHANGED allVars
  BY <1>1, <1>9 DEF Cancel, CancelContext, Ended, allVars, rtVars, hostVars
<1>. QED
  BY <1>4, <1>5, <1>6, <1>7, <1>8, <1>9 DEF RuntimeNext, CrashStep

\* Every step of the runtime preserves it, when a tool asks for one thing at a
\* time.
LEMMA StepWaits ==
  ASSUME ~ConcurrentAsks
  PROVE  DriverInv /\ WaitInv /\ [RuntimeNext]_allVars => WaitInv'
<1>. SUFFICES ASSUME DriverInv, WaitInv, [RuntimeNext]_allVars PROVE WaitInv'
  OBVIOUS
<1>1. Base /\ OpOK /\ RuntimeInv /\ DriverOK /\ HostOK /\ EnvOK /\ Denying
  BY TypesInParts DEF DriverInv, Base
<1>2. TypeOK' /\ Denies /\ Lasting
  <2>1. RuntimeInv' /\ Typed /\ Sound
    BY <1>1, RuntimeStep, StepTyped, StepSound
  <2>. QED
    BY <1>1, <2>1, CancelLasts, StepJoins DEF RuntimeInv, IInv, Typed, Sound, Lasting, Base
<1>3. CASE TurnStep
  BY <1>1, <1>2, <1>3, SamplingWaits, BatchWaits DEF TurnStep
<1>4. CASE FinalizeStep
  BY <1>1, <1>2, <1>4, AbortWaits, DenyWaits, TerminalWaits DEF FinalizeStep
<1>5. CASE AskStep
  BY <1>1, <1>2, <1>5, AskWaits, RequiredWaits, StartsWaits, AnswerWaits, HostWaits
  DEF AskStep
<1>. QED
  BY <1>1, <1>2, <1>3, <1>4, <1>5, OutsideWaits DEF RuntimeNext

-----------------------------------------------------------------------------
(* Turns settle gives up on                                                 *)

\* The entry of a sample or of a tool effect goes with the effect.
Exact ==
  \A e \in EffectIds :
    effects[e].kind \in {"sample_provider", "execute_tool"}
      /\ routed[e].state # "absent" => Pending(e)

\* The sample that is pending is the one the turn is in.
Synced ==
  \A e \in EffectIds : Pending(e) /\ effects[e].kind = "sample_provider" =>
    /\ phase = "sampling"
    /\ samples[effects[e].call].status = effects[e].status
    /\ effects[e].status = "running" => active = effects[e].call

\* What an effect may retain, by its kind; the aborts fail with a commit only.
Suits(e, result) ==
  /\ effects[e].kind = "sample_provider" =>
       result.cmd \in {"none", "failed", "text", "calls"}
  /\ effects[e].kind = "execute_tool" =>
       \/ result.cmd \in {"none", "tool"}
       \/ result.cmd = "abort" /\ faults # 0
  /\ effects[e].kind = "await_input" => result = NoResult \/ faults # 0
Suited == \A e \in EffectIds : Pending(e) => Suits(e, routed[e].result)

\* A batch that is executed was started.
Launched ==
  pc \in {"running", "closing"} =>
    \A e \in EffectIds : Pending(e) /\ IsTool(e) => effects[e].status = "running"

\* The entry of an input wait outlives the wait when the result of its call
\* retires it.  The next wait is then hidden behind that entry, and only the
\* result of its own call can end it: the batch is not closed before.
Stale ==
  \E e \in EffectIds : /\ effects[e].kind = "await_input"
                       /\ routed[e].state # "absent" /\ ~Pending(e)
Attended ==
  faults = 0 /\ input.req # None /\ Stale =>
    /\ input.call \in Calls
    /\ \/ pc = "running" /\ tools[input.call].at # "off"
       \/ pc = "closing" /\ input.call \in todo

\* The aborts are in order: the input wait first, then the sample, then the
\* approvals and the calls.
Late ==
  /\ pc \in {"abort_samples", "abort_tools"} => input.req = None
  /\ pc = "abort_tools" => PendingApprovals \subseteq todo

\* The effect retains a result the reducer refuses for good.
Poisoned(e) ==
  /\ Pending(e) /\ cancel # "none"
  /\ \/ effects[e].kind = "sample_provider" /\ routed[e].result.cmd = "calls"
     \/ /\ effects[e].kind = "await_approval"
        /\ routed[e].result.cmd = "approval" /\ routed[e].result.cancels

\* Without a failed commit only such a sample cannot be aborted,
Spoiled ==
  pc = "abort_tools" /\ broken /\ faults = 0 =>
    \E e \in EffectIds : Poisoned(e) /\ effects[e].kind = "sample_provider"

\* and only such effects make settle give up.
Trapped == pc = "stuck" /\ faults = 0 => \E e \in EffectIds : Poisoned(e)

PoisonInv ==
  /\ Exact /\ Synced /\ Suited /\ Launched /\ Attended /\ Late
  /\ Spoiled /\ Trapped

-----------------------------------------------------------------------------
(* What becomes of an effect                                                *)

\* Nothing, but that its entry may retain a result that suits it;
Rests(e) ==
  /\ effects'[e] = effects[e] /\ routed'[e].state = routed[e].state
  /\ \/ routed'[e].result = routed[e].result
     \/ Pending(e) => Suits(e, routed[e].result)'

\* it is started, or goes back to the schedule;
Turns(e) ==
  /\ Same(e) /\ Pending(e) /\ Pending(e)'
  /\ routed'[e].result = routed[e].result
  /\ IsTool(e) => effects'[e].status = "running" \/ pc' = "down"

\* it ends, and the entry with it unless it was a wait;
Ends(e) ==
  /\ Same(e) /\ ~Pending(e)'
  /\ effects[e].kind \in {"sample_provider", "execute_tool"} =>
       routed'[e].state = "absent"
  /\ effects[e].kind = "await_input" =>
       routed'[e].state = "absent" \/ input'.req = None

\* it is new;
Comes(e) ==
  /\ Pending(e)' /\ routed'[e].result = NoResult
  /\ effects'[e].kind = "execute_tool" => pc' \notin {"running", "closing"}

\* its entry is lost, or made again.
Resets(e) ==
  /\ effects'[e] = effects[e] /\ routed'[e].result = NoResult
  /\ routed'[e].state # "absent" => Pending(e)

Fates ==
  \A e \in EffectIds : Rests(e) \/ Turns(e) \/ Ends(e) \/ Comes(e) \/ Resets(e)

\* No failed commit is forgotten.
Blamed == faults # 0 => faults' # 0

\* What a step that leaves every effect to one of these keeps.
LEMMA FatesKeep ==
  ASSUME Base, Exact, Suited, Launched, Fates, Blamed,
         pc' \in {"running", "closing"} =>
           pc \in {"running", "closing"} \/ (pc = "starting" /\ todo = {})
  PROVE  /\ Exact' /\ Suited' /\ Launched'
         /\ Stale' => Stale \/ input'.req = None
<1>1. Exact'
  <2>. SUFFICES ASSUME NEW e \in EffectIds,
                       effects'[e].kind \in {"sample_provider", "execute_tool"},
                       routed'[e].state # "absent"
                PROVE  Pending(e)'
    BY DEF Exact
  <2>1. CASE Rests(e)
    BY <2>1 DEF Rests, Exact, Pending
  <2>2. CASE Ends(e)
    BY <2>2 DEF Ends, Same
  <2>3. CASE Resets(e)
    BY <2>3 DEF Resets, Pending
  <2>. QED
    BY <2>1, <2>2, <2>3 DEF Fates, Turns, Comes
<1>2. Suited'
  <2>. SUFFICES ASSUME NEW e \in EffectIds, Pending(e)'
                PROVE  Suits(e, routed[e].result)'
    BY DEF Suited
  <2>1. ASSUME routed'[e].result = NoResult
        PROVE  Suits(e, routed[e].result)'
    BY <2>1 DEF Suits, NoResult, Result
  <2>2. ASSUME Same(e), Pending(e), routed'[e].result = routed[e].result
        PROVE  Suits(e, routed[e].result)'
    <3>1. Suits(e, routed[e].result)
      BY <2>2 DEF Suited
    <3>. QED
      BY <2>2, <3>1 DEF Suits, Same, Blamed
  <2>3. CASE Rests(e)
    <3>1. Same(e) /\ Pending(e)
      BY <2>3 DEF Rests, Same, Pending
    <3>. QED
      BY <2>2, <2>3, <3>1 DEF Rests
  <2>4. CASE Turns(e)
    BY <2>2, <2>4 DEF Turns
  <2>. QED
    BY <2>1, <2>3, <2>4 DEF Fates, Ends, Comes, Resets
<1>3. Launched'
  <2>. SUFFICES ASSUME pc' \in {"running", "closing"}, NEW e \in EffectIds,
                       Pending(e)', effects'[e].kind = "execute_tool"
                PROVE  effects'[e].status = "running"
    BY DEF Launched, IsTool
  <2>1. ASSUME effects'[e] = effects[e]
        PROVE  effects'[e].status = "running"
    <3>1. Pending(e) /\ IsTool(e)
      BY <2>1 DEF Pending, IsTool
    <3>2. CASE pc \in {"running", "closing"}
      BY <2>1, <3>1, <3>2 DEF Launched
    <3>3. CASE pc = "starting" /\ todo = {}
      BY <2>1, <3>1, <3>3 DEF Base, Batches, Starting, PendingEffects
    <3>. QED
      BY <3>2, <3>3
  <2>2. CASE Turns(e)
    BY <2>2 DEF Turns, Same, IsTool
  <2>. QED
    BY <2>1, <2>2 DEF Fates, Rests, Ends, Comes, Resets
<1>4. Stale' => Stale \/ input'.req = None
  <2>. SUFFICES ASSUME NEW e \in EffectIds, effects'[e].kind = "await_input",
                       routed'[e].state # "absent", ~Pending(e)',
                       input'.req # None
                PROVE  Stale
    BY DEF Stale
  <2>1. CASE Rests(e)
    BY <2>1 DEF Rests, Stale, Pending
  <2>2. CASE Ends(e)
    BY <2>2 DEF Ends, Same
  <2>3. CASE Resets(e)
    BY <2>3 DEF Resets, Pending
  <2>. QED
    BY <2>1, <2>2, <2>3 DEF Fates, Turns, Comes
<1>. QED
  BY <1>1, <1>2, <1>3, <1>4

\* A step beside the effects and the registry.
LEMMA FatesStill ==
  ASSUME UNCHANGED <<effects, routed>>
  PROVE  Fates
  BY DEF Fates, Rests

\* An effect is started.
LEMMA FatesStarted ==
  ASSUME Base, NEW e \in EffectIds, Start(e)
  PROVE  Fates
<1>1. Begins(e) /\ \A f \in EffectIds \ {e} : Stays(f)
  BY StartMoves DEF Base, RuntimeInv, IInv
<1>2. \A f \in EffectIds : routed'[f].result = routed[f].result
  BY WaitTypes DEF Start, CanStart, Entries
<1>3. Turns(e)
  BY <1>1, <1>2 DEF Turns, Begins, Pending
<1>4. \A f \in EffectIds \ {e} : Rests(f)
  BY <1>1, <1>2 DEF Rests, Stays, Held
<1>. QED
  BY <1>3, <1>4 DEF Fates

\* A result is refused, and retained if none was.
LEMMA FatesRefused ==
  ASSUME Base, NEW e \in EffectIds, NEW first, ResolveRefused(e, first),
         Pending(e) /\ routed[e].result = NoResult => Suits(e, first)'
  PROVE  Fates
<1>0. routed \in [EffectIds -> Entries]
  BY WaitTypes
<1>1. \A f \in EffectIds : Stays(f)
  BY RefusedStays DEF Base, RuntimeInv, IInv
<1>2. \A f \in EffectIds \ {e} : routed'[f].result = routed[f].result
  BY <1>0 DEF ResolveRefused
<1>3. \/ routed'[e].result = routed[e].result
      \/ routed[e].result = NoResult /\ routed'[e].result = first
  BY <1>0 DEF ResolveRefused, Retained, Entries
<1>4. Rests(e)
  BY <1>1, <1>3 DEF Rests, Stays, Held
<1>5. \A f \in EffectIds \ {e} : Rests(f)
  BY <1>1, <1>2 DEF Rests, Stays, Held
<1>. QED
  BY <1>4, <1>5 DEF Fates

\* Effects are finished.
LEMMA FatesFinished ==
  ASSUME Base, NEW E, effects' = Finish(effects, E),
         \A f \in EffectIds : f \notin E => routed'[f] = routed[f],
         \A f \in EffectIds : f \in E =>
           /\ effects[f].kind \in {"sample_provider", "execute_tool"} =>
                routed'[f].state = "absent"
           /\ effects[f].kind = "await_input" =>
                routed'[f].state = "absent" \/ input'.req = None
  PROVE  Fates
<1>0. effects \in [EffectIds -> Effects]
  BY WaitTypes
<1>. SUFFICES ASSUME NEW f \in EffectIds PROVE Rests(f) \/ Ends(f)
  BY DEF Fates
<1>1. CASE f \in E
  <2>1. Same(f) /\ ~Pending(f)'
    BY <1>0, <1>1 DEF Finish, Same, Pending, Effects
  <2>. QED
    BY <1>1, <2>1 DEF Ends
<1>2. CASE f \notin E
  <2>1. effects'[f] = effects[f] /\ routed'[f] = routed[f]
    BY <1>2 DEF Finish
  <2>. QED
    BY <2>1 DEF Rests
<1>. QED
  BY <1>1, <1>2

\* The result of an effect that is not a sample is accepted.
LEMMA FatesAccepted ==
  ASSUME Base, NEW e \in EffectIds, NEW first \in Proper,
         ResolveAccepted(e, first), effects[e].kind # "sample_provider"
  PROVE  Fates
<1>. DEFINE r == Retained(e, first)
            c == effects[e].call
<1>0. NoInput.req = None /\ Absent.state = "absent"
  BY DEF NoInput, Absent
<1>1. Submit(e, r) /\ r \in Proper
  BY RetainedProper DEF ResolveAccepted, Base, RuntimeInv
<1>. HIDE DEF r, c
<1>2. CASE r.cmd = "tool"
  <2>1. PICK failed \in BOOLEAN, changes \in BOOLEAN : ToolResult(e, c, failed, changes)
    BY <1>1, <1>2 DEF Submit, c
  <2>2. /\ effects' = Finish(effects, {e} \union WaitEffects(c))
        /\ UNCHANGED nextEffect
        /\ Bound(c) => input' = NoInput
    BY <2>1 DEF ToolResult
  <2>3. \A f \in EffectIds : routed'[f] = IF f = e THEN Absent ELSE routed[f]
    BY <2>2, AcceptedRouted
  <2>4. \A f \in EffectIds : f \in WaitEffects(c) =>
          /\ effects[f].kind \notin {"sample_provider", "execute_tool"}
          /\ effects[f].kind = "await_input" => Bound(c)
    BY DEF WaitEffects, FirstPending
  <2>5. \A f \in EffectIds : f \in {e} \union WaitEffects(c) =>
           /\ effects[f].kind \in {"sample_provider", "execute_tool"} =>
                routed'[f].state = "absent"
           /\ effects[f].kind = "await_input" =>
                routed'[f].state = "absent" \/ input'.req = None
    BY <1>0, <2>2, <2>3, <2>4
  <2>6. \A f \in EffectIds : f \notin {e} \union WaitEffects(c) => routed'[f] = routed[f]
    BY <2>3
  <2>. QED
    BY <2>2, <2>5, <2>6, FatesFinished
<1>3. CASE r.cmd = "abort"
  <2>1. effects' = Finish(effects, {e}) /\ UNCHANGED nextEffect
    BY <1>1, <1>3 DEF Submit, EffectResult
  <2>2. \A f \in EffectIds : routed'[f] = IF f = e THEN Absent ELSE routed[f]
    BY <2>1, AcceptedRouted
  <2>3. /\ \A f \in EffectIds : f \in {e} => routed'[f].state = "absent"
        /\ \A f \in EffectIds : f \notin {e} => routed'[f] = routed[f]
    BY <1>0, <2>2
  <2>. QED
    BY <2>1, <2>3, FatesFinished
<1>4. CASE r.cmd = "approval"
  <2>. DEFINE E == {e} \union FirstPending("await_approval", r.req)
  <2>1. effects' = Finish(effects, E) /\ UNCHANGED nextEffect
    BY <1>1, <1>4 DEF Submit, ApprovalResult
  <2>2. \A f \in EffectIds : routed'[f] = IF f = e THEN Absent ELSE routed[f]
    BY <2>1, AcceptedRouted
  <2>3. /\ \A f \in EffectIds : f \in E =>
             routed'[f].state = "absent" \/ effects[f].kind = "await_approval"
        /\ \A f \in EffectIds : f \notin E => routed'[f] = routed[f]
    BY <1>0, <2>2 DEF FirstPending
  <2>. HIDE DEF E
  <2>. QED
    BY <2>1, <2>3, FatesFinished
<1>5. CASE r.cmd = "input"
  <2>. DEFINE E == {e} \union FirstPending("await_input", r.req)
  <2>1. effects' = Finish(effects, E) /\ UNCHANGED nextEffect /\ input' = NoInput
    BY <1>1, <1>5 DEF Submit, InputResult, ResolveInputWait
  <2>2. \A f \in EffectIds : routed'[f] = IF f = e THEN Absent ELSE routed[f]
    BY <2>1, AcceptedRouted
  <2>3. /\ \A f \in EffectIds : f \in E =>
             routed'[f].state = "absent" \/ effects[f].kind = "await_input"
        /\ \A f \in EffectIds : f \notin E => routed'[f] = routed[f]
    BY <1>0, <2>2 DEF FirstPending
  <2>. HIDE DEF E
  <2>. QED
    BY <1>0, <2>1, <2>3, FatesFinished
<1>6. r.cmd \in {"tool", "abort", "approval", "input"}
  BY <1>1 DEF Submit, ModelSampleFailed, ModelSampleAnswered, ModelSampleCalled,
              Proper, Results
<1>. QED
  BY <1>2, <1>3, <1>4, <1>5, <1>6

\* The result of a sample is accepted: no batch is executed yet.
LEMMA FatesSampled ==
  ASSUME Base, Exact, NEW e \in EffectIds, NEW first \in Proper,
         ResolveAccepted(e, first), effects[e].kind = "sample_provider",
         pc' \notin {"running", "closing"}
  PROVE  Fates
<1>0. routed \in [EffectIds -> Entries]
  BY WaitTypes
<1>1. Moves({"sample_provider"}, {"execute_tool"})
  BY AcceptedSample DEF Base, RuntimeInv, IInv
<1>2. \A f \in EffectIds : routed'[f] =
        IF nextEffect < f /\ f <= nextEffect' THEN Idle(0)
        ELSE IF f = e THEN Absent ELSE routed[f]
  BY <1>0 DEF ResolveAccepted, Dispatch
<1>3. Absent.state = "absent" /\ Absent.result = NoResult /\ Idle(0).result = NoResult
  BY DEF Absent, Idle
<1>4. Pending(e)
  <2>1. Submit(e, Retained(e, first)) /\ Retained(e, first) \in Proper
    BY RetainedProper DEF ResolveAccepted, Base, RuntimeInv
  <2>2. Retained(e, first).cmd \in {"failed", "text", "calls"}
    BY <2>1 DEF Submit, ToolResult, EffectResult, ApprovalResult, InputResult, Proper,
                Results
  <2>. QED
    BY <2>2 DEF ResolveAccepted, Legal, SampleResultAccepted, Pending
<1>. SUFFICES ASSUME NEW f \in EffectIds
              PROVE  Rests(f) \/ Turns(f) \/ Ends(f) \/ Comes(f) \/ Resets(f)
  BY DEF Fates
<1>5. CASE Issues(f)
  BY <1>3, <1>5 DEF Issues, Comes, Pending
<1>6. CASE Stays(f) /\ ~Issues(f)
  <2>1. CASE nextEffect < f /\ f <= nextEffect'
    <3>1. Issues(f)
      BY <2>1, AcceptedSample DEF Base, RuntimeInv, IInv
    <3>. QED
      BY <1>6, <3>1
  <2>2. CASE ~(nextEffect < f /\ f <= nextEffect') /\ f = e
    BY <1>2, <1>3, <1>6, <2>2 DEF Resets, Stays
  <2>3. CASE ~(nextEffect < f /\ f <= nextEffect') /\ f # e
    BY <1>2, <1>6, <2>3 DEF Rests, Stays, Held
  <2>. QED
    BY <2>1, <2>2, <2>3
<1>7. CASE effects[f].kind = "sample_provider" /\ ~Issues(f) /\ ~Stays(f)
             /\ (Finishes(f) \/ Begins(f) \/ Yields(f))
  <2>1. ~(nextEffect < f /\ f <= nextEffect')
    BY <1>7, AcceptedSample DEF Base, RuntimeInv, IInv
  <2>2. CASE f = e
    <3>1. routed'[f] = Absent
      BY <1>2, <2>1, <2>2
    <3>2. Finishes(f)
      BY <1>3, <1>7, <3>1 DEF Begins, Yields
    <3>. QED
      BY <1>3, <3>1, <3>2 DEF Ends, Finishes, Pending
  <2>3. CASE f # e
    <3>1. routed'[f] = routed[f]
      BY <1>2, <2>1, <2>3
    <3>2. ~Pending(f)
      BY <1>7, <1>4, <2>3 DEF Base, SingleSample, PendingEffects
    <3>3. Finishes(f)
      BY <1>7, <3>2 DEF Begins, Yields, Pending
    <3>4. routed[f].state = "absent"
      BY <1>7, <3>2 DEF Exact
    <3>. QED
      BY <3>1, <3>3, <3>4 DEF Ends, Finishes, Pending
  <2>. QED
    BY <2>2, <2>3
<1>. QED
  BY <1>1, <1>5, <1>6, <1>7 DEF Moves

\* An effect is requested and dispatched.
LEMMA FatesRequested ==
  ASSUME Base, NEW kind, NEW key, NEW call, RequestEffect(kind, key, call),
         Dispatch(routed), kind # "execute_tool"
  PROVE  Fates
<1>1. /\ \A e \in EffectIds : nextEffect < e /\ e <= nextEffect' =>
           effects'[e] = NewEffect(kind, key, call) /\ Issues(e)
      /\ \A e \in EffectIds : ~(nextEffect < e /\ e <= nextEffect') => Stays(e)
  BY RequestMoves DEF Base, RuntimeInv, IInv
<1>2. \A e \in EffectIds : routed'[e] =
        IF nextEffect < e /\ e <= nextEffect' THEN Idle(0) ELSE routed[e]
  BY DEF Dispatch
<1>3. Idle(0).result = NoResult /\ NewEffect(kind, key, call).kind = kind
  BY DEF Idle, NewEffect
<1>4. ASSUME NEW e \in EffectIds, nextEffect < e /\ e <= nextEffect'
      PROVE  Comes(e)
  BY <1>1, <1>2, <1>3, <1>4 DEF Comes, Issues, Pending
<1>5. ASSUME NEW e \in EffectIds, ~(nextEffect < e /\ e <= nextEffect')
      PROVE  Rests(e)
  BY <1>1, <1>2, <1>5 DEF Rests, Stays
<1>. QED
  BY <1>4, <1>5 DEF Fates

\* An effect that is not a tool's goes back to the schedule.
LEMMA FatesYielded ==
  ASSUME Base, NEW e \in EffectIds, effects[e].status = "running",
         effects' = SetStatus(e, "requested"),
         \/ UNCHANGED routed
         \/ routed' = [routed EXCEPT ![e].state = "idle"],
         effects[e].kind # "execute_tool" \/ pc' = "down"
  PROVE  Fates
<1>1. /\ effects \in [EffectIds -> Effects] /\ routed \in [EffectIds -> Entries]
  BY WaitTypes
<1>2. Turns(e)
  BY <1>1 DEF Turns, Same, SetStatus, Effects, Entries, Pending, IsTool
<1>3. \A f \in EffectIds \ {e} : Rests(f)
  BY <1>1 DEF Rests, SetStatus
<1>. QED
  BY <1>2, <1>3 DEF Fates

-----------------------------------------------------------------------------
(* The sample the turn is in                                                *)

\* A step beside the samples.
LEMMA SyncedApart ==
  ASSUME Synced, UNCHANGED sampleVars, phase = "sampling" => phase' = "sampling",
         \A e \in EffectIds : Pending(e)' /\ effects'[e].kind = "sample_provider" =>
           effects'[e] = effects[e]
  PROVE  Synced'
<1>. SUFFICES ASSUME NEW e \in EffectIds, Pending(e)', effects'[e].kind = "sample_provider"
              PROVE  /\ phase' = "sampling"
                     /\ samples'[effects'[e].call].status = effects'[e].status
                     /\ effects'[e].status = "running" => active' = effects'[e].call
  BY DEF Synced
<1>1. effects'[e] = effects[e]
  OBVIOUS
<1>2. Pending(e) /\ effects[e].kind = "sample_provider"
  BY <1>1 DEF Pending
<1>. QED
  BY <1>1, <1>2 DEF Synced, sampleVars

\* A step that moves other effects.
LEMMA SyncedMoved ==
  ASSUME Base, Synced, UNCHANGED sampleVars, phase = "sampling" => phase' = "sampling",
         NEW M, NEW N, Moves(M, N), "sample_provider" \notin M, "sample_provider" \notin N
  PROVE  Synced'
<1>1. \A e \in EffectIds : effects'[e].kind = "sample_provider" => Stays(e)
  BY KindStays DEF Base
<1>. QED
  BY <1>1, SyncedApart DEF Stays

\* A step beside the durable state.
LEMMA SyncedStill ==
  ASSUME Synced, UNCHANGED vars
  PROVE  Synced'
  BY SyncedApart DEF vars, effectVars

\* An effect is started, the sample or another one.
LEMMA SyncedStarted ==
  ASSUME Base, Synced, NEW e \in EffectIds, Start(e)
  PROVE  Synced'
<1>0. /\ effects \in [EffectIds -> Effects] /\ samples \in [Samples -> SampleRecords]
      /\ Shaped(effects[e])
  BY WaitTypes DEF Base, RuntimeInv, IInv, TypeOK, SampleTypeOK
<1>1. /\ Begins(e) /\ \A f \in EffectIds \ {e} : Stays(f)
      /\ UNCHANGED phase /\ Moves({effects[e].kind}, {})
  BY StartMoves DEF Base, RuntimeInv, IInv
<1>2. EffectStarted(e, routed[e].attempt + 1)
  BY DEF Start
<1>3. CASE effects[e].kind # "sample_provider"
  <2>1. UNCHANGED sampleVars
    BY <1>2, <1>3 DEF EffectStarted
  <2>. QED
    BY <1>1, <1>3, <2>1, SyncedMoved
<1>4. CASE effects[e].kind = "sample_provider"
  <2>. DEFINE s == effects[e].call
  <2>1. s \in Samples /\ Pending(e)
    BY <1>0, <1>1, <1>4 DEF Shaped, Begins, Pending
  <2>2. /\ samples' = [samples EXCEPT ![s] =
             [@ EXCEPT !.status = "running", !.attempt = routed[e].attempt + 1]]
        /\ active' = s /\ phase = "sampling"
    BY <1>2, <1>4 DEF EffectStarted
  <2>3. samples'[s].status = "running"
    BY <1>0, <2>1, <2>2 DEF SampleRecords
  <2>4. \A f \in EffectIds : Pending(f)' /\ effects'[f].kind = "sample_provider" => f = e
    BY <1>1, <1>4, <2>1 DEF Stays, Pending, Base, SingleSample, PendingEffects
  <2>. QED
    BY <1>1, <2>2, <2>3, <2>4 DEF Synced, Begins, Same
<1>. QED
  BY <1>3, <1>4

\* The result of another effect is accepted.
LEMMA SyncedEnded ==
  ASSUME Base, Synced, NEW e \in EffectIds, NEW first \in Proper,
         ResolveAccepted(e, first), effects[e].kind # "sample_provider"
  PROVE  Synced'
<1>. DEFINE r == Retained(e, first)
<1>1. Submit(e, r) /\ r \in Proper
  BY RetainedProper DEF ResolveAccepted, Base, RuntimeInv
<1>2. Moves({effects[e].kind} \union WaitKinds, {})
  BY AcceptedEnds DEF Base, RuntimeInv, IInv
<1>. HIDE DEF r
<1>3. UNCHANGED sampleVars /\ (phase = "sampling" => phase' = "sampling")
  <2>1. r.cmd \in {"tool", "abort", "approval", "input"}
    BY <1>1 DEF Submit, ModelSampleFailed, ModelSampleAnswered, ModelSampleCalled,
                Proper, Results
  <2>. QED
    BY <1>1, <2>1 DEF Submit, ToolResult, EffectResult, ApprovalResult, InputResult,
                      ResolveInputWait
<1>4. "sample_provider" \notin {effects[e].kind} \union WaitKinds
  BY DEF WaitKinds
<1>. QED
  BY <1>2, <1>3, <1>4, SyncedMoved

\* The result of the sample is accepted: no sample is left.
LEMMA SyncedSampled ==
  ASSUME Base, RegistryCovers', pc' # "down", NEW e \in EffectIds, NEW first \in Proper,
         ResolveAccepted(e, first), effects[e].kind = "sample_provider"
  PROVE  Synced'
<1>0. routed \in [EffectIds -> Entries]
  BY WaitTypes
<1>1. Moves({"sample_provider"}, {"execute_tool"})
  BY AcceptedSample DEF Base, RuntimeInv, IInv
<1>2. routed'[e].state = "absent"
  <2>1. ~(nextEffect < e)
    BY DEF Base, Unissued
  <2>. QED
    BY <1>0, <2>1 DEF ResolveAccepted, Dispatch, Absent
<1>3. Pending(e)
  <2>1. Submit(e, Retained(e, first)) /\ Retained(e, first) \in Proper
    BY RetainedProper DEF ResolveAccepted, Base, RuntimeInv
  <2>2. Retained(e, first).cmd \in {"failed", "text", "calls"}
    BY <2>1 DEF Submit, ToolResult, EffectResult, ApprovalResult, InputResult, Proper,
                Results
  <2>. QED
    BY <2>2 DEF ResolveAccepted, Legal, SampleResultAccepted, Pending
<1>. SUFFICES ASSUME NEW f \in EffectIds, Pending(f)', effects'[f].kind = "sample_provider"
              PROVE  FALSE
  BY DEF Synced
<1>4. Pending(f) /\ effects[f].kind = "sample_provider"
  BY <1>1 DEF Moves, Stays, Finishes, Begins, Yields, Same, Pending
<1>5. f = e
  BY <1>3, <1>4 DEF Base, SingleSample, PendingEffects
<1>. QED
  BY <1>2, <1>5 DEF RegistryCovers, PendingEffects

\* A sample is requested.
LEMMA SyncedRequested ==
  ASSUME Base, NEW s \in Samples, RequestSample(s)
  PROVE  Synced'
<1>0. samples \in [Samples -> SampleRecords] /\ TypeOK
  BY DEF Base, RuntimeInv, IInv, TypeOK, SampleTypeOK
<1>1. /\ RequestEffect("sample_provider", s, s) /\ Dispatch(routed)
      /\ samples' = [samples EXCEPT ![s].status = "requested"]
      /\ phase = "sampling" /\ UNCHANGED phase
      /\ pc = "loop" /\ SampleEffect = {}
  BY DEF RequestSample, ModelSampleRequested, At
<1>2. /\ \A e \in EffectIds : nextEffect < e /\ e <= nextEffect' =>
           effects'[e] = NewEffect("sample_provider", s, s)
      /\ \A e \in EffectIds : ~(nextEffect < e /\ e <= nextEffect') => Stays(e)
  BY <1>0, <1>1, RequestMoves
<1>3. samples'[s].status = "requested"
  BY <1>0, <1>1 DEF SampleRecords
<1>. SUFFICES ASSUME NEW e \in EffectIds, Pending(e)', effects'[e].kind = "sample_provider"
              PROVE  effects'[e] = NewEffect("sample_provider", s, s)
  BY <1>1, <1>3 DEF Synced, NewEffect
<1>4. ~Stays(e)
  <2>. SUFFICES ASSUME Stays(e) PROVE FALSE
    OBVIOUS
  <2>1. Pending(e) /\ effects[e].kind = "sample_provider"
    BY DEF Stays, Pending
  <2>. QED
    BY <1>1, <2>1, SamplePending DEF Base
<1>. QED
  BY <1>2, <1>4

\* The sample, or another effect, goes back to the schedule.
LEMMA SyncedYielded ==
  ASSUME Base, Synced, NEW e \in EffectIds, effects[e].status = "running",
         effects' = SetStatus(e, "requested"), UNCHANGED phase,
         IF effects[e].kind = "sample_provider"
         THEN samples' = [samples EXCEPT ![effects[e].call].status = "requested"]
         ELSE UNCHANGED sampleVars
  PROVE  Synced'
<1>0. /\ effects \in [EffectIds -> Effects] /\ samples \in [Samples -> SampleRecords]
      /\ Shaped(effects[e])
  BY WaitTypes DEF Base, RuntimeInv, IInv, TypeOK, SampleTypeOK
<1>1. /\ Same(e) /\ effects'[e].status = "requested" /\ Pending(e)
      /\ \A f \in EffectIds : f # e => effects'[f] = effects[f]
  BY <1>0 DEF SetStatus, Same, Effects, Pending
<1>2. CASE effects[e].kind # "sample_provider"
  BY <1>1, <1>2, SyncedApart DEF Same
<1>3. CASE effects[e].kind = "sample_provider"
  <2>1. effects[e].call \in Samples
    BY <1>0, <1>3 DEF Shaped
  <2>2. samples'[effects[e].call].status = "requested"
    BY <1>0, <1>3, <2>1 DEF SampleRecords
  <2>3. \A f \in EffectIds : Pending(f)' /\ effects'[f].kind = "sample_provider" => f = e
    BY <1>1, <1>3 DEF Pending, Base, SingleSample, PendingEffects
  <2>4. phase = "sampling"
    BY <1>1, <1>3 DEF Synced
  <2>. QED
    BY <1>1, <2>2, <2>3, <2>4 DEF Synced, Same
<1>. QED
  BY <1>2, <1>3

-----------------------------------------------------------------------------
(* Effects and samples: the steps                                           *)

Steady == Fates /\ Synced'

\* A step beside the durable state and the registry.
LEMMA SteadyStill ==
  ASSUME Synced, UNCHANGED <<vars, routed>>
  PROVE  Steady
<1>1. UNCHANGED effects
  BY DEF vars, effectVars
<1>. QED
  BY <1>1, FatesStill, SyncedStill DEF Steady

\* An effect is started, or the result of another effect than a sample accepted.
LEMMA SteadyMoved ==
  ASSUME Base, Synced, NEW e \in EffectIds,
         \/ Start(e)
         \/ /\ effects[e].kind # "sample_provider"
            /\ \E first \in Proper : ResolveAccepted(e, first)
  PROVE  Steady
  BY FatesStarted, SyncedStarted, FatesAccepted, SyncedEnded DEF Steady

\* A result is refused.
LEMMA SteadyRefused ==
  ASSUME Base, Synced, NEW e \in EffectIds, NEW first, ResolveRefused(e, first),
         Pending(e) /\ routed[e].result = NoResult => Suits(e, first)'
  PROVE  Steady
<1>1. UNCHANGED vars
  BY DEF ResolveRefused
<1>. QED
  BY <1>1, FatesRefused, SyncedStill DEF Steady

\* The result of a sample is accepted or refused, or the sample is started.
LEMMA SteadySampled ==
  ASSUME Base, RegistryCovers', Exact, Synced, pc' \notin {"running", "closing", "down"},
         NEW e \in SampleEffect, NEW cmd \in {"failed", "text", "calls"},
         \/ Start(e) \/ ResolveAccepted(e, Result(cmd)) \/ ResolveRefused(e, Result(cmd))
  PROVE  Steady
<1>1. e \in EffectIds /\ effects[e].kind = "sample_provider" /\ Result(cmd) \in Proper
  BY FindFound, ResultsProper DEF SampleEffect
<1>2. CASE ResolveRefused(e, Result(cmd))
  <2>1. UNCHANGED effects
    BY <1>2 DEF ResolveRefused, vars, effectVars
  <2>2. Suits(e, Result(cmd))'
    BY <1>1, <2>1 DEF Suits, Result
  <2>. QED
    BY <1>1, <1>2, <2>2, SteadyRefused
<1>. QED
  BY <1>1, <1>2, SteadyMoved, FatesSampled, SyncedSampled DEF Steady

\* Opening the turn, sampling and answering.
LEMMA SamplingSteady ==
  ASSUME Base, RegistryCovers', Exact, Synced,
         \/ OpenTurn \/ ResumeSample \/ LoopFails \/ Answer
         \/ \E s \in Samples : RequestSample(s)
         \/ \E e \in EffectIds :
              \/ StartSample(e) \/ RecordProgress(e) \/ LeaveTransport(e)
              \/ \E cmd \in {"failed", "text", "calls"} : FinishSample(e, cmd)
  PROVE  Steady
<1>1. CASE OpenTurn \/ Answer
  <2>1. UNCHANGED <<routed, sampleVars, effectVars>> /\ (phase = "sampling" => phase' = "sampling")
    BY <1>1 DEF OpenTurn, Answer, StartTurn, PreparationFinished, ReleaseProvisionalOutput,
                DiscardProvisionalOutput, vars
  <2>2. UNCHANGED effects
    BY <2>1 DEF effectVars
  <2>. QED
    BY <2>1, <2>2, FatesStill, SyncedApart DEF Steady
<1>2. CASE ResumeSample \/ LoopFails
  BY <1>2, SteadyStill DEF ResumeSample, LoopFails
<1>3. ASSUME NEW s \in Samples, RequestSample(s)
      PROVE  Steady
  <2>1. RequestEffect("sample_provider", s, s) /\ Dispatch(routed)
    BY <1>3 DEF RequestSample, ModelSampleRequested
  <2>. QED
    BY <1>3, <2>1, FatesRequested, SyncedRequested DEF Steady
<1>4. ASSUME NEW e \in EffectIds, StartSample(e)
      PROVE  Steady
  BY <1>4, SteadyMoved DEF StartSample
<1>5. ASSUME NEW e \in EffectIds, RecordProgress(e)
      PROVE  Steady
  <2>. DEFINE s == effects[e].call
  <2>1. /\ UNCHANGED <<routed, effectVars, phase, active>>
        /\ samples' = [samples EXCEPT ![s].assembly = "complete"]
    BY <1>5 DEF RecordProgress, ModelSampleProgress
  <2>2. samples \in [Samples -> SampleRecords]
    BY DEF Base, RuntimeInv, IInv, TypeOK, SampleTypeOK
  <2>. HIDE DEF s
  <2>3. \A x \in Samples : samples'[x].status = samples[x].status
    BY <2>1, <2>2 DEF SampleRecords
  <2>4. \A f \in EffectIds : effects[f].kind = "sample_provider" => effects[f].call \in Samples
    BY WaitTypes DEF Shaped
  <2>5. Synced'
    BY <2>1, <2>3, <2>4 DEF Synced, effectVars, Pending
  <2>. QED
    BY <2>1, <2>5, FatesStill DEF Steady, effectVars
<1>6. ASSUME NEW e \in EffectIds, LeaveTransport(e)
      PROVE  Steady
  <2>1. /\ routed' = [routed EXCEPT ![e].state = "idle"]
        /\ e \in SampleEffect
    BY <1>6 DEF LeaveTransport
  <2>2. effects[e].kind = "sample_provider"
    BY <2>1, FindFound DEF SampleEffect
  <2>3. /\ effects[e].status = "running" /\ effects' = SetStatus(e, "requested")
        /\ UNCHANGED phase
        /\ samples' = [samples EXCEPT ![effects[e].call].status = "requested"]
    BY <1>6, <2>2 DEF LeaveTransport, ProviderRetryRequested, EffectRequeued
  <2>. QED
    BY <2>1, <2>2, <2>3, FatesYielded, SyncedYielded DEF Steady
<1>7. ASSUME NEW e \in EffectIds, NEW cmd \in {"failed", "text", "calls"},
             FinishSample(e, cmd)
      PROVE  Steady
  <2>1. /\ e \in SampleEffect
        /\ ResolveAccepted(e, Result(cmd)) \/ ResolveRefused(e, Result(cmd))
        /\ pc' \in {"answered", "admit", "abort_input"}
    BY <1>7, WhereTo DEF FinishSample
  <2>. QED
    BY <2>1, SteadySampled
<1>. QED
  BY <1>1, <1>2, <1>3, <1>4, <1>5, <1>6, <1>7

\* Tool batches.
LEMMA BatchSteady ==
  ASSUME Base, Synced,
         \/ AdmitBatch \/ AdmissionFails \/ StartToolFails \/ ExecuteBatch
         \/ BatchReturned \/ BatchClosed
         \/ \E c \in Calls : StartTool(c) \/ CloseTool(c)
  PROVE  Steady
<1>1. CASE AdmissionFails \/ StartToolFails \/ ExecuteBatch \/ BatchReturned \/ BatchClosed
  BY <1>1, SteadyStill DEF AdmissionFails, StartToolFails, ExecuteBatch, Launch, BatchReturned, BatchClosed
<1>2. CASE AdmitBatch
  <2>1. UNCHANGED <<routed, sampleVars, effectVars, phase>>
    BY <1>2 DEF AdmitBatch, ToolBatchAdmissionRejected, vars
  <2>2. UNCHANGED effects
    BY <2>1 DEF effectVars
  <2>. QED
    BY <2>1, <2>2, FatesStill, SyncedApart DEF Steady
<1>3. ASSUME NEW c \in Calls, StartTool(c)
      PROVE  Steady
  <2>1. PICK e \in ToolEffect(c) : Start(e)
    BY <1>3 DEF StartTool
  <2>. QED
    BY <2>1, FindFound, SteadyMoved DEF ToolEffect
<1>4. ASSUME NEW c \in Calls, CloseTool(c)
      PROVE  Steady
  <2>1. PICK e \in ToolEffect(c) :
          ResolveAccepted(e, Result("tool")) \/ ResolveRefused(e, Result("tool"))
    BY <1>4 DEF CloseTool
  <2>2. e \in EffectIds /\ effects[e].kind = "execute_tool" /\ Result("tool") \in Proper
    BY FindFound, ResultsProper DEF ToolEffect
  <2>3. CASE ResolveRefused(e, Result("tool"))
    <3>1. UNCHANGED effects
      BY <2>3 DEF ResolveRefused, vars, effectVars
    <3>2. Suits(e, Result("tool"))'
      BY <2>2, <3>1 DEF Suits, Result
    <3>. QED
      BY <2>2, <2>3, <3>2, SteadyRefused
  <2>. QED
    BY <2>1, <2>2, <2>3, SteadyMoved
<1>. QED
  BY <1>1, <1>2, <1>3, <1>4

\* The reducer accepts a result that is legal; only its commit can fail.
LEMMA LegalBlames ==
  ASSUME Base, NEW e, NEW first, ResolveRefused(e, first), Resolvable(e, first),
         Legal(e, Retained(e, first))
  PROVE  faults' # 0
<1>1. faults' = faults + 1
  BY DEF ResolveRefused
<1>2. faults \in Nat
  BY TurnRuntimeAssumption DEF Base, RuntimeTypeOK
<1>. QED
  BY <1>1, <1>2

\* The executors that ask, the users and the timers.
LEMMA AskSteady ==
  ASSUME Base, OpOK, WaitInv, Synced, AskStep
  PROVE  Steady
<1>1. CASE \/ \E c \in Calls :
                \/ \E failed \in BOOLEAN : Return(c, failed)
                \/ RejectUnresumed(c)
                \/ \E r \in Requests : AskRecovered(c, r) \/ StopWaiting(c, r)
           \/ \E r \in Requests :
                \/ Expire(r) \/ ResolveFails(r) \/ ReplyLate(r)
                \/ \E cancels \in BOOLEAN : Reply(r, cancels)
  BY <1>1, SteadyStill DEF Return, RejectUnresumed, AskRecovered, StopWaiting, Expire,
     ResolveFails, ReplyLate, Reply
<1>2. CASE Required
  <2>1. PICK e \in WaitEffect(op.req, op.call) :
          Start(e) \/ UNCHANGED <<vars, routed>>
    BY <1>2 DEF Required
  <2>. QED
    BY <2>1, WaitFound, SteadyMoved, SteadyStill
<1>6. CASE RequiredFails
  BY <1>6, SteadyStill DEF RequiredFails
<1>3. ASSUME NEW c \in Calls, NEW r \in Requests, Ask(c, r)
      PROVE  Steady
  <2>. DEFINE kind == IF r \in InputRequests THEN "await_input" ELSE "await_approval"
  <2>1. /\ RequestEffect(kind, r, c) /\ Dispatch(routed) /\ tools[c].at = "run"
        /\ UNCHANGED sampleVars
    BY <1>3 DEF Ask, InputRequired, ApprovalRequired
  <2>2. kind \notin {"execute_tool", "sample_provider"}
    OBVIOUS
  <2>. HIDE DEF kind
  <2>3. phase # "sampling"
    <3>1. PICK e \in EffectIds :
            IsTool(e) /\ effects[e].call = c /\ effects[e].status = "running"
      BY <2>1 DEF Base, Batches, Executing
    <3>2. c \in OpenCalls
      BY <3>1 DEF Base, RuntimeInv, IInv, NoOrphanEffect, PendingEffects, Pending, IsTool
    <3>. QED
      BY <3>2 DEF Base, RuntimeInv, IInv, Valid, ValidCalls
  <2>4. Moves({}, {kind})
    BY <2>1, RequestMoves DEF Base, RuntimeInv, IInv
  <2>5. Synced'
    BY <2>1, <2>2, <2>3, <2>4, SyncedMoved
  <2>. QED
    BY <2>1, <2>2, <2>5, FatesRequested DEF Steady
<1>4. ASSUME NEW r \in Requests, ResolveStarts(r)
      PROVE  Steady
  <2>1. PICK e \in WaitEffect(r, CallOf(r)) : Start(e)
    BY <1>4 DEF ResolveStarts
  <2>. QED
    BY <2>1, WaitFound, SteadyMoved
<1>5. ASSUME NEW r \in Requests, ResolveWait(r)
      PROVE  Steady
  <2>0. PICK answer : answer = WaitResult(r)
    OBVIOUS
  <2>1. PICK e \in WaitEffect(r, CallOf(r)) :
          /\ routed[e].state = "started"
          /\ ResolveAccepted(e, answer) \/ ResolveRefused(e, answer)
    BY <1>5, <2>0 DEF ResolveWait
  <2>2. /\ e \in EffectIds /\ effects[e].kind = WaitKind(r)
        /\ answer.cmd = IF r \in InputRequests THEN "input" ELSE "approval"
        /\ answer.req = r
    BY <2>0, <2>1, FindFound DEF WaitEffect, WaitResult
  <2>3. answer \in Proper
    BY <2>0, ResultsProper
  <2>4. pc # "down" /\ StillPending(r)
    BY <1>5, AnsweringFacts DEF ResolveWait
  <2>5. CASE ResolveAccepted(e, answer)
    BY <2>2, <2>3, <2>5, SteadyMoved DEF WaitKind
  <2>6. CASE ResolveRefused(e, answer)
    <3>. SUFFICES ASSUME Pending(e), routed[e].result = NoResult
                  PROVE  Suits(e, answer)'
      BY <2>2, <2>6, SteadyRefused
    <3>1. UNCHANGED effects
      BY <2>6 DEF ResolveRefused, vars, effectVars
    <3>2. CASE r \notin InputRequests
      BY <2>2, <3>1, <3>2 DEF Suits, WaitKind
    <3>3. CASE r \in InputRequests
      <4>1. /\ input.req = r /\ r # None /\ phase = "awaiting_input"
        BY <2>4, <3>3, WaitTypes
        DEF StillPending, Base, RuntimeInv, IInv, Valid, ValidWaits
      <4>2. effects[e].status = "running"
        BY <2>1, <2>2, <2>4 DEF Base, RegistryCovers, PendingEffects, Pending
      <4>3. Retained(e, answer) = answer /\ Resolvable(e, answer)
        BY <2>1 DEF Retained, Resolvable
      <4>4. Legal(e, answer)
        BY <2>2, <3>3, <4>1, <4>2 DEF Legal
      <4>5. faults' # 0
        BY <2>2, <2>6, <4>3, <4>4, LegalBlames
      <4>. QED
        BY <2>2, <3>1, <3>3, <4>5 DEF Suits, WaitKind
    <3>. QED
      BY <3>2, <3>3
  <2>. QED
    BY <2>1, <2>5, <2>6
<1>. QED
  BY <1>1, <1>2, <1>3, <1>4, <1>5, <1>6 DEF AskStep

\* An abort is refused with a commit that fails.
LEMMA AbortSuits ==
  ASSUME Base, NEW e \in EffectIds, routed[e].state = "started", phase \notin TerminalPhases,
         ResolveRefused(e, Result("abort")), Pending(e), routed[e].result = NoResult
  PROVE  faults' # 0
<1>1. Retained(e, Result("abort")) = Result("abort") /\ Resolvable(e, Result("abort"))
  BY DEF Retained, Resolvable
<1>2. Legal(e, Result("abort"))
  BY DEF Legal, Result
<1>. QED
  BY <1>1, <1>2, LegalBlames

\* The aborts of FinalizeTerminal.
LEMMA AbortSteady ==
  ASSUME Base, RegistryCovers', Exact, Synced,
         \/ AbortInput \/ AbortSamples \/ AbortTool \/ AbortCalls \/ AbortDone
         \/ \E r \in Requests : AbortApproval(r)
  PROVE  Steady
<1>0. Result("abort") \in Proper
  BY ResultsProper
<1>1. ASSUME NEW e \in EffectIds, routed[e].state = "started", phase \notin TerminalPhases,
             ResolveRefused(e, Result("abort")),
             effects[e].kind \in {"await_input", "execute_tool"}
      PROVE  Steady
  <2>1. UNCHANGED effects
    BY <1>1 DEF ResolveRefused, vars, effectVars
  <2>2. Pending(e) /\ routed[e].result = NoResult => faults' # 0
    BY <1>1, AbortSuits
  <2>3. Pending(e) /\ routed[e].result = NoResult => Suits(e, Result("abort"))'
    BY <1>1, <2>1, <2>2 DEF Suits, Result
  <2>. QED
    BY <1>1, <2>3, SteadyRefused
<1>2. CASE AbortInput
  <2>1. CASE UNCHANGED <<vars, routed>>
    BY <2>1, SteadyStill
  <2>2. CASE InputResolved(input.req) /\ UNCHANGED routed
    <3>. DEFINE E == {} \union FirstPending("await_input", input.req)
    <3>1. /\ effects' = Finish(effects, E) /\ input'.req = None
          /\ UNCHANGED <<nextEffect, sampleVars>> /\ phase # "sampling"
      BY <2>2 DEF InputResolved, ResolveInputWait, NoInput
    <3>2. \A f \in EffectIds : f \in E => effects[f].kind = "await_input"
      BY DEF FirstPending
    <3>3. \A f \in EffectIds : f \notin E => Held(f)
      BY <2>2 DEF Held
    <3>. HIDE DEF E
    <3>4. Fates
      BY <2>2, <3>1, <3>2, FatesFinished
    <3>5. Moves({"await_input"}, {})
      BY <3>1, <3>2, <3>3, FinishMoves DEF Base, RuntimeInv, IInv
    <3>6. Synced'
      BY <3>1, <3>5, SyncedMoved
    <3>. QED
      BY <3>4, <3>6 DEF Steady
  <2>3. ASSUME NEW e \in Find("await_input", None), input.req # None,
               \/ Start(e)
               \/ ResolveAccepted(e, Result("abort"))
               \/ routed[e].state = "started" /\ ResolveRefused(e, Result("abort"))
        PROVE  Steady
    <3>1. e \in EffectIds /\ effects[e].kind = "await_input"
      BY FindFound
    <3>2. phase = "awaiting_input"
      BY <2>3 DEF Base, RuntimeInv, IInv, Valid, ValidWaits
    <3>. QED
      BY <1>0, <1>1, <2>3, <3>1, <3>2, SteadyMoved DEF TerminalPhases
  <2>. QED
    BY <1>2, <2>1, <2>2, <2>3 DEF AbortInput
<1>3. CASE AbortSamples
  <2>1. CASE UNCHANGED <<vars, routed>>
    BY <2>1, SteadyStill
  <2>2. ASSUME NEW e \in SampleEffect,
               \/ Start(e) \/ ResolveAccepted(e, Result("failed"))
               \/ ResolveRefused(e, Result("failed"))
        PROVE  Steady
    <3>1. pc' \in {"abort_samples", "abort_tools"}
      BY <1>3, WhereTo DEF AbortSamples
    <3>. QED
      BY <2>2, <3>1, SteadySampled
  <2>. QED
    BY <1>3, <2>1, <2>2 DEF AbortSamples
<1>4. CASE AbortTool
  <2>1. PICK e \in Find("execute_tool", None) :
          \/ Start(e) \/ ResolveAccepted(e, Result("abort"))
          \/ routed[e].state = "started" /\ ResolveRefused(e, Result("abort"))
    BY <1>4 DEF AbortTool
  <2>2. e \in EffectIds /\ effects[e].kind = "execute_tool"
    BY FindFound
  <2>3. phase \notin TerminalPhases
    BY <1>4 DEF AbortTool, Base, RuntimeInv, IInv, Valid, ValidCalls, TerminalPhases
  <2>. QED
    BY <1>0, <1>1, <2>1, <2>2, <2>3, SteadyMoved
<1>5. CASE AbortCalls
  <2>1. /\ effects' = Finish(effects, OpenEffects) /\ UNCHANGED <<routed, sampleVars, nextEffect>>
        /\ phase # "sampling" /\ Find("execute_tool", None) = {}
    BY <1>5 DEF AbortCalls, AbortOpenCalls
  <2>2. \A f \in EffectIds : f \in OpenEffects =>
          effects[f].kind \in {"execute_tool", "await_approval"}
    BY DEF OpenEffects, FirstPending
  <2>3. \A f \in EffectIds : effects[f].kind = "execute_tool" => routed'[f].state = "absent"
    BY <2>1, FindSome
  <2>4. Fates
    BY <2>1, <2>2, <2>3, FatesFinished
  <2>5. \A f \in EffectIds : f \notin OpenEffects => Held(f)
    BY <2>1 DEF Held
  <2>6. Moves({"execute_tool", "await_approval"}, {})
    BY <2>1, <2>2, <2>5, FinishMoves DEF Base, RuntimeInv, IInv
  <2>7. Synced'
    BY <2>1, <2>6, SyncedMoved
  <2>. QED
    BY <2>4, <2>7 DEF Steady
<1>6. CASE AbortDone
  BY <1>6, SteadyStill DEF AbortDone
<1>7. ASSUME NEW r \in Requests, AbortApproval(r)
      PROVE  Steady
  <2>. DEFINE denied == [cmd |-> "approval", req |-> r, cancels |-> FALSE]
  <2>0. denied \in Proper
    BY ResultsProper
  <2>1. CASE UNCHANGED <<vars, routed>>
    BY <2>1, SteadyStill
  <2>2. ASSUME NEW e \in Find("await_approval", AskedBy(r)),
               \/ Start(e) \/ ResolveAccepted(e, denied)
               \/ ResolveRefused(e, denied)
        PROVE  Steady
    <3>1. e \in EffectIds /\ effects[e].kind = "await_approval"
      BY FindFound
    <3>. HIDE DEF denied
    <3>2. CASE ResolveRefused(e, denied)
      <4>1. UNCHANGED effects
        BY <3>2 DEF ResolveRefused, vars, effectVars
      <4>2. Suits(e, denied)'
        BY <3>1, <4>1 DEF Suits
      <4>. QED
        BY <3>1, <3>2, <4>2, SteadyRefused
    <3>. QED
      BY <2>0, <2>2, <3>1, <3>2, SteadyMoved
  <2>. QED
    BY <1>7, <2>1, <2>2 DEF AbortApproval
<1>. QED
  BY <1>2, <1>3, <1>4, <1>5, <1>6, <1>7

\* The terminal transaction and its journal.
LEMMA TerminalSteady ==
  ASSUME Base, Synced, DiscardOutput \/ RequestTerminal \/ RunJournal \/ EndTurn
  PROVE  Steady
<1>0. TypeOK /\ routed \in [EffectIds -> Entries]
  BY WaitTypes DEF Base, RuntimeInv, IInv
<1>1. CASE DiscardOutput \/ EndTurn
  <2>1. UNCHANGED <<routed, sampleVars, effectVars>> /\ (phase = "sampling" => phase' = "sampling")
    BY <1>1 DEF DiscardOutput, EndTurn, DiscardProvisionalOutput, FinishTerminal, vars
  <2>2. UNCHANGED effects
    BY <2>1 DEF effectVars
  <2>. QED
    BY <2>1, <2>2, FatesStill, SyncedApart DEF Steady
<1>2. CASE RequestTerminal
  <2>1. /\ UNCHANGED sampleVars /\ Dispatch(routed) /\ PendingEffects = {}
        /\ \/ RequestEffect(JournalEffect(want), None, None)
           \/ UNCHANGED effectVars
    BY <1>2 DEF RequestTerminal, TerminalRequested
  <2>2. CASE RequestEffect(JournalEffect(want), None, None)
    <3>1. JournalEffect(want) \notin {"execute_tool", "sample_provider"}
      BY JournalEffects DEF JournalKinds
    <3>2. Moves({}, {JournalEffect(want)})
      BY <1>0, <2>1, <2>2, RequestMoves
    <3>3. \A e \in EffectIds : Pending(e)' => effects'[e].kind # "sample_provider"
      BY <2>1, <3>1, <3>2 DEF Moves, Stays, PendingEffects, Pending
    <3>4. Synced'
      BY <3>3 DEF Synced
    <3>. QED
      BY <2>1, <2>2, <3>1, <3>4, FatesRequested DEF Steady
  <2>3. CASE UNCHANGED effectVars
    <3>1. \A e \in EffectIds : ~(nextEffect < e /\ e <= nextEffect')
      BY <1>0, <2>3, TurnKernelAssumption DEF effectVars, TypeOK, EffectTypeOK, EffectIds
    <3>2. routed' = routed
      BY <1>0, <2>1, <3>1 DEF Dispatch
    <3>3. Synced'
      BY <2>1, <2>3 DEF Synced, PendingEffects, Pending, effectVars
    <3>. QED
      BY <2>3, <3>2, <3>3, FatesStill DEF Steady, effectVars
  <2>. QED
    BY <2>1, <2>2, <2>3
<1>3. CASE RunJournal
  <2>1. PICK e \in PendingEffects :
          \/ Start(e)
          \/ JournalResult(e, TRUE) /\ routed' = [routed EXCEPT ![e] = Absent]
          \/ /\ JournalResult(e, FALSE)
             /\ routed' = [routed EXCEPT ![e].state = "idle"]
          \/ UNCHANGED <<vars, routed>>
    BY <1>3 DEF RunJournal
  <2>2. e \in EffectIds
    BY DEF PendingEffects
  <2>3. ASSUME NEW b \in BOOLEAN, JournalResult(e, b)
        PROVE  /\ UNCHANGED <<phase, sampleVars, nextEffect>>
               /\ effects[e].kind \in JournalKinds /\ effects[e].status = "running"
               /\ effects' = IF b THEN Finish(effects, {e}) ELSE SetStatus(e, "requested")
    BY <2>3, JournalEffects DEF JournalResult
  <2>4. CASE JournalResult(e, TRUE) /\ routed' = [routed EXCEPT ![e] = Absent]
    <3>1. effects' = Finish(effects, {e}) /\ effects[e].kind # "sample_provider"
      BY <2>3, <2>4 DEF JournalKinds
    <3>2. /\ \A f \in EffectIds : f \in {e} => routed'[f].state = "absent"
          /\ \A f \in EffectIds : f \notin {e} => routed'[f] = routed[f]
      BY <1>0, <2>2, <2>4 DEF Absent
    <3>3. Fates
      BY <3>1, <3>2, FatesFinished
    <3>4. UNCHANGED <<phase, sampleVars>>
      BY <2>3, <2>4
    <3>5. \A f \in EffectIds : Pending(f)' => f # e /\ effects'[f] = effects[f]
      BY <1>0, <2>2, <3>1 DEF Finish, Pending, TypeOK, EffectTypeOK, Effects
    <3>6. Synced'
      BY <3>4, <3>5, SyncedApart
    <3>. QED
      BY <3>3, <3>6 DEF Steady
  <2>5. CASE JournalResult(e, FALSE) /\ routed' = [routed EXCEPT ![e].state = "idle"]
    <3>1. /\ effects[e].kind \notin {"sample_provider", "execute_tool"}
          /\ effects[e].status = "running" /\ effects' = SetStatus(e, "requested")
          /\ UNCHANGED <<phase, sampleVars>>
      BY <2>3, <2>5 DEF JournalKinds
    <3>. QED
      BY <2>2, <2>5, <3>1, FatesYielded, SyncedYielded DEF Steady
  <2>. QED
    BY <2>1, <2>2, <2>4, <2>5, SteadyMoved, SteadyStill
<1>. QED
  BY <1>1, <1>2, <1>3

\* Cancellation, crashes and restarts.
LEMMA OutsideSteady ==
  ASSUME Base, Synced, Cancel \/ CancelContext \/ CrashStep \/ Ended \/ UNCHANGED allVars
  PROVE  Steady
<1>0. Absent.state = "absent" /\ Absent.result = NoResult /\ \A n : Idle(n).result = NoResult
  BY DEF Absent, Idle
<1>1. CASE Cancel \/ CancelContext \/ Ended \/ UNCHANGED allVars
  <2>1. UNCHANGED <<routed, effectVars, sampleVars, phase>>
    BY <1>1 DEF Cancel, CancelContext, Ended, CancelRequested, allVars, vars, rtVars
  <2>2. UNCHANGED effects
    BY <2>1 DEF effectVars
  <2>. QED
    BY <2>1, <2>2, FatesStill, SyncedApart DEF Steady
<1>2. CASE Crash \/ Restore
  <2>1. /\ UNCHANGED vars
        /\ \/ \A e \in EffectIds : routed'[e] = Absent
           \/ \A e \in EffectIds :
                routed'[e] = IF Pending(e) THEN Idle(effects[e].attempt) ELSE Absent
    BY <1>2 DEF Crash, Restore
  <2>2. Fates
    BY <1>0, <2>1 DEF Fates, Resets, vars, effectVars
  <2>. QED
    BY <2>1, <2>2, SyncedStill DEF Steady
<1>3. ASSUME NEW e \in EffectIds, Requeue(e)
      PROVE  Steady
  <2>1. /\ effects' = SetStatus(e, "requested") /\ effects[e].status = "running"
        /\ UNCHANGED <<routed, phase, pc>> /\ pc = "down"
        /\ IF effects[e].kind = "sample_provider"
           THEN samples' = [samples EXCEPT ![effects[e].call].status = "requested"]
           ELSE UNCHANGED sampleVars
    BY <1>3 DEF Requeue, EffectRequeued, rtVars, turnVars
  <2>. QED
    BY <2>1, FatesYielded, SyncedYielded DEF Steady
<1>. QED
  BY <1>1, <1>2, <1>3 DEF CrashStep

\* Every step of the runtime.
LEMMA StepSteady ==
  ASSUME Base, OpOK, WaitInv, RegistryCovers', Exact, Synced, [RuntimeNext]_allVars
  PROVE  Steady
<1>1. CASE TurnStep
  BY <1>1, SamplingSteady, BatchSteady DEF TurnStep
<1>2. CASE FinalizeStep
  BY <1>2, AbortSteady, TerminalSteady DEF FinalizeStep
<1>. QED
  BY <1>1, <1>2, AskSteady, OutsideSteady DEF RuntimeNext

-----------------------------------------------------------------------------
(* What a step does to the waits and where the driver goes                  *)

\* No wait comes up, and no failed commit is forgotten.
Quiet ==
  /\ Blamed
  /\ input' \in {input, NoInput}
  /\ \A r \in Requests : approvals'[r] \in {approvals[r], None}

\* A step beside the durable state.
LEMMA QuietStill ==
  ASSUME UNCHANGED <<vars, faults>>
  PROVE  Quiet
  BY DEF Quiet, Blamed, vars, workVars

\* An effect is started.
LEMMA QuietStarted ==
  ASSUME NEW e, Start(e), UNCHANGED envVars
  PROVE  Quiet
<1>1. EffectStarted(e, routed[e].attempt + 1)
  BY DEF Start
<1>2. UNCHANGED <<approvals, input, faults>>
  BY <1>1 DEF EffectStarted, workVars, envVars
<1>. QED
  BY <1>2 DEF Quiet, Blamed

\* A result is accepted or refused.
LEMMA QuietResolved ==
  ASSUME Base, NEW e \in EffectIds, NEW first \in Proper,
         ResolveAccepted(e, first) \/ ResolveRefused(e, first)
  PROVE  Quiet
<1>0. approvals \in [Requests -> Calls \union {None}]
  BY WaitTypes
<1>1. CASE ResolveRefused(e, first)
  <2>1. faults \in Nat
    BY TurnRuntimeAssumption DEF Base, RuntimeTypeOK
  <2>2. UNCHANGED vars /\ faults' \in {faults, faults + 1}
    BY <1>1 DEF ResolveRefused
  <2>. QED
    BY <2>1, <2>2 DEF Quiet, Blamed, vars, workVars
<1>2. CASE ResolveAccepted(e, first)
  <2>. DEFINE r == Retained(e, first)
              c == effects[e].call
  <2>1. Submit(e, r) /\ r \in Proper /\ UNCHANGED faults
    BY <1>2, RetainedProper DEF ResolveAccepted, Base, RuntimeInv, envVars
  <2>. HIDE DEF r
  <2>2. CASE r.cmd \in {"failed", "text"}
    BY <2>1, <2>2 DEF Submit, ModelSampleFailed, ModelSampleAnswered, workVars, Quiet, Blamed
  <2>3. CASE r.cmd = "calls"
    <3>1. PICK n \in 1 .. MaxBatch : \E batch \in [1 .. n -> Calls] :
            ModelSampleCalled(e, c, n, batch, FALSE)
      BY <2>1, <2>3 DEF Submit
    <3>2. UNCHANGED <<approvals, input>>
      BY <3>1 DEF ModelSampleCalled
    <3>. QED
      BY <2>1, <3>2 DEF Quiet, Blamed
  <2>4. CASE r.cmd = "tool"
    <3>1. PICK failed \in BOOLEAN, changes \in BOOLEAN : ToolResult(e, c, failed, changes)
      BY <2>1, <2>4 DEF Submit
    <3>2. /\ approvals' = [x \in Requests |-> IF x \in Waiting(c) THEN None ELSE approvals[x]]
          /\ input' \in {input, NoInput}
      BY <3>1 DEF ToolResult
    <3>. QED
      BY <2>1, <3>2 DEF Quiet, Blamed
  <2>5. CASE r.cmd \in {"abort", "input"}
    BY <2>1, <2>5 DEF Submit, EffectResult, InputResult, ResolveInputWait, workVars, Quiet,
                      Blamed
  <2>6. CASE r.cmd = "approval"
    <3>1. approvals' = [approvals EXCEPT ![r.req] = None] /\ UNCHANGED input
      BY <2>1, <2>6 DEF Submit, ApprovalResult
    <3>. QED
      BY <1>0, <2>1, <3>1 DEF Quiet, Blamed
  <2>. QED
    BY <2>1, <2>2, <2>3, <2>4, <2>5, <2>6 DEF Proper, Results
<1>. QED
  BY <1>1, <1>2

\* The steps of the turn's goroutine.
LEMMA TurnQuiet ==
  ASSUME Base, TurnStep
  PROVE  Quiet
<1>1. CASE OpenTurn \/ Answer
  BY <1>1 DEF OpenTurn, Answer, StartTurn, PreparationFinished, ReleaseProvisionalOutput,
     DiscardProvisionalOutput, vars, workVars, envVars, Quiet, Blamed
<1>2. CASE \/ ResumeSample \/ LoopFails \/ AdmissionFails \/ ExecuteBatch
           \/ BatchReturned \/ BatchClosed
  BY <1>2, QuietStill DEF ResumeSample, LoopFails, AdmissionFails, ExecuteBatch, Launch,
     BatchReturned, BatchClosed, envVars
<1>8. CASE StartToolFails
  <2>1. faults \in Nat
    BY TurnRuntimeAssumption DEF Base, RuntimeTypeOK
  <2>. QED
    BY <1>8, <2>1 DEF StartToolFails, vars, workVars, Quiet, Blamed
<1>3. CASE \/ \E s \in Samples : RequestSample(s)
           \/ \E e \in EffectIds : RecordProgress(e) \/ LeaveTransport(e)
           \/ AdmitBatch
  BY <1>3 DEF RequestSample, ModelSampleRequested, RecordProgress, ModelSampleProgress,
     LeaveTransport, ProviderRetryRequested, EffectRequeued, AdmitBatch,
     ToolBatchAdmissionRejected, vars, workVars, envVars, Quiet, Blamed
<1>4. ASSUME NEW e \in EffectIds, StartSample(e)
      PROVE  Quiet
  BY <1>4, QuietStarted DEF StartSample
<1>5. ASSUME NEW c \in Calls, StartTool(c)
      PROVE  Quiet
  BY <1>5, QuietStarted DEF StartTool
<1>6. ASSUME NEW e \in EffectIds, NEW cmd \in {"failed", "text", "calls"},
             FinishSample(e, cmd)
      PROVE  Quiet
  BY <1>6, ResultsProper, QuietResolved DEF FinishSample
<1>7. ASSUME NEW c \in Calls, CloseTool(c)
      PROVE  Quiet
  <2>1. PICK e \in ToolEffect(c) :
          ResolveAccepted(e, Result("tool")) \/ ResolveRefused(e, Result("tool"))
    BY <1>7 DEF CloseTool
  <2>. QED
    BY <2>1, FindFound, ResultsProper, QuietResolved DEF ToolEffect
<1>. QED
  BY <1>1, <1>2, <1>3, <1>4, <1>5, <1>6, <1>7, <1>8 DEF TurnStep

\* The steps of FinalizeTerminal.
LEMMA FinalizeQuiet ==
  ASSUME Base, FinalizeStep
  PROVE  Quiet
<1>1. CASE AbortInput
  <2>1. CASE InputResolved(input.req) /\ UNCHANGED envVars
    BY <2>1 DEF InputResolved, ResolveInputWait, envVars, Quiet, Blamed
  <2>2. ASSUME NEW e \in Find("await_input", None),
               \/ Start(e) /\ UNCHANGED envVars
               \/ ResolveAccepted(e, Result("abort")) \/ ResolveRefused(e, Result("abort"))
        PROVE  Quiet
    BY <2>2, FindFound, ResultsProper, QuietStarted, QuietResolved
  <2>. QED
    BY <1>1, <2>1, <2>2, QuietStill DEF AbortInput, envVars
<1>2. CASE AbortSamples
  <2>1. ASSUME NEW e \in SampleEffect,
               \/ Start(e) /\ UNCHANGED envVars
               \/ ResolveAccepted(e, Result("failed")) \/ ResolveRefused(e, Result("failed"))
        PROVE  Quiet
    BY <2>1, FindFound, ResultsProper, QuietStarted, QuietResolved DEF SampleEffect
  <2>. QED
    BY <1>2, <2>1, QuietStill DEF AbortSamples, envVars
<1>3. CASE AbortTool
  <2>1. PICK e \in Find("execute_tool", None) :
          \/ Start(e) /\ UNCHANGED envVars
          \/ ResolveAccepted(e, Result("abort")) \/ ResolveRefused(e, Result("abort"))
    BY <1>3 DEF AbortTool
  <2>. QED
    BY <2>1, FindFound, ResultsProper, QuietStarted, QuietResolved
<1>4. CASE AbortCalls \/ DiscardOutput \/ EndTurn \/ RequestTerminal
  BY <1>4 DEF AbortCalls, AbortOpenCalls, DiscardOutput, DiscardProvisionalOutput, EndTurn,
     FinishTerminal, RequestTerminal, TerminalRequested, vars, workVars, envVars, Quiet,
     Blamed
<1>5. CASE AbortDone
  BY <1>5, QuietStill DEF AbortDone, envVars
<1>6. ASSUME NEW r \in Requests, AbortApproval(r)
      PROVE  Quiet
  <2>. DEFINE denied == [cmd |-> "approval", req |-> r, cancels |-> FALSE]
  <2>0. denied \in Proper
    BY ResultsProper
  <2>1. ASSUME NEW e \in Find("await_approval", AskedBy(r)),
               \/ Start(e) /\ UNCHANGED envVars
               \/ ResolveAccepted(e, denied) \/ ResolveRefused(e, denied)
        PROVE  Quiet
    <3>. HIDE DEF denied
    <3>. QED
      BY <2>0, <2>1, FindFound, QuietStarted, QuietResolved
  <2>. QED
    BY <1>6, <2>1, QuietStill DEF AbortApproval, envVars
<1>7. CASE RunJournal
  <2>1. PICK e \in PendingEffects :
          \/ Start(e) /\ UNCHANGED envVars
          \/ JournalResult(e, TRUE) /\ UNCHANGED envVars
          \/ JournalResult(e, FALSE) /\ faults' = faults + 1
          \/ UNCHANGED <<approvals, input>> /\ faults' = faults + 1
    BY <1>7 DEF RunJournal, vars, workVars
  <2>2. ASSUME JournalResult(e, TRUE) \/ JournalResult(e, FALSE)
        PROVE  UNCHANGED <<approvals, input>>
    BY <2>2 DEF JournalResult, workVars
  <2>3. faults \in Nat
    BY TurnRuntimeAssumption DEF Base, RuntimeTypeOK
  <2>4. CASE Start(e) /\ UNCHANGED envVars
    BY <2>4, QuietStarted
  <2>5. CASE /\ UNCHANGED <<approvals, input>>
             /\ UNCHANGED envVars \/ faults' = faults + 1
    BY <2>3, <2>5 DEF Quiet, Blamed, envVars
  <2>. QED
    BY <2>1, <2>2, <2>4, <2>5
<1>. QED
  BY <1>1, <1>2, <1>3, <1>4, <1>5, <1>6, <1>7 DEF FinalizeStep

\* Every step but a new question.
LEMMA StepQuiet ==
  ASSUME Base, [RuntimeNext]_allVars
  PROVE  Quiet \/ \E c \in Calls, r \in Requests : Ask(c, r) /\ UNCHANGED faults
<1>1. CASE TurnStep \/ FinalizeStep
  BY <1>1, TurnQuiet, FinalizeQuiet
<1>2. CASE \/ \E c \in Calls :
                \/ \E failed \in BOOLEAN : Return(c, failed)
                \/ RejectUnresumed(c)
                \/ \E r \in Requests : AskRecovered(c, r) \/ StopWaiting(c, r)
           \/ \E r \in Requests :
                \/ Expire(r) \/ ResolveFails(r) \/ ReplyLate(r)
                \/ \E cancels \in BOOLEAN : Reply(r, cancels)
  BY <1>2, QuietStill DEF Return, RejectUnresumed, AskRecovered, StopWaiting, Expire,
     ResolveFails, ReplyLate, Reply, envVars
<1>3. CASE Required
  <2>1. PICK e \in WaitEffect(op.req, op.call) :
          (Start(e) \/ UNCHANGED vars) /\ UNCHANGED envVars
    BY <1>3 DEF Required
  <2>. QED
    BY <2>1, QuietStarted, QuietStill DEF envVars
<1>8. CASE RequiredFails
  <2>1. faults \in Nat
    BY TurnRuntimeAssumption DEF Base, RuntimeTypeOK
  <2>. QED
    BY <1>8, <2>1 DEF RequiredFails, vars, workVars, Quiet, Blamed
<1>4. ASSUME NEW r \in Requests, ResolveStarts(r)
      PROVE  Quiet
  BY <1>4, QuietStarted DEF ResolveStarts
<1>5. ASSUME NEW r \in Requests, ResolveWait(r)
      PROVE  Quiet
  <2>1. PICK e \in WaitEffect(r, CallOf(r)) :
          ResolveAccepted(e, WaitResult(r)) \/ ResolveRefused(e, WaitResult(r))
    BY <1>5 DEF ResolveWait
  <2>. QED
    BY <2>1, WaitFound, ResultsProper, QuietResolved
<1>6. ASSUME NEW c \in Calls, NEW r \in Requests, Ask(c, r)
      PROVE  UNCHANGED faults
  BY <1>6 DEF Ask, envVars
<1>7. CASE Cancel \/ CancelContext \/ CrashStep \/ Ended \/ UNCHANGED allVars
  BY <1>7 DEF Cancel, CancelRequested, CancelContext, CrashStep, Crash, Restore, Requeue,
     EffectRequeued, Ended, allVars, vars, rtVars, workVars, envVars, Quiet, Blamed
<1>. QED
  BY <1>1, <1>2, <1>3, <1>4, <1>5, <1>6, <1>7, <1>8 DEF RuntimeNext, AskStep

\* The steps of the executors, the users, the timers and the service.
Bystander ==
  AskStep \/ Cancel \/ CancelContext \/ Ended \/ UNCHANGED allVars

\* The turn's goroutine is then where it was.
LEMMA BystanderStays ==
  ASSUME Bystander
  PROVE  UNCHANGED turnVars
<1>1. CASE AskStep
  <2>1. Required \/ RequiredFails => UNCHANGED turnVars
    BY DEF Required, RequiredFails
  <2>2. ASSUME NEW c \in Calls,
               \/ \E failed \in BOOLEAN : Return(c, failed)
               \/ RejectUnresumed(c)
               \/ \E r \in Requests : Ask(c, r) \/ AskRecovered(c, r) \/ StopWaiting(c, r)
        PROVE  UNCHANGED turnVars
    BY <2>2 DEF Return, RejectUnresumed, Ask, AskRecovered, StopWaiting
  <2>3. ASSUME NEW r \in Requests,
               \/ Expire(r) \/ ResolveStarts(r) \/ ResolveWait(r) \/ ResolveFails(r) \/ ReplyLate(r)
               \/ \E cancels \in BOOLEAN : Reply(r, cancels)
        PROVE  UNCHANGED turnVars
    BY <2>3 DEF Expire, ResolveStarts, ResolveWait, ResolveFails, ReplyLate, Reply
  <2>. QED
    BY <1>1, <2>1, <2>2, <2>3 DEF AskStep
<1>. QED
  BY <1>1 DEF Bystander, Cancel, CancelContext, Ended, allVars, rtVars

\* The places of the driver the invariant speaks of.
Watched == {"running", "closing", "abort_samples", "abort_tools", "stuck"}

\* What leads to them,
LEMMA StepTo ==
  ASSUME [RuntimeNext]_allVars
  PROVE  \/ Bystander
         \/ pc' \notin Watched
         \/ ExecuteBatch \/ BatchReturned \/ \E c \in Calls : CloseTool(c)
         \/ AbortInput \/ AbortSamples \/ AbortTool \/ AbortCalls \/ AbortDone
         \/ \E r \in Requests : AbortApproval(r)
         \/ pc' = "stuck" /\ faults' = faults + 1
<1>1. ASSUME \/ OpenTurn \/ ResumeSample \/ LoopFails \/ Answer
             \/ \E s \in Samples : RequestSample(s)
      PROVE  pc' \notin Watched
  BY <1>1, WhereTo DEF OpenTurn, ResumeSample, LoopFails, Answer, RequestSample, Watched
<1>2. ASSUME NEW e \in EffectIds, StartSample(e) \/ RecordProgress(e) \/ LeaveTransport(e)
      PROVE  pc' \notin Watched
  BY <1>2, WhereTo DEF StartSample, RecordProgress, LeaveTransport, Watched
<1>3. ASSUME NEW e \in EffectIds, NEW cmd \in {"failed", "text", "calls"},
             FinishSample(e, cmd)
      PROVE  pc' \notin Watched
  BY <1>3, WhereTo DEF FinishSample, Watched
<1>4. ASSUME AdmitBatch \/ AdmissionFails \/ StartToolFails \/ BatchClosed
      PROVE  pc' \notin Watched
  BY <1>4, WhereTo DEF AdmitBatch, AdmissionFails, StartToolFails, BatchClosed, Watched
<1>5. ASSUME NEW c \in Calls, StartTool(c)
      PROVE  pc' \notin Watched
  BY <1>5 DEF StartTool, At, Watched
<1>6. ASSUME DiscardOutput \/ RequestTerminal \/ EndTurn
      PROVE  pc' \notin Watched
  BY <1>6, WhereTo DEF DiscardOutput, RequestTerminal, EndTurn, Watched
<1>7. ASSUME RunJournal
      PROVE  pc' \notin Watched \/ (pc' = "stuck" /\ faults' = faults + 1)
  <2>1. pc' \in {"journal", "pending"} \/ (pc' = "stuck" /\ faults' = faults + 1)
    BY <1>7, WhereTo DEF RunJournal
  <2>. QED
    BY <2>1 DEF Watched
<1>8. ASSUME CrashStep
      PROVE  pc' \notin Watched
  <2>1. Crash => pc' = "down"
    BY DEF Crash
  <2>2. (\E e \in EffectIds : Requeue(e)) => pc' = "down"
    BY DEF Requeue, rtVars, turnVars
  <2>3. Restore => pc' \in {"open", "done", "journal", "abort_input", "admit", "loop"}
    BY WhereTo DEF Restore
  <2>. QED
    BY <1>8, <2>1, <2>2, <2>3 DEF CrashStep, Watched
<1>9. CASE TurnStep
  BY <1>1, <1>2, <1>3, <1>4, <1>5, <1>9 DEF TurnStep
<1>10. CASE FinalizeStep
  BY <1>6, <1>7, <1>10 DEF FinalizeStep
<1>. QED
  BY <1>8, <1>9, <1>10 DEF RuntimeNext, Bystander

\* and what leads away from the execution of a batch.
LEMMA StepFrom ==
  ASSUME [RuntimeNext]_allVars, pc \in {"running", "closing"}
  PROVE  \/ Bystander \/ BatchReturned \/ BatchClosed \/ Crash
         \/ \E c \in Calls : CloseTool(c)
<1>1. ASSUME TurnStep
      PROVE  BatchReturned \/ BatchClosed \/ \E c \in Calls : CloseTool(c)
  <2>1. ~(OpenTurn \/ ResumeSample \/ LoopFails \/ Answer \/ \E s \in Samples : RequestSample(s))
    BY DEF OpenTurn, ResumeSample, LoopFails, Answer, RequestSample, At
  <2>2. ~\E e \in EffectIds :
           \/ StartSample(e) \/ RecordProgress(e) \/ LeaveTransport(e)
           \/ \E cmd \in {"failed", "text", "calls"} : FinishSample(e, cmd)
    BY DEF StartSample, RecordProgress, LeaveTransport, FinishSample, At
  <2>3. ~(AdmitBatch \/ AdmissionFails \/ StartToolFails \/ ExecuteBatch \/ \E c \in Calls : StartTool(c))
    BY DEF AdmitBatch, AdmissionFails, StartToolFails, ExecuteBatch, StartTool, At
  <2>. QED
    BY <1>1, <2>1, <2>2, <2>3 DEF TurnStep
<1>2. ~FinalizeStep
  BY DEF FinalizeStep, AbortInput, AbortSamples, AbortTool, AbortCalls, AbortDone,
     AbortApproval, DiscardOutput, RequestTerminal, RunJournal, EndTurn, At
<1>3. ~(Restore \/ \E e \in EffectIds : Requeue(e))
  BY DEF Restore, Requeue
<1>. QED
  BY <1>1, <1>2, <1>3 DEF RuntimeNext, CrashStep, Bystander

\* A batch is executed when all of it was started.
LEMMA Launches ==
  ASSUME [RuntimeNext]_allVars, pc' \in {"running", "closing"}
  PROVE  pc \in {"running", "closing"} \/ (pc = "starting" /\ todo = {})
<1>1. CASE Bystander
  BY <1>1, BystanderStays DEF turnVars
<1>2. CASE ExecuteBatch \/ BatchReturned \/ \E c \in Calls : CloseTool(c)
  BY <1>2 DEF ExecuteBatch, BatchReturned, CloseTool, At
<1>3. ~(AbortInput \/ AbortSamples \/ AbortTool \/ AbortCalls \/ AbortDone)
  BY WhereTo DEF AbortInput, AbortSamples, AbortTool, AbortCalls, AbortDone
<1>4. ASSUME NEW r \in Requests, AbortApproval(r)
      PROVE  FALSE
  <2>1. pc' \in {"abort_tools", "stuck", "abort_input"}
    BY <1>4, WhereTo DEF AbortApproval
  <2>. QED
    BY <2>1
<1>. QED
  BY <1>1, <1>2, <1>3, <1>4, StepTo DEF Watched

-----------------------------------------------------------------------------
(* The input wait behind a stale entry                                      *)

\* No executor is taken away while a batch is executed.
LEMMA ExecutorsStay ==
  ASSUME Base, Bystander, NEW c \in Calls, tools[c].at # "off"
  PROVE  tools'[c].at # "off"
<1>0. tools \in Executors
  BY DEF Base, RuntimeTypeOK, Executors
<1>1. ASSUME NEW d \in Calls, NEW r, Wait(d, r) \/ Leave(d, r)
      PROVE  tools'[c].at = tools[c].at
  BY <1>0, <1>1 DEF Wait, Leave, Executors
<1>2. ASSUME NEW r, NEW b \in BOOLEAN, AnswerDone(r, b)
      PROVE  tools'[c].at # "off"
  <2>1. tools'[c].at \in {tools[c].at, "back"}
    BY <1>2 DEF AnswerDone
  <2>. QED
    BY <2>1
<1>3. ASSUME UNCHANGED tools
      PROVE  tools'[c].at # "off"
  BY <1>3
<1>4. CASE Required
  <2>1. op.call \in Calls \union {None}
    BY DEF Base, RuntimeTypeOK
  <2>2. CASE UNCHANGED tools
    BY <2>2
  <2>3. CASE Wait(op.call, op.req)
    BY <1>0, <2>1, <2>3 DEF Wait, Executors
  <2>. QED
    BY <1>4, <2>2, <2>3 DEF Required
<1>10. CASE RequiredFails
  BY <1>0, <1>3, <1>10 DEF RequiredFails, Failing, Executors
<1>5. ASSUME NEW d \in Calls, NEW failed \in BOOLEAN, Return(d, failed)
      PROVE  tools'[c].at # "off"
  BY <1>0, <1>5 DEF Return, Failing, Executors
<1>6. ASSUME NEW d \in Calls, RejectUnresumed(d)
      PROVE  tools'[c].at # "off"
  <2>1. UNCHANGED tools \/ tools' = [tools EXCEPT ![d].at = "back"]
    BY <1>6 DEF RejectUnresumed
  <2>. QED
    BY <1>0, <2>1 DEF Executors
<1>7. ASSUME NEW d \in Calls, NEW r \in Requests,
             Ask(d, r) \/ AskRecovered(d, r) \/ StopWaiting(d, r)
      PROVE  tools'[c].at # "off"
  BY <1>1, <1>7 DEF Ask, AskRecovered, StopWaiting
<1>8. ASSUME NEW r \in Requests,
             \/ Expire(r) \/ ResolveStarts(r) \/ ResolveWait(r) \/ ResolveFails(r) \/ ReplyLate(r)
             \/ \E cancels \in BOOLEAN : Reply(r, cancels)
      PROVE  tools'[c].at # "off"
  BY <1>2, <1>8 DEF Expire, ResolveStarts, ResolveWait, ResolveFails, ReplyLate, Reply
<1>9. CASE Cancel \/ CancelContext \/ Ended \/ UNCHANGED allVars
  BY <1>9 DEF Cancel, CancelContext, Ended, allVars, rtVars, hostVars
<1>. QED
  BY <1>4, <1>5, <1>6, <1>7, <1>8, <1>9, <1>10 DEF Bystander, AskStep

\* The result of a call that waits for input retires the wait.
LEMMA CloseRetires ==
  ASSUME Base, Exact, Suited, Launched, Blamed, NEW c \in Calls, CloseTool(c), faults' = 0,
         Bound(c)
  PROVE  input'.req = None
<1>0. /\ None \notin Calls /\ NoInput.req = None /\ NoOrphanEffect /\ ValidWaits
      /\ faults = 0
  BY WaitTypes DEF Base, RuntimeInv, IInv, Valid, Blamed
<1>1. PICK e \in ToolEffect(c) :
        ResolveAccepted(e, Result("tool")) \/ ResolveRefused(e, Result("tool"))
  BY DEF CloseTool
<1>2. /\ e \in EffectIds /\ routed[e].state # "absent"
      /\ effects[e].kind = "execute_tool" /\ effects[e].call = c
  BY <1>0, <1>1, FindFound DEF ToolEffect
<1>3. Pending(e) /\ pc = "closing"
  BY <1>2 DEF Exact, CloseTool, At
<1>4. effects[e].status = "running"
  BY <1>2, <1>3 DEF Launched, IsTool
<1>5. routed[e].state = "started"
  BY <1>2, <1>3, <1>4 DEF Base, RegistryCovers, PendingEffects
<1>6. calls[c] = "open"
  BY <1>0, <1>2, <1>3 DEF NoOrphanEffect, PendingEffects, OpenCalls
<1>7. phase = "awaiting_input" /\ Waiting(c) = {}
  <2>1. phase = "awaiting_input" /\ PendingApprovals = {}
    BY <1>0 DEF Bound, ValidWaits
  <2>. QED
    BY <1>0, <2>1 DEF Waiting, PendingApprovals
<1>. DEFINE r == Retained(e, Result("tool"))
<1>8. r.cmd = "tool"
  <2>1. routed[e].result \in Proper \union {NoResult}
    BY <1>2 DEF Base, RuntimeInv, RegistryOK, Registry
  <2>2. routed[e].result.cmd \in {"none", "tool"}
    BY <1>0, <1>2, <1>3 DEF Suited, Suits
  <2>3. routed[e].result = NoResult \/ routed[e].result.cmd = "tool"
    BY <2>1, <2>2 DEF Proper
  <2>. QED
    BY <2>3 DEF Retained, Result
<1>. HIDE DEF r
<1>9. Legal(e, r)
  BY <1>2, <1>4, <1>6, <1>7, <1>8 DEF Legal
<1>10. ~ResolveRefused(e, Result("tool"))
  <2>1. Resolvable(e, Result("tool"))
    BY <1>5 DEF Resolvable
  <2>. QED
    BY <1>9, <2>1, LegalBlames DEF r
<1>11. Submit(e, r)
  BY <1>1, <1>10 DEF ResolveAccepted, r
<1>12. PICK failed \in BOOLEAN, changes \in BOOLEAN : ToolResult(e, c, failed, changes)
  BY <1>2, <1>8, <1>11 DEF Submit
<1>13. input' = NoInput
  BY <1>12 DEF ToolResult
<1>. QED
  BY <1>0, <1>13

\* Such a wait is attended to.
LEMMA StepAttends ==
  ASSUME Base, Exact, Suited, Launched, Attended, [RuntimeNext]_allVars,
         Stale' => Stale \/ input'.req = None
  PROVE  Attended'
<1>. SUFFICES ASSUME faults' = 0, input'.req # None, Stale'
              PROVE  /\ input'.call \in Calls
                     /\ \/ pc' = "running" /\ tools'[input'.call].at # "off"
                        \/ pc' = "closing" /\ input'.call \in todo'
  BY DEF Attended
<1>0. Stale /\ NoInput.req = None /\ Idling
  BY WaitTypes DEF Base, Batches
<1>1. ASSUME NEW c \in Calls, NEW r \in Requests, Ask(c, r), UNCHANGED faults
      PROVE  /\ input'.call \in Calls
             /\ pc' = "running" /\ tools'[input'.call].at # "off"
  <2>1. tools[c].at = "run" /\ UNCHANGED <<pc, tools>>
    BY <1>1 DEF Ask, turnVars
  <2>2. pc = "running"
    BY <1>0, <2>1 DEF Idling
  <2>3. CASE r \in InputRequests
    <3>1. input' = [req |-> r, call |-> c]
      BY <1>1, <2>3 DEF Ask, InputRequired
    <3>. QED
      BY <2>1, <2>2, <3>1
  <2>4. CASE r \notin InputRequests
    <3>1. UNCHANGED input
      BY <1>1, <2>4 DEF Ask, ApprovalRequired
    <3>. QED
      BY <1>0, <1>1, <2>1, <2>2, <3>1 DEF Attended
  <2>. QED
    BY <2>3, <2>4
<1>2. CASE Quiet
  <2>1. input' = input /\ faults = 0 /\ Blamed
    BY <1>0, <1>2 DEF Quiet, Blamed
  <2>2. /\ input.call \in Calls
        /\ \/ pc = "running" /\ tools[input.call].at # "off"
           \/ pc = "closing" /\ input.call \in todo
    BY <1>0, <2>1 DEF Attended
  <2>3. CASE Bystander
    BY <2>1, <2>2, <2>3, BystanderStays, ExecutorsStay DEF turnVars
  <2>4. CASE BatchReturned
    BY <2>1, <2>2, <2>4 DEF BatchReturned
  <2>5. CASE BatchClosed
    BY <2>2, <2>5 DEF BatchClosed, At
  <2>6. ASSUME NEW c \in Calls, CloseTool(c)
        PROVE  pc' = "closing" /\ input.call \in todo'
    <3>1. pc = "closing" /\ UNCHANGED pc /\ todo' = todo \ {c}
      BY <2>6 DEF CloseTool, At
    <3>2. ~Bound(c)
      BY <2>1, <2>6, CloseRetires
    <3>3. input.call # c
      BY <2>1, <3>2 DEF Bound
    <3>. QED
      BY <2>2, <3>1, <3>3
  <2>7. ~Crash
    <3>1. Crash => \A e \in EffectIds : routed'[e].state = "absent"
      BY DEF Crash, Absent
    <3>. QED
      BY <3>1 DEF Stale
  <2>. QED
    BY <2>1, <2>2, <2>3, <2>4, <2>5, <2>6, <2>7, StepFrom
<1>. QED
  BY <1>1, <1>2, StepQuiet

-----------------------------------------------------------------------------
(* The order of the aborts                                                  *)

\* What AbortTools denies is pending, at the call that asked it.
LEMMA DenyOwn ==
  ASSUME Base, WaitInv, NEW r \in Requests, AbortApproval(r)
  PROVE  r \in PendingApprovals /\ AskedBy(r) = approvals[r] /\ pc = "abort_tools"
<1>1. pc = "abort_tools" /\ r \in PendingApprovals
  BY DEF AbortApproval, WaitInv, Denied
<1>2. approvals[r] \in Calls /\ r \in RequestsOf(approvals[r])
  BY <1>1 DEF Base, Asked, RuntimeInv, IInv, Valid, ValidWaits, OpenCalls
<1>3. \A c \in Calls : r \in RequestsOf(c) => c = approvals[r]
  BY <1>2 DEF RequestsOf, WaitInv, AskedOnce
<1>. QED
  BY <1>1, <1>2, <1>3 DEF AskedBy

\* What a pending approval retains answers it.
LEMMA DeniedResult ==
  ASSUME Base, WaitInv, NEW r \in PendingApprovals, NEW first,
         first.cmd = "approval", first.req = r,
         NEW e \in Find("await_approval", approvals[r])
  PROVE  /\ e \in EffectIds /\ Pending(e) /\ effects[e].key = r
         /\ effects[e].kind = "await_approval"
         /\ Retained(e, first).cmd = "approval" /\ Retained(e, first).req = r
<1>1. /\ e \in EffectIds /\ Pending(e) /\ effects[e].key = r
      /\ effects[e].kind = "await_approval"
  BY OwnWait DEF WaitInv
<1>2. Answers(e, routed[e].result)
  BY <1>1 DEF WaitInv, Owned
<1>3. routed[e].result # NoResult =>
        routed[e].result.cmd = "approval" /\ routed[e].result.req = r
  BY <1>1, <1>2 DEF Answers, WaitKinds
<1>. QED
  BY <1>1, <1>3 DEF Retained

\* The aborts stay in order.
LEMMA StepLate ==
  ASSUME Base, WaitInv, Late, [RuntimeNext]_allVars
  PROVE  Late'
<1>0. NoInput.req = None /\ Idling /\ approvals \in [Requests -> Calls \union {None}]
  BY WaitTypes DEF Base, Batches
<1>1. CASE \E c \in Calls, r \in Requests : Ask(c, r)
  <2>1. PICK c \in Calls, r \in Requests : Ask(c, r)
    BY <1>1
  <2>2. tools[c].at = "run" /\ UNCHANGED pc
    BY <2>1 DEF Ask, turnVars
  <2>3. pc = "running"
    BY <1>0, <2>2 DEF Idling
  <2>. QED
    BY <2>2, <2>3 DEF Late
<1>2. CASE Quiet
  <2>1. input.req = None => input'.req = None
    BY <1>0, <1>2 DEF Quiet
  <2>2. PendingApprovals' \subseteq PendingApprovals
    BY <1>2 DEF Quiet, PendingApprovals
  <2>3. ASSUME UNCHANGED <<pc, todo>>
        PROVE  Late'
    BY <2>1, <2>2, <2>3 DEF Late
  <2>4. CASE Bystander
    BY <2>3, <2>4, BystanderStays DEF turnVars
  <2>5. CASE pc' \notin Watched
    BY <2>5 DEF Late, Watched
  <2>6. CASE ExecuteBatch \/ BatchReturned \/ \E c \in Calls : CloseTool(c)
    <3>1. pc' \in {"running", "closing"}
      BY <2>6, WhereTo DEF ExecuteBatch, Launch, BatchReturned, CloseTool, At
    <3>. QED
      BY <3>1 DEF Late
  <2>7. CASE AbortInput
    <3>1. pc = "abort_input"
      BY <2>7 DEF AbortInput, At
    <3>2. CASE input.req = None /\ Goto("abort_samples")
      BY <2>1, <3>2, WhereTo DEF Late
    <3>3. CASE InputResolved(input.req) /\ Goto("abort_samples")
      <4>1. input' = NoInput
        BY <3>3 DEF InputResolved, ResolveInputWait
      <4>. QED
        BY <1>0, <3>3, <4>1, WhereTo DEF Late
    <3>4. CASE pc' \in {"abort_input", "stuck"}
      BY <3>4 DEF Late
    <3>. QED
      BY <2>7, <3>2, <3>3, <3>4, WhereTo DEF AbortInput
  <2>8. CASE AbortSamples
    <3>1. pc = "abort_samples" /\ input'.req = None
      BY <2>1, <2>8 DEF AbortSamples, At, Late
    <3>2. \/ Goto("abort_samples")
          \/ ToAbortTools(TRUE) \/ ToAbortTools(FALSE)
      BY <2>8 DEF AbortSamples
    <3>3. pc' = "abort_samples" \/ todo' = PendingApprovals'
      BY <3>2, WhereTo DEF ToAbortTools, PendingApprovals
    <3>. QED
      BY <3>1, <3>3 DEF Late
  <2>9. CASE AbortTool \/ AbortCalls \/ AbortDone
    <3>1. pc = "abort_tools"
      BY <2>9 DEF AbortTool, AbortCalls, AbortDone, At
    <3>2. \/ UNCHANGED <<pc, todo>>
          \/ pc' \in {"discard", "abort_input", "stuck"}
      <4>1. Goto("abort_tools") => UNCHANGED <<pc, todo>>
        BY <3>1 DEF Goto
      <4>. QED
        BY <2>9, <4>1, WhereTo DEF AbortTool, AbortCalls, AbortDone
    <3>. QED
      BY <2>3, <3>2 DEF Late
  <2>10. ASSUME NEW r \in Requests, AbortApproval(r)
         PROVE  Late'
    <3>. DEFINE denied == [cmd |-> "approval", req |-> r, cancels |-> FALSE]
    <3>1. r \in PendingApprovals /\ AskedBy(r) = approvals[r] /\ pc = "abort_tools"
      BY <2>10, DenyOwn
    <3>2. CASE FinalizeFailed
      BY <3>2, WhereTo DEF Late
    <3>3. CASE Goto("abort_tools")
      BY <2>3, <3>1, <3>3 DEF Goto
    <3>4. ASSUME NEW e \in Find("await_approval", AskedBy(r)), ResolveAccepted(e, denied),
                 todo' = todo \ {r}, UNCHANGED pc
          PROVE  Late'
      <4>0. denied.cmd = "approval" /\ denied.req = r
        OBVIOUS
      <4>. HIDE DEF denied
      <4>1. /\ e \in EffectIds /\ effects[e].key = r
            /\ effects[e].kind = "await_approval"
            /\ Retained(e, denied).cmd = "approval" /\ Retained(e, denied).req = r
        BY <3>1, <3>4, <4>0, DeniedResult
      <4>2. approvals' = [approvals EXCEPT ![r] = None]
        BY <3>4, <4>1, PlainAnswered
      <4>3. r \notin PendingApprovals'
        BY <1>0, <4>2 DEF PendingApprovals
      <4>. QED
        BY <2>1, <2>2, <3>1, <3>4, <4>3 DEF Late
    <3>. QED
      BY <2>10, <3>2, <3>3, <3>4 DEF AbortApproval
  <2>11. CASE pc' = "stuck"
    BY <2>11 DEF Late
  <2>. QED
    BY <2>4, <2>5, <2>6, <2>7, <2>8, <2>9, <2>10, <2>11, StepTo
<1>. QED
  BY <1>1, <1>2, StepQuiet

-----------------------------------------------------------------------------
(* What cannot be aborted                                                   *)

\* The effect is what it was, and as little can be done about it.
Persists(e) == Poisoned(e)' /\ effects'[e].kind = effects[e].kind

\* The effect keeps its result when another effect is started or a result is
\* refused,
LEMMA PoisonRests ==
  ASSUME Base, Lasting, NEW e \in EffectIds, Poisoned(e),
         \/ UNCHANGED <<effects, routed>>
         \/ \E f \in EffectIds : Start(f)
         \/ \E f \in EffectIds : \E first : ResolveRefused(f, first)
  PROVE  Persists(e)
<1>0. TypeOK /\ RegistryOK /\ routed \in [EffectIds -> Entries]
  BY WaitTypes DEF Base, RuntimeInv, IInv
<1>1. routed[e].result # NoResult
  BY DEF Poisoned, NoResult, Result
<1>2. ASSUME Same(e), Pending(e)', routed'[e].result = routed[e].result
      PROVE  Persists(e)
  BY <1>2 DEF Persists, Poisoned, Same, Lasting, Lasts
<1>3. CASE UNCHANGED <<effects, routed>>
  BY <1>2, <1>3 DEF Poisoned, Same, Pending
<1>4. ASSUME NEW f \in EffectIds, Start(f)
      PROVE  Persists(e)
  <2>1. Begins(f) /\ \A x \in EffectIds \ {f} : Stays(x)
    BY <1>0, <1>4, StartMoves
  <2>2. routed'[e].result = routed[e].result
    BY <1>0, <1>4 DEF Start, CanStart, Entries
  <2>3. Same(e) /\ Pending(e)'
    BY <2>1 DEF Begins, Stays, Same, Pending, Poisoned
  <2>. QED
    BY <1>2, <2>2, <2>3
<1>5. ASSUME NEW f \in EffectIds, NEW first, ResolveRefused(f, first)
      PROVE  Persists(e)
  <2>1. Stays(e)
    BY <1>0, <1>5, RefusedStays
  <2>2. routed'[e].result = routed[e].result
    BY <1>0, <1>1, <1>5 DEF ResolveRefused, Retained, Entries
  <2>3. Same(e) /\ Pending(e)'
    BY <2>1 DEF Stays, Same, Pending, Poisoned
  <2>. QED
    BY <1>2, <2>2, <2>3
<1>. QED
  BY <1>3, <1>4, <1>5

\* and when the answer of another wait is accepted; its own is not.
LEMMA PoisonLasts ==
  ASSUME Base, Lasting, NEW e \in EffectIds, Poisoned(e), NEW f \in EffectIds,
         NEW first \in Proper, ResolveAccepted(f, first),
         \/ effects[f].kind = "await_input"
         \/ effects[f].kind = "await_approval" /\ Retained(f, first).req = effects[f].key
  PROVE  Persists(e)
<1>0. effects \in [EffectIds -> Effects] /\ EffectKeysUnique
  BY WaitTypes DEF Base, RuntimeInv, IInv
<1>. DEFINE r == Retained(f, first)
<1>1. Submit(f, r) /\ r \in Proper /\ Legal(f, r)
  BY RetainedProper DEF ResolveAccepted, Base, RuntimeInv
<1>2. f # e
  <2>. SUFFICES ASSUME f = e PROVE FALSE
    OBVIOUS
  <2>1. r = routed[e].result
    BY DEF Retained, Poisoned, NoResult, Result
  <2>. QED
    BY <1>1, <2>1 DEF Legal, Poisoned
<1>3. ASSUME NEW E, effects' = Finish(effects, E), e \notin E, UNCHANGED nextEffect
      PROVE  Persists(e)
  <2>1. effects'[e] = effects[e]
    BY <1>3 DEF Finish
  <2>2. routed'[e] = routed[e]
    BY <1>2, <1>3, AcceptedRouted
  <2>. QED
    BY <2>1, <2>2 DEF Persists, Poisoned, Pending, Lasting, Lasts
<1>. HIDE DEF r
<1>4. CASE r.cmd = "abort"
  BY <1>1, <1>2, <1>3, <1>4 DEF Submit, EffectResult
<1>5. CASE r.cmd = "input"
  <2>. DEFINE E == {f} \union FirstPending("await_input", r.req)
  <2>1. effects' = Finish(effects, E) /\ UNCHANGED nextEffect
    BY <1>1, <1>5 DEF Submit, InputResult, ResolveInputWait
  <2>2. e \notin E
    BY <1>2 DEF FirstPending, Poisoned
  <2>. HIDE DEF E
  <2>. QED
    BY <1>3, <2>1, <2>2
<1>6. CASE r.cmd = "approval"
  <2>. DEFINE E == {f} \union FirstPending("await_approval", r.req)
  <2>1. /\ effects' = Finish(effects, E) /\ UNCHANGED nextEffect
        /\ effects[f].kind = "await_approval" /\ Pending(f)
    BY <1>1, <1>6 DEF Submit, ApprovalResult, Pending
  <2>2. r.req = effects[f].key
    BY <2>1 DEF r
  <2>3. e \notin E
    BY <1>0, <1>2, <2>1, <2>2 DEF FirstPending, PendingEffects, EffectKeysUnique
  <2>. HIDE DEF E
  <2>. QED
    BY <1>3, <2>1, <2>3
<1>7. r.cmd \in {"abort", "input", "approval"}
  BY <1>1 DEF Submit, ModelSampleFailed, ModelSampleAnswered, ModelSampleCalled, ToolResult,
              Proper, Results
<1>. QED
  BY <1>4, <1>5, <1>6, <1>7

\* Nothing the executors, the users and the timers do helps.
LEMMA PoisonBeside ==
  ASSUME Base, OpOK, WaitInv, Lasting, Bystander, pc # "running",
         NEW e \in EffectIds, Poisoned(e)
  PROVE  Persists(e)
<1>0. Idling
  BY DEF Base, Batches
<1>1. CASE UNCHANGED <<effects, routed>>
  BY <1>1, PoisonRests
<1>2. CASE \/ \E c \in Calls :
                \/ \E failed \in BOOLEAN : Return(c, failed)
                \/ RejectUnresumed(c)
                \/ \E r \in Requests : AskRecovered(c, r) \/ StopWaiting(c, r)
           \/ \E r \in Requests :
                \/ Expire(r) \/ ResolveFails(r) \/ ReplyLate(r)
                \/ \E cancels \in BOOLEAN : Reply(r, cancels)
  BY <1>1, <1>2 DEF Return, RejectUnresumed, AskRecovered, StopWaiting, Expire, ResolveFails, ReplyLate,
     Reply, vars, effectVars
<1>3. CASE Required
  <2>1. PICK f \in WaitEffect(op.req, op.call) :
          Start(f) \/ UNCHANGED <<vars, routed>>
    BY <1>3 DEF Required
  <2>. QED
    BY <1>1, <2>1, WaitFound, PoisonRests DEF vars, effectVars
<1>8. CASE RequiredFails
  BY <1>1, <1>8 DEF RequiredFails, vars, effectVars
<1>4. ASSUME NEW c \in Calls, NEW r \in Requests, Ask(c, r)
      PROVE  FALSE
  BY <1>0, <1>4 DEF Idling, Ask
<1>5. ASSUME NEW r \in Requests, ResolveStarts(r)
      PROVE  Persists(e)
  <2>1. PICK f \in WaitEffect(r, CallOf(r)) : Start(f)
    BY <1>5 DEF ResolveStarts
  <2>. QED
    BY <2>1, WaitFound, PoisonRests
<1>6. ASSUME NEW r \in Requests, ResolveWait(r)
      PROVE  Persists(e)
  <2>0. PICK answer : answer = WaitResult(r)
    OBVIOUS
  <2>1. PICK f \in WaitEffect(r, CallOf(r)) :
          ResolveAccepted(f, answer) \/ ResolveRefused(f, answer)
    BY <1>6, <2>0 DEF ResolveWait
  <2>2. f \in EffectIds /\ answer \in Proper /\ StillPending(r)
    BY <1>6, <2>0, <2>1, WaitFound, ResultsProper DEF ResolveWait
  <2>3. CASE ResolveRefused(f, answer)
    BY <2>2, <2>3, PoisonRests
  <2>4. CASE ResolveAccepted(f, answer) /\ r \in InputRequests
    <3>1. effects[f].kind = "await_input"
      BY <2>1, <2>4, FindFound DEF WaitEffect, WaitKind
    <3>. QED
      BY <2>2, <2>4, <3>1, PoisonLasts
  <2>5. CASE ResolveAccepted(f, answer) /\ r \notin InputRequests
    <3>1. /\ r \in PendingApprovals /\ f \in Find("await_approval", approvals[r])
          /\ answer.cmd = "approval" /\ answer.req = r
      BY <2>0, <2>1, <2>2, <2>5
      DEF StillPending, PendingApprovals, WaitEffect, WaitKind, CallOf, WaitResult
    <3>2. /\ effects[f].kind = "await_approval"
          /\ Retained(f, answer).req = effects[f].key
      BY <3>1, DeniedResult
    <3>. QED
      BY <2>2, <2>5, <3>2, PoisonLasts
  <2>. QED
    BY <2>1, <2>3, <2>4, <2>5
<1>7. CASE Cancel \/ CancelContext \/ Ended \/ UNCHANGED allVars
  <2>1. UNCHANGED <<effects, routed>>
    BY <1>7 DEF Cancel, CancelRequested, CancelContext, Ended, allVars, vars, rtVars,
       effectVars
  <2>. QED
    BY <1>1, <2>1
<1>. QED
  BY <1>2, <1>3, <1>4, <1>5, <1>6, <1>7, <1>8 DEF Bystander, AskStep

\* No step forgets a failed commit.
LEMMA StepBlames ==
  ASSUME Base, [RuntimeNext]_allVars
  PROVE  Blamed
  BY StepQuiet DEF Quiet, Blamed

\* What a refused result leaves with its effect.
LEMMA RefusedRetains ==
  ASSUME Base, NEW e \in EffectIds, NEW first, ResolveRefused(e, first),
         Resolvable(e, first)
  PROVE  /\ routed'[e].result = Retained(e, first) /\ UNCHANGED <<effects, cancel>>
         /\ faults' = 0 => ~Legal(e, Retained(e, first))
<1>1. routed \in [EffectIds -> Entries]
  BY WaitTypes
<1>2. routed'[e].result = Retained(e, first) /\ UNCHANGED vars
  BY <1>1 DEF ResolveRefused, Entries
<1>. QED
  BY <1>2, LegalBlames DEF vars, effectVars, controlVars

\* Only such a sample is not aborted.
LEMMA StepSpoils ==
  ASSUME Base, OpOK, WaitInv, Lasting, Exact, Synced, Suited, Spoiled,
         [RuntimeNext]_allVars
  PROVE  Spoiled'
<1>. SUFFICES ASSUME pc' = "abort_tools", broken', faults' = 0
              PROVE  \E e \in EffectIds :
                       Poisoned(e)' /\ effects'[e].kind = "sample_provider"
  BY DEF Spoiled
<1>0. faults = 0
  BY StepBlames DEF Blamed
<1>1. ASSUME pc = "abort_tools", broken
      PROVE  \E e \in EffectIds : Poisoned(e) /\ effects[e].kind = "sample_provider"
  BY <1>0, <1>1 DEF Spoiled
<1>2. CASE Bystander
  <2>1. pc = "abort_tools" /\ broken
    BY <1>2, BystanderStays DEF turnVars
  <2>2. PICK e \in EffectIds : Poisoned(e) /\ effects[e].kind = "sample_provider"
    BY <1>1, <2>1
  <2>. QED
    BY <1>2, <2>1, <2>2, PoisonBeside DEF Persists
<1>3. ~(ExecuteBatch \/ BatchReturned \/ \E c \in Calls : CloseTool(c))
  BY WhereTo DEF ExecuteBatch, Launch, BatchReturned, CloseTool, At
<1>4. ~(AbortInput \/ AbortDone)
  BY WhereTo DEF AbortInput, AbortDone
<1>5. CASE AbortSamples
  <2>1. PICK e \in SampleEffect :
          \/ routed[e].state = "idle" /\ ~CanStart(e)
          \/ routed[e].state = "started" /\ ResolveRefused(e, Result("failed"))
    <3>1. ~Goto("abort_samples") /\ ~ToAbortTools(FALSE)
      BY DEF Goto, ToAbortTools
    <3>. QED
      BY <1>5, <3>1 DEF AbortSamples
  <2>2. /\ e \in EffectIds /\ effects[e].kind = "sample_provider"
        /\ routed[e].state # "absent" /\ pc # "down"
    BY <1>5, <2>1, FindFound DEF SampleEffect, AbortSamples, At
  <2>3. Pending(e)
    BY <2>2 DEF Exact
  <2>4. /\ phase = "sampling" /\ samples[effects[e].call].status = effects[e].status
        /\ effects[e].status = "running" => active = effects[e].call
    BY <2>2, <2>3 DEF Synced
  <2>5. routed[e].state = IF effects[e].status = "running" THEN "started" ELSE "idle"
    BY <2>2, <2>3 DEF Base, RegistryCovers, PendingEffects
  <2>6. routed[e].state = "started" /\ ResolveRefused(e, Result("failed"))
    <3>1. ~(routed[e].state = "idle" /\ ~CanStart(e))
      BY <2>3, <2>4, <2>5 DEF CanStart, StartLegal, TerminalPhases, Pending
    <3>. QED
      BY <2>1, <3>1
  <2>. DEFINE r == Retained(e, Result("failed"))
  <2>7. Resolvable(e, Result("failed"))
    BY <2>6 DEF Resolvable
  <2>8. routed'[e].result = r /\ UNCHANGED <<effects, cancel>> /\ ~Legal(e, r)
    BY <2>2, <2>6, <2>7, RefusedRetains
  <2>9. r.cmd \in {"failed", "text", "calls"}
    <3>1. routed[e].result \in Proper \union {NoResult}
      BY <2>2 DEF Base, RuntimeInv, RegistryOK, Registry
    <3>2. routed[e].result.cmd \in {"none", "failed", "text", "calls"}
      BY <2>2, <2>3 DEF Suited, Suits
    <3>. QED
      BY <3>1, <3>2 DEF Retained, Result, Proper
  <2>. HIDE DEF r
  <2>10. SampleResultAccepted(e, effects[e].call, TRUE)
           /\ SampleResultAccepted(e, effects[e].call, FALSE)
    BY <2>4, <2>5, <2>6 DEF SampleResultAccepted
  <2>11. r.cmd = "calls" /\ cancel # "none"
    BY <2>4, <2>8, <2>9, <2>10 DEF Legal
  <2>12. Poisoned(e)' /\ effects'[e].kind = "sample_provider"
    BY <2>2, <2>3, <2>8, <2>11 DEF Poisoned, Pending
  <2>. QED
    BY <2>2, <2>12
<1>6. ASSUME AbortTool \/ AbortCalls \/ \E r \in Requests : AbortApproval(r)
      PROVE  FALSE
  <2>1. pc = "abort_tools" /\ OpenCalls # {}
    BY <1>6 DEF AbortTool, AbortCalls, AbortOpenCalls, AbortApproval, At
  <2>2. UNCHANGED broken
    <3>1. Goto("abort_tools") => UNCHANGED broken
      BY DEF Goto
    <3>2. ~FinalizeFailed
      BY WhereTo
    <3>. QED
      BY <1>6, <3>1, <3>2 DEF AbortTool, AbortCalls, AbortApproval
  <2>3. PICK e \in EffectIds : Poisoned(e) /\ effects[e].kind = "sample_provider"
    BY <1>1, <2>1, <2>2
  <2>4. phase = "sampling"
    BY <2>3 DEF Synced, Poisoned
  <2>. QED
    BY <2>1, <2>4 DEF Base, RuntimeInv, IInv, Valid, ValidCalls
<1>. QED
  BY <1>2, <1>3, <1>4, <1>5, <1>6, StepTo DEF Watched

\* The abort of the input wait does not fail without a failed commit.
LEMMA InputAborts ==
  ASSUME Base, Suited, Attended, Blamed, AbortInput, faults' = 0
  PROVE  ~FinalizeFailed
<1>. SUFFICES ASSUME FinalizeFailed PROVE FALSE
  OBVIOUS
<1>0. faults = 0 /\ Result("abort") \in Proper /\ Result("abort").cmd = "abort"
  BY ResultsProper DEF Blamed, Result
<1>1. pc = "abort_input"
  BY DEF AbortInput, At
<1>2. PICK e \in Find("await_input", None) :
        /\ input.req # None
        /\ \/ routed[e].state = "idle" /\ ~CanStart(e)
           \/ /\ routed[e].state = "started"
              /\ \/ /\ ResolveAccepted(e, Result("abort"))
                    /\ Retained(e, Result("abort")).cmd # "abort"
                 \/ ResolveRefused(e, Result("abort"))
  <2>1. ~Goto("abort_samples") /\ (Goto("abort_input") => settling = FALSE)
    BY DEF Goto, FinalizeFailed, Settle, Finalize
  <2>2. ~Goto("abort_input")
    BY <1>1, <2>1 DEF Goto, FinalizeFailed, Settle, Finalize
  <2>. QED
    BY <2>1, <2>2 DEF AbortInput
<1>3. /\ e \in EffectIds /\ effects[e].kind = "await_input"
      /\ routed[e].state # "absent"
  BY <1>2, FindFound
<1>4. Pending(e)
  <2>. SUFFICES ASSUME ~Pending(e) PROVE FALSE
    OBVIOUS
  <2>1. Stale
    BY <1>3 DEF Stale
  <2>. QED
    BY <1>0, <1>1, <1>2, <2>1 DEF Attended
<1>5. phase = "awaiting_input"
  BY <1>2 DEF Base, RuntimeInv, IInv, Valid, ValidWaits
<1>6. routed[e].result = NoResult
  BY <1>0, <1>3, <1>4 DEF Suited, Suits
<1>7. routed[e].state = "idle" => CanStart(e)
  BY <1>1, <1>3, <1>4, <1>5
  DEF Base, RegistryCovers, PendingEffects, Pending, CanStart, StartLegal, TerminalPhases
<1>8. Retained(e, Result("abort")) = Result("abort")
  BY <1>6 DEF Retained
<1>9. routed[e].state = "started" /\ ResolveRefused(e, Result("abort")) => faults' # 0
  BY <1>3, <1>4, <1>5, <1>6, AbortSuits DEF TerminalPhases
<1>. QED
  BY <1>0, <1>2, <1>7, <1>8, <1>9

\* Nor does the abort of a tool effect.
LEMMA ToolAborts ==
  ASSUME Base, Exact, Suited, Late, Blamed, AbortTool, faults' = 0
  PROVE  ~FinalizeFailed
<1>. SUFFICES ASSUME FinalizeFailed PROVE FALSE
  OBVIOUS
<1>0. faults = 0 /\ NoOrphanEffect /\ ValidWaits /\ ValidCalls
  BY DEF Blamed, Base, RuntimeInv, IInv, Valid
<1>1. pc = "abort_tools" /\ todo = {} /\ OpenCalls # {}
  BY DEF AbortTool, At
<1>2. ~Goto("abort_tools")
  BY WhereTo
<1>3. PICK e \in Find("execute_tool", None) :
        routed[e].state = "started" /\ ResolveRefused(e, Result("abort"))
  BY <1>2 DEF AbortTool
<1>4. /\ e \in EffectIds /\ effects[e].kind = "execute_tool"
      /\ routed[e].state # "absent"
  BY <1>3, FindFound
<1>5. Pending(e)
  BY <1>4 DEF Exact
<1>6. effects[e].status = "running"
  BY <1>1, <1>3, <1>4, <1>5 DEF Base, RegistryCovers, PendingEffects, Pending
<1>7. phase = "executing_tools" /\ PendingApprovals = {}
  BY <1>0, <1>1 DEF Late, ValidWaits, ValidCalls
<1>8. calls[effects[e].call] = "open" /\ effects[e].call \in Calls
  BY <1>0, <1>4, <1>5 DEF NoOrphanEffect, PendingEffects, OpenCalls
<1>9. Waiting(effects[e].call) = {}
  BY <1>7, <1>8, WaitTypes DEF Waiting, PendingApprovals
<1>. DEFINE r == Retained(e, Result("abort"))
<1>10. r.cmd \in {"tool", "abort"}
  <2>1. routed[e].result \in Proper \union {NoResult}
    BY <1>4 DEF Base, RuntimeInv, RegistryOK, Registry
  <2>2. routed[e].result.cmd \in {"none", "tool"}
    BY <1>0, <1>4, <1>5 DEF Suited, Suits
  <2>. QED
    BY <2>1, <2>2 DEF Retained, Result, Proper
<1>. HIDE DEF r
<1>11. Legal(e, r)
  BY <1>5, <1>6, <1>7, <1>8, <1>9, <1>10 DEF Legal, TerminalPhases
<1>12. Resolvable(e, Result("abort"))
  BY <1>3 DEF Resolvable
<1>. QED
  BY <1>3, <1>11, <1>12, LegalBlames DEF r

\* An approval is not denied when a canceling answer is retained that comes too
\* late.
LEMMA DenyAborts ==
  ASSUME Base, WaitInv, Blamed, NEW r \in Requests, AbortApproval(r), FinalizeFailed,
         faults' = 0
  PROVE  \E e \in EffectIds : Poisoned(e)'
<1>. DEFINE denied == [cmd |-> "approval", req |-> r, cancels |-> FALSE]
<1>1. /\ r \in PendingApprovals /\ AskedBy(r) = approvals[r] /\ pc = "abort_tools"
      /\ approvals[r] # None
  BY DenyOwn DEF PendingApprovals
<1>2. phase = "awaiting_approval"
  BY <1>1 DEF Base, RuntimeInv, IInv, Valid, ValidWaits
<1>3. ~\A e \in Find("await_approval", AskedBy(r)) :
         routed[e].state = "idle" /\ ~CanStart(e)
  <2>1. r \notin InputRequests
    BY <1>1 DEF WaitInv, Registered
  <2>2. WaitEffect(r, CallOf(r)) = Find("await_approval", AskedBy(r))
    BY <1>1, <2>1 DEF WaitEffect, WaitKind, CallOf
  <2>. QED
    BY <1>1, <2>2, FailsGone
<1>4. pc' # "abort_tools"
  BY WhereTo
<1>5. PICK e \in Find("await_approval", AskedBy(r)) :
        routed[e].state = "started" /\ ResolveRefused(e, denied)
  BY <1>1, <1>3, <1>4, WhereTo DEF AbortApproval
<1>6. denied.cmd = "approval" /\ denied.req = r /\ denied.cancels = FALSE
  OBVIOUS
<1>. HIDE DEF denied
<1>7. /\ e \in EffectIds /\ Pending(e) /\ effects[e].kind = "await_approval"
      /\ Retained(e, denied).cmd = "approval" /\ Retained(e, denied).req = r
  BY <1>1, <1>5, <1>6, DeniedResult
<1>8. effects[e].status = "running"
  BY <1>1, <1>5, <1>7 DEF Base, RegistryCovers, PendingEffects, Pending
<1>9. Resolvable(e, denied)
  BY <1>5 DEF Resolvable
<1>10. /\ routed'[e].result = Retained(e, denied) /\ UNCHANGED <<effects, cancel>>
       /\ ~Legal(e, Retained(e, denied))
  BY <1>5, <1>7, <1>9, RefusedRetains
<1>11. Retained(e, denied).cancels /\ cancel # "none"
  BY <1>1, <1>2, <1>7, <1>8, <1>10 DEF Legal
<1>12. Poisoned(e)'
  BY <1>7, <1>10, <1>11 DEF Poisoned, Pending
<1>. QED
  BY <1>7, <1>12

\* Settle gives up on nothing else.
LEMMA StepTraps ==
  ASSUME Base, OpOK, WaitInv, Lasting, PoisonInv, [RuntimeNext]_allVars
  PROVE  Trapped'
<1>. SUFFICES ASSUME pc' = "stuck", faults' = 0
              PROVE  \E e \in EffectIds : Poisoned(e)'
  BY DEF Trapped
<1>0. faults = 0 /\ Blamed
  BY StepBlames DEF Blamed
<1>1. CASE Bystander
  <2>1. pc = "stuck"
    BY <1>1, BystanderStays DEF turnVars
  <2>2. PICK e \in EffectIds : Poisoned(e)
    BY <1>0, <2>1 DEF PoisonInv, Trapped
  <2>. QED
    BY <1>1, <2>1, <2>2, PoisonBeside DEF Persists
<1>2. ~(ExecuteBatch \/ BatchReturned \/ \E c \in Calls : CloseTool(c))
  BY WhereTo DEF ExecuteBatch, Launch, BatchReturned, CloseTool, At
<1>3. ~(AbortSamples \/ AbortCalls)
  BY WhereTo DEF AbortSamples, AbortCalls
<1>4. ~AbortInput
  <2>1. AbortInput => FinalizeFailed
    BY WhereTo DEF AbortInput
  <2>. QED
    BY <1>0, <2>1, InputAborts DEF PoisonInv
<1>5. ~AbortTool
  <2>1. AbortTool => FinalizeFailed
    BY WhereTo DEF AbortTool
  <2>. QED
    BY <1>0, <2>1, ToolAborts DEF PoisonInv
<1>6. ASSUME NEW r \in Requests, AbortApproval(r)
      PROVE  \E e \in EffectIds : Poisoned(e)'
  <2>1. pc = "abort_tools"
    BY <1>6 DEF AbortApproval
  <2>2. FinalizeFailed
    BY <1>6, <2>1, WhereTo DEF AbortApproval
  <2>. QED
    BY <1>0, <1>6, <2>2, DenyAborts
<1>7. CASE AbortDone
  <2>1. pc = "abort_tools" /\ broken /\ UNCHANGED <<vars, routed>>
    BY <1>7, WhereTo DEF AbortDone, At
  <2>2. PICK e \in EffectIds : Poisoned(e)
    BY <1>0, <2>1 DEF PoisonInv, Spoiled
  <2>3. UNCHANGED <<effects, routed>>
    BY <2>1 DEF vars, effectVars
  <2>4. Persists(e)
    BY <2>2, <2>3, PoisonRests
  <2>. QED
    BY <2>4 DEF Persists
<1>8. faults' # faults + 1
  BY <1>0
<1>. QED
  BY <1>1, <1>2, <1>3, <1>4, <1>5, <1>6, <1>7, <1>8, StepTo DEF Watched

-----------------------------------------------------------------------------
(* Turns settle gives up on: invariance                                     *)

\* A new turn satisfies the invariant.
LEMMA StartPoison == RuntimeInit => PoisonInv
<1>. SUFFICES ASSUME RuntimeInit PROVE PoisonInv
  OBVIOUS
<1>1. /\ \A e \in EffectIds : effects[e].status = "unused" /\ routed[e].state = "absent"
      /\ pc = "open"
  BY DEF RuntimeInit, Init, Absent
<1>2. \A e \in EffectIds : ~Pending(e)
  BY <1>1 DEF Pending
<1>. QED
  BY <1>1, <1>2
  DEF PoisonInv, Exact, Synced, Suited, Launched, Attended, Stale, Late, Spoiled, Trapped

\* Every step of the runtime preserves it, when a tool asks for one thing at a
\* time.
LEMMA StepPoison ==
  DriverInv /\ WaitInv /\ PoisonInv /\ [RuntimeNext]_allVars => PoisonInv'
<1>. SUFFICES ASSUME DriverInv, WaitInv, PoisonInv, [RuntimeNext]_allVars
              PROVE  PoisonInv'
  OBVIOUS
<1>1. Base /\ OpOK /\ RegistryCovers'
  BY DriverStep DEF DriverInv, Base
<1>2. Lasting
  <2>1. Sound
    BY <1>1, StepSound DEF Base
  <2>. QED
    BY <1>1, <2>1, CancelLasts, StepJoins DEF Sound, Lasting, Base
<1>3. /\ Exact /\ Synced /\ Suited /\ Launched /\ Attended /\ Late
      /\ Spoiled
  BY DEF PoisonInv
<1>4. Fates /\ Synced'
  BY <1>1, <1>3, StepSteady DEF Steady
<1>5. Exact' /\ Suited' /\ Launched' /\ (Stale' => Stale \/ input'.req = None)
  BY <1>1, <1>3, <1>4, StepBlames, Launches, FatesKeep
<1>6. Attended' /\ Late'
  BY <1>1, <1>3, <1>5, StepAttends, StepLate
<1>7. Spoiled' /\ Trapped'
  BY <1>1, <1>2, <1>3, StepSpoils, StepTraps
<1>. QED
  BY <1>4, <1>5, <1>6, <1>7 DEF PoisonInv

\* A poisoned effect retains a result the reducer refuses.
LEMMA PoisonRefused ==
  ASSUME NEW e, Poisoned(e)
  PROVE  routed[e].result # NoResult /\ ~Legal(e, routed[e].result)
<1>1. routed[e].result # NoResult
  BY DEF Poisoned, NoResult, Result
<1>2. CASE routed[e].result.cmd = "calls"
  BY <1>1, <1>2 DEF Poisoned, Legal
<1>3. CASE routed[e].result.cmd = "approval" /\ routed[e].result.cancels
  BY <1>1, <1>3 DEF Poisoned, Legal
<1>. QED
  BY <1>2, <1>3 DEF Poisoned

-----------------------------------------------------------------------------
(* The text of a turn that did not complete                                 *)

\* It is withdrawn before the terminal is requested.
Withdrawn ==
  /\ pc = "request" /\ want # "completed" => provisional = "empty"
  /\ phase = "committing" /\ decision # "completed" => provisional = "empty"

\* A command other than the terminal request decides nothing, and no text comes
\* to a turn that is committing.
Undecided ==
  /\ UNCHANGED decision
  /\ phase' = "committing" => phase = "committing"
  /\ phase = "committing" => provisional' \in {provisional, "empty"}

\* A step with such a command, away from the terminal request.
LEMMA WithdrawnStays ==
  ASSUME Withdrawn, Undecided,
         pc' = "request" => pc = "request" /\ UNCHANGED <<want, provisional>>
  PROVE  Withdrawn'
  BY DEF Withdrawn, Undecided

\* So is no command at all.
LEMMA StillUndecided == UNCHANGED vars => Undecided /\ UNCHANGED provisional
  BY DEF Undecided, vars, controlVars, outputVars

\* So is the start of an effect.
LEMMA StartUndecided ==
  ASSUME NEW e, Start(e)
  PROVE  Undecided /\ UNCHANGED provisional
  BY DEF Start, EffectStarted, Undecided, controlVars, outputVars

\* So is a result, and only that of a sample carries text.
LEMMA SubmitUndecided ==
  ASSUME NEW e, NEW r \in Proper, Submit(e, r)
  PROVE  Undecided /\ (effects[e].kind # "sample_provider" => UNCHANGED provisional)
<1>. DEFINE c == effects[e].call
<1>1. CASE r.cmd = "failed"
  <2>1. ModelSampleFailed(e, c)
    BY <1>1 DEF Submit
  <2>. QED
    BY <2>1 DEF ModelSampleFailed, Undecided, controlVars, outputVars
<1>2. CASE r.cmd = "text"
  <2>1. ModelSampleAnswered(e, c, "text")
    BY <1>2 DEF Submit
  <2>. QED
    BY <2>1 DEF ModelSampleAnswered, Undecided, controlVars
<1>3. CASE r.cmd = "calls"
  <2>1. PICK n \in 1 .. MaxBatch : \E batch \in [1 .. n -> Calls] :
          ModelSampleCalled(e, c, n, batch, FALSE)
    BY <1>3 DEF Submit
  <2>2. PICK batch \in [1 .. n -> Calls] :
          ModelSampleCalled(e, c, n, batch, FALSE)
    BY <2>1
  <2>. QED
    BY <2>2 DEF ModelSampleCalled, ToolCalls, Undecided, controlVars
<1>4. CASE r.cmd = "tool"
  <2>1. PICK failed \in BOOLEAN, changes \in BOOLEAN :
          ToolResult(e, c, failed, changes)
    BY <1>4 DEF Submit
  <2>. QED
    BY <2>1 DEF ToolResult, Undecided, outputVars
<1>5. CASE r.cmd = "abort"
  BY <1>5 DEF Submit, EffectResult, Undecided, controlVars, outputVars
<1>6. CASE r.cmd = "approval"
  <2>1. ApprovalResult(e, r.req, r.cancels)
    BY <1>6 DEF Submit
  <2>. QED
    BY <2>1 DEF ApprovalResult, Undecided, controlVars, outputVars
<1>7. CASE r.cmd = "input"
  <2>1. InputResult(e, r.req)
    BY <1>7 DEF Submit
  <2>. QED
    BY <2>1 DEF InputResult, ResolveInputWait, Undecided, controlVars, outputVars
<1>. QED
  BY <1>1, <1>2, <1>3, <1>4, <1>5, <1>6, <1>7 DEF Proper, Results

\* The same of a result that was submitted, or retained.
LEMMA ResolveUndecided ==
  ASSUME RegistryOK, NEW e \in EffectIds, NEW first \in Proper,
         ResolveAccepted(e, first) \/ ResolveRefused(e, first)
  PROVE  Undecided /\ (effects[e].kind # "sample_provider" => UNCHANGED provisional)
<1>1. CASE ResolveAccepted(e, first)
  BY <1>1, RetainedProper, SubmitUndecided DEF ResolveAccepted
<1>2. CASE ResolveRefused(e, first)
  BY <1>2, StillUndecided DEF ResolveRefused
<1>. QED
  BY <1>1, <1>2

\* Opening, sampling, answering and tool batches.
LEMMA TurnWithdrawn ==
  ASSUME RuntimeInv, Withdrawn, TurnStep
  PROVE  Withdrawn'
<1>0. RegistryOK
  BY DEF RuntimeInv
<1>1. CASE OpenTurn
  BY <1>1, WhereTo, WithdrawnStays DEF OpenTurn, StartTurn, PreparationFinished, Undecided,
     controlVars, outputVars
<1>2. CASE ResumeSample \/ LoopFails \/ AdmissionFails \/ StartToolFails \/ BatchClosed
  BY <1>2, WhereTo, StillUndecided, WithdrawnStays DEF ResumeSample, LoopFails,
     AdmissionFails, StartToolFails, BatchClosed
<1>3. CASE ExecuteBatch \/ BatchReturned
  BY <1>3, WhereTo, StillUndecided, WithdrawnStays DEF ExecuteBatch, Launch, BatchReturned
<1>4. CASE AdmitBatch
  BY <1>4, StillUndecided, WithdrawnStays DEF AdmitBatch, ToolBatchAdmissionRejected, Undecided,
     controlVars, outputVars
<1>5. CASE Answer
  <2>1. CASE ReleaseProvisionalOutput /\ pc' = "request" /\ want' = "completed"
    BY <2>1 DEF Withdrawn, ReleaseProvisionalOutput, controlVars
  <2>2. CASE DiscardProvisionalOutput /\ Goto("loop")
    BY <2>2, WhereTo, WithdrawnStays DEF DiscardProvisionalOutput, Undecided, controlVars
  <2>3. CASE UNCHANGED vars /\ Goto("loop")
    BY <2>3, WhereTo, StillUndecided, WithdrawnStays
  <2>. QED
    BY <1>5, <2>1, <2>2, <2>3 DEF Answer
<1>6. ASSUME NEW s \in Samples, RequestSample(s) PROVE Withdrawn'
  BY <1>6, WhereTo, WithdrawnStays DEF RequestSample, ModelSampleRequested, Undecided,
     controlVars, outputVars
<1>7. ASSUME NEW e \in EffectIds, StartSample(e) PROVE Withdrawn'
  BY <1>7, WhereTo, StartUndecided, WithdrawnStays DEF StartSample
<1>8. ASSUME NEW e \in EffectIds, RecordProgress(e) \/ LeaveTransport(e) PROVE Withdrawn'
  BY <1>8, WhereTo, WithdrawnStays DEF RecordProgress, LeaveTransport,
     ModelSampleProgress, ProviderRetryRequested, EffectRequeued, Undecided, controlVars,
     outputVars
<1>9. ASSUME NEW e \in EffectIds, NEW cmd \in {"failed", "text", "calls"},
             FinishSample(e, cmd)
      PROVE  Withdrawn'
  <2>1. Undecided
    BY <1>0, <1>9, ResultsProper, ResolveUndecided DEF FinishSample
  <2>2. pc' # "request"
    BY <1>9, WhereTo DEF FinishSample
  <2>. QED
    BY <2>1, <2>2, WithdrawnStays
<1>10. ASSUME NEW c \in Calls, StartTool(c) PROVE Withdrawn'
  BY <1>10, StartUndecided, WithdrawnStays DEF StartTool, At
<1>11. ASSUME NEW c \in Calls, CloseTool(c) PROVE Withdrawn'
  <2>1. PICK e \in ToolEffect(c) :
          ResolveAccepted(e, Result("tool")) \/ ResolveRefused(e, Result("tool"))
    BY <1>11 DEF CloseTool
  <2>2. e \in EffectIds
    BY FindIn DEF ToolEffect
  <2>3. Undecided
    BY <1>0, <2>1, <2>2, ResultsProper, ResolveUndecided
  <2>. QED
    BY <1>11, <2>3, WithdrawnStays DEF CloseTool, At
<1>. QED
  BY <1>1, <1>2, <1>3, <1>4, <1>5, <1>6, <1>7, <1>8, <1>9, <1>10, <1>11 DEF TurnStep

\* FinalizeTerminal.
LEMMA FinalizeWithdrawn ==
  ASSUME RuntimeInv, Withdrawn, FinalizeStep
  PROVE  Withdrawn'
<1>0. RegistryOK
  BY DEF RuntimeInv
<1>1. CASE AbortInput
  <2>1. pc' # "request"
    BY <1>1, WhereTo DEF AbortInput
  <2>2. CASE UNCHANGED vars
    BY <2>1, <2>2, StillUndecided, WithdrawnStays
  <2>3. CASE InputResolved(input.req)
    BY <2>1, <2>3, WithdrawnStays DEF InputResolved, ResolveInputWait, Undecided, controlVars,
       outputVars
  <2>4. ASSUME NEW e \in Find("await_input", None),
               \/ Start(e) \/ ResolveAccepted(e, Result("abort"))
               \/ ResolveRefused(e, Result("abort"))
        PROVE  Withdrawn'
    BY <1>0, <2>1, <2>4, FindIn, ResultsProper, StartUndecided, ResolveUndecided, WithdrawnStays
  <2>. QED
    BY <1>1, <2>2, <2>3, <2>4 DEF AbortInput
<1>2. CASE AbortSamples
  <2>1. pc' # "request"
    BY <1>2, WhereTo DEF AbortSamples
  <2>2. CASE UNCHANGED vars
    BY <2>1, <2>2, StillUndecided, WithdrawnStays
  <2>3. ASSUME NEW e \in SampleEffect,
               \/ Start(e) \/ ResolveAccepted(e, Result("failed"))
               \/ ResolveRefused(e, Result("failed"))
        PROVE  Withdrawn'
    BY <1>0, <2>1, <2>3, FindIn, ResultsProper, StartUndecided, ResolveUndecided, WithdrawnStays
    DEF SampleEffect
  <2>. QED
    BY <1>2, <2>2, <2>3 DEF AbortSamples
<1>3. CASE AbortTool
  <2>1. pc' # "request"
    BY <1>3, WhereTo DEF AbortTool
  <2>2. PICK e \in Find("execute_tool", None) :
               \/ Start(e) \/ ResolveAccepted(e, Result("abort"))
               \/ ResolveRefused(e, Result("abort"))
    BY <1>3 DEF AbortTool
  <2>. QED
    BY <1>0, <2>1, <2>2, FindIn, ResultsProper, StartUndecided, ResolveUndecided, WithdrawnStays
<1>4. CASE AbortCalls
  BY <1>4, WhereTo, WithdrawnStays DEF AbortCalls, AbortOpenCalls, Undecided, controlVars,
     outputVars
<1>5. CASE AbortDone
  BY <1>5, WhereTo, StillUndecided, WithdrawnStays DEF AbortDone
<1>6. ASSUME NEW r \in Requests, AbortApproval(r) PROVE Withdrawn'
  <2>. DEFINE denied == [cmd |-> "approval", req |-> r, cancels |-> FALSE]
  <2>1. pc' # "request"
    BY <1>6, WhereTo DEF AbortApproval
  <2>2. CASE UNCHANGED vars
    BY <2>1, <2>2, StillUndecided, WithdrawnStays
  <2>3. ASSUME NEW e \in Find("await_approval", AskedBy(r)),
               Start(e) \/ ResolveAccepted(e, denied) \/ ResolveRefused(e, denied)
        PROVE  Withdrawn'
    BY <1>0, <2>1, <2>3, FindIn, ResultsProper, StartUndecided, ResolveUndecided, WithdrawnStays
  <2>. QED
    BY <1>6, <2>2, <2>3 DEF AbortApproval
<1>7. CASE DiscardOutput
  <2>1. Undecided /\ provisional' = "empty"
    BY <1>7, StillUndecided DEF DiscardOutput, DiscardProvisionalOutput, Undecided, controlVars
  <2>. QED
    BY <2>1 DEF Withdrawn, Undecided
<1>8. CASE RequestTerminal
  <2>1. pc = "request" /\ pc' = "journal" /\ decision' = want /\ UNCHANGED provisional
    BY <1>8, WhereTo DEF RequestTerminal, At, TerminalRequested, outputVars
  <2>. QED
    BY <2>1 DEF Withdrawn
<1>9. CASE RunJournal
  <2>1. pc' # "request"
    BY <1>9, WhereTo DEF RunJournal
  <2>2. PICK e \in PendingEffects :
          Start(e) \/ UNCHANGED vars \/ \E b \in BOOLEAN : JournalResult(e, b)
    BY <1>9 DEF RunJournal
  <2>3. Undecided
    BY <2>2, StartUndecided, StillUndecided DEF JournalResult, Undecided, controlVars, outputVars
  <2>. QED
    BY <2>1, <2>3, WithdrawnStays
<1>10. CASE EndTurn
  BY <1>10, WhereTo DEF EndTurn, FinishTerminal, Withdrawn, KindOf
<1>. QED
  BY <1>1, <1>2, <1>3, <1>4, <1>5, <1>6, <1>7, <1>8, <1>9, <1>10 DEF FinalizeStep

\* The executors, the user, crashes and restarts.
LEMMA HostWithdrawn ==
  ASSUME RuntimeInv, Withdrawn, AskStep \/ Cancel \/ CancelContext \/ CrashStep \/ Ended
  PROVE  Withdrawn'
<1>0. RegistryOK
  BY DEF RuntimeInv
<1>1. ASSUME UNCHANGED <<vars, turnVars>> PROVE Withdrawn'
  BY <1>1, StillUndecided, WithdrawnStays DEF turnVars
<1>2. ASSUME UNCHANGED turnVars, Undecided, UNCHANGED provisional PROVE Withdrawn'
  BY <1>2, WithdrawnStays DEF turnVars
<1>3. CASE Required
  BY <1>1, <1>2, <1>3, StartUndecided DEF Required
<1>4. CASE RequiredFails
  BY <1>1, <1>4 DEF RequiredFails
<1>5. ASSUME NEW c \in Calls, NEW r \in Requests, Ask(c, r) PROVE Withdrawn'
  <2>1. UNCHANGED turnVars /\ (InputRequired(r, c) \/ ApprovalRequired(r, c))
    BY <1>5 DEF Ask
  <2>2. Undecided /\ UNCHANGED provisional
    BY <2>1 DEF InputRequired, ApprovalRequired, Undecided, controlVars, outputVars
  <2>. QED
    BY <1>2, <2>1, <2>2
<1>6. ASSUME NEW r \in Requests, ResolveStarts(r) PROVE Withdrawn'
  BY <1>2, <1>6, StartUndecided DEF ResolveStarts
<1>7. ASSUME NEW r \in Requests, ResolveWait(r) PROVE Withdrawn'
  <2>1. PICK e \in WaitEffect(r, CallOf(r)) :
          ResolveAccepted(e, WaitResult(r)) \/ ResolveRefused(e, WaitResult(r))
    BY <1>7 DEF ResolveWait
  <2>2. e \in EffectIds /\ effects[e].kind # "sample_provider"
    BY WaitFound DEF WaitKinds
  <2>3. Undecided /\ UNCHANGED provisional
    BY <1>0, <2>1, <2>2, ResultsProper, ResolveUndecided
  <2>. QED
    BY <1>2, <1>7, <2>3 DEF ResolveWait
<1>8. ASSUME NEW c \in Calls, NEW r \in Requests,
             AskRecovered(c, r) \/ StopWaiting(c, r)
      PROVE  Withdrawn'
  BY <1>1, <1>8 DEF AskRecovered, StopWaiting
<1>9. ASSUME NEW c \in Calls, NEW b \in BOOLEAN, Return(c, b) \/ RejectUnresumed(c)
      PROVE  Withdrawn'
  BY <1>1, <1>9 DEF Return, RejectUnresumed
<1>10. ASSUME NEW r \in Requests, NEW b \in BOOLEAN,
              Expire(r) \/ ResolveFails(r) \/ ReplyLate(r) \/ Reply(r, b)
       PROVE  Withdrawn'
  BY <1>1, <1>10 DEF Expire, ResolveFails, ReplyLate, Reply
<1>11. CASE Cancel
  BY <1>2, <1>11 DEF Cancel, CancelRequested, rtVars, Undecided, controlVars, outputVars
<1>12. CASE CancelContext \/ Ended
  BY <1>1, <1>12 DEF CancelContext, Ended, allVars, rtVars
<1>13. CASE Crash
  BY <1>13, StillUndecided, WithdrawnStays DEF Crash
<1>14. CASE Restore
  <2>1. pc' # "request"
    BY <1>14, WhereTo DEF Restore
  <2>. QED
    BY <1>14, <2>1, StillUndecided, WithdrawnStays DEF Restore
<1>15. ASSUME NEW e \in EffectIds, Requeue(e) PROVE Withdrawn'
  BY <1>2, <1>15 DEF Requeue, EffectRequeued, rtVars, Undecided, controlVars, outputVars
<1>. QED
  BY <1>3, <1>4, <1>5, <1>6, <1>7, <1>8, <1>9, <1>10, <1>11, <1>12, <1>13, <1>14, <1>15
  DEF AskStep, CrashStep

\* Every step of the runtime keeps the text of a turn that failed withdrawn.
LEMMA StepWithdrawn == RuntimeInv /\ Withdrawn /\ [RuntimeNext]_allVars => Withdrawn'
<1>1. ASSUME RuntimeInv, Withdrawn, UNCHANGED allVars PROVE Withdrawn'
  BY <1>1, StillUndecided, WithdrawnStays DEF allVars, rtVars, turnVars
<1>. QED
  BY <1>1, TurnWithdrawn, FinalizeWithdrawn, HostWithdrawn DEF RuntimeNext

-----------------------------------------------------------------------------
(* The theorems                                                             *)

\* Whatever the driver, the executors, the user, crashes and failing commits
\* do, the durable state of the turn moves by accepted commands of the reducer
\* only: RuntimeKernel and its dispatcher implement the reducer.
THEOREM RuntimeImplementsReducer == RuntimeSpec => Spec
<1>1. RuntimeInit => Init
  BY DEF RuntimeInit
<1>2. RuntimeInv /\ [RuntimeNext]_allVars => [Next]_vars
  BY StepSound DEF Sound
<1>. QED
  BY <1>1, <1>2, RuntimeStart, RuntimeStep, PTL DEF RuntimeSpec, Spec

\* The same with the reducer's invariants: in every state of every run of the
\* runtime Validate accepts the durable state, a committing turn owes its journal
\* effect or has settled it, the effect ledger agrees with what the turn waits
\* for, and what an effect retains names a request of the turn.
THEOREM RuntimeSound ==
  RuntimeSpec => [](Valid /\ CommittingSettles /\ NoOrphanEffect
                      /\ EffectKeysUnique /\ RegistryOK)
<1>1. RuntimeInv => Valid /\ CommittingSettles /\ NoOrphanEffect
                      /\ EffectKeysUnique /\ RegistryOK
  BY DEF RuntimeInv, IInv
<1>. QED
  BY <1>1, RuntimeStart, RuntimeStep, PTL DEF RuntimeSpec

\* A turn that has decided its end can finish, whatever failed or crashed on the
\* way: it owes its journal effect or its journal is settled, and the text that
\* FinishTerminal refuses was withdrawn before the decision.
THEOREM CommittingEnds == RuntimeSpec => []CommittingFinishes
<1>1. RuntimeInit => Withdrawn
  BY DEF RuntimeInit, Init, Withdrawn
<1>2. RuntimeInv /\ Withdrawn => CommittingFinishes
  BY DEF RuntimeInv, IInv, Withdrawn, CommittingFinishes
<1>. QED
  BY <1>1, <1>2, StepWithdrawn, RuntimeStart, RuntimeStep, PTL DEF RuntimeSpec

\* Through the reducer the runtime implements the turn's abstract lifecycle: with
\* crashes and failed commits a turn still decides once, settles the changes it
\* holds as the decision says, and publishes an answer only as completed.
THEOREM RuntimeLifecycle == RuntimeSpec => ImplementsLifecycle
  BY RuntimeImplementsReducer, Refinement

\* The invariant of the registry, the driver and its executors holds in every
\* run of the runtime.
THEOREM DriverInvariance == RuntimeSpec => []DriverInv
  BY DriverStart, DriverStep, PTL DEF RuntimeSpec

\* The driver, its executors, the request ledger and the registry stay within
\* their types: no call is executed more often than its effect may be started,
\* and AbortTools names a call for every request it denies.
THEOREM RuntimeTypes == RuntimeSpec => []RuntimeTypeOK
<1>1. DriverInv => RuntimeTypeOK
  BY DEF DriverInv, Base
<1>. QED
  BY <1>1, DriverInvariance, PTL

\* The dispatcher's registry agrees with the durable ledger whenever the process
\* is up: every pending effect is routed, with its durable attempt, and started
\* exactly when the ledger says so.
THEOREM Routed == RuntimeSpec => []RegistryCovers
<1>1. DriverInv => RegistryCovers
  BY DEF DriverInv, Base
<1>. QED
  BY <1>1, DriverInvariance, PTL

\* BeginModelSample never requests a second sample beside a pending one, across
\* retries, aborts and restarts.
THEOREM OneSample == RuntimeSpec => []SingleSample
<1>1. DriverInv => SingleSample
  BY DEF DriverInv, Base
<1>. QED
  BY <1>1, DriverInvariance, PTL

\* A call reaches its executor only while its start is on record, and at most
\* once per durable start.
THEOREM Executions == RuntimeSpec => []ExecutionCovered
  BY DriverExecutes, DriverInvariance, PTL

\* A call whose admission was rejected durably is never executed again, by a
\* restart either.
THEOREM Rejected == RuntimeSpec => RejectionHolds
<1>1. DriverInv /\ [RuntimeNext]_allVars =>
        [\A c \in rejected : ran'[c] = ran[c]]_allVars
  BY StepRejects
<1>. QED
  BY <1>1, DriverInvariance, PTL DEF RuntimeSpec, RejectionHolds

\* The invariant of the waits holds in every run in which a tool asks for one
\* thing at a time.
THEOREM WaitInvariance ==
  ASSUME ~ConcurrentAsks
  PROVE  RuntimeSpec => []WaitInv
<1>1. DriverInv /\ WaitInv /\ [RuntimeNext]_allVars => WaitInv'
  BY StepWaits
<1>2. RuntimeSpec => []DriverInv
  BY DriverInvariance
<1>. QED
  BY <1>1, <1>2, StartWaits, PTL DEF RuntimeSpec

\* An executor that was told of an answer finds it durable, when a tool asks for
\* one thing at a time, and unless the failed commit of an abort stays behind
\* with an input wait: RuntimeKernel.ResolveApproval and ResolveInput commit
\* before the ledger of requests resumes the waiter.
THEOREM Durable ==
  ASSUME ~ConcurrentAsks, MaxFaults = 0 \/ InputRequests = {}
  PROVE  RuntimeSpec => []ResumedIsDurable
<1>1. WaitInv => ResumedIsDurable
  BY DEF WaitInv, Told, ResumedIsDurable, StillPending
<1>2. RuntimeSpec => []WaitInv
  BY WaitInvariance
<1>. QED
  BY <1>1, <1>2, PTL

\* An approval of a call that is being executed can be answered while the turn
\* is not canceled, when a tool asks for one approval at a time and no commit
\* fails: across restarts the request ledger knows the request, its wait can be
\* started, and the reducer accepts the answer.
THEOREM Answerable ==
  ASSUME ~ConcurrentAsks, MaxFaults = 0, InputRequests = {}
  PROVE  RuntimeSpec => []RequestAnswerable
<1>1. DriverInv /\ WaitInv => RequestAnswerable
  <2>. SUFFICES ASSUME DriverInv, WaitInv, NEW r \in Requests, StillPending(r), op = Free,
                       cancel = "none", tools[CallOf(r)].at = "run"
                PROVE  \/ ledger[r] \in {"recovered", "asked", "staged", "canceling",
                                         "expiring"}
                       \/ ledger[r] = "closed" /\ r \notin tools[CallOf(r)].asks
    BY DEF RequestAnswerable
  <2>1. r \in PendingApprovals /\ CallOf(r) = approvals[r]
    BY DEF StillPending, CallOf, PendingApprovals
  <2>2. approvals[r] \in Calls
    BY <2>1 DEF DriverInv, Base, RuntimeInv, IInv, Valid, ValidWaits, OpenCalls
  <2>3. pc # "down"
    BY <2>1, <2>2 DEF DriverInv, Base, Batches, Idling
  <2>4. ledger[r] # "none"
    BY <2>1, <2>3 DEF WaitInv, Registered, Free
  <2>5. ledger[r] # "resumed"
    BY <2>1 DEF WaitInv, Told, PendingApprovals
  <2>6. ledger[r] = "closed" => r \notin tools[CallOf(r)].asks
    BY <2>1, <2>2 DEF WaitInv, Answered, Unwaited
  <2>. QED
    BY <2>4, <2>5, <2>6 DEF DriverInv, Base, RuntimeTypeOK
<1>2. RuntimeSpec => []WaitInv
  BY WaitInvariance
<1>. QED
  BY <1>1, <1>2, DriverInvariance, PTL

\* The invariant of the aborts holds in every run in which a tool asks for one
\* thing at a time.
THEOREM PoisonInvariance ==
  ASSUME ~ConcurrentAsks
  PROVE  RuntimeSpec => []PoisonInv
<1>1. RuntimeSpec => []DriverInv /\ []WaitInv
  BY DriverInvariance, WaitInvariance, PTL
<1>. QED
  BY <1>1, StartPoison, StepPoison, PTL DEF RuntimeSpec

\* When no commit fails and a tool asks for one thing at a time, settle gives up
\* on a turn only with an effect whose retained result the reducer refuses for
\* good: tool calls of a canceled turn, or a canceling answer of one.
THEOREM Stuck ==
  ASSUME ~ConcurrentAsks
  PROVE  RuntimeSpec => []StuckIsPoisoned
<1>1. PoisonInv => StuckIsPoisoned
  <2>. SUFFICES ASSUME PoisonInv, pc = "stuck", faults = 0
                PROVE  \E e \in PendingEffects :
                         routed[e].result # NoResult /\ ~Legal(e, routed[e].result)
    BY DEF StuckIsPoisoned
  <2>1. PICK e \in EffectIds : Poisoned(e)
    BY DEF PoisonInv, Trapped
  <2>2. e \in PendingEffects
    BY <2>1 DEF Poisoned, PendingEffects
  <2>. QED
    BY <2>1, <2>2, PoisonRefused
<1>2. RuntimeSpec => []PoisonInv
  BY PoisonInvariance
<1>. QED
  BY <1>1, <1>2, PTL

=============================================================================
