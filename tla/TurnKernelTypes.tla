--------------------------- MODULE TurnKernelTypes ---------------------------
(***************************************************************************)
(* Type correctness of the turn reducer, for any number of calls, requests,*)
(* samples and effects, and under every policy.                            *)
(***************************************************************************)
EXTENDS TurnKernel, TLAPS

-----------------------------------------------------------------------------
(* The effect ledger                                                        *)

EffectsOK(eff) ==
  /\ eff \in [EffectIds -> Effects]
  /\ \A e \in EffectIds : Shaped(eff[e])

\* requestEffect keeps the ledger well formed.
LEMMA RequestEffectsType ==
  ASSUME TypeOK, NEW n \in Nat, NEW eff, EffectsOK(eff),
         NEW new \in [1 .. n -> Effects], \A i \in 1 .. n : Shaped(new[i]),
         RequestEffects(eff, n, new)
  PROVE  EffectTypeOK'
<1>1. nextEffect' \in 0 .. MaxEffects
  BY TurnKernelAssumption DEF RequestEffects, TypeOK, EffectTypeOK
<1>2. ASSUME NEW e \in EffectIds
      PROVE  effects'[e] \in Effects /\ Shaped(effects'[e])
  <2>1. CASE nextEffect < e /\ e <= nextEffect + n
    <3>1. e - nextEffect \in 1 .. n /\ effects'[e] = new[e - nextEffect]
      BY <2>1, TurnKernelAssumption DEF RequestEffects, TypeOK, EffectTypeOK, EffectIds
    <3>. QED
      BY <3>1
  <2>2. CASE ~(nextEffect < e /\ e <= nextEffect + n)
    <3>1. effects'[e] = eff[e]
      BY <2>2 DEF RequestEffects
    <3>. QED
      BY <3>1 DEF EffectsOK
  <2>. QED
    BY <2>1, <2>2
<1>3. effects' = [e \in EffectIds |-> effects'[e]]
  BY DEF RequestEffects
<1>4. effects' \in [EffectIds -> Effects]
  BY <1>2, <1>3
<1>. QED
  BY <1>1, <1>2, <1>4 DEF EffectTypeOK

\* A freshly requested effect is a well-formed one.
LEMMA NewEffectType ==
  ASSUME NEW kind \in EffectKinds,
         NEW key \in Calls \union Requests \union Samples \union {None},
         NEW call \in Calls \union Samples \union {None}
  PROVE  /\ NewEffect(kind, key, call) \in Effects
         /\ NewEffect(kind, key, call).kind = kind
         /\ NewEffect(kind, key, call).key = key
         /\ NewEffect(kind, key, call).call = call
  BY TurnKernelAssumption DEF NewEffect, Effects

\* requestEffect for one effect keeps the ledger well formed.
LEMMA RequestEffectType ==
  ASSUME TypeOK, NEW kind \in EffectKinds,
         NEW key \in Calls \union Requests \union Samples \union {None},
         NEW call \in Calls \union Samples \union {None},
         Shaped(NewEffect(kind, key, call)),
         RequestEffect(kind, key, call)
  PROVE  EffectTypeOK'
<1>1. [i \in 1 .. 1 |-> NewEffect(kind, key, call)] \in [1 .. 1 -> Effects]
  BY NewEffectType
<1>2. EffectsOK(effects)
  BY DEF TypeOK, EffectTypeOK, EffectsOK
<1>. QED
  BY <1>1, <1>2, RequestEffectsType DEF RequestEffect

\* finishEffect changes a status and nothing else.
LEMMA FinishType ==
  ASSUME NEW eff, EffectsOK(eff), NEW E
  PROVE  EffectsOK(Finish(eff, E))
<1>1. ASSUME NEW e \in EffectIds
      PROVE  /\ Finish(eff, E)[e] \in Effects
             /\ Finish(eff, E)[e].kind = eff[e].kind
             /\ Finish(eff, E)[e].key = eff[e].key
             /\ Finish(eff, E)[e].call = eff[e].call
  BY DEF Finish, EffectsOK, Effects
<1>2. Finish(eff, E) \in [EffectIds -> Effects]
  BY <1>1 DEF Finish
<1>. QED
  BY <1>1, <1>2 DEF EffectsOK, Shaped

\* Requeueing, restarting or ending an effect keeps the ledger well formed.
LEMMA SetStatusType ==
  ASSUME TypeOK, NEW e \in EffectIds,
         NEW status \in {"requested", "running", "done"}
  PROVE  EffectsOK(SetStatus(e, status))
<1>1. SetStatus(e, status) \in [EffectIds -> Effects]
  BY DEF SetStatus, TypeOK, EffectTypeOK, Effects
<1>2. ASSUME NEW f \in EffectIds
      PROVE  /\ SetStatus(e, status)[f].kind = effects[f].kind
             /\ SetStatus(e, status)[f].key = effects[f].key
             /\ SetStatus(e, status)[f].call = effects[f].call
  BY DEF SetStatus, TypeOK, EffectTypeOK, Effects
<1>. QED
  BY <1>1, <1>2 DEF EffectsOK, Shaped, TypeOK, EffectTypeOK

\* applyEffectStarted's update of one effect.
LEMMA StartEffectType ==
  ASSUME TypeOK, NEW e \in EffectIds, NEW attempt \in 1 .. MaxAttempts
  PROVE  EffectsOK([effects EXCEPT ![e] =
                      [@ EXCEPT !.status = "running", !.attempt = attempt]])
<1>. DEFINE x == [effects[e] EXCEPT !.status = "running", !.attempt = attempt]
<1>1. effects[e] \in Effects
  BY DEF TypeOK, EffectTypeOK
<1>0. attempt \in 0 .. MaxAttempts
  BY TurnKernelAssumption
<1>2. /\ x \in Effects
      /\ x.kind = effects[e].kind /\ x.key = effects[e].key
      /\ x.call = effects[e].call
  BY <1>1, <1>0 DEF Effects
<1>. HIDE DEF x
<1>3. [effects EXCEPT ![e] = x] \in [EffectIds -> Effects]
  BY <1>2 DEF TypeOK, EffectTypeOK
<1>4. \A f \in EffectIds : Shaped([effects EXCEPT ![e] = x][f])
  BY <1>2 DEF Shaped, TypeOK, EffectTypeOK
<1>5. [effects EXCEPT ![e] =
         [@ EXCEPT !.status = "running", !.attempt = attempt]]
        = [effects EXCEPT ![e] = x]
  BY DEF x
<1>. QED
  BY <1>3, <1>4, <1>5 DEF EffectsOK

-----------------------------------------------------------------------------
(* The sample ledger                                                        *)

\* A status change keeps the sample ledger well formed.
LEMMA SampleStatusType ==
  ASSUME TypeOK, NEW s \in Samples,
         NEW status \in {"requested", "running", "completed", "failed"}
  PROVE  [samples EXCEPT ![s].status = status] \in [Samples -> SampleRecords]
  BY DEF TypeOK, SampleTypeOK, SampleRecords

\* A durable start of a sample keeps the sample ledger well formed.
LEMMA SampleAttemptType ==
  ASSUME TypeOK, NEW s \in Samples, NEW attempt \in 1 .. MaxAttempts
  PROVE  [samples EXCEPT ![s] =
            [@ EXCEPT !.status = "running", !.attempt = attempt]]
           \in [Samples -> SampleRecords]
<1>1. samples[s] \in SampleRecords
  BY DEF TypeOK, SampleTypeOK
<1>0. attempt \in 0 .. MaxAttempts
  BY TurnKernelAssumption
<1>2. [samples[s] EXCEPT !.status = "running", !.attempt = attempt]
        \in SampleRecords
  BY <1>1, <1>0 DEF SampleRecords
<1>. QED
  BY <1>2 DEF TypeOK, SampleTypeOK

\* A settled sample is well formed, and no sample is active afterwards.
LEMMA SettleSampleType ==
  ASSUME TypeOK, NEW s \in Samples, NEW success \in BOOLEAN,
         SettleSample(s, success)
  PROVE  samples' \in [Samples -> SampleRecords] /\ active' = None
<1>. DEFINE status == IF success THEN "completed" ELSE "failed"
<1>1. status \in {"requested", "running", "completed", "failed"}
  OBVIOUS
<1>2. samples' = [samples EXCEPT ![s].status = status]
  BY DEF SettleSample
<1>. HIDE DEF status
<1>. QED
  BY <1>1, <1>2, SampleStatusType DEF SettleSample

-----------------------------------------------------------------------------
(* Type correctness                                                         *)

\* The groups of variables a step leaves alone keep their types.
LEMMA Frame ==
  ASSUME TypeOK
  PROVE  /\ UNCHANGED phase => (phase \in Phases)'
         /\ UNCHANGED workVars => WorkTypeOK'
         /\ UNCHANGED sampleVars => SampleTypeOK'
         /\ UNCHANGED effectVars => EffectTypeOK'
         /\ UNCHANGED outputVars => OutputTypeOK'
         /\ UNCHANGED changeVars => ChangeTypeOK'
         /\ UNCHANGED controlVars => ControlTypeOK'
<1>1. UNCHANGED workVars => WorkTypeOK'
  BY DEF TypeOK, WorkTypeOK, workVars
<1>2. UNCHANGED sampleVars => SampleTypeOK'
  BY DEF TypeOK, SampleTypeOK, sampleVars
<1>3. UNCHANGED effectVars => EffectTypeOK'
  BY DEF TypeOK, EffectTypeOK, effectVars
<1>4. UNCHANGED outputVars => OutputTypeOK'
  BY DEF TypeOK, OutputTypeOK, outputVars
<1>5. UNCHANGED changeVars => ChangeTypeOK'
  BY DEF TypeOK, ChangeTypeOK, changeVars
<1>6. UNCHANGED controlVars => ControlTypeOK'
  BY DEF TypeOK, ControlTypeOK, controlVars
<1>. QED
  BY <1>1, <1>2, <1>3, <1>4, <1>5, <1>6 DEF TypeOK

\* applyToolCalls keeps the calls and the effect ledger well formed.
LEMMA ToolCallsType ==
  ASSUME TypeOK, NEW n \in 1 .. MaxBatch, NEW batch \in [1 .. n -> Calls],
         NEW eff, EffectsOK(eff), ToolCalls(eff, n, batch)
  PROVE  /\ calls' \in [Calls -> {"new", "open", "ok", "error"}]
         /\ EffectTypeOK'
<1>. DEFINE new == [i \in 1 .. n |->
                      NewEffect("execute_tool", batch[i], batch[i])]
<1>1. ASSUME NEW i \in 1 .. n
      PROVE  new[i] \in Effects /\ Shaped(new[i])
  <2>1. batch[i] \in Calls /\ "execute_tool" \in EffectKinds
    BY DEF EffectKinds
  <2>. QED
    BY <2>1, NewEffectType DEF Shaped
<1>4. new \in [1 .. n -> Effects]
  BY <1>1
<1>2. n \in Nat /\ RequestEffects(eff, n, new)
  BY TurnKernelAssumption DEF ToolCalls
<1>3. EffectTypeOK'
  <2>. HIDE DEF new
  <2>. QED BY <1>1, <1>2, <1>4, RequestEffectsType
<1>. QED
  BY <1>3 DEF ToolCalls, TypeOK, WorkTypeOK


\* The sample commands (reducer_sampling.go) preserve the types.
LEMMA SampleStepType == TypeOK /\ SampleStep => TypeOK'
<1>. SUFFICES ASSUME TypeOK, SampleStep PROVE TypeOK'
  OBVIOUS
<1>0. EffectsOK(effects)
  BY DEF TypeOK, EffectTypeOK, EffectsOK
<1>1. ASSUME NEW s \in Samples, ModelSampleRequested(s)
      PROVE  TypeOK'
  <2>1. EffectTypeOK'
    <3>1. "sample_provider" \in EffectKinds
      BY DEF EffectKinds
    <3>2. Shaped(NewEffect("sample_provider", s, s))
      BY <3>1, NewEffectType DEF Shaped
    <3>. QED
      BY <1>1, <3>1, <3>2, RequestEffectType DEF ModelSampleRequested
  <2>2. SampleTypeOK'
    BY <1>1, SampleStatusType DEF ModelSampleRequested, TypeOK, SampleTypeOK
  <2>. QED
    BY <1>1, <2>1, <2>2, Frame DEF ModelSampleRequested, TypeOK
<1>2. ASSUME NEW s \in Samples, NEW e \in EffectIds, ModelSampleProgress(e, s)
      PROVE  TypeOK'
  <2>1. SampleTypeOK'
    BY <1>2 DEF ModelSampleProgress, TypeOK, SampleTypeOK, SampleRecords
  <2>. QED
    BY <1>2, <2>1, Frame DEF ModelSampleProgress, TypeOK
<1>3. ASSUME NEW s \in Samples, NEW e \in EffectIds, ModelSampleFailed(e, s)
      PROVE  TypeOK'
  <2>1. SampleTypeOK'
    BY <1>3, SettleSampleType DEF ModelSampleFailed, SampleTypeOK
  <2>2. EffectTypeOK'
    BY <1>0, <1>3, FinishType
    DEF ModelSampleFailed, EffectsOK, TypeOK, EffectTypeOK
  <2>. QED
    BY <1>3, <2>1, <2>2, Frame DEF ModelSampleFailed, TypeOK
<1>4. ASSUME NEW s \in Samples, NEW e \in EffectIds, NEW text \in Texts,
             ModelSampleAnswered(e, s, text)
      PROVE  TypeOK'
  <2>1. SampleTypeOK'
    BY <1>4, SettleSampleType DEF ModelSampleAnswered, SampleTypeOK
  <2>2. EffectTypeOK'
    BY <1>0, <1>4, FinishType
    DEF ModelSampleAnswered, EffectsOK, TypeOK, EffectTypeOK
  <2>3. OutputTypeOK'
    BY <1>4 DEF ModelSampleAnswered, TypeOK, OutputTypeOK, Texts
  <2>. QED
    BY <1>4, <2>1, <2>2, <2>3, Frame DEF ModelSampleAnswered, TypeOK
<1>5. ASSUME NEW s \in Samples, NEW e \in EffectIds, NEW n \in 1 .. MaxBatch,
             NEW batch \in [1 .. n -> Calls], NEW captured \in BOOLEAN,
             ModelSampleCalled(e, s, n, batch, captured)
      PROVE  TypeOK'
  <2>1. SampleTypeOK'
    BY <1>5, SettleSampleType DEF ModelSampleCalled, SampleTypeOK
  <2>2. EffectsOK(Finish(effects, {e}))
    BY <1>0, FinishType
  <2>3. ToolCalls(Finish(effects, {e}), n, batch)
    BY <1>5 DEF ModelSampleCalled
  <2>4. calls' \in [Calls -> {"new", "open", "ok", "error"}] /\ EffectTypeOK'
    BY <2>2, <2>3, ToolCallsType
  <2>5. WorkTypeOK'
    BY <1>5, <2>4 DEF ModelSampleCalled, TypeOK, WorkTypeOK
  <2>6. OutputTypeOK'
    BY <1>5 DEF ModelSampleCalled, ToolCalls, TypeOK, OutputTypeOK, Texts
  <2>7. ChangeTypeOK'
    BY <1>5, TurnKernelAssumption
    DEF ModelSampleCalled, ToolCalls, TypeOK, ChangeTypeOK, NoCompletion, Claims
  <2>. QED
    BY <1>5, <2>1, <2>4, <2>5, <2>6, <2>7, Frame
    DEF ModelSampleCalled, ToolCalls, TypeOK, Phases
<1>6. ASSUME NEW s \in Samples, NEW e \in EffectIds,
             ProviderRetryRequested(e, s)
      PROVE  TypeOK'
  <2>1. SampleTypeOK'
    BY <1>6, SampleStatusType DEF ProviderRetryRequested, SampleTypeOK
  <2>2. EffectTypeOK'
    BY <1>6, SetStatusType
    DEF ProviderRetryRequested, EffectsOK, TypeOK, EffectTypeOK
  <2>. QED
    BY <1>6, <2>1, <2>2, Frame DEF ProviderRetryRequested, TypeOK
<1>. QED
  BY <1>1, <1>2, <1>3, <1>4, <1>5, <1>6 DEF SampleStep

\* The effect commands (reducer_effect.go) preserve the types.
LEMMA EffectStepType == TypeOK /\ EffectStep => TypeOK'
<1>. SUFFICES ASSUME TypeOK, EffectStep PROVE TypeOK'
  OBVIOUS
<1>1. ASSUME NEW e \in EffectIds, NEW attempt \in 1 .. MaxAttempts,
             EffectStarted(e, attempt)
      PROVE  TypeOK'
  <2>1. EffectTypeOK'
    BY <1>1, StartEffectType
    DEF EffectStarted, EffectsOK, TypeOK, EffectTypeOK
  <2>2. SampleTypeOK'
    <3>1. CASE effects[e].kind = "sample_provider"
      <4>1. effects[e].call \in Samples
        BY <3>1 DEF TypeOK, EffectTypeOK, Shaped
      <4>2. active' = effects[e].call
        BY <1>1, <3>1 DEF EffectStarted
      <4>3. samples' = [samples EXCEPT ![effects[e].call] =
              [@ EXCEPT !.status = "running", !.attempt = attempt]]
        BY <1>1, <3>1 DEF EffectStarted
      <4>. QED
        BY <4>1, <4>2, <4>3, SampleAttemptType DEF SampleTypeOK
    <3>2. CASE effects[e].kind # "sample_provider"
      BY <1>1, <3>2, Frame DEF EffectStarted
    <3>. QED
      BY <3>1, <3>2
  <2>. QED
    BY <1>1, <2>1, <2>2, Frame DEF EffectStarted, TypeOK
<1>2. ASSUME NEW e \in EffectIds, EffectRequeued(e)
      PROVE  TypeOK'
  <2>1. EffectTypeOK'
    BY <1>2, SetStatusType DEF EffectRequeued, EffectsOK, TypeOK, EffectTypeOK
  <2>2. SampleTypeOK'
    <3>1. CASE effects[e].kind = "sample_provider"
      <4>1. effects[e].call \in Samples
        BY <3>1 DEF TypeOK, EffectTypeOK, Shaped
      <4>. QED
        BY <1>2, <3>1, <4>1, SampleStatusType DEF EffectRequeued, SampleTypeOK
    <3>2. CASE effects[e].kind # "sample_provider"
      BY <1>2, <3>2, Frame DEF EffectRequeued
    <3>. QED
      BY <3>1, <3>2
  <2>. QED
    BY <1>2, <2>1, <2>2, Frame DEF EffectRequeued, TypeOK
<1>3. ASSUME NEW e \in EffectIds, EffectResult(e)
      PROVE  TypeOK'
  <2>1. EffectsOK(effects)
    BY DEF TypeOK, EffectTypeOK, EffectsOK
  <2>2. EffectTypeOK'
    BY <1>3, <2>1, FinishType DEF EffectResult, EffectsOK, TypeOK, EffectTypeOK
  <2>. QED
    BY <1>3, <2>2, Frame DEF EffectResult, TypeOK
<1>. QED
  BY <1>1, <1>2, <1>3 DEF EffectStep

\* The tool commands (reducer_tool.go) preserve the types.
LEMMA ToolStepType == TypeOK /\ ToolStep => TypeOK'
<1>. SUFFICES ASSUME TypeOK, ToolStep PROVE TypeOK'
  OBVIOUS
<1>0. EffectsOK(effects)
  BY DEF TypeOK, EffectTypeOK, EffectsOK
<1>1. ASSUME NEW n \in 1 .. MaxBatch, NEW batch \in [1 .. n -> Calls],
             ToolCallsProposed(n, batch)
      PROVE  TypeOK'
  <2>1. ToolCalls(effects, n, batch)
    BY <1>1 DEF ToolCallsProposed
  <2>2. calls' \in [Calls -> {"new", "open", "ok", "error"}] /\ EffectTypeOK'
    BY <1>0, <2>1, ToolCallsType
  <2>3. WorkTypeOK'
    BY <1>1, <2>2 DEF ToolCallsProposed, TypeOK, WorkTypeOK
  <2>4. OutputTypeOK'
    BY <1>1 DEF ToolCallsProposed, ToolCalls, TypeOK, OutputTypeOK
  <2>5. ChangeTypeOK'
    BY <1>1, TurnKernelAssumption
    DEF ToolCallsProposed, ToolCalls, TypeOK, ChangeTypeOK, NoCompletion, Claims
  <2>. QED
    BY <1>1, <2>2, <2>3, <2>4, <2>5, Frame
    DEF ToolCallsProposed, ToolCalls, TypeOK, Phases
<1>2. ASSUME NEW batch \in SUBSET Calls, ToolBatchAdmissionRejected(batch)
      PROVE  TypeOK'
  <2>1. WorkTypeOK'
    BY <1>2 DEF ToolBatchAdmissionRejected, TypeOK, WorkTypeOK
  <2>. QED
    BY <1>2, <2>1, Frame DEF ToolBatchAdmissionRejected, TypeOK
<1>3. ASSUME NEW e \in EffectIds, NEW c \in Calls, NEW failed \in BOOLEAN,
             NEW changes \in BOOLEAN, ToolResult(e, c, failed, changes)
      PROVE  TypeOK'
  <2>1. EffectTypeOK'
    <3>1. \E E : effects' = Finish(effects, E)
      BY <1>3 DEF ToolResult
    <3>. QED
      BY <1>0, <1>3, <3>1, FinishType
      DEF ToolResult, EffectsOK, TypeOK, EffectTypeOK
  <2>2. WorkTypeOK'
    BY <1>3 DEF ToolResult, TypeOK, WorkTypeOK, NoInput
  <2>3. ChangeTypeOK'
    <3>1. CASE changes
      BY <1>3, <3>1, TurnKernelAssumption
      DEF ToolResult, TypeOK, ChangeTypeOK, NoCompletion, Claims
    <3>2. CASE ~changes
      BY <1>3, <3>2, Frame DEF ToolResult
    <3>. QED
      BY <3>1, <3>2
  <2>4. ControlTypeOK'
    BY <1>3 DEF ToolResult, TypeOK, ControlTypeOK, ReopenFinalization
  <2>5. phase' \in Phases
    BY <1>3 DEF ToolResult, Phases
  <2>. QED
    BY <1>3, <2>1, <2>2, <2>3, <2>4, <2>5, Frame DEF ToolResult, TypeOK
<1>4. CASE AbortOpenCalls
  <2>1. EffectTypeOK'
    BY <1>0, <1>4, FinishType
    DEF AbortOpenCalls, EffectsOK, TypeOK, EffectTypeOK
  <2>2. WorkTypeOK'
    BY <1>4 DEF AbortOpenCalls, TypeOK, WorkTypeOK
  <2>. QED
    BY <1>4, <2>1, <2>2, Frame DEF AbortOpenCalls, TypeOK, Phases
<1>. QED
  BY <1>1, <1>2, <1>3, <1>4 DEF ToolStep

\* Approvals, input and cancellation (reducer_interaction.go) preserve the
\* types.
LEMMA InteractionStepType == TypeOK /\ InteractionStep => TypeOK'
<1>. SUFFICES ASSUME TypeOK, InteractionStep PROVE TypeOK'
  OBVIOUS
<1>0. EffectsOK(effects)
  BY DEF TypeOK, EffectTypeOK, EffectsOK
<1>1. ASSUME NEW r \in Requests, NEW c \in Calls, ApprovalRequired(r, c)
      PROVE  TypeOK'
  <2>1. EffectTypeOK'
    <3>1. "await_approval" \in EffectKinds
      BY DEF EffectKinds
    <3>2. Shaped(NewEffect("await_approval", r, c))
      BY <3>1, NewEffectType DEF Shaped
    <3>. QED
      BY <1>1, <3>1, <3>2, RequestEffectType DEF ApprovalRequired
  <2>2. WorkTypeOK'
    BY <1>1 DEF ApprovalRequired, TypeOK, WorkTypeOK
  <2>. QED
    BY <1>1, <2>1, <2>2, Frame DEF ApprovalRequired, TypeOK, Phases
<1>2. ASSUME NEW e \in EffectIds, NEW r \in Requests, NEW canceled \in BOOLEAN,
             ApprovalResult(e, r, canceled)
      PROVE  TypeOK'
  <2>1. EffectTypeOK'
    BY <1>0, <1>2, FinishType
    DEF ApprovalResult, EffectsOK, TypeOK, EffectTypeOK
  <2>2. WorkTypeOK'
    BY <1>2 DEF ApprovalResult, TypeOK, WorkTypeOK
  <2>3. ControlTypeOK'
    BY <1>2 DEF ApprovalResult, TypeOK, ControlTypeOK
  <2>4. phase' \in Phases
    BY <1>2 DEF ApprovalResult, Phases
  <2>. QED
    BY <1>2, <2>1, <2>2, <2>3, <2>4, Frame DEF ApprovalResult, TypeOK
<1>3. ASSUME NEW r \in Requests, NEW c \in Calls \union {None},
             InputRequired(r, c)
      PROVE  TypeOK'
  <2>1. EffectTypeOK'
    <3>1. "await_input" \in EffectKinds
      BY DEF EffectKinds
    <3>2. Shaped(NewEffect("await_input", r, c))
      BY <3>1, NewEffectType DEF Shaped
    <3>. QED
      BY <1>3, <3>1, <3>2, RequestEffectType DEF InputRequired
  <2>2. WorkTypeOK'
    BY <1>3 DEF InputRequired, TypeOK, WorkTypeOK
  <2>. QED
    BY <1>3, <2>1, <2>2, Frame DEF InputRequired, TypeOK, Phases
<1>4. ASSUME NEW r \in Requests, NEW E, ResolveInputWait(r, E)
      PROVE  TypeOK'
  <2>1. EffectTypeOK'
    BY <1>0, <1>4, FinishType
    DEF ResolveInputWait, EffectsOK, TypeOK, EffectTypeOK
  <2>2. WorkTypeOK'
    BY <1>4 DEF ResolveInputWait, TypeOK, WorkTypeOK, NoInput
  <2>3. ControlTypeOK'
    BY <1>4 DEF ResolveInputWait, TypeOK, ControlTypeOK, ReopenFinalization
  <2>4. phase' \in Phases
    BY <1>4 DEF ResolveInputWait, Phases
  <2>. QED
    BY <1>4, <2>1, <2>2, <2>3, <2>4, Frame DEF ResolveInputWait, TypeOK
<1>5. ASSUME NEW reason \in CancelReasons, CancelRequested(reason)
      PROVE  TypeOK'
  <2>1. ControlTypeOK'
    BY <1>5, TurnKernelAssumption
    DEF CancelRequested, TypeOK, ControlTypeOK
  <2>. QED
    BY <1>5, <2>1, Frame DEF CancelRequested, TypeOK
<1>. QED
  BY <1>1, <1>2, <1>3, <1>4, <1>5
  DEF InteractionStep, InputResolved, InputResult

\* Completion, output and convergence commands preserve the types.
LEMMA OutputStepType == TypeOK /\ OutputStep => TypeOK'
<1>. SUFFICES ASSUME TypeOK, OutputStep PROVE TypeOK'
  OBVIOUS
<1>1. ASSUME NEW claim \in Claims, NEW preserve \in BOOLEAN,
             CompletionAccepted(claim, preserve)
      PROVE  TypeOK'
  <2>1. ChangeTypeOK'
    BY <1>1 DEF CompletionAccepted, TypeOK, ChangeTypeOK
  <2>2. OutputTypeOK'
    BY <1>1 DEF CompletionAccepted, TypeOK, OutputTypeOK, Texts
  <2>. QED
    BY <1>1, <2>1, <2>2, Frame DEF CompletionAccepted, TypeOK
<1>2. ASSUME NEW blocked \in BOOLEAN, CompletionRefused(blocked)
      PROVE  TypeOK'
  <2>1. ChangeTypeOK'
    BY <1>2 DEF CompletionRefused, TypeOK, ChangeTypeOK, Claims
  <2>2. ControlTypeOK'
    BY <1>2 DEF CompletionRefused, TypeOK, ControlTypeOK
  <2>. QED
    BY <1>2, <2>1, <2>2, Frame DEF CompletionRefused, TypeOK
<1>3. CASE CompletionInvalidated
  <2>1. ChangeTypeOK'
    BY <1>3, TurnKernelAssumption
    DEF CompletionInvalidated, TypeOK, ChangeTypeOK, NoCompletion, Claims
  <2>. QED
    BY <1>3, <2>1, Frame DEF CompletionInvalidated, TypeOK
<1>4. ASSUME NEW observed \in {"clean", "dirty"}, WorkspaceReconciled(observed)
      PROVE  TypeOK'
  <2>1. ChangeTypeOK'
    BY <1>4 DEF WorkspaceReconciled, TypeOK, ChangeTypeOK
  <2>. QED
    BY <1>4, <2>1, Frame DEF WorkspaceReconciled, TypeOK
<1>5. CASE ModelTextReceived \/ ReleaseProvisionalOutput
             \/ DiscardProvisionalOutput
  <2>1. OutputTypeOK'
    BY <1>5 DEF ModelTextReceived, ReleaseProvisionalOutput,
                DiscardProvisionalOutput, TypeOK, OutputTypeOK, Texts
  <2>. QED
    BY <1>5, <2>1, Frame
    DEF ModelTextReceived, ReleaseProvisionalOutput,
        DiscardProvisionalOutput, TypeOK
<1>6. CASE BeginConvergence \/ ConvergenceFinalizationStarted
             \/ RepairDeclaration
  <2>1. ControlTypeOK'
    BY <1>6 DEF BeginConvergence, ConvergenceFinalizationStarted,
                RepairDeclaration, TypeOK, ControlTypeOK
  <2>. QED
    BY <1>6, <2>1, Frame
    DEF BeginConvergence, ConvergenceFinalizationStarted, RepairDeclaration,
        TypeOK
<1>. QED
  BY <1>1, <1>2, <1>3, <1>4, <1>5, <1>6 DEF OutputStep

\* Every decision has a journal effect and a journal outcome of its own type.
LEMMA DecisionTypes ==
  ASSUME NEW d \in Decisions
  PROVE  /\ KindOf(d) \in TerminalPhases
         /\ JournalOutcome(d) \in {"committed", "suspended", "rolled_back"}
         /\ JournalEffect(d) \in JournalKinds
  BY DEF Decisions, KindOf, TerminalPhases, JournalOutcome, JournalEffect,
         JournalKinds

\* The terminal commands (reducer_terminal.go) preserve the types.
LEMMA TerminalStepType == TypeOK /\ TerminalStep => TypeOK'
<1>. SUFFICES ASSUME TypeOK, TerminalStep PROVE TypeOK'
  OBVIOUS
<1>1. ASSUME NEW d \in Decisions, TerminalRequested(d)
      PROVE  TypeOK'
  <2>1. EffectTypeOK'
    <3>1. CASE journal = "open" \/ JournalRequired
      <4>1. JournalEffect(d) \in EffectKinds
        BY DecisionTypes DEF EffectKinds
      <4>2. Shaped(NewEffect(JournalEffect(d), None, None))
        BY <4>1, DecisionTypes, NewEffectType DEF Shaped, JournalKinds
      <4>3. RequestEffect(JournalEffect(d), None, None)
        BY <1>1, <3>1 DEF TerminalRequested
      <4>. QED
        BY <4>1, <4>2, <4>3, RequestEffectType
    <3>2. CASE ~(journal = "open" \/ JournalRequired)
      BY <1>1, <3>2, Frame DEF TerminalRequested
    <3>. QED
      BY <3>1, <3>2
  <2>2. ControlTypeOK'
    BY <1>1 DEF TerminalRequested, TypeOK, ControlTypeOK
  <2>. QED
    BY <1>1, <2>1, <2>2, Frame DEF TerminalRequested, TypeOK, Phases
<1>2. ASSUME NEW e \in EffectIds, NEW success \in BOOLEAN,
             JournalResult(e, success)
      PROVE  TypeOK'
  <2>1. EffectsOK(effects) /\ EffectsOK(SetStatus(e, "requested"))
          /\ EffectsOK(Finish(effects, {e}))
    BY FinishType, SetStatusType DEF TypeOK, EffectTypeOK, EffectsOK
  <2>2. EffectTypeOK'
    BY <1>2, <2>1 DEF JournalResult, EffectsOK, TypeOK, EffectTypeOK
  <2>3. decision \in Decisions => ChangeTypeOK'
    BY <1>2, DecisionTypes DEF JournalResult, TypeOK, ChangeTypeOK
  <2>4. decision = None => ChangeTypeOK'
    BY <1>2, TurnKernelAssumption
    DEF JournalResult, JournalOutcome, TypeOK, ChangeTypeOK
  <2>. QED
    BY <1>2, <2>2, <2>3, <2>4, Frame
    DEF JournalResult, TypeOK, ControlTypeOK
<1>3. CASE FinishTerminal
  <2>1. OutputTypeOK'
    BY <1>3 DEF FinishTerminal, TypeOK, OutputTypeOK, Texts
  <2>2. phase' \in Phases
    BY <1>3 DEF FinishTerminal, KindOf, Phases, TerminalPhases
  <2>. QED
    BY <1>3, <2>1, <2>2, Frame DEF FinishTerminal, TypeOK
<1>. QED
  BY <1>1, <1>2, <1>3 DEF TerminalStep

\* A new turn is well typed.
LEMMA TypeInit == Init => TypeOK
<1>. SUFFICES ASSUME Init PROVE TypeOK
  OBVIOUS
<1>1. phase \in Phases /\ WorkTypeOK /\ OutputTypeOK /\ ControlTypeOK
  BY DEF Init, Phases, WorkTypeOK, NoInput, OutputTypeOK, Texts, ControlTypeOK
<1>2. SampleTypeOK
  BY TurnKernelAssumption DEF Init, SampleTypeOK, SampleRecords
<1>3. EffectTypeOK
  BY TurnKernelAssumption DEF Init, EffectTypeOK, EffectIds, Effects, Shaped
<1>4. ChangeTypeOK
  BY TurnKernelAssumption DEF Init, ChangeTypeOK, NoCompletion, Claims
<1>. QED
  BY <1>1, <1>2, <1>3, <1>4 DEF TypeOK

\* Every command of the reducer preserves the types.
LEMMA TypeStep == TypeOK /\ [Next]_vars => TypeOK'
<1>. SUFFICES ASSUME TypeOK, [Next]_vars PROVE TypeOK'
  OBVIOUS
<1>1. CASE StartTurn \/ PreparationFinished
  BY <1>1, Frame DEF StartTurn, PreparationFinished, TypeOK, Phases
<1>2. ASSUME NEW draft \in Recoveries, RecoveryRequested(draft)
      PROVE  TypeOK'
  <2>1. ChangeTypeOK' /\ ControlTypeOK'
    BY <1>2, TurnKernelAssumption
    DEF RecoveryRequested, TypeOK, ChangeTypeOK, ControlTypeOK
  <2>. QED
    BY <1>2, <2>1, Frame DEF RecoveryRequested, TypeOK
<1>3. CASE UNCHANGED vars
  BY <1>3, Frame DEF vars, TypeOK
<1>. QED
  BY <1>1, <1>2, <1>3, SampleStepType, EffectStepType, ToolStepType,
     InteractionStepType, OutputStepType, TerminalStepType DEF Next

\* Every state of every turn, whatever commands reach the reducer, is well
\* typed; in particular an effect always names the sample, call or request
\* that its kind calls for.
THEOREM TypeCorrect == Spec => []TypeOK
  BY TypeInit, TypeStep, PTL DEF Spec

=============================================================================
