-------------------------- MODULE TurnKernelProofs --------------------------
(***************************************************************************)
(* The inductive invariant of the turn reducer.  IInv is the conjunction   *)
(* of the invariants TurnKernel states and of History; every step of every *)
(* action preserves it.                                                    *)
(***************************************************************************)
EXTENDS TurnKernelTypes

WorkPhases == Phases \ (TerminalPhases \union {"committing"})

-----------------------------------------------------------------------------
(* What a step does to the ledger                                           *)

Same(e) ==
  /\ effects'[e].kind = effects[e].kind
  /\ effects'[e].key = effects[e].key
  /\ effects'[e].call = effects[e].call

\* The step ends the effects of E and requests none.
Shrunk(E) ==
  \A e \in EffectIds : Same(e) /\ (Pending(e)' <=> Pending(e) /\ e \notin E)

\* The step requests the one effect x and leaves the others alone.
Requested(x) ==
  /\ nextEffect + 1 \in EffectIds
  /\ effects'[nextEffect + 1] = x
  /\ \A e \in EffectIds \ {nextEffect + 1} : effects'[e] = effects[e]

\* finishEffect ends the effects of E and leaves the identities alone.
LEMMA FinishShrinks ==
  ASSUME TypeOK, NEW E, effects' = Finish(effects, E)
  PROVE  Shrunk(E)
<1>. SUFFICES ASSUME NEW e \in EffectIds
              PROVE  Same(e) /\ (Pending(e)' <=> Pending(e) /\ e \notin E)
  BY DEF Shrunk
<1>. QED
  BY DEF Finish, Same, Pending, TypeOK, EffectTypeOK, Effects

\* A requeued effect stays pending.
LEMMA SetStatusShrinks ==
  ASSUME TypeOK, NEW e \in EffectIds, Pending(e),
         NEW status \in {"requested", "running"},
         effects' = SetStatus(e, status)
  PROVE  Shrunk({})
<1>. SUFFICES ASSUME NEW f \in EffectIds
              PROVE  Same(f) /\ (Pending(f)' <=> Pending(f))
  BY DEF Shrunk
<1>. QED
  BY DEF SetStatus, Same, Pending, TypeOK, EffectTypeOK, Effects

\* A started effect stays pending.
LEMMA StartShrinks ==
  ASSUME TypeOK, NEW e \in EffectIds, Pending(e), NEW attempt,
         effects' = [effects EXCEPT ![e] =
                       [@ EXCEPT !.status = "running", !.attempt = attempt]]
  PROVE  Shrunk({})
<1>. SUFFICES ASSUME NEW f \in EffectIds
              PROVE  Same(f) /\ (Pending(f)' <=> Pending(f))
  BY DEF Shrunk
<1>. QED
  BY DEF Same, Pending, TypeOK, EffectTypeOK, Effects

\* requestEffect issues the next sequence number.
LEMMA RequestRequests ==
  ASSUME TypeOK, NEW kind, NEW key, NEW call, RequestEffect(kind, key, call)
  PROVE  Requested(NewEffect(kind, key, call))
<1>1. nextEffect + 1 \in EffectIds
  BY TurnKernelAssumption
  DEF RequestEffect, RequestEffects, EffectIds, TypeOK, EffectTypeOK
<1>2. effects'[nextEffect + 1] = NewEffect(kind, key, call)
  BY <1>1, TurnKernelAssumption
  DEF RequestEffect, RequestEffects, EffectIds, TypeOK, EffectTypeOK
<1>3. \A e \in EffectIds \ {nextEffect + 1} : effects'[e] = effects[e]
  BY TurnKernelAssumption
  DEF RequestEffect, RequestEffects, EffectIds, TypeOK, EffectTypeOK
<1>. QED
  BY <1>1, <1>2, <1>3 DEF Requested

-----------------------------------------------------------------------------
(* Conjuncts that a step leaves alone                                       *)

\* What a conjunct reads, and so when a step cannot disturb it.
LEMMA InvFrame ==
  ASSUME IInv
  PROVE  /\ UNCHANGED <<phase, samples, active>> => ValidSamples'
         /\ UNCHANGED <<phase, calls>> => ValidCalls'
         /\ UNCHANGED <<phase, calls, approvals, input>> => ValidWaits'
         /\ UNCHANGED <<phase, mutation, journal>> => ValidChanges'
         /\ UNCHANGED <<calls, mutation, workspace, completion>>
              => ValidCompletion'
         /\ UNCHANGED effects => EffectKeysUnique'
         /\ UNCHANGED <<effects, calls, approvals, input, phase>>
              => NoOrphanEffect'
         /\ UNCHANGED <<effects, calls, samples, phase, completion, final>>
              => History'
<1>1. UNCHANGED <<phase, samples, active>> => ValidSamples'
  BY DEF IInv, Valid, ValidSamples
<1>2. UNCHANGED <<phase, calls>> => ValidCalls'
  BY DEF IInv, Valid, ValidCalls, OpenCalls
<1>3. UNCHANGED <<phase, calls, approvals, input>> => ValidWaits'
  BY DEF IInv, Valid, ValidWaits, OpenCalls, PendingApprovals
<1>4. UNCHANGED <<phase, mutation, journal>> => ValidChanges'
  BY DEF IInv, Valid, ValidChanges
<1>5. UNCHANGED <<calls, mutation, workspace, completion>> => ValidCompletion'
  BY DEF IInv, Valid, ValidCompletion, Accepted, ValidNoChange
<1>6. UNCHANGED effects => EffectKeysUnique'
  BY DEF IInv, EffectKeysUnique, Pending
<1>7. UNCHANGED <<effects, calls, approvals, input, phase>> => NoOrphanEffect'
  BY DEF IInv, NoOrphanEffect, PendingEffects, Pending, OpenCalls
<1>8. UNCHANGED <<effects, calls, samples, phase, completion, final>>
        => History'
  BY DEF IInv, History, Accepted
<1>. QED
  BY <1>1, <1>2, <1>3, <1>4, <1>5, <1>6, <1>7, <1>8

\* While the turn works, the terminal conjuncts ask for next to nothing.
LEMMA WorkFrame ==
  ASSUME IInv, phase \in WorkPhases, phase' \in WorkPhases,
         decision' = decision
  PROVE  /\ ValidTerminal' /\ CommittingSettles'
         /\ (eligible = "yes" => provisional = "text")' => CompletedOutputReady'
  BY DEF IInv, Valid, ValidTerminal, CommittingSettles, CompletedOutputReady,
         WorkPhases

\* A step that only ends effects cannot disturb the ledger invariants.
LEMMA ShrunkFrame ==
  ASSUME IInv, NEW E, Shrunk(E)
  PROVE  /\ EffectKeysUnique'
         /\ UNCHANGED <<calls, approvals, input, phase>> => NoOrphanEffect'
<1>1. EffectKeysUnique'
  BY DEF IInv, EffectKeysUnique, Shrunk, Same
<1>2. UNCHANGED <<calls, approvals, input, phase>> => NoOrphanEffect'
  BY DEF IInv, NoOrphanEffect, PendingEffects, Shrunk, Same, OpenCalls
<1>. QED
  BY <1>1, <1>2

\* A request for an effect whose key is free keeps the keys unique.
LEMMA RequestedFrame ==
  ASSUME IInv, NEW kind, NEW key, NEW call,
         Requested(NewEffect(kind, key, call)),
         \A e \in EffectIds : effects[e].kind = kind /\ effects[e].key = key =>
           kind \notin {"execute_tool", "sample_provider"} /\ ~Pending(e)
  PROVE  EffectKeysUnique'
<1>. SUFFICES ASSUME NEW e \in EffectIds, NEW f \in EffectIds,
                     effects'[e].kind = effects'[f].kind,
                     effects'[e].key = effects'[f].key,
                     \/ effects'[e].kind \in {"execute_tool", "sample_provider"}
                     \/ Pending(e)' /\ Pending(f)'
                        /\ effects'[e].kind \in {"await_approval", "await_input"},
                     e # f
              PROVE  FALSE
  BY DEF EffectKeysUnique
<1>. DEFINE x == NewEffect(kind, key, call)
<1>1. x.kind = kind /\ x.key = key
  BY DEF NewEffect
<1>2. effects'[nextEffect + 1] = x
      /\ \A g \in EffectIds \ {nextEffect + 1} : effects'[g] = effects[g]
  BY DEF Requested
<1>. HIDE DEF x
<1>3. CASE e = nextEffect + 1
  BY <1>1, <1>2, <1>3 DEF Pending
<1>4. CASE f = nextEffect + 1
  BY <1>1, <1>2, <1>4 DEF Pending
<1>5. CASE e # nextEffect + 1 /\ f # nextEffect + 1
  BY <1>2, <1>5 DEF Pending, IInv, EffectKeysUnique
<1>. QED
  BY <1>3, <1>4, <1>5

\* The ledger facts of a step that only settles or reschedules samples.
LEMMA SampleHistory ==
  ASSUME IInv, NEW E, Shrunk(E), NEW s \in Samples,
         samples'[s].status # "new",
         \A t \in Samples \ {s} : samples'[t] = samples[t],
         UNCHANGED <<calls, phase, completion, final>>
  PROVE  History'
  BY DEF IInv, History, Shrunk, Same, TypeOK, EffectTypeOK, Shaped, Accepted

-----------------------------------------------------------------------------
(* Samples                                                                  *)

\* model_sample_requested preserves the invariant.
LEMMA SampleRequestedInv ==
  ASSUME IInv, TypeOK', NEW s \in Samples, ModelSampleRequested(s)
  PROVE  IInv'
<1>. USE DEF workVars, sampleVars, effectVars, outputVars, changeVars,
             controlVars
<1>1. phase \in WorkPhases /\ UNCHANGED <<phase, decision>>
  BY DEF ModelSampleRequested, WorkPhases, Phases, TerminalPhases
<1>2. Requested(NewEffect("sample_provider", s, s))
  BY RequestRequests DEF ModelSampleRequested, IInv
<1>3. /\ samples'[s].status = "requested"
      /\ \A t \in Samples \ {s} : samples'[t] = samples[t]
  BY DEF ModelSampleRequested, IInv, TypeOK, SampleTypeOK, SampleRecords
<1>4. ValidSamples'
  BY <1>3 DEF ModelSampleRequested, IInv, Valid, ValidSamples
<1>5. EffectKeysUnique'
  <2>1. \A e \in EffectIds :
          ~(effects[e].kind = "sample_provider" /\ effects[e].key = s)
    BY DEF ModelSampleRequested, IInv, History, TypeOK, EffectTypeOK, Shaped
  <2>. QED
    BY <1>2, <2>1, RequestedFrame
<1>6. NoOrphanEffect'
  <2>1. effects'[nextEffect + 1].kind = "sample_provider"
    BY <1>2 DEF Requested, NewEffect
  <2>. QED
    BY <1>2, <2>1
    DEF ModelSampleRequested, IInv, NoOrphanEffect, PendingEffects, Pending,
        Requested, OpenCalls, JournalKinds
<1>7. History'
  <2>1. /\ effects'[nextEffect + 1].kind = "sample_provider"
        /\ effects'[nextEffect + 1].call = s
    BY <1>2 DEF Requested, NewEffect
  <2>. QED
    BY <1>2, <1>3, <2>1
    DEF ModelSampleRequested, IInv, History, Requested, TypeOK, EffectTypeOK,
        Shaped, Accepted
<1>. QED
  BY <1>1, <1>4, <1>5, <1>6, <1>7, InvFrame, WorkFrame
  DEF ModelSampleRequested, IInv, Valid, CompletedOutputReady, WorkPhases

\* model_sample_progress_recorded preserves the invariant.
LEMMA SampleProgressInv ==
  ASSUME IInv, TypeOK', NEW s \in Samples, NEW e \in EffectIds,
         ModelSampleProgress(e, s)
  PROVE  IInv'
<1>. USE DEF workVars, sampleVars, effectVars, outputVars, changeVars,
             controlVars
<1>1. phase \in WorkPhases /\ UNCHANGED <<phase, decision>>
  BY DEF ModelSampleProgress, WorkPhases, Phases, TerminalPhases
<1>2. \A t \in Samples : /\ samples'[t].status = samples[t].status
                         /\ samples'[t].attempt = samples[t].attempt
  BY DEF ModelSampleProgress, IInv, TypeOK, SampleTypeOK, SampleRecords
<1>3. ValidSamples'
  BY <1>2 DEF ModelSampleProgress, IInv, Valid, ValidSamples, TypeOK,
              SampleTypeOK
<1>4. History'
  BY <1>2 DEF ModelSampleProgress, IInv, History, TypeOK, EffectTypeOK,
              Shaped, Accepted
<1>. QED
  BY <1>1, <1>3, <1>4, InvFrame, WorkFrame
  DEF ModelSampleProgress, IInv, Valid, CompletedOutputReady, WorkPhases

\* A settled sample was attempted, whichever way its result arrived.
LEMMA SettledSample ==
  ASSUME IInv, NEW s \in Samples, NEW e, NEW success \in BOOLEAN,
         SampleResultAccepted(e, s, success), SettleSample(s, success)
  PROVE  /\ active' = None
         /\ samples'[s].status # "new"
         /\ \A t \in Samples \ {s} : samples'[t] = samples[t]
         /\ ValidSamples'
<1>1. /\ samples'[s].status \in {"completed", "failed"}
      /\ samples'[s].attempt = samples[s].attempt
      /\ \A t \in Samples \ {s} : samples'[t] = samples[t]
  BY DEF SettleSample, IInv, TypeOK, SampleTypeOK, SampleRecords
<1>2. samples[s].attempt > 0
  BY TurnKernelAssumption DEF SampleResultAccepted, IInv, Valid, ValidSamples
<1>3. active' = None
  BY DEF SettleSample
<1>. QED
  BY <1>1, <1>2, <1>3 DEF IInv, Valid, ValidSamples

\* A failed sample result preserves the invariant.
LEMMA SampleFailedInv ==
  ASSUME IInv, TypeOK', NEW s \in Samples, NEW e \in EffectIds,
         ModelSampleFailed(e, s)
  PROVE  IInv'
<1>. USE DEF workVars, sampleVars, effectVars, outputVars, changeVars,
             controlVars
<1>1. phase \in WorkPhases /\ UNCHANGED <<phase, decision>>
  BY DEF ModelSampleFailed, WorkPhases, Phases, TerminalPhases
<1>2. Shrunk({e})
  BY FinishShrinks DEF ModelSampleFailed, IInv
<1>3. /\ samples'[s].status # "new"
      /\ \A t \in Samples \ {s} : samples'[t] = samples[t]
      /\ ValidSamples'
  BY SettledSample DEF ModelSampleFailed
<1>4. History'
  BY <1>2, <1>3, SampleHistory DEF ModelSampleFailed
<1>. QED
  BY <1>1, <1>2, <1>3, <1>4, InvFrame, WorkFrame, ShrunkFrame
  DEF ModelSampleFailed, IInv, Valid, CompletedOutputReady, WorkPhases

\* A text result preserves the invariant.
LEMMA SampleAnsweredInv ==
  ASSUME IInv, TypeOK', NEW s \in Samples, NEW e \in EffectIds,
         NEW text \in Texts, ModelSampleAnswered(e, s, text)
  PROVE  IInv'
<1>. USE DEF workVars, sampleVars, effectVars, outputVars, changeVars,
             controlVars
<1>1. phase \in WorkPhases /\ UNCHANGED <<phase, decision>>
  BY DEF ModelSampleAnswered, WorkPhases, Phases, TerminalPhases
<1>2. Shrunk({e})
  BY FinishShrinks DEF ModelSampleAnswered, IInv
<1>3. /\ samples'[s].status # "new"
      /\ \A t \in Samples \ {s} : samples'[t] = samples[t]
      /\ ValidSamples'
  BY SettledSample DEF ModelSampleAnswered
<1>4. History'
  BY <1>2, <1>3, SampleHistory DEF ModelSampleAnswered
<1>5. (eligible = "yes" => provisional = "text")'
  BY <1>1 DEF ModelSampleAnswered, IInv, CompletedOutputReady, WorkPhases
<1>. QED
  BY <1>1, <1>2, <1>3, <1>4, <1>5, InvFrame, WorkFrame, ShrunkFrame
  DEF ModelSampleAnswered, IInv, Valid

\* provider_retry_requested preserves the invariant.
LEMMA ProviderRetryInv ==
  ASSUME IInv, TypeOK', NEW s \in Samples, NEW e \in EffectIds,
         ProviderRetryRequested(e, s)
  PROVE  IInv'
<1>. USE DEF workVars, sampleVars, effectVars, outputVars, changeVars,
             controlVars
<1>1. phase \in WorkPhases /\ UNCHANGED <<phase, decision>>
  BY DEF ProviderRetryRequested, WorkPhases, Phases, TerminalPhases
<1>2. Shrunk({})
  BY SetStatusShrinks DEF ProviderRetryRequested, IInv, Pending
<1>3. /\ samples'[s].status = "requested"
      /\ \A t \in Samples \ {s} : samples'[t] = samples[t]
  BY DEF ProviderRetryRequested, IInv, TypeOK, SampleTypeOK, SampleRecords
<1>4. ValidSamples'
  BY <1>3 DEF ProviderRetryRequested, IInv, Valid, ValidSamples
<1>5. History'
  BY <1>2, <1>3, SampleHistory DEF ProviderRetryRequested
<1>. QED
  BY <1>1, <1>2, <1>4, <1>5, InvFrame, WorkFrame, ShrunkFrame
  DEF ProviderRetryRequested, IInv, Valid, CompletedOutputReady, WorkPhases

-----------------------------------------------------------------------------
(* Effects                                                                  *)

\* effect_started preserves the invariant.
LEMMA EffectStartedInv ==
  ASSUME IInv, TypeOK', NEW e \in EffectIds, NEW attempt \in 1 .. MaxAttempts,
         EffectStarted(e, attempt)
  PROVE  IInv'
<1>. USE DEF workVars, sampleVars, effectVars, outputVars, changeVars,
             controlVars
<1>1. Shrunk({})
  BY StartShrinks DEF EffectStarted, IInv, Pending
<1>2. PendingEffects' = PendingEffects
  BY <1>1 DEF Shrunk, PendingEffects
<1>3. ValidSamples' /\ History'
  <2>1. CASE effects[e].kind = "sample_provider"
    <3>. DEFINE s == effects[e].call
    <3>1. s \in Samples
      BY <2>1 DEF IInv, TypeOK, EffectTypeOK, Shaped
    <3>0. samples' = [samples EXCEPT ![s] =
            [@ EXCEPT !.status = "running", !.attempt = attempt]]
      BY <2>1 DEF EffectStarted
    <3>2. /\ samples'[s].status = "running" /\ samples'[s].attempt = attempt
          /\ \A t \in Samples \ {s} : samples'[t] = samples[t]
      <4>. HIDE DEF s
      <4>. QED
        BY <3>0, <3>1 DEF IInv, TypeOK, SampleTypeOK, SampleRecords
    <3>3. active' = s /\ phase' = "sampling"
      BY <2>1 DEF EffectStarted
    <3>. HIDE DEF s
    <3>4. attempt > 0
      BY TurnKernelAssumption
    <3>5. ValidSamples'
      BY <3>1, <3>2, <3>3, <3>4 DEF IInv, Valid, ValidSamples
    <3>6. History'
      BY <1>1, <3>1, <3>2, SampleHistory DEF EffectStarted
    <3>. QED
      BY <3>5, <3>6
  <2>2. CASE effects[e].kind # "sample_provider"
    <3>1. UNCHANGED <<samples, active, phase, calls, completion, final>>
      BY <2>2 DEF EffectStarted
    <3>2. History'
      BY <1>1, <3>1 DEF IInv, History, Shrunk, Same, Accepted
    <3>. QED
      BY <3>1, <3>2, InvFrame
  <2>. QED
    BY <2>1, <2>2
<1>4. CommittingSettles'
  BY <1>1, <1>2
  DEF EffectStarted, IInv, CommittingSettles, Shrunk, Same, JournalSettled,
      JournalOutcome, JournalEffect
<1>5. ValidTerminal'
  BY <1>2 DEF EffectStarted, IInv, Valid, ValidTerminal
<1>6. CompletedOutputReady'
  BY DEF EffectStarted, IInv, CompletedOutputReady, CompletionPolicy,
         WorkspaceCompletionMissing, Accepted, ValidNoChange
<1>. QED
  BY <1>1, <1>3, <1>4, <1>5, <1>6, InvFrame, ShrunkFrame
  DEF EffectStarted, IInv, Valid

\* effect_requeued preserves the invariant.
LEMMA EffectRequeuedInv ==
  ASSUME IInv, TypeOK', NEW e \in EffectIds, EffectRequeued(e)
  PROVE  IInv'
<1>. USE DEF workVars, sampleVars, effectVars, outputVars, changeVars,
             controlVars
<1>1. Shrunk({})
  BY SetStatusShrinks DEF EffectRequeued, IInv, Pending
<1>2. PendingEffects' = PendingEffects
  BY <1>1 DEF Shrunk, PendingEffects
<1>3. ValidSamples' /\ History'
  <2>1. CASE effects[e].kind = "sample_provider"
    <3>. DEFINE s == effects[e].call
    <3>1. s \in Samples
      BY <2>1 DEF IInv, TypeOK, EffectTypeOK, Shaped
    <3>2. /\ samples'[s].status = "requested"
          /\ \A t \in Samples \ {s} : samples'[t] = samples[t]
      BY <2>1, <3>1
      DEF EffectRequeued, IInv, TypeOK, SampleTypeOK, SampleRecords
    <3>3. active' = None
      BY <2>1 DEF EffectRequeued
    <3>. HIDE DEF s
    <3>4. ValidSamples'
      BY <3>1, <3>2, <3>3 DEF IInv, Valid, ValidSamples
    <3>5. History'
      BY <1>1, <3>1, <3>2, SampleHistory DEF EffectRequeued
    <3>. QED
      BY <3>4, <3>5
  <2>2. CASE effects[e].kind # "sample_provider"
    <3>1. UNCHANGED <<samples, active, phase, calls, completion, final>>
      BY <2>2 DEF EffectRequeued
    <3>2. History'
      BY <1>1, <3>1 DEF IInv, History, Shrunk, Same, Accepted
    <3>. QED
      BY <3>1, <3>2, InvFrame
  <2>. QED
    BY <2>1, <2>2
<1>4. CommittingSettles'
  BY <1>1, <1>2
  DEF EffectRequeued, IInv, CommittingSettles, Shrunk, Same, JournalSettled,
      JournalOutcome, JournalEffect
<1>5. ValidTerminal'
  BY <1>2 DEF EffectRequeued, IInv, Valid, ValidTerminal
<1>6. CompletedOutputReady'
  BY DEF EffectRequeued, IInv, CompletedOutputReady, CompletionPolicy,
         WorkspaceCompletionMissing, Accepted, ValidNoChange
<1>. QED
  BY <1>1, <1>3, <1>4, <1>5, <1>6, InvFrame, ShrunkFrame
  DEF EffectRequeued, IInv, Valid

\* effect_result_received preserves the invariant: an aborted effect leaves the
\* ledger, what it stood for may stay.
LEMMA EffectResultInv ==
  ASSUME IInv, TypeOK', NEW e \in EffectIds, EffectResult(e)
  PROVE  IInv'
<1>. USE DEF workVars, sampleVars, effectVars, outputVars, changeVars,
             controlVars
<1>1. Shrunk({e})
  BY FinishShrinks DEF EffectResult, IInv
<1>2. phase # "committing"
  \* Only the journal effect is pending then, and it is not of this kind.
  BY DecisionTypes
  DEF EffectResult, IInv, CommittingSettles, PendingEffects, JournalKinds,
      TypeOK, ControlTypeOK, Valid, ValidTerminal
<1>3. phase \in WorkPhases /\ UNCHANGED <<phase, decision>>
  BY <1>2 DEF EffectResult, WorkPhases, IInv, TypeOK
<1>4. History'
  BY <1>1 DEF EffectResult, IInv, History, Shrunk, Same, Accepted
<1>. QED
  BY <1>1, <1>3, <1>4, InvFrame, WorkFrame, ShrunkFrame
  DEF EffectResult, IInv, Valid, CompletedOutputReady, WorkPhases

-----------------------------------------------------------------------------
(* Tool calls                                                               *)

\* applyToolCalls opens new calls, each with an effect of its own, on top of a
\* ledger in which at most a sample has ended.
LEMMA ToolCallsInv ==
  ASSUME IInv, TypeOK', NEW n \in 1 .. MaxBatch,
         NEW batch \in [1 .. n -> Calls], NEW eff, ToolCalls(eff, n, batch),
         \A f \in EffectIds :
           /\ eff[f].kind = effects[f].kind /\ eff[f].key = effects[f].key
           /\ eff[f].call = effects[f].call
           /\ eff[f].status \in {"requested", "running"} => Pending(f),
         phase \in {"sampling", "executing_tools"},
         UNCHANGED <<approvals, input>>
  PROVE  /\ ValidCalls' /\ ValidWaits'
         /\ EffectKeysUnique' /\ NoOrphanEffect'
         /\ \A c \in Calls : calls[c] # "new" => calls'[c] = calls[c]
         /\ \A f \in EffectIds : effects'[f].kind = "execute_tool" =>
              calls'[effects'[f].call] # "new"
         /\ \A f \in EffectIds : effects'[f].kind = "sample_provider" =>
              /\ effects[f].kind = "sample_provider"
              /\ effects'[f].call = effects[f].call
<1>. DEFINE New == {f \in EffectIds : nextEffect < f /\ f <= nextEffect + n}
<1>0. n \in Nat /\ n >= 1 /\ nextEffect \in Nat
  BY TurnKernelAssumption DEF IInv, TypeOK, EffectTypeOK
<1>1. ASSUME NEW f \in New
      PROVE  /\ f - nextEffect \in 1 .. n
             /\ effects'[f].kind = "execute_tool"
             /\ effects'[f].key = batch[f - nextEffect]
             /\ effects'[f].call = batch[f - nextEffect]
             /\ batch[f - nextEffect] \in Calls
             /\ calls[batch[f - nextEffect]] = "new"
             /\ calls'[batch[f - nextEffect]] = "open"
  <2>1. f \in EffectIds /\ f \in Nat /\ f - nextEffect \in 1 .. n
    BY <1>0, TurnKernelAssumption DEF EffectIds
  <2>2. effects'[f] = NewEffect("execute_tool", batch[f - nextEffect],
                                batch[f - nextEffect])
    BY <1>0, <2>1 DEF ToolCalls, RequestEffects
  <2>. QED
    BY <2>1, <2>2 DEF ToolCalls, NewEffect
<1>2. \A f \in EffectIds \ New : effects'[f] = eff[f]
  BY DEF ToolCalls, RequestEffects
<1>3. \A c \in Calls : calls[c] # "new" => calls'[c] = calls[c]
  BY DEF ToolCalls
<1>4. \A c \in Calls : calls[c] = "open" => calls'[c] = "open"
  BY <1>3
<1>5. \E c \in Calls : calls'[c] = "open"
  <2>1. 1 \in 1 .. n
    BY <1>0
  <2>2. batch[1] \in Calls /\ calls'[batch[1]] = "open"
    BY <2>1 DEF ToolCalls
  <2>. QED
    BY <2>2
<1>6. phase' = "executing_tools"
  BY DEF ToolCalls
<1>7. ValidCalls'
  BY <1>5, <1>6 DEF ValidCalls, OpenCalls
<1>8. ValidWaits'
  BY <1>4, <1>6
  DEF IInv, Valid, ValidWaits, OpenCalls, PendingApprovals
<1>. HIDE DEF New
<1>9. EffectKeysUnique'
  <2>. SUFFICES ASSUME NEW f \in EffectIds, NEW g \in EffectIds,
                       effects'[f].kind = effects'[g].kind,
                       effects'[f].key = effects'[g].key,
                       \/ effects'[f].kind \in {"execute_tool",
                                                "sample_provider"}
                       \/ Pending(f)' /\ Pending(g)'
                          /\ effects'[f].kind \in {"await_approval",
                                                   "await_input"},
                       f # g
                PROVE  FALSE
    BY DEF EffectKeysUnique
  <2>1. ASSUME NEW a \in New, NEW b \in EffectIds \ New,
               effects'[a].kind = effects'[b].kind,
               effects'[a].key = effects'[b].key
        PROVE  FALSE
    <3>1. effects[b].kind = "execute_tool" /\ effects[b].key = effects'[a].key
      BY <1>1, <1>2, <2>1
    <3>2. calls[effects[b].key] # "new"
      BY <3>1 DEF IInv, History, TypeOK, EffectTypeOK, Shaped
    <3>. QED
      BY <1>1, <2>1, <3>1, <3>2
  <2>2. CASE f \in New /\ g \in New
    <3>1. f - nextEffect \in 1 .. n /\ g - nextEffect \in 1 .. n
          /\ batch[f - nextEffect] = batch[g - nextEffect]
      BY <1>1, <2>2
    <3>2. f - nextEffect = g - nextEffect
      BY <3>1 DEF ToolCalls
    <3>. QED
      BY <1>0, <3>2, TurnKernelAssumption DEF EffectIds
  <2>3. CASE f \notin New /\ g \notin New
    BY <1>2, <2>3 DEF IInv, EffectKeysUnique, Pending
  <2>. QED
    BY <2>1, <2>2, <2>3
<1>10. NoOrphanEffect'
  <2>. SUFFICES ASSUME NEW f \in EffectIds, Pending(f)'
                PROVE
    /\ effects'[f].kind = "await_approval" =>
         /\ effects'[f].key \in Requests
         /\ approvals'[effects'[f].key] = effects'[f].call
    /\ effects'[f].kind = "await_input" =>
         input' = [req |-> effects'[f].key, call |-> effects'[f].call]
    /\ effects'[f].kind = "execute_tool" => effects'[f].call \in OpenCalls'
    /\ effects'[f].kind \in JournalKinds => phase' = "committing"
    BY DEF NoOrphanEffect, PendingEffects
  <2>1. CASE f \in New
    BY <1>1, <2>1 DEF OpenCalls, JournalKinds
  <2>2. CASE f \notin New
    BY <1>2, <1>4, <2>2
    DEF IInv, NoOrphanEffect, PendingEffects, Pending, OpenCalls
  <2>. QED
    BY <2>1, <2>2
<1>11. \A f \in EffectIds : effects'[f].kind = "execute_tool" =>
         calls'[effects'[f].call] # "new"
  BY <1>1, <1>2, <1>3 DEF IInv, History, TypeOK, EffectTypeOK, Shaped
<1>12. \A f \in EffectIds : effects'[f].kind = "sample_provider" =>
         /\ effects[f].kind = "sample_provider"
         /\ effects'[f].call = effects[f].call
  BY <1>1, <1>2
<1>. QED
  BY <1>3, <1>7, <1>8, <1>9, <1>10, <1>11, <1>12

\* A result with tool calls preserves the invariant.
LEMMA SampleCalledInv ==
  ASSUME IInv, TypeOK', NEW s \in Samples, NEW e \in EffectIds,
         NEW n \in 1 .. MaxBatch, NEW batch \in [1 .. n -> Calls],
         NEW captured \in BOOLEAN, ModelSampleCalled(e, s, n, batch, captured)
  PROVE  IInv'
<1>. USE DEF workVars, sampleVars, effectVars, outputVars, changeVars,
             controlVars
<1>1. phase \in WorkPhases /\ phase' \in WorkPhases /\ decision' = decision
  BY DEF ModelSampleCalled, ToolCalls, WorkPhases, Phases, TerminalPhases
<1>2. /\ active' = None /\ samples'[s].status # "new"
      /\ \A t \in Samples \ {s} : samples'[t] = samples[t]
      /\ ValidSamples'
  BY SettledSample DEF ModelSampleCalled
<1>3. \A f \in EffectIds :
        /\ Finish(effects, {e})[f].kind = effects[f].kind
        /\ Finish(effects, {e})[f].key = effects[f].key
        /\ Finish(effects, {e})[f].call = effects[f].call
        /\ Finish(effects, {e})[f].status \in {"requested", "running"}
             => Pending(f)
  BY DEF IInv, TypeOK, EffectTypeOK, Effects, Finish, Pending
<1>4. /\ ToolCalls(Finish(effects, {e}), n, batch) /\ phase = "sampling"
      /\ UNCHANGED <<approvals, input>>
  BY DEF ModelSampleCalled
<1>5. /\ ValidCalls' /\ ValidWaits'
      /\ EffectKeysUnique' /\ NoOrphanEffect'
      /\ \A f \in EffectIds : effects'[f].kind = "execute_tool" =>
           calls'[effects'[f].call] # "new"
      /\ \A f \in EffectIds : effects'[f].kind = "sample_provider" =>
           /\ effects[f].kind = "sample_provider"
           /\ effects'[f].call = effects[f].call
  <2>. HIDE DEF workVars, sampleVars, effectVars, outputVars, changeVars,
                controlVars
  <2>. QED
    BY <1>3, <1>4, ToolCallsInv
<1>6. completion' = NoCompletion /\ eligible' = "no"
      /\ phase' = "executing_tools" /\ UNCHANGED <<mutation, journal, final>>
  BY DEF ModelSampleCalled, ToolCalls
<1>7. ValidChanges'
  BY <1>4, <1>6 DEF IInv, Valid, ValidChanges, TerminalPhases
<1>8. ValidCompletion'
  BY <1>6 DEF ValidCompletion, Accepted, NoCompletion
<1>9. History'
  <2>1. \A f \in EffectIds : effects'[f].kind = "sample_provider" =>
          samples'[effects'[f].call].status # "new"
    BY <1>2, <1>5 DEF IInv, History, TypeOK, EffectTypeOK, Shaped
  <2>. QED
    BY <1>4, <1>5, <1>6, <2>1 DEF IInv, History, TerminalPhases
<1>. QED
  BY <1>1, <1>2, <1>5, <1>6, <1>7, <1>8, <1>9, WorkFrame DEF IInv, Valid

\* tool_calls_proposed preserves the invariant.
LEMMA ToolCallsProposedInv ==
  ASSUME IInv, TypeOK', NEW n \in 1 .. MaxBatch,
         NEW batch \in [1 .. n -> Calls], ToolCallsProposed(n, batch)
  PROVE  IInv'
<1>. USE DEF workVars, sampleVars, effectVars, outputVars, changeVars,
             controlVars
<1>1. phase \in WorkPhases /\ phase' \in WorkPhases /\ decision' = decision
  BY DEF ToolCallsProposed, ToolCalls, WorkPhases, Phases, TerminalPhases
<1>2. /\ ToolCalls(effects, n, batch)
      /\ phase \in {"sampling", "executing_tools"}
      /\ UNCHANGED <<approvals, input, samples, active>> /\ active = None
  BY DEF ToolCallsProposed
<1>3. /\ ValidCalls' /\ ValidWaits'
      /\ EffectKeysUnique' /\ NoOrphanEffect'
      /\ \A f \in EffectIds : effects'[f].kind = "execute_tool" =>
           calls'[effects'[f].call] # "new"
      /\ \A f \in EffectIds : effects'[f].kind = "sample_provider" =>
           /\ effects[f].kind = "sample_provider"
           /\ effects'[f].call = effects[f].call
  <2>. HIDE DEF workVars, sampleVars, effectVars, outputVars, changeVars,
                controlVars
  <2>. QED
    BY <1>2, ToolCallsInv DEF Pending
<1>4. completion' = NoCompletion /\ eligible' = "no"
      /\ phase' = "executing_tools" /\ UNCHANGED <<mutation, journal, final>>
  BY DEF ToolCallsProposed, ToolCalls
<1>5. ValidSamples'
  BY <1>2 DEF IInv, Valid, ValidSamples
<1>6. ValidChanges'
  BY <1>2, <1>4 DEF IInv, Valid, ValidChanges, TerminalPhases
<1>7. ValidCompletion'
  BY <1>4 DEF ValidCompletion, Accepted, NoCompletion
<1>8. History'
  <2>1. \A f \in EffectIds : effects'[f].kind = "sample_provider" =>
          samples'[effects'[f].call].status # "new"
    BY <1>2, <1>3 DEF IInv, History, TypeOK, EffectTypeOK, Shaped
  <2>. QED
    BY <1>2, <1>3, <1>4, <2>1 DEF IInv, History, TerminalPhases
<1>. QED
  BY <1>1, <1>3, <1>4, <1>5, <1>6, <1>7, <1>8, WorkFrame DEF IInv, Valid

\* closeEffectByIdentity finds the one pending effect of a call or request.
LEMMA FirstPendingIsOnly ==
  ASSUME IInv, NEW f \in PendingEffects,
         effects[f].kind \in {"execute_tool", "await_approval", "await_input"}
  PROVE  f \in FirstPending(effects[f].kind, effects[f].key)
<1>. DEFINE same == {e \in PendingEffects : /\ effects[e].kind = effects[f].kind
                                            /\ effects[e].key = effects[f].key}
<1>1. \A e \in same : e = f
  BY DEF IInv, EffectKeysUnique, PendingEffects
<1>2. f \in same /\ f <= f
  BY DEF PendingEffects, EffectIds
<1>. QED
  BY <1>1, <1>2 DEF FirstPending

\* tool_batch_admission_rejected preserves the invariant.
LEMMA AdmissionRejectedInv ==
  ASSUME IInv, TypeOK', NEW batch \in SUBSET Calls,
         ToolBatchAdmissionRejected(batch)
  PROVE  IInv'
<1>. USE DEF workVars, sampleVars, effectVars, outputVars, changeVars,
             controlVars
<1>1. phase \in WorkPhases /\ UNCHANGED <<phase, decision>>
  BY DEF ToolBatchAdmissionRejected, WorkPhases, Phases, TerminalPhases
<1>. QED
  BY <1>1, InvFrame, WorkFrame
  DEF ToolBatchAdmissionRejected, IInv, Valid, CompletedOutputReady, WorkPhases

\* A tool result and its cascade over the waits preserve the invariant.
LEMMA ToolResultInv ==
  ASSUME IInv, TypeOK', NEW e \in EffectIds, NEW c \in Calls,
         NEW failed \in BOOLEAN, NEW changes \in BOOLEAN,
         ToolResult(e, c, failed, changes)
  PROVE  IInv'
<1>. DEFINE closed == {e} \union WaitEffects(c)
<1>1. phase \in {"executing_tools", "awaiting_approval", "awaiting_input"}
      /\ (phase = "awaiting_input" => Bound(c))
  BY DEF ToolResult
<1>2. phase' = IF PendingApprovals \ Waiting(c) # {} THEN "awaiting_approval"
               ELSE IF OpenCalls \ {c} # {} THEN "executing_tools"
               ELSE "sampling"
  BY DEF ToolResult
<1>3. phase \in WorkPhases /\ phase' \in WorkPhases /\ decision' = decision
  BY <1>1, <1>2 DEF ToolResult, WorkPhases, Phases, TerminalPhases
<1>4. Shrunk(closed)
  BY FinishShrinks DEF ToolResult, IInv
<1>5. /\ c \in OpenCalls /\ OpenCalls' = OpenCalls \ {c}
      /\ \A d \in Calls \ {c} : calls'[d] = calls[d]
      /\ calls'[c] \in {"ok", "error"}
  BY DEF ToolResult, OpenCalls, IInv, TypeOK, WorkTypeOK
<1>6. /\ \A r \in Requests :
           approvals'[r] = IF r \in Waiting(c) THEN None ELSE approvals[r]
      /\ PendingApprovals' = PendingApprovals \ Waiting(c)
  BY DEF ToolResult, PendingApprovals, Waiting
<1>7. /\ input' = IF Bound(c) THEN NoInput ELSE input
      /\ effects[e].kind = "execute_tool" /\ effects[e].call = c
      /\ UNCHANGED <<samples, active, provisional, eligible, final>>
  BY DEF ToolResult, sampleVars, outputVars
<1>8. input'.req = None
  BY <1>1, <1>7 DEF IInv, Valid, ValidWaits, NoInput, Bound
<1>9. ValidSamples'
  BY <1>1, <1>7 DEF IInv, Valid, ValidSamples
<1>10. ValidCalls'
  <2>1. PendingApprovals \ Waiting(c) # {} => OpenCalls \ {c} # {}
    BY DEF IInv, Valid, ValidWaits, PendingApprovals, Waiting
  <2>. QED
    BY <1>2, <1>5, <2>1 DEF ValidCalls
<1>11. ValidWaits'
  <2>1. \A r \in PendingApprovals' : approvals'[r] \in OpenCalls'
    BY <1>5, <1>6 DEF IInv, Valid, ValidWaits, PendingApprovals, Waiting
  <2>2. PendingApprovals' # {} <=> phase' = "awaiting_approval"
    BY <1>2, <1>6
  <2>3. phase' # "awaiting_input"
    BY <1>2
  <2>. QED
    BY <1>8, <2>1, <2>2, <2>3 DEF ValidWaits
<1>12. ValidChanges'
  <2>1. CASE changes
    BY <1>3, <2>1, TurnKernelAssumption
    DEF ToolResult, ValidChanges, IInv, TypeOK, ChangeTypeOK
  <2>2. CASE ~changes
    BY <1>3, <2>2
    DEF ToolResult, changeVars, IInv, Valid, ValidChanges, WorkPhases
  <2>. QED
    BY <2>1, <2>2
<1>13. ValidCompletion'
  <2>1. CASE changes
    BY <2>1 DEF ToolResult, ValidCompletion, Accepted, NoCompletion
  <2>2. CASE ~changes
    <3>1. UNCHANGED <<mutation, workspace, completion>>
      BY <2>2 DEF ToolResult, changeVars
    <3>2. ValidNoChange => ValidNoChange'
      BY <1>5, <3>1 DEF ValidNoChange, OpenCalls
    <3>. QED
      BY <3>1, <3>2 DEF IInv, Valid, ValidCompletion, Accepted
  <2>. QED
    BY <2>1, <2>2
<1>14. NoOrphanEffect'
  <2>. SUFFICES ASSUME NEW f \in EffectIds, Pending(f)'
                PROVE
    /\ effects'[f].kind = "await_approval" =>
         /\ effects'[f].key \in Requests
         /\ approvals'[effects'[f].key] = effects'[f].call
    /\ effects'[f].kind = "await_input" =>
         input' = [req |-> effects'[f].key, call |-> effects'[f].call]
    /\ effects'[f].kind = "execute_tool" => effects'[f].call \in OpenCalls'
    /\ effects'[f].kind \in JournalKinds => phase' = "committing"
    BY DEF NoOrphanEffect, PendingEffects
  <2>1. /\ f \in PendingEffects /\ Same(f)
        /\ f \notin WaitEffects(c) /\ f # e
    BY <1>4 DEF Shrunk, PendingEffects
  <2>2. CASE effects[f].kind = "await_approval"
    <3>1. effects[f].key \in Requests
          /\ approvals[effects[f].key] = effects[f].call
      BY <2>1, <2>2 DEF IInv, NoOrphanEffect
    <3>2. f \in FirstPending("await_approval", effects[f].key)
      BY <2>1, <2>2, FirstPendingIsOnly
    <3>3. effects[f].key \notin Waiting(c)
      BY <2>1, <3>2 DEF WaitEffects
    <3>. QED
      BY <1>6, <2>1, <2>2, <3>1, <3>3 DEF Same, JournalKinds
  <2>3. CASE effects[f].kind = "await_input"
    <3>1. input = [req |-> effects[f].key, call |-> effects[f].call]
      BY <2>1, <2>3 DEF IInv, NoOrphanEffect
    <3>2. f \in FirstPending("await_input", input.req)
      BY <2>1, <2>3, <3>1, FirstPendingIsOnly
    <3>3. ~Bound(c)
      BY <2>1, <3>2 DEF WaitEffects
    <3>. QED
      BY <1>7, <2>1, <2>3, <3>1, <3>3 DEF Same, JournalKinds
  <2>4. CASE effects[f].kind = "execute_tool"
    <3>1. effects[f].call \in OpenCalls
      BY <2>1, <2>4 DEF IInv, NoOrphanEffect
    <3>3. effects[f].call # c
      BY <1>7, <2>1, <2>4
      DEF IInv, EffectKeysUnique, TypeOK, EffectTypeOK, Shaped
    <3>. QED
      BY <1>5, <2>1, <2>4, <3>1, <3>3 DEF Same, JournalKinds
  <2>5. effects[f].kind \notin JournalKinds
    BY <1>1, <2>1 DEF IInv, NoOrphanEffect
  <2>. QED
    BY <2>1, <2>2, <2>3, <2>4, <2>5 DEF Same
<1>15. History'
  <2>1. (phase = "created" => ~Accepted)'
    BY <1>2
  <2>2. (phase \notin TerminalPhases => final = "empty")'
    BY <1>3, <1>7 DEF IInv, History, WorkPhases
  <2>3. \A f \in EffectIds :
          /\ effects'[f].kind = "execute_tool" => calls'[effects'[f].call] # "new"
          /\ effects'[f].kind = "sample_provider" =>
               samples'[effects'[f].call].status # "new"
    <3>. HIDE DEF closed
    <3>. QED
      BY <1>4, <1>5, <1>7
      DEF Shrunk, Same, IInv, History, TypeOK, EffectTypeOK, Shaped
  <2>. QED
    BY <2>1, <2>2, <2>3 DEF History
<1>16. (eligible = "yes" => provisional = "text")'
  BY <1>3, <1>7 DEF IInv, CompletedOutputReady, WorkPhases
<1>. QED
  <2>. HIDE DEF closed
  <2>. QED
    BY <1>3, <1>4, <1>9, <1>10, <1>11, <1>12, <1>13, <1>14, <1>15, <1>16,
       WorkFrame, ShrunkFrame DEF IInv, Valid

\* Aborting the open calls, with every effect and wait of theirs, preserves the
\* invariant.
LEMMA AbortOpenCallsInv ==
  ASSUME IInv, TypeOK', AbortOpenCalls
  PROVE  IInv'
<1>1. /\ phase \in {"executing_tools", "awaiting_approval"}
      /\ phase' = "sampling"
  BY DEF AbortOpenCalls
<1>2. phase \in WorkPhases /\ phase' \in WorkPhases /\ decision' = decision
  BY <1>1 DEF AbortOpenCalls, controlVars, WorkPhases, Phases, TerminalPhases
<1>3. Shrunk(OpenEffects)
  BY FinishShrinks DEF AbortOpenCalls, IInv
<1>4. /\ \A d \in Calls : calls'[d] = IF d \in OpenCalls THEN "error"
                                                         ELSE calls[d]
      /\ OpenCalls' = {} /\ PendingApprovals' = {}
  BY DEF AbortOpenCalls, OpenCalls, PendingApprovals
<1>5. UNCHANGED <<input, samples, active, provisional, eligible, final,
                  mutation, workspace, completion, journal>>
  BY DEF AbortOpenCalls, sampleVars, outputVars, changeVars
<1>6. input.req = None
  BY <1>1 DEF IInv, Valid, ValidWaits
<1>7. ValidSamples' /\ ValidCalls' /\ ValidWaits' /\ ValidChanges'
  <2>1. ValidSamples'
    BY <1>1, <1>5 DEF IInv, Valid, ValidSamples
  <2>2. ValidCalls' /\ ValidWaits'
    BY <1>1, <1>4, <1>5, <1>6 DEF ValidCalls, ValidWaits
  <2>3. ValidChanges'
    BY <1>1, <1>5 DEF IInv, Valid, ValidChanges, TerminalPhases
  <2>. QED
    BY <2>1, <2>2, <2>3
<1>8. ValidCompletion'
  <2>1. ValidNoChange => ValidNoChange'
    BY <1>4, <1>5 DEF ValidNoChange, OpenCalls
  <2>. QED
    BY <1>5, <2>1 DEF IInv, Valid, ValidCompletion, Accepted
<1>9. NoOrphanEffect'
  <2>. SUFFICES ASSUME NEW f \in EffectIds, Pending(f)'
                PROVE
    /\ effects'[f].kind \notin {"await_approval", "await_input",
                                "execute_tool"}
    /\ effects'[f].kind \notin JournalKinds
    BY DEF NoOrphanEffect, PendingEffects
  <2>1. /\ f \in PendingEffects /\ Same(f)
        /\ f \notin OpenEffects
    BY <1>3 DEF Shrunk, PendingEffects
  <2>2. effects[f].kind # "await_approval"
    BY <2>1 DEF OpenEffects
  <2>3. effects[f].kind # "await_input"
    <3>. SUFFICES ASSUME effects[f].kind = "await_input" PROVE FALSE
      OBVIOUS
    <3>1. input = [req |-> effects[f].key, call |-> effects[f].call]
      BY <2>1 DEF IInv, NoOrphanEffect
    <3>2. effects[f].key \in Requests
      BY DEF IInv, TypeOK, EffectTypeOK, Shaped
    <3>. QED
      BY <1>6, <3>1, <3>2, TurnKernelAssumption
  <2>4. effects[f].kind # "execute_tool"
    <3>. SUFFICES ASSUME effects[f].kind = "execute_tool" PROVE FALSE
      OBVIOUS
    <3>1. effects[f].call \in OpenCalls /\ effects[f].key = effects[f].call
      BY <2>1 DEF IInv, NoOrphanEffect, TypeOK, EffectTypeOK, Shaped,
                  PendingEffects
    <3>2. f \in FirstPending("execute_tool", effects[f].call)
      BY <2>1, <3>1, FirstPendingIsOnly
    <3>. QED
      BY <2>1, <3>1, <3>2 DEF OpenEffects
  <2>5. effects[f].kind \notin JournalKinds
    BY <1>1, <2>1 DEF IInv, NoOrphanEffect
  <2>. QED
    BY <2>1, <2>2, <2>3, <2>4, <2>5 DEF Same
<1>10. History'
  <2>. QED
    BY <1>1, <1>3, <1>4, <1>5
    DEF Shrunk, Same, IInv, History, TypeOK, EffectTypeOK, Shaped,
        TerminalPhases
<1>11. (eligible = "yes" => provisional = "text")'
  BY <1>2, <1>5 DEF IInv, CompletedOutputReady, WorkPhases
<1>. QED
  <2>. QED
    BY <1>2, <1>3, <1>7, <1>8, <1>9, <1>10, <1>11, WorkFrame, ShrunkFrame
    DEF IInv, Valid

-----------------------------------------------------------------------------
(* Approvals, user input and cancellation                                   *)

\* approval_required preserves the invariant.
LEMMA ApprovalRequiredInv ==
  ASSUME IInv, TypeOK', NEW r \in Requests, NEW c \in Calls,
         ApprovalRequired(r, c)
  PROVE  IInv'
<1>. USE DEF workVars, sampleVars, effectVars, outputVars, changeVars,
             controlVars
<1>1. /\ phase \in {"executing_tools", "awaiting_approval"}
      /\ phase' = "awaiting_approval"
      /\ UNCHANGED <<calls, input, samples, active, provisional, eligible,
                     final, mutation, workspace, completion, journal, decision>>
      /\ approvals[r] = None /\ c \in OpenCalls
  BY DEF ApprovalRequired, OpenCalls
<1>2. phase \in WorkPhases /\ phase' \in WorkPhases
  BY <1>1 DEF WorkPhases, Phases, TerminalPhases
<1>3. Requested(NewEffect("await_approval", r, c))
  BY RequestRequests DEF ApprovalRequired, IInv
<1>4. /\ effects'[nextEffect + 1].kind = "await_approval"
      /\ effects'[nextEffect + 1].key = r
      /\ effects'[nextEffect + 1].call = c
  BY <1>3 DEF Requested, NewEffect
<1>5. approvals'[r] = c /\ \A q \in Requests \ {r} : approvals'[q] = approvals[q]
  BY DEF ApprovalRequired, IInv, TypeOK, WorkTypeOK
<1>6. ValidSamples' /\ ValidCalls'
  BY <1>1 DEF IInv, Valid, ValidSamples, ValidCalls, OpenCalls
<1>7. ValidWaits'
  <2>1. input'.req = None
    BY <1>1 DEF IInv, Valid, ValidWaits
  <2>2. \A q \in PendingApprovals' : approvals'[q] \in OpenCalls'
    BY <1>1, <1>5 DEF IInv, Valid, ValidWaits, PendingApprovals, OpenCalls
  <2>3. r \in PendingApprovals'
    BY <1>5, TurnKernelAssumption DEF PendingApprovals
  <2>. QED
    BY <1>1, <2>1, <2>2, <2>3 DEF ValidWaits
<1>8. ValidChanges'
  BY <1>1 DEF IInv, Valid, ValidChanges, TerminalPhases
<1>9. EffectKeysUnique'
  <2>1. \A e \in EffectIds :
          effects[e].kind = "await_approval" /\ effects[e].key = r => ~Pending(e)
    BY <1>1, TurnKernelAssumption
    DEF IInv, NoOrphanEffect, PendingEffects, TypeOK, EffectTypeOK, Shaped
  <2>. QED
    BY <1>3, <2>1, RequestedFrame
<1>10. NoOrphanEffect'
  <2>. SUFFICES ASSUME NEW f \in EffectIds, Pending(f)'
                PROVE
    /\ effects'[f].kind = "await_approval" =>
         /\ effects'[f].key \in Requests
         /\ approvals'[effects'[f].key] = effects'[f].call
    /\ effects'[f].kind = "await_input" =>
         input' = [req |-> effects'[f].key, call |-> effects'[f].call]
    /\ effects'[f].kind = "execute_tool" => effects'[f].call \in OpenCalls'
    /\ effects'[f].kind \in JournalKinds => phase' = "committing"
    BY DEF NoOrphanEffect, PendingEffects
  <2>1. CASE f = nextEffect + 1
    BY <1>4, <1>5, <2>1 DEF JournalKinds
  <2>2. CASE f # nextEffect + 1
    <3>1. effects'[f] = effects[f] /\ f \in PendingEffects
      BY <1>3, <2>2 DEF Requested, Pending, PendingEffects
    <3>2. effects[f].kind = "await_approval" => effects[f].key # r
      BY <1>1, <3>1, TurnKernelAssumption
      DEF IInv, NoOrphanEffect, TypeOK, EffectTypeOK, Shaped
    <3>. QED
      BY <1>1, <1>5, <3>1, <3>2 DEF IInv, NoOrphanEffect, OpenCalls
  <2>. QED
    BY <2>1, <2>2
<1>11. History'
  BY <1>1, <1>3, <1>4 DEF IInv, History, Requested, TerminalPhases
<1>12. (eligible = "yes" => provisional = "text")'
  BY <1>1, <1>2 DEF IInv, CompletedOutputReady, WorkPhases
<1>. QED
  BY <1>1, <1>2, <1>6, <1>7, <1>8, <1>9, <1>10, <1>11, <1>12, InvFrame,
     WorkFrame DEF IInv, Valid

\* An approval result preserves the invariant, a canceling one too.
LEMMA ApprovalResultInv ==
  ASSUME IInv, TypeOK', NEW e \in EffectIds, NEW r \in Requests,
         NEW canceled \in BOOLEAN, ApprovalResult(e, r, canceled)
  PROVE  IInv'
<1>. USE DEF workVars, sampleVars, effectVars, outputVars, changeVars,
             controlVars
<1>. DEFINE closed == {e} \union FirstPending("await_approval", r)
<1>1. /\ phase = "awaiting_approval" /\ approvals[r] # None
      /\ phase' = IF PendingApprovals \ {r} = {} THEN "executing_tools"
                                                 ELSE "awaiting_approval"
      /\ UNCHANGED <<calls, input, samples, active, provisional, eligible,
                     final, mutation, workspace, completion, journal, decision>>
  BY DEF ApprovalResult
<1>2. phase \in WorkPhases /\ phase' \in WorkPhases
  BY <1>1 DEF WorkPhases, Phases, TerminalPhases
<1>3. Shrunk(closed)
  BY FinishShrinks DEF ApprovalResult, IInv
<1>4. /\ approvals'[r] = None
      /\ \A q \in Requests \ {r} : approvals'[q] = approvals[q]
      /\ PendingApprovals' = PendingApprovals \ {r}
  BY DEF ApprovalResult, IInv, TypeOK, WorkTypeOK, PendingApprovals
<1>. HIDE DEF closed
<1>5. OpenCalls # {}
  BY <1>1 DEF IInv, Valid, ValidWaits, PendingApprovals
<1>6. ValidSamples' /\ ValidCalls'
  BY <1>1, <1>5 DEF IInv, Valid, ValidSamples, ValidCalls, OpenCalls
<1>7. ValidWaits'
  <2>1. input'.req = None
    BY <1>1 DEF IInv, Valid, ValidWaits
  <2>2. \A q \in PendingApprovals' : approvals'[q] \in OpenCalls'
    BY <1>1, <1>4 DEF IInv, Valid, ValidWaits, PendingApprovals, OpenCalls
  <2>. QED
    BY <1>1, <1>4, <2>1, <2>2 DEF ValidWaits
<1>8. ValidChanges'
  BY <1>1 DEF IInv, Valid, ValidChanges, TerminalPhases
<1>9. NoOrphanEffect'
  <2>. SUFFICES ASSUME NEW f \in EffectIds, Pending(f)'
                PROVE
    /\ effects'[f].kind = "await_approval" =>
         /\ effects'[f].key \in Requests
         /\ approvals'[effects'[f].key] = effects'[f].call
    /\ effects'[f].kind = "await_input" =>
         input' = [req |-> effects'[f].key, call |-> effects'[f].call]
    /\ effects'[f].kind = "execute_tool" => effects'[f].call \in OpenCalls'
    /\ effects'[f].kind \in JournalKinds => phase' = "committing"
    BY DEF NoOrphanEffect, PendingEffects
  <2>1. f \in PendingEffects /\ f \notin closed /\ Same(f)
    BY <1>3 DEF Shrunk, PendingEffects
  <2>2. effects[f].kind = "await_approval" => effects[f].key # r
    BY <2>1, FirstPendingIsOnly DEF closed
  <2>. QED
    BY <1>1, <1>4, <2>1, <2>2 DEF Same, IInv, NoOrphanEffect, OpenCalls
<1>10. History'
  BY <1>1, <1>3 DEF IInv, History, Shrunk, Same, TerminalPhases
<1>11. (eligible = "yes" => provisional = "text")'
  BY <1>1, <1>2 DEF IInv, CompletedOutputReady, WorkPhases
<1>. QED
  BY <1>1, <1>2, <1>3, <1>6, <1>7, <1>8, <1>9, <1>10, <1>11, InvFrame,
     WorkFrame, ShrunkFrame DEF IInv, Valid

\* input_required preserves the invariant.
LEMMA InputRequiredInv ==
  ASSUME IInv, TypeOK', NEW r \in Requests, NEW c \in Calls \union {None},
         InputRequired(r, c)
  PROVE  IInv'
<1>. USE DEF workVars, sampleVars, effectVars, outputVars, changeVars,
             controlVars
<1>1. /\ phase \in {"sampling", "executing_tools"} /\ active = None
      /\ phase' = "awaiting_input" /\ input' = [req |-> r, call |-> c]
      /\ UNCHANGED <<calls, approvals, samples, active, provisional, eligible,
                     final, mutation, workspace, completion, journal, decision>>
  BY DEF InputRequired
<1>2. phase \in WorkPhases /\ phase' \in WorkPhases
  BY <1>1 DEF WorkPhases, Phases, TerminalPhases
<1>3. Requested(NewEffect("await_input", r, c))
  BY RequestRequests DEF InputRequired, IInv
<1>4. /\ effects'[nextEffect + 1].kind = "await_input"
      /\ effects'[nextEffect + 1].key = r
      /\ effects'[nextEffect + 1].call = c
  BY <1>3 DEF Requested, NewEffect
<1>5. \A f \in PendingEffects : effects[f].kind # "await_input"
  <2>. SUFFICES ASSUME NEW f \in PendingEffects,
                       effects[f].kind = "await_input"
                PROVE  FALSE
    OBVIOUS
  <2>1. input = [req |-> effects[f].key, call |-> effects[f].call]
    BY DEF IInv, NoOrphanEffect
  <2>2. effects[f].key \in Requests
    BY DEF IInv, TypeOK, EffectTypeOK, Shaped, PendingEffects
  <2>3. input.req = None
    BY <1>1 DEF IInv, Valid, ValidWaits
  <2>. QED
    BY <2>1, <2>2, <2>3, TurnKernelAssumption
<1>6. ValidSamples' /\ ValidCalls'
  BY <1>1 DEF IInv, Valid, ValidSamples, ValidCalls, OpenCalls
<1>7. ValidWaits'
  BY <1>1, TurnKernelAssumption
  DEF IInv, Valid, ValidWaits, PendingApprovals, OpenCalls
<1>8. ValidChanges'
  BY <1>1 DEF IInv, Valid, ValidChanges, TerminalPhases
<1>9. EffectKeysUnique'
  BY <1>3, <1>5, RequestedFrame DEF PendingEffects
<1>10. NoOrphanEffect'
  <2>. SUFFICES ASSUME NEW f \in EffectIds, Pending(f)'
                PROVE
    /\ effects'[f].kind = "await_approval" =>
         /\ effects'[f].key \in Requests
         /\ approvals'[effects'[f].key] = effects'[f].call
    /\ effects'[f].kind = "await_input" =>
         input' = [req |-> effects'[f].key, call |-> effects'[f].call]
    /\ effects'[f].kind = "execute_tool" => effects'[f].call \in OpenCalls'
    /\ effects'[f].kind \in JournalKinds => phase' = "committing"
    BY DEF NoOrphanEffect, PendingEffects
  <2>1. CASE f = nextEffect + 1
    BY <1>1, <1>4, <2>1 DEF JournalKinds
  <2>2. CASE f # nextEffect + 1
    <3>1. effects'[f] = effects[f] /\ f \in PendingEffects
      BY <1>3, <2>2 DEF Requested, Pending, PendingEffects
    <3>. QED
      BY <1>1, <1>5, <3>1 DEF IInv, NoOrphanEffect, OpenCalls
  <2>. QED
    BY <2>1, <2>2
<1>11. History'
  BY <1>1, <1>3, <1>4 DEF IInv, History, Requested, TerminalPhases
<1>12. (eligible = "yes" => provisional = "text")'
  BY <1>1, <1>2 DEF IInv, CompletedOutputReady, WorkPhases
<1>. QED
  BY <1>1, <1>2, <1>6, <1>7, <1>8, <1>9, <1>10, <1>11, <1>12, InvFrame,
     WorkFrame DEF IInv, Valid

\* The end of an input wait, by a result or an abort, preserves the invariant.
LEMMA ResolveInputInv ==
  ASSUME IInv, TypeOK', NEW r \in Requests, NEW E, ResolveInputWait(r, E)
  PROVE  IInv'
<1>. USE DEF workVars, sampleVars, effectVars, outputVars, changeVars,
             controlVars
<1>. DEFINE closed == E \union FirstPending("await_input", r)
<1>1. /\ phase = "awaiting_input" /\ input.req = r /\ input' = NoInput
      /\ phase' = IF OpenCalls # {} THEN "executing_tools" ELSE "sampling"
      /\ UNCHANGED <<calls, approvals, samples, active, provisional, eligible,
                     final, mutation, workspace, completion, journal, decision>>
  BY DEF ResolveInputWait
<1>2. phase \in WorkPhases /\ phase' \in WorkPhases
  BY <1>1 DEF WorkPhases, Phases, TerminalPhases
<1>3. Shrunk(closed)
  BY FinishShrinks DEF ResolveInputWait, IInv
<1>. HIDE DEF closed
<1>4. ValidSamples' /\ ValidCalls'
  BY <1>1 DEF IInv, Valid, ValidSamples, ValidCalls, OpenCalls
<1>5. ValidWaits'
  BY <1>1 DEF IInv, Valid, ValidWaits, PendingApprovals, OpenCalls, NoInput
<1>6. ValidChanges'
  BY <1>1 DEF IInv, Valid, ValidChanges, TerminalPhases
<1>7. NoOrphanEffect'
  <2>. SUFFICES ASSUME NEW f \in EffectIds, Pending(f)'
                PROVE
    /\ effects'[f].kind = "await_approval" =>
         /\ effects'[f].key \in Requests
         /\ approvals'[effects'[f].key] = effects'[f].call
    /\ effects'[f].kind # "await_input"
    /\ effects'[f].kind = "execute_tool" => effects'[f].call \in OpenCalls'
    /\ effects'[f].kind \in JournalKinds => phase' = "committing"
    BY DEF NoOrphanEffect, PendingEffects
  <2>1. f \in PendingEffects /\ f \notin closed /\ Same(f)
    BY <1>3 DEF Shrunk, PendingEffects
  <2>2. effects[f].kind # "await_input"
    <3>. SUFFICES ASSUME effects[f].kind = "await_input" PROVE f \in closed
      BY <2>1
    <3>1. input = [req |-> effects[f].key, call |-> effects[f].call]
      BY <2>1 DEF IInv, NoOrphanEffect
    <3>2. effects[f].key = r
      BY <1>1, <3>1
    <3>. QED
      BY <2>1, <3>2, FirstPendingIsOnly DEF closed
  <2>. QED
    BY <1>1, <2>1, <2>2 DEF Same, IInv, NoOrphanEffect, OpenCalls
<1>8. History'
  BY <1>1, <1>3 DEF IInv, History, Shrunk, Same, TerminalPhases
<1>9. (eligible = "yes" => provisional = "text")'
  BY <1>1, <1>2 DEF IInv, CompletedOutputReady, WorkPhases
<1>. QED
  BY <1>1, <1>2, <1>3, <1>4, <1>5, <1>6, <1>7, <1>8, <1>9, InvFrame,
     WorkFrame, ShrunkFrame DEF IInv, Valid

\* A step that changes only what no invariant reads.
LEMMA CancelRequestedInv ==
  ASSUME IInv, TypeOK', NEW reason, CancelRequested(reason)
  PROVE  IInv'
<1>. USE DEF workVars, sampleVars, effectVars, outputVars, changeVars,
             controlVars
<1>1. ValidTerminal' /\ CommittingSettles' /\ CompletedOutputReady'
  BY DEF CancelRequested, IInv, Valid, ValidTerminal, CommittingSettles,
         CompletedOutputReady, JournalSettled, JournalOutcome, JournalEffect,
         PendingEffects, Pending, OpenCalls, CompletionPolicy,
         WorkspaceCompletionMissing, Accepted, ValidNoChange
<1>. QED
  BY <1>1, InvFrame DEF CancelRequested, IInv, Valid

-----------------------------------------------------------------------------
(* Completion, output and convergence                                       *)

\* Completion, output and convergence commands preserve the invariant.
LEMMA OutputStepInv ==
  ASSUME IInv, TypeOK', OutputStep
  PROVE  IInv'
<1>. USE DEF workVars, sampleVars, effectVars, outputVars, changeVars,
             controlVars
<1>1. ASSUME NEW claim \in Claims, NEW preserve \in BOOLEAN,
             CompletionAccepted(claim, preserve)
      PROVE  IInv'
  <2>1. phase \in WorkPhases /\ UNCHANGED <<phase, decision>>
    BY <1>1 DEF CompletionAccepted, WorkPhases, Phases, TerminalPhases
  <2>2. ValidCompletion'
    BY <1>1 DEF CompletionAccepted, ValidCompletion, Accepted, ValidNoChange
  <2>3. History'
    BY <1>1 DEF CompletionAccepted, IInv, History
  <2>. QED
    BY <1>1, <2>1, <2>2, <2>3, InvFrame, WorkFrame
    DEF CompletionAccepted, IInv, Valid
<1>2. ASSUME NEW blocked \in BOOLEAN, CompletionRefused(blocked)
      PROVE  IInv'
  <2>1. phase \in WorkPhases /\ UNCHANGED <<phase, decision>>
    BY <1>2 DEF CompletionRefused, WorkPhases, Phases, TerminalPhases
  <2>2. ValidCompletion'
    BY <1>2 DEF CompletionRefused, ValidCompletion, Accepted
  <2>3. History'
    BY <1>2 DEF CompletionRefused, IInv, History
  <2>. QED
    BY <1>2, <2>1, <2>2, <2>3, InvFrame, WorkFrame
    DEF CompletionRefused, IInv, Valid, CompletedOutputReady, WorkPhases
<1>3. CASE CompletionInvalidated
  <2>1. phase \in WorkPhases /\ UNCHANGED <<phase, decision>>
    BY <1>3 DEF CompletionInvalidated, WorkPhases, Phases, TerminalPhases
  <2>2. ValidCompletion'
    BY <1>3 DEF CompletionInvalidated, ValidCompletion, Accepted, NoCompletion
  <2>3. History'
    BY <1>3 DEF CompletionInvalidated, IInv, History
  <2>. QED
    BY <1>3, <2>1, <2>2, <2>3, InvFrame, WorkFrame
    DEF CompletionInvalidated, IInv, Valid, CompletedOutputReady, WorkPhases
<1>4. ASSUME NEW observed \in {"clean", "dirty"}, WorkspaceReconciled(observed)
      PROVE  IInv'
  <2>1. phase \in WorkPhases /\ UNCHANGED <<phase, decision>>
    BY <1>4 DEF WorkspaceReconciled, WorkPhases, Phases, TerminalPhases
  <2>2. ValidCompletion'
    \* A declared no-change was accepted on a clean workspace, and a
    \* reconciliation at the same revision cannot contradict it.
    BY <1>4 DEF WorkspaceReconciled, IInv, Valid, ValidCompletion, Accepted,
                ValidNoChange
  <2>. QED
    BY <1>4, <2>1, <2>2, InvFrame, WorkFrame
    DEF WorkspaceReconciled, IInv, Valid, CompletedOutputReady, WorkPhases
<1>5. CASE ModelTextReceived \/ ReleaseProvisionalOutput
             \/ DiscardProvisionalOutput
  <2>1. phase \in WorkPhases /\ UNCHANGED <<phase, decision>>
    BY <1>5 DEF ModelTextReceived, ReleaseProvisionalOutput,
                DiscardProvisionalOutput, WorkPhases, Phases, TerminalPhases
  <2>2. (eligible = "yes" => provisional = "text")'
    BY <1>5 DEF ModelTextReceived, ReleaseProvisionalOutput,
                DiscardProvisionalOutput
  <2>. QED
    BY <1>5, <2>1, <2>2, InvFrame, WorkFrame
    DEF ModelTextReceived, ReleaseProvisionalOutput,
        DiscardProvisionalOutput, IInv, Valid
<1>6. CASE BeginConvergence \/ ConvergenceFinalizationStarted
             \/ RepairDeclaration
  <2>1. phase \in WorkPhases /\ UNCHANGED <<phase, decision>>
    BY <1>6 DEF BeginConvergence, ConvergenceFinalizationStarted,
                RepairDeclaration, WorkPhases, Phases, TerminalPhases
  <2>. QED
    BY <1>6, <2>1, InvFrame, WorkFrame
    DEF BeginConvergence, ConvergenceFinalizationStarted, RepairDeclaration,
        IInv, Valid, CompletedOutputReady, WorkPhases
<1>. QED
  BY <1>1, <1>2, <1>3, <1>4, <1>5, <1>6 DEF OutputStep

-----------------------------------------------------------------------------
(* The terminal transaction                                                 *)

\* terminal_requested preserves the invariant.
LEMMA TerminalRequestedInv ==
  ASSUME IInv, TypeOK', NEW d \in Decisions, TerminalRequested(d)
  PROVE  IInv'
<1>. USE DEF workVars, sampleVars, effectVars, outputVars, changeVars,
             controlVars
<1>1. /\ phase \notin TerminalPhases \union {"committing"}
      /\ phase' = "committing" /\ decision' = d
      /\ OpenCalls = {} /\ PendingApprovals = {} /\ input.req = None
      /\ active = None /\ PendingEffects = {}
      /\ UNCHANGED <<calls, approvals, input, samples, active, provisional,
                     eligible, final, mutation, workspace, completion, journal,
                     recovery>>
      /\ d = "completed" => CompletionReadiness
  BY DEF TerminalRequested
<1>2. ValidSamples' /\ ValidCalls' /\ ValidWaits' /\ ValidChanges'
  <2>1. ValidSamples'
    BY <1>1 DEF IInv, Valid, ValidSamples
  <2>2. ValidCalls' /\ ValidWaits'
    BY <1>1 DEF ValidCalls, ValidWaits, OpenCalls, PendingApprovals
  <2>3. ValidChanges'
    BY <1>1 DEF IInv, Valid, ValidChanges
  <2>. QED
    BY <2>1, <2>2, <2>3
<1>3. ValidTerminal'
  BY <1>1, NoneAssumption DEF ValidTerminal, TerminalPhases
<1>4. CompletedOutputReady'
  <2>1. CompletionPolicy' <=> CompletionPolicy
    BY <1>1 DEF CompletionPolicy, WorkspaceCompletionMissing, Accepted,
                ValidNoChange
  <2>. QED
    BY <1>1, <2>1
    DEF IInv, CompletedOutputReady, CompletionReadiness, CompletionContract
<1>5. \* No change without an open journal, and no open journal without one.
      /\ mutation # 0 => journal = "open"
      /\ mutation = 0 => journal = "none"
  BY <1>1 DEF IInv, Valid, ValidChanges, TypeOK, ChangeTypeOK
<1>6. CASE journal = "open" \/ JournalRequired
  <2>1. Requested(NewEffect(JournalEffect(d), None, None))
    BY <1>6, RequestRequests DEF TerminalRequested, IInv
  <2>2. /\ effects'[nextEffect + 1].kind = JournalEffect(d)
        /\ effects'[nextEffect + 1].status = "requested"
        /\ nextEffect + 1 \in EffectIds
    BY <2>1 DEF Requested, NewEffect
  <2>3. PendingEffects' = {nextEffect + 1}
    BY <1>1, <2>1, <2>2 DEF Requested, PendingEffects, Pending
  <2>4. JournalEffect(decision)' = JournalEffect(d)
    BY <1>1 DEF JournalEffect, JournalOutcome
  <2>5. CommittingSettles'
    BY <1>1, <1>5, <1>6, <2>2, <2>3, <2>4 DEF CommittingSettles
  <2>6. EffectKeysUnique'
    <3>1. JournalEffect(d) \notin {"execute_tool", "sample_provider"}
      BY DecisionTypes DEF JournalKinds
    <3>. QED
      BY <1>1, <2>1, <3>1, RequestedFrame DEF PendingEffects
  <2>7. NoOrphanEffect'
    BY <1>1, <2>2, <2>3, DecisionTypes DEF NoOrphanEffect, JournalKinds
  <2>8. History'
    <3>1. JournalEffect(d) \notin {"execute_tool", "sample_provider"}
      BY DecisionTypes DEF JournalKinds
    <3>. QED
      BY <1>1, <2>1, <2>2, <3>1 DEF IInv, History, Requested
  <2>. QED
    BY <1>1, <1>2, <1>3, <1>4, <2>5, <2>6, <2>7, <2>8, InvFrame DEF IInv, Valid
<1>7. CASE ~(journal = "open" \/ JournalRequired)
  <2>1. UNCHANGED effects
    BY <1>7 DEF TerminalRequested
  <2>2. PendingEffects' = {}
    BY <1>1, <2>1 DEF PendingEffects, Pending
  <2>3. CommittingSettles'
    BY <1>1, <1>5, <1>7, <2>2 DEF CommittingSettles, JournalSettled
  <2>4. NoOrphanEffect'
    BY <2>2 DEF NoOrphanEffect
  <2>5. History'
    BY <1>1, <2>1 DEF IInv, History
  <2>. QED
    BY <1>1, <1>2, <1>3, <1>4, <2>1, <2>3, <2>4, <2>5, InvFrame DEF IInv, Valid
<1>. QED
  BY <1>6, <1>7

\* A journal result, successful or not, preserves the invariant.
LEMMA JournalResultInv ==
  ASSUME IInv, TypeOK', NEW e \in EffectIds, NEW success \in BOOLEAN,
         JournalResult(e, success)
  PROVE  IInv'
<1>. USE DEF workVars, sampleVars, effectVars, outputVars, changeVars,
             controlVars
<1>1. /\ phase = "committing" /\ effects[e].status = "running"
      /\ effects[e].kind = JournalEffect(decision)
      /\ IF mutation = 0 THEN JournalRequired /\ journal = "none"
                         ELSE journal = "open"
      /\ UNCHANGED <<phase, calls, approvals, input, samples, active,
                     provisional, eligible, final, mutation, workspace,
                     completion, recovery, decision>>
  BY DEF JournalResult
<1>2. decision \in Decisions /\ decision' \in Decisions
  BY <1>1 DEF IInv, Valid, ValidTerminal, TypeOK, ControlTypeOK
<1>3. /\ JournalOutcome(decision)' = JournalOutcome(decision)
      /\ JournalEffect(decision)' = JournalEffect(decision)
  BY <1>1 DEF JournalOutcome, JournalEffect
<1>4. PendingEffects = {e}
  BY <1>1 DEF IInv, CommittingSettles, PendingEffects, Pending
<1>5. ValidTerminal' /\ CompletedOutputReady'
  BY <1>1 DEF IInv, Valid, ValidTerminal, CompletedOutputReady, TerminalPhases,
              CompletionPolicy, WorkspaceCompletionMissing, Accepted,
              ValidNoChange
<1>6. CASE success
  <2>1. Shrunk({e}) /\ journal' = JournalOutcome(decision)
    BY <1>6, FinishShrinks DEF JournalResult, IInv
  <2>2. PendingEffects' = {}
    BY <1>4, <2>1 DEF Shrunk, PendingEffects
  <2>3. CommittingSettles'
    BY <1>1, <1>3, <2>1, <2>2 DEF CommittingSettles, JournalSettled
  <2>4. ValidChanges'
    BY <1>1, <1>2, <2>1, DecisionTypes DEF ValidChanges
  <2>5. History'
    BY <1>1, <2>1 DEF IInv, History, Shrunk, Same, Accepted
  <2>. QED
    BY <1>1, <1>5, <2>1, <2>3, <2>4, <2>5, InvFrame, ShrunkFrame
    DEF IInv, Valid
<1>7. CASE ~success
  <2>1. Shrunk({}) /\ journal' = journal
    BY <1>1, <1>7, SetStatusShrinks DEF JournalResult, IInv, Pending
  <2>2. PendingEffects' = {e} /\ effects'[e].kind = effects[e].kind
    BY <1>4, <2>1 DEF Shrunk, Same, PendingEffects
  <2>3. CommittingSettles'
    BY <1>1, <1>3, <2>1, <2>2 DEF CommittingSettles
  <2>4. History'
    BY <1>1, <2>1 DEF IInv, History, Shrunk, Same, Accepted
  <2>. QED
    BY <1>1, <1>5, <2>1, <2>3, <2>4, InvFrame, ShrunkFrame DEF IInv, Valid
<1>. QED
  BY <1>6, <1>7

\* The end of the turn preserves the invariant.
LEMMA FinishTerminalInv ==
  ASSUME IInv, TypeOK', FinishTerminal
  PROVE  IInv'
<1>. USE DEF workVars, sampleVars, effectVars, outputVars, changeVars,
             controlVars
<1>1. /\ phase = "committing" /\ JournalSettled
      /\ decision # "completed" => provisional = "empty"
      /\ phase' = KindOf(decision)
      /\ final' = provisional /\ provisional' = "empty"
      /\ UNCHANGED <<calls, approvals, input, samples, active, effects,
                     eligible, mutation, workspace, completion, journal,
                     recovery, decision>>
  BY DEF FinishTerminal
<1>2. decision \in Decisions
  BY <1>1 DEF IInv, Valid, ValidTerminal, TypeOK, ControlTypeOK
<1>3. phase' \in TerminalPhases
  BY <1>1, <1>2, DecisionTypes
<1>4. PendingEffects = {} /\ PendingEffects' = {}
  <2>1. JournalOutcome(decision) \notin {"none", "open"}
    BY <1>2, DecisionTypes
  <2>2. PendingEffects = {}
    BY <1>1, <2>1 DEF IInv, CommittingSettles, JournalSettled
  <2>. QED
    BY <1>1, <2>2 DEF PendingEffects, Pending
<1>5. ValidSamples' /\ ValidCalls' /\ ValidWaits' /\ ValidChanges'
  <2>1. active = None /\ OpenCalls = {} /\ PendingApprovals = {}
        /\ input.req = None
    BY <1>1 DEF IInv, Valid, ValidSamples, ValidCalls, ValidWaits
  <2>2. ValidSamples'
    BY <1>1, <2>1 DEF IInv, Valid, ValidSamples
  <2>3. ValidCalls' /\ ValidWaits'
    BY <1>1, <1>3, <2>1
    DEF ValidCalls, ValidWaits, OpenCalls, PendingApprovals, TerminalPhases
  <2>4. ValidChanges'
    BY <1>1, <1>3 DEF IInv, Valid, ValidChanges
  <2>. QED
    BY <2>2, <2>3, <2>4
<1>6. CompletionPolicy' <=> CompletionPolicy
  BY <1>1 DEF CompletionPolicy, WorkspaceCompletionMissing, Accepted,
              ValidNoChange
<1>7. phase' = "completed" <=> decision = "completed"
  BY <1>1, <1>2 DEF KindOf, Decisions
<1>8. ValidTerminal'
  <2>1. JournalSettled' /\ KindOf(decision)' = phase'
    BY <1>1 DEF JournalSettled, JournalOutcome, KindOf
  <2>2. OpenCalls' = {}
    BY <1>1 DEF IInv, Valid, ValidCalls, OpenCalls
  <2>3. decision = "completed" =>
          eligible = "yes" /\ provisional = "text" /\ CompletionPolicy
    BY <1>1 DEF IInv, CompletedOutputReady, TerminalPhases
  <2>. QED
    BY <1>1, <1>2, <1>3, <1>4, <1>6, <1>7, <2>1, <2>2, <2>3, NoneAssumption
    DEF ValidTerminal
<1>9. CommittingSettles' /\ CompletedOutputReady'
  BY <1>3 DEF CommittingSettles, CompletedOutputReady, TerminalPhases
<1>10. NoOrphanEffect'
  BY <1>4 DEF NoOrphanEffect
<1>11. History'
  BY <1>1, <1>3 DEF IInv, History, TerminalPhases
<1>. QED
  BY <1>1, <1>5, <1>8, <1>9, <1>10, <1>11, InvFrame DEF IInv, Valid

-----------------------------------------------------------------------------
(* The invariant                                                            *)

\* The start of the turn preserves the invariant.
LEMMA StartInv ==
  ASSUME IInv, TypeOK', StartTurn \/ PreparationFinished
  PROVE  IInv'
<1>. USE DEF workVars, sampleVars, effectVars, outputVars, changeVars,
             controlVars
<1>1. /\ phase \in {"created", "preparing"}
      /\ phase' \in {"preparing", "sampling"}
      /\ UNCHANGED <<calls, approvals, input, samples, active, effects,
                     provisional, eligible, final, mutation, workspace,
                     completion, journal, decision>>
  BY DEF StartTurn, PreparationFinished
<1>2. phase \in WorkPhases /\ phase' \in WorkPhases
  BY <1>1 DEF WorkPhases, Phases, TerminalPhases
<1>3. ValidSamples' /\ ValidCalls' /\ ValidChanges'
  BY <1>1 DEF IInv, Valid, ValidSamples, ValidCalls, OpenCalls, ValidChanges,
              TerminalPhases
<1>4. ValidWaits'
  BY <1>1 DEF IInv, Valid, ValidWaits, PendingApprovals, OpenCalls
<1>5. NoOrphanEffect'
  BY <1>1 DEF IInv, NoOrphanEffect, PendingEffects, Pending, OpenCalls
<1>6. History'
  BY <1>1 DEF IInv, History, TerminalPhases
<1>. QED
  BY <1>1, <1>2, <1>3, <1>4, <1>5, <1>6, InvFrame, WorkFrame
  DEF IInv, Valid, CompletedOutputReady, WorkPhases

\* A bound recovery preserves the invariant.
LEMMA RecoveryInv ==
  ASSUME IInv, TypeOK', NEW draft \in Recoveries, RecoveryRequested(draft)
  PROVE  IInv'
<1>. USE DEF workVars, sampleVars, effectVars, outputVars, changeVars,
             controlVars
<1>1. phase \in WorkPhases /\ UNCHANGED <<phase, decision>>
  BY DEF RecoveryRequested, WorkPhases, Phases, TerminalPhases
<1>2. ValidChanges'
  BY TurnKernelAssumption DEF RecoveryRequested, IInv, Valid, ValidChanges
<1>3. ValidCompletion'
  BY DEF RecoveryRequested, IInv, History, ValidCompletion, Accepted
<1>. QED
  BY <1>1, <1>2, <1>3, InvFrame, WorkFrame
  DEF RecoveryRequested, IInv, Valid, CompletedOutputReady, WorkPhases

\* A new turn satisfies the invariant.
LEMMA IInvInit == Init => IInv
<1>. SUFFICES ASSUME Init PROVE IInv
  OBVIOUS
<1>1. \A e \in EffectIds : effects[e].kind = "none" /\ ~Pending(e)
  BY DEF Init, Pending
<1>2. OpenCalls = {} /\ PendingApprovals = {} /\ PendingEffects = {}
  BY <1>1 DEF Init, OpenCalls, PendingApprovals, PendingEffects
<1>3. ValidSamples /\ ValidCalls /\ ValidWaits
  BY <1>2 DEF Init, ValidSamples, ValidCalls, ValidWaits, NoInput
<1>4. ValidChanges /\ ValidCompletion /\ ValidTerminal
  BY DEF Init, ValidChanges, ValidCompletion, Accepted, NoCompletion,
         ValidTerminal, TerminalPhases
<1>5. CommittingSettles /\ CompletedOutputReady
  BY DEF Init, CommittingSettles, CompletedOutputReady
<1>6. NoOrphanEffect /\ EffectKeysUnique /\ History
  BY <1>1, <1>2
  DEF Init, NoOrphanEffect, EffectKeysUnique, History, Accepted, NoCompletion
<1>. QED
  BY <1>3, <1>4, <1>5, <1>6, TypeInit DEF IInv, Valid

\* Every command of the reducer preserves the invariant.
LEMMA IInvStep == IInv /\ [Next]_vars => IInv'
<1>. SUFFICES ASSUME IInv, [Next]_vars PROVE IInv'
  OBVIOUS
<1>0. TypeOK'
  BY TypeStep DEF IInv
<1>1. CASE StartTurn \/ PreparationFinished
  BY <1>0, <1>1, StartInv
<1>2. CASE \E draft \in Recoveries : RecoveryRequested(draft)
  BY <1>0, <1>2, RecoveryInv
<1>3. CASE SampleStep
  BY <1>0, <1>3, SampleRequestedInv, SampleProgressInv, SampleFailedInv,
     SampleAnsweredInv, SampleCalledInv, ProviderRetryInv DEF SampleStep
<1>4. CASE EffectStep
  BY <1>0, <1>4, EffectStartedInv, EffectRequeuedInv, EffectResultInv
  DEF EffectStep
<1>5. CASE ToolStep
  BY <1>0, <1>5, ToolCallsProposedInv, AdmissionRejectedInv, ToolResultInv,
     AbortOpenCallsInv DEF ToolStep
<1>6. CASE InteractionStep
  BY <1>0, <1>6, ApprovalRequiredInv, ApprovalResultInv, InputRequiredInv,
     ResolveInputInv, CancelRequestedInv
  DEF InteractionStep, InputResolved, InputResult
<1>7. CASE OutputStep
  BY <1>0, <1>7, OutputStepInv
<1>8. CASE TerminalStep
  BY <1>0, <1>8, TerminalRequestedInv, JournalResultInv, FinishTerminalInv
  DEF TerminalStep
<1>9. CASE UNCHANGED vars
  <2>. USE DEF vars, workVars, sampleVars, effectVars, outputVars, changeVars,
               controlVars
  <2>1. ValidTerminal' /\ CommittingSettles' /\ CompletedOutputReady'
    BY <1>9
    DEF IInv, Valid, ValidTerminal, CommittingSettles, CompletedOutputReady,
        JournalSettled, JournalOutcome, JournalEffect, PendingEffects, Pending,
        OpenCalls, CompletionPolicy, WorkspaceCompletionMissing, Accepted,
        ValidNoChange
  <2>. QED
    BY <1>0, <1>9, <2>1, InvFrame DEF IInv, Valid
<1>. QED
  BY <1>1, <1>2, <1>3, <1>4, <1>5, <1>6, <1>7, <1>8, <1>9 DEF Next

\* The whole invariant holds in every state of every turn.
THEOREM Invariance == Spec => []IInv
  BY IInvInit, IInvStep, PTL DEF Spec

\* Beyond the five cases that are guards marked Validate in TurnKernel, the
\* validation that follows a handler refuses nothing the handler accepts: in no
\* order of commands do the handlers build an inconsistent state.
THEOREM AlwaysValid == Spec => []Valid
<1>1. IInv => Valid
  BY DEF IInv
<1>. QED
  BY <1>1, Invariance, PTL

\* A turn that decided its end owes exactly the journal effect of that
\* decision, or nothing, and its journal then matches the decision.
THEOREM CommittingOwes == Spec => []CommittingSettles
<1>1. IInv => CommittingSettles
  BY DEF IInv
<1>. QED
  BY <1>1, Invariance, PTL

\* A completed turn still has the output it released and the completion it
\* was granted for.
THEOREM OutputReady == Spec => []CompletedOutputReady
<1>1. IInv => CompletedOutputReady
  BY DEF IInv
<1>. QED
  BY <1>1, Invariance, PTL

\* No effect outlives what the turn waits for, and no tool call or sample is
\* ever turned into two effects.
THEOREM EffectLedger == Spec => [](NoOrphanEffect /\ EffectKeysUnique)
<1>1. IInv => NoOrphanEffect /\ EffectKeysUnique
  BY DEF IInv
<1>. QED
  BY <1>1, Invariance, PTL

-----------------------------------------------------------------------------
(* The reducer implements the turn lifecycle                                *)

\* A step of a working turn changes at most whether it holds changes.
LEMMA WorkRefines ==
  ASSUME IInv, phase \in WorkPhases, phase' \in WorkPhases,
         UNCHANGED <<decision, final>>,
         journal' = journal \/ journal' = "open"
  PROVE  [Lifecycle!Next]_(Lifecycle!vars)
<1>1. journal \in {"none", "open"}
  BY DEF IInv, Valid, ValidChanges, TypeOK, ChangeTypeOK, WorkPhases
<1>2. CASE journal' = journal
  BY <1>2 DEF Lifecycle!vars, WorkPhases
<1>3. CASE journal = "none" /\ journal' = "open"
  BY <1>3 DEF Lifecycle!Next, Lifecycle!Change, WorkPhases
<1>. QED
  BY <1>1, <1>2, <1>3

\* A step that changes neither phase, decision, journal nor published output is
\* invisible to the lifecycle.
LEMMA StutterRefines ==
  ASSUME UNCHANGED <<phase, decision, final, journal>>
  PROVE  UNCHANGED Lifecycle!vars
  BY DEF Lifecycle!vars, KindOf

\* The terminal commands are the steps Decide, Settle and End of the lifecycle.
LEMMA TerminalRefines ==
  ASSUME IInv, TerminalStep
  PROVE  [Lifecycle!Next]_(Lifecycle!vars)
<1>. USE DEF workVars, sampleVars, effectVars, outputVars, changeVars,
             controlVars
<1>1. ASSUME NEW d \in Decisions, TerminalRequested(d)
      PROVE  Lifecycle!Next
  <2>1. /\ phase \notin TerminalPhases \union {"committing"}
        /\ phase' = "committing" /\ decision' = d
        /\ UNCHANGED <<journal, final>>
    BY <1>1 DEF TerminalRequested
  <2>2. KindOf(d) \in TerminalPhases /\ KindOf(decision)' = KindOf(d)
        /\ decision' # None
    BY <2>1, DecisionTypes, NoneAssumption DEF KindOf
  <2>3. Lifecycle!Decide(KindOf(d))
    BY <2>1, <2>2 DEF Lifecycle!Decide, TerminalPhases
  <2>. QED
    BY <2>2, <2>3 DEF Lifecycle!Next, Lifecycle!Endings, TerminalPhases
<1>2. ASSUME NEW e \in EffectIds, NEW success \in BOOLEAN,
             JournalResult(e, success)
      PROVE  [Lifecycle!Next]_(Lifecycle!vars)
  <2>1. /\ phase = "committing" /\ UNCHANGED <<phase, decision, final>>
        /\ journal \in {"none", "open"}
        /\ journal' = IF success THEN JournalOutcome(decision) ELSE journal
    BY <1>2 DEF JournalResult
  <2>2. decision \in Decisions /\ decision # None
    BY <2>1, NoneAssumption DEF IInv, Valid, ValidTerminal, TypeOK, ControlTypeOK
  <2>3. CASE success
    <3>. DEFINE fate == CASE journal' = "committed" -> "kept"
                          [] journal' = "suspended" -> "draft"
                          [] OTHER -> "restored"
    <3>1. /\ journal' \in {"committed", "suspended", "rolled_back"}
          /\ journal' = "committed" <=> KindOf(decision) = "completed"
      BY <2>1, <2>2, <2>3 DEF JournalOutcome, KindOf, Decisions
    <3>2. Lifecycle!Settle(fate)
      BY <2>1, <2>2, <3>1
      DEF Lifecycle!Settle, Lifecycle!Fates, KindOf, TerminalPhases
    <3>3. fate \in {"kept", "draft", "restored"}
      BY <3>1
    <3>. HIDE DEF fate
    <3>. QED
      BY <3>2, <3>3 DEF Lifecycle!Next
  <2>4. CASE ~success
    BY <2>1, <2>4, StutterRefines
  <2>. QED
    BY <2>3, <2>4
<1>3. ASSUME FinishTerminal
      PROVE  Lifecycle!Next
  <2>1. /\ phase = "committing" /\ phase' = KindOf(decision) /\ JournalSettled
        /\ UNCHANGED <<decision, journal>> /\ final' = provisional
        /\ decision # "completed" => provisional = "empty"
    BY <1>3 DEF FinishTerminal
  <2>2. decision \in Decisions /\ decision # None
    BY <2>1, NoneAssumption DEF IInv, Valid, ValidTerminal, TypeOK, ControlTypeOK
  <2>3. journal # "open"
    BY <2>1, <2>2, DecisionTypes DEF JournalSettled
  <2>4. /\ KindOf(decision) = "completed" <=> decision = "completed"
        /\ KindOf(decision)' = KindOf(decision)
        /\ phase' \in TerminalPhases
    BY <2>1, <2>2, DecisionTypes DEF KindOf, Decisions
  <2>5. decision = "completed" => provisional = "text"
    BY <2>1 DEF IInv, CompletedOutputReady, TerminalPhases
  <2>. QED
    BY <2>1, <2>2, <2>3, <2>4, <2>5
    DEF Lifecycle!Next, Lifecycle!End, TerminalPhases, IInv, TypeOK,
        ChangeTypeOK
<1>. QED
  BY <1>1, <1>2, <1>3 DEF TerminalStep

\* Every command is a step of the lifecycle or invisible to it.
LEMMA StepRefines ==
  ASSUME IInv, [Next]_vars
  PROVE  [Lifecycle!Next]_(Lifecycle!vars)
<1>. USE DEF workVars, sampleVars, effectVars, outputVars, changeVars,
             controlVars
<1>1. CASE StartTurn \/ PreparationFinished
             \/ \E draft \in Recoveries : RecoveryRequested(draft)
  <2>1. /\ phase \in WorkPhases /\ phase' \in WorkPhases
        /\ UNCHANGED <<decision, final>>
        /\ journal' = journal \/ journal' = "open"
    BY <1>1 DEF StartTurn, PreparationFinished, RecoveryRequested, WorkPhases,
                Phases, TerminalPhases
  <2>. QED
    BY <2>1, WorkRefines
<1>2. CASE SampleStep
  <2>1. ASSUME NEW e, NEW s, NEW n, NEW batch, NEW captured,
               ModelSampleCalled(e, s, n, batch, captured)
        PROVE  /\ phase = "sampling" /\ phase' = "executing_tools"
               /\ UNCHANGED <<decision, final, journal>>
    BY <2>1 DEF ModelSampleCalled, ToolCalls
  <2>2. ASSUME NEW e, NEW s, NEW text,
               \/ ModelSampleRequested(s) \/ ModelSampleProgress(e, s)
               \/ ModelSampleFailed(e, s) \/ ModelSampleAnswered(e, s, text)
               \/ ProviderRetryRequested(e, s)
        PROVE  /\ phase = "sampling" /\ phase' = "sampling"
               /\ UNCHANGED <<decision, final, journal>>
    BY <2>2 DEF ModelSampleRequested, ModelSampleProgress, ModelSampleFailed,
                ModelSampleAnswered, ProviderRetryRequested
  <2>3. phase = "sampling" /\ phase' \in {"sampling", "executing_tools"}
        /\ UNCHANGED <<decision, final, journal>>
    BY <1>2, <2>1, <2>2 DEF SampleStep
  <2>. QED
    BY <2>3, WorkRefines DEF WorkPhases, Phases, TerminalPhases
<1>3. CASE EffectStep
  BY <1>3, StutterRefines
  DEF EffectStep, EffectStarted, EffectRequeued, EffectResult
<1>4. CASE ToolStep
  <2>1. /\ phase \in WorkPhases /\ phase' \in WorkPhases
        /\ UNCHANGED <<decision, final>>
        /\ journal' = journal \/ journal' = "open"
    <3>1. ASSUME NEW n, NEW batch, ToolCallsProposed(n, batch)
          PROVE  /\ phase \in {"sampling", "executing_tools"}
                 /\ phase' = "executing_tools"
                 /\ UNCHANGED <<decision, final, journal>>
      BY <3>1 DEF ToolCallsProposed, ToolCalls, controlVars
    <3>2. ASSUME NEW e, NEW c, NEW failed, NEW changes,
                 ToolResult(e, c, failed, changes)
          PROVE  /\ phase \in {"executing_tools", "awaiting_approval",
                               "awaiting_input"}
                 /\ phase' \in {"awaiting_approval", "executing_tools", "sampling"}
                 /\ UNCHANGED <<decision, final>>
                 /\ journal' = journal \/ journal' = "open"
      BY <3>2 DEF ToolResult, outputVars, changeVars
    <3>3. ASSUME NEW batch, ToolBatchAdmissionRejected(batch) \/ AbortOpenCalls
          PROVE  /\ phase \in {"executing_tools", "awaiting_approval"}
                 /\ phase' \in {"executing_tools", "sampling"}
                 /\ UNCHANGED <<decision, final, journal>>
      BY <3>3 DEF ToolBatchAdmissionRejected, AbortOpenCalls, controlVars,
                  outputVars, changeVars
    <3>4. \/ \E n, batch : ToolCallsProposed(n, batch)
          \/ \E batch : ToolBatchAdmissionRejected(batch) \/ AbortOpenCalls
          \/ \E e, c, failed, changes : ToolResult(e, c, failed, changes)
      BY <1>4, Zenon DEF ToolStep
    <3>. QED
      BY <3>1, <3>2, <3>3, <3>4 DEF WorkPhases, Phases, TerminalPhases
  <2>. QED
    BY <2>1, WorkRefines
<1>5. CASE InteractionStep
  <2>1. ASSUME NEW reason \in CancelReasons, CancelRequested(reason)
        PROVE  UNCHANGED Lifecycle!vars
    BY <2>1, StutterRefines DEF CancelRequested
  <2>2. ASSUME ~\E reason \in CancelReasons : CancelRequested(reason)
        PROVE  /\ phase \in WorkPhases /\ phase' \in WorkPhases
               /\ UNCHANGED <<decision, final, journal>>
    BY <1>5, <2>2
    DEF InteractionStep, ApprovalRequired, ApprovalResult, InputRequired,
        InputResolved, InputResult, ResolveInputWait, WorkPhases, Phases,
        TerminalPhases
  <2>. QED
    BY <2>1, <2>2, WorkRefines
<1>6. CASE OutputStep
  <2>1. /\ phase \in WorkPhases /\ phase' \in WorkPhases
        /\ UNCHANGED <<decision, final, journal>>
    BY <1>6 DEF OutputStep, CompletionAccepted, CompletionRefused,
                CompletionInvalidated, WorkspaceReconciled, ModelTextReceived,
                ReleaseProvisionalOutput, DiscardProvisionalOutput,
                BeginConvergence, ConvergenceFinalizationStarted,
                RepairDeclaration, WorkPhases, Phases, TerminalPhases
  <2>. QED
    BY <2>1, WorkRefines
<1>7. CASE UNCHANGED vars
  BY <1>7, StutterRefines DEF vars
<1>. QED
  BY <1>1, <1>2, <1>3, <1>4, <1>5, <1>6, <1>7, TerminalRefines DEF Next

\* A new turn is a running one without changes.
LEMMA InitRefines == Init => Lifecycle!Init
  BY DEF Init, Lifecycle!Init, TerminalPhases

\* Whatever commands reach the reducer, the turn decides once, settles its
\* workspace changes the way that decision calls for before it ends, and
\* publishes an answer exactly when it ends as completed.
THEOREM Refinement == Spec => ImplementsLifecycle
<1>1. IInv /\ [Next]_vars => [Lifecycle!Next]_(Lifecycle!vars)
  BY StepRefines
<1>. QED
  BY <1>1, InitRefines, Invariance, PTL
  DEF Spec, ImplementsLifecycle, Lifecycle!Spec

=============================================================================
