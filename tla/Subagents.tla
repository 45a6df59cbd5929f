------------------------------ MODULE Subagents ------------------------------
(***************************************************************************)
(* The child agents of a session: the Manager that owns their lifecycle,   *)
(* the Runner that starts their turns on the runtime and settles them, the *)
(* durable agent graph every transition is recorded in, and the observer   *)
(* queue that carries the runtime's events to the Runner.                  *)
(*                                                                         *)
(* The Manager's mutex is held for a whole transition, the publication of  *)
(* its graph event included; the call that submits a turn, the wait for a  *)
(* settlement and the removal of a worktree happen outside it.  Each of    *)
(* those stretches is an action.                                           *)
(*                                                                         *)
(* Token and cost budgets, the mailbox, path claims and residency are left *)
(* out: none of them decides a transition of this module's states.         *)
(***************************************************************************)
EXTENDS Integers, Sequences, FiniteSets

CONSTANTS
  Agents,       \* the identities spawn may hand out
  Residents,    \* the agents an earlier process left, with their worktrees
  Closers,      \* the agents the parent closes
  Writers,      \* the agents with changes to integrate
  MaxParallel,  \* execution.subagent.max_parallel: turns at a time
  MaxTurns,     \* bound: turns the runtime is ever asked for
  MaxAsks,      \* bound: approvals the children ever ask for
  MaxFaults,    \* bound: failed or unanswered writes, refusals, crashes
  None

ASSUME SubagentAssumption ==
  /\ MaxParallel \in Nat \ {0}
  /\ MaxTurns \in Nat /\ MaxAsks \in Nat
  /\ MaxFaults \in Nat
  /\ Residents \subseteq Agents /\ Closers \subseteq Agents
  /\ Writers \subseteq Agents
  /\ None \notin Nat /\ None \notin Agents

Turns == 1..MaxTurns

VARIABLES
  node,     \* the Manager's Agent: its status and last turn
  graph,    \* the durable agent node
  ahead,    \* the agents whose graph revision is the Manager's plus one
  spawning, \* where a spawn outside the Manager's lock has got to
  alloc,    \* the durable worktree allocations
  tree,     \* the worktrees on disk
  call,     \* where the startTurn call of an agent has got to
  track,    \* the Runner's childTurn of an agent
  settlers, \* the settleChild goroutines: agent, turn, outcome, progress
  failing,  \* the turns with an entry in settlementErrors
  closing,  \* where the CloseContext of an agent has got to
  merge,    \* where the integration of an agent has got to
  applied,  \* the agents whose integration candidate is durably applied
  turn,     \* the runtime's turns: owner and progress
  canceled, \* the turns a cancel operation was submitted for
  queue,    \* published events no observer has seen
  hung,     \* the holder of the Manager's mutex waits for that mutex
  budget,   \* what is left of the bounds on asks and faults
  misled    \* history: the agents of which the Manager has acted against a
            \* record that is durable and was reported as failed

managerVars == <<node, graph, ahead, hung, misled>>
vars == <<node, graph, ahead, spawning, alloc, tree, call, track, settlers,
          failing, closing, merge, applied, turn, canceled, queue, hung,
          budget, misled>>

-----------------------------------------------------------------------------
Active == {"starting", "running", "waiting"}
Ended == {"completed", "failed", "interrupted"}
Terminal == Ended \cup {"integrated", "integration_failed", "closed"}
Statuses == {"absent", "requested", "integrating"} \cup Active \cup Terminal

occupiesSlot(s) == s \in Active

CanTransition(from, to) ==
  CASE from = "absent" -> to = "requested"
    [] from = "requested" -> to \in Ended \cup {"starting", "closed"}
    [] from = "starting" -> to \in Ended \cup {"running"}
    [] from = "running" -> to \in Ended \cup {"waiting"}
    [] from = "waiting" -> to \in Ended \cup {"running"}
    [] from \in Ended -> to \in {"starting", "integrating", "closed"}
    [] from = "integrating" -> to \in {"integrated", "integration_failed"}
    [] from = "integration_failed" -> to \in {"integrating", "closed"}
    [] from = "integrated" -> to = "closed"
    [] from = "closed" -> FALSE

Busy == {a \in Agents : occupiesSlot(node[a].status)}
Live(t) == turn[t].at \in {"accepted", "started", "asking"}
Owned(a) == {t \in Turns : turn[t].owner = a}
Latest(a) ==
  IF Owned(a) = {} THEN None
  ELSE CHOOSE t \in Owned(a) : \A u \in Owned(a) : u <= t
Tracks(a, t) == track[a].turn = t /\ track[a].at = "live"

NoTurn == [owner |-> None, at |-> "none"]
NoTrack == [turn |-> None, started |-> FALSE, at |-> "none"]

Init ==
  /\ node = [a \in Agents |->
               [status |-> IF a \in Residents THEN "failed" ELSE "absent",
                turn |-> None]]
  /\ graph = node
  /\ ahead = {}
  /\ spawning = [a \in Agents |-> "none"]
  /\ alloc = {}
  /\ tree = Residents
  /\ call = [a \in Agents |-> "none"]
  /\ track = [a \in Agents |-> NoTrack]
  /\ settlers = {}
  /\ failing = {}
  /\ closing = [a \in Agents |-> "none"]
  /\ merge = [a \in Agents |-> "none"]
  /\ applied = {}
  /\ turn = [t \in Turns |-> NoTurn]
  /\ canceled = {}
  /\ queue = <<>>
  /\ hung = FALSE
  /\ budget = [asks |-> MaxAsks, faults |-> MaxFaults]
  /\ misled = {}

Spend(what) ==
  /\ budget[what] > 0
  /\ budget' = [budget EXCEPT ![what] = @ - 1]

-----------------------------------------------------------------------------
(* The record a transition leaves: the turn is kept when it names none.    *)
Moved(rec, to, t) ==
  [status |-> to, turn |-> IF t = None THEN rec.turn ELSE t]

(* projectAgentTransitionTx: the operation id names the agent and the next *)
(* revision, so whatever already took that revision counts as this write;  *)
(* anything else needs the expected revision and a legal transition.  The  *)
(* Manager's revision moves only behind the graph's, so the two differ by  *)
(* at most one and that difference is all that is kept of them.            *)
AlreadyApplied(a) == a \in ahead

Accepts(a, to) == AlreadyApplied(a) \/ CanTransition(graph[a].status, to)

Projected(a, to, t) ==
  IF AlreadyApplied(a) THEN graph
  ELSE [graph EXCEPT ![a] = Moved(@, to, t)]

(* An approval event still in the queue, of a turn the Runner tracks:      *)
(* observing it calls the Manager back.                                    *)
Reenters ==
  \E i \in DOMAIN queue :
    /\ queue[i].kind \in {"asked", "answered"}
    /\ \E a \in Agents : Tracks(a, queue[i].turn)

(* transitionLocked, whose record PublishExternal makes and then drains    *)
(* the observer queue in the caller's goroutine unless another publisher   *)
(* is draining it.  The answers: "ok"; "refused", the graph took nothing;  *)
(* "lost", the record is durable and the projection after the append, or   *)
(* the append of a result's completion message, failed; "hung", the drain  *)
(* meets an approval event and asks for the mutex its own goroutine holds. *)
Answers == {"ok", "refused", "lost", "hung"}

Answered(a, to, answer) ==
  CASE answer = "ok" -> Accepts(a, to) /\ UNCHANGED budget
    [] answer = "refused" ->
         IF Accepts(a, to) THEN Spend("faults") ELSE UNCHANGED budget
    [] answer = "lost" -> Accepts(a, to) /\ Spend("faults")
    [] answer = "hung" -> Reenters /\ Accepts(a, to) /\ UNCHANGED budget

(* Mutant: the Manager's agent moves before the record is known to hold.   *)
RememberedEarly(a, to, t, answer) == [node EXCEPT ![a] = Moved(@, to, t)]

(* The Manager's agent moves when the record is made.                      *)
Remembered(a, to, t, answer) ==
  IF answer = "ok" THEN [node EXCEPT ![a] = Moved(@, to, t)] ELSE node

(* A record of the Manager counts as made though the graph holds another   *)
(* one, or a spawn is undone that the graph holds.                         *)
Misleads(a, to, answer) ==
  \/ answer = "ok" /\ node'[a] # graph'[a]
  \/ answer = "lost" /\ to = "requested"

Record(a, to, t, answer) ==
  /\ ~hung
  /\ CanTransition(node[a].status, to)
  /\ Answered(a, to, answer)
  /\ graph' = IF answer = "refused" THEN graph ELSE Projected(a, to, t)
  /\ node' = Remembered(a, to, t, answer)
  /\ ahead' = CASE answer = "ok" -> ahead \ {a}
               [] answer = "refused" -> ahead
               [] OTHER -> ahead \cup {a}
  /\ hung' = (answer = "hung")
  /\ misled' = IF Misleads(a, to, answer) THEN misled \cup {a} ELSE misled

-----------------------------------------------------------------------------
(* spawn: the draft is admitted under the lock, then the allocation is     *)
(* made durable and the worktree created outside it.                       *)
spawnRest == <<call, track, settlers, failing, closing, merge, applied,
               turn, canceled, queue>>

SpawnAllocate(a) ==
  /\ ~hung
  /\ spawning[a] = "none" /\ node[a].status = "absent"
  /\ \/ /\ alloc' = alloc \cup {a}
        /\ spawning' = [spawning EXCEPT ![a] = "allocated"]
        /\ UNCHANGED budget
     \/ /\ Spend("faults")
        /\ spawning' = [spawning EXCEPT ![a] = "abandoned"]
        /\ UNCHANGED alloc
  /\ UNCHANGED <<managerVars, tree, spawnRest>>

SpawnProvision(a) ==
  /\ spawning[a] = "allocated"
  /\ \/ /\ tree' = tree \cup {a}
        /\ spawning' = [spawning EXCEPT ![a] = "provisioned"]
        /\ UNCHANGED <<alloc, budget>>
     \/ /\ Spend("faults")
        /\ alloc' = alloc \ {a}
        /\ spawning' = [spawning EXCEPT ![a] = "abandoned"]
        /\ UNCHANGED tree
  /\ UNCHANGED <<managerVars, spawnRest>>

(* commitSpawnLocked.  The parent may have been closed in the meantime.    *)
SpawnParentGone(a) ==
  /\ ~hung
  /\ spawning[a] = "provisioned"
  /\ spawning' = [spawning EXCEPT ![a] = "discarding"]
  /\ UNCHANGED <<managerVars, alloc, tree, budget, spawnRest>>

SpawnCommit(a) ==
  /\ spawning[a] = "provisioned"
  /\ \E answer \in Answers :
       /\ Record(a, "requested", None, answer)
       /\ alloc' = IF answer = "ok" THEN alloc \ {a} ELSE alloc
       /\ spawning' = [spawning EXCEPT ![a] =
                         CASE answer = "ok" -> "none"
                           [] answer = "hung" -> "provisioned"
                           [] OTHER -> "discarding"]
  /\ UNCHANGED <<tree, spawnRest>>

SpawnDiscard(a) ==
  /\ spawning[a] = "discarding"
  /\ spawning' = [spawning EXCEPT ![a] = "abandoned"]
  /\ \/ tree' = tree \ {a} /\ alloc' = alloc \ {a} /\ UNCHANGED budget
     \/ Spend("faults") /\ UNCHANGED <<tree, alloc>>
  /\ UNCHANGED <<managerVars, spawnRest>>

-----------------------------------------------------------------------------
(* startTurn (Takeover, FollowUp): the slot is taken under the lock, the   *)
(* turn submitted outside it.                                              *)
startRest == <<spawning, alloc, tree, settlers, failing, closing, merge,
               applied, canceled, queue>>

StartTurn(a) ==
  /\ closing[a] = "none" /\ call[a] = "none"
  /\ Cardinality(Busy) < MaxParallel
  /\ \E t \in Turns : turn[t] = NoTurn
  /\ \E answer \in Answers :
       /\ Record(a, "starting", None, answer)
       /\ call' = [call EXCEPT ![a] =
                     IF answer = "ok" THEN "entered" ELSE "none"]
  /\ UNCHANGED <<startRest, track, turn>>

(* Mutant: the submission does not wait for the settlement in progress.    *)
PreviousGoneHasty(a) == track[a].at # "live"

(* The tracked turn of the agent is gone, its settlement bookkeeping too.  *)
PreviousGone(a) == track[a].at = "none"

(* Runner.StartTurn: the turn is tracked before it is submitted.           *)
RunnerStart(a) ==
  /\ ~hung
  /\ call[a] = "entered"
  /\ PreviousGone(a)
  /\ failing = {}
  /\ \/ \E t \in Turns :
          /\ turn[t] = NoTurn /\ \A u \in 1..(t - 1) : turn[u] # NoTurn
          /\ turn' = [turn EXCEPT ![t].owner = a, ![t].at = "accepted"]
          /\ track' = [track EXCEPT ![a] =
                         [turn |-> t, started |-> FALSE, at |-> "live"]]
          /\ call' = [call EXCEPT ![a] = "accepted"]
          /\ UNCHANGED budget
     \/ /\ Spend("faults")
        /\ call' = [call EXCEPT ![a] = "refused"]
        /\ UNCHANGED <<turn, track>>
  /\ UNCHANGED <<startRest, managerVars>>

(* StartTurn refuses: a turn is still tracked, a settlement is pending, or *)
(* the wait for it is canceled.                                            *)
RunnerRefuses(a) ==
  /\ call[a] = "entered"
  /\ track[a].at # "none" \/ failing # {}
  /\ call' = [call EXCEPT ![a] = "refused"]
  /\ UNCHANGED <<startRest, managerVars, budget, track, turn>>

(* Terminal wins: the settlement of the submitted turn came first.         *)
TerminalWins(a) == node[a].status \in Terminal /\ node[a].turn = Latest(a)

(* Back under the lock.  A refused submission fails the agent; an accepted *)
(* turn makes it running.  When that cannot be recorded the agent keeps    *)
(* the status it has.                                                      *)
StartReturns(a) ==
  /\ ~hung
  /\ \/ /\ call[a] = "refused"
        /\ \E answer \in Answers :
             /\ Record(a, "failed", None, answer)
             /\ call' = [call EXCEPT ![a] =
                           IF answer = "hung" THEN @ ELSE "none"]
     \/ /\ call[a] = "accepted" /\ ~TerminalWins(a)
        /\ \E answer \in Answers :
             /\ Record(a, "running", Latest(a), answer)
             /\ call' = [call EXCEPT ![a] =
                           IF answer = "hung" THEN @ ELSE "none"]
     \/ /\ call[a] = "accepted"
        /\ TerminalWins(a) \/ ~CanTransition(node[a].status, "running")
        /\ call' = [call EXCEPT ![a] = "none"]
        /\ UNCHANGED <<managerVars, budget>>
  /\ UNCHANGED <<startRest, track, turn>>

-----------------------------------------------------------------------------
(* The turns on the runtime.  Each publishes its events in order; the      *)
(* observer queue holds what is published and not yet dispatched.          *)
turnRest == <<managerVars, spawning, alloc, tree, call, track, settlers,
              failing, closing, merge, applied>>

Publish(t, kind) == queue' = Append(queue, [turn |-> t, kind |-> kind])

TurnStarts(t) ==
  /\ turn[t].at = "accepted"
  /\ turn' = [turn EXCEPT ![t].at = "started"]
  /\ Publish(t, "started")
  /\ UNCHANGED <<turnRest, canceled, budget>>

TurnAsks(t) ==
  /\ turn[t].at = "started"
  /\ Spend("asks")
  /\ turn' = [turn EXCEPT ![t].at = "asking"]
  /\ Publish(t, "asked")
  /\ UNCHANGED <<turnRest, canceled>>

TurnAnswered(t) ==
  /\ turn[t].at = "asking"
  /\ turn' = [turn EXCEPT ![t].at = "started"]
  /\ Publish(t, "answered")
  /\ UNCHANGED <<turnRest, canceled, budget>>

(* A turn ends, or its start operation is rejected, or it is canceled.     *)
TurnEnds(t) ==
  /\ \E outcome \in Ended :
       /\ \/ outcome = "completed" /\ turn[t].at = "started"
          \/ outcome = "failed" /\ turn[t].at \in {"accepted", "started"}
          \/ /\ outcome = "interrupted" /\ t \in canceled
             /\ turn[t].at \in {"started", "asking"}
       /\ turn' = [turn EXCEPT ![t].at = "ended"]
       /\ Publish(t, outcome)
  /\ canceled' = canceled \ {t}
  /\ UNCHANGED <<turnRest, budget>>

-----------------------------------------------------------------------------
(* Runner.Observe, called by whoever drains the observer queue.            *)
Observed(e) == turn[e.turn].owner

Ignored(e) == ~Tracks(Observed(e), e.turn)

Settles(e) ==
  /\ e.kind \in Ended
  /\ track' = [track EXCEPT ![Observed(e)].at = "settling"]
  /\ settlers' = settlers \cup
       {[agent |-> Observed(e), turn |-> e.turn, outcome |-> e.kind,
         at |-> "trying"]}
  /\ UNCHANGED <<managerVars, budget>>

Starts(e) ==
  /\ e.kind = "started"
  /\ track' = [track EXCEPT ![Observed(e)].started = TRUE]
  /\ UNCHANGED <<managerVars, settlers, budget>>

(* AwaitApproval and ResumeApproval: from any other status the call only   *)
(* leaves a note.                                                          *)
Approves(e) ==
  LET a == Observed(e)
      from == IF e.kind = "asked" THEN "running" ELSE "waiting"
      to == IF e.kind = "asked" THEN "waiting" ELSE "running"
  IN /\ e.kind \in {"asked", "answered"}
     /\ \/ /\ node[a].status = from
           /\ \E answer \in {"ok", "refused", "lost"} :
                Record(a, to, node[a].turn, answer)
        \/ node[a].status # from /\ UNCHANGED <<managerVars, budget>>
     /\ UNCHANGED <<track, settlers>>

Dispatch ==
  /\ ~hung /\ queue # <<>>
  /\ LET e == Head(queue)
     IN IF Ignored(e) THEN UNCHANGED <<managerVars, track, settlers, budget>>
        ELSE Settles(e) \/ Starts(e) \/ Approves(e)
  /\ queue' = Tail(queue)
  /\ UNCHANGED <<spawning, alloc, tree, call, failing, closing, merge,
                 applied, turn, canceled>>

-----------------------------------------------------------------------------
settleRest == <<spawning, alloc, tree, call, closing, merge, applied, turn,
                canceled, queue>>

(* Mutant: a settlement that failed is not tried again.                    *)
TryingOnce(s) == s.at = "trying" /\ s.turn \notin failing

(* settleChild, and retryChildSettlement after a failure.                  *)
Trying(s) == s.at = "trying"

(* settleChildAttempt: Manager.Settle.                                     *)
SettleAttempt(s) ==
  LET a == s.agent
      done == [s EXCEPT !.at = "done"]
      Succeeds == settlers' = (settlers \ {s}) \cup {done} /\ UNCHANGED failing
      Fails == failing' = failing \cup {s.turn} /\ UNCHANGED settlers
  IN /\ ~hung
     /\ Trying(s)
     /\ IF node[a].status = s.outcome /\ node[a].turn = s.turn
        THEN Succeeds /\ UNCHANGED <<managerVars, budget>>
        ELSE IF ~CanTransition(node[a].status, s.outcome)
        THEN Fails /\ UNCHANGED <<managerVars, budget>>
        ELSE \E answer \in Answers :
               /\ Record(a, s.outcome, s.turn, answer)
               /\ CASE answer = "ok" -> Succeeds
                    [] answer = "hung" -> UNCHANGED <<settlers, failing>>
                    [] OTHER -> Fails
     /\ UNCHANGED <<settleRest, track>>

(* completeChildSettlement: the thread's entry is deleted whoever put it   *)
(* there.                                                                  *)
SettlementDone(s) ==
  /\ ~hung
  /\ s.at = "done"
  /\ settlers' = settlers \ {s}
  /\ failing' = failing \ {s.turn}
  /\ track' = [track EXCEPT ![s.agent] = NoTrack]
  /\ UNCHANGED <<settleRest, managerVars, budget>>

(* The runtime rejects a cancel of a turn that is not active.              *)
Canceled(t) == IF turn[t].at \in {"started", "asking"} THEN {t} ELSE {}

cancelRest == <<managerVars, spawning, alloc, tree, call, track, settlers,
                failing, closing, merge, applied, turn, queue, budget>>

(* CancelTurn, for Interrupt and for a lease that expires.                 *)
CancelTurn(a) ==
  /\ track[a].at = "live" /\ track[a].started
  /\ canceled' = canceled \cup Canceled(track[a].turn)
  /\ UNCHANGED cancelRest

-----------------------------------------------------------------------------
(* CloseContext.                                                           *)
closeRest == <<spawning, alloc, call, track, settlers, failing, merge,
               applied, turn, queue>>

At(phase, a, to) == phase' = [phase EXCEPT ![a] = to]

CloseBegin(a) ==
  /\ ~hung
  /\ a \in Closers /\ closing[a] = "none"
  /\ node[a].status \notin {"absent", "closed"}
  /\ At(closing, a, "fenced")
  /\ UNCHANGED <<closeRest, managerVars, tree, canceled, budget>>

(* Interrupt, once no start is in flight: an agent that is still starting  *)
(* cannot be interrupted.                                                  *)
CloseInterrupt(a) ==
  /\ ~hung
  /\ closing[a] = "fenced" /\ call[a] = "none"
  /\ occupiesSlot(node[a].status)
  /\ IF node[a].status = "starting" THEN At(closing, a, "none")
     ELSE At(closing, a, "canceling")
  /\ UNCHANGED <<closeRest, managerVars, tree, canceled, budget>>

(* Mutant: the cancel does not wait for the start of the turn.             *)
CancelableHasty(a) == Tracks(a, node[a].turn)

(* CancelTurn waits until the tracked turn is seen to start.               *)
Cancelable(a) == Tracks(a, node[a].turn) /\ track[a].started

CloseCancels(a) ==
  /\ closing[a] = "canceling"
  /\ \/ /\ Cancelable(a)
        /\ \/ /\ canceled' = canceled \cup Canceled(node[a].turn)
              /\ At(closing, a, "settling")
              /\ UNCHANGED budget
           \/ /\ Spend("faults")
              /\ At(closing, a, "none")
              /\ UNCHANGED canceled
     \/ /\ ~Tracks(a, node[a].turn)
        /\ At(closing, a, "settling")
        /\ UNCHANGED <<canceled, budget>>
  /\ UNCHANGED <<closeRest, managerVars, tree>>

(* Mutant: an agent is closed while its start is in flight.                *)
QuietHasty(a) == closing[a] \in {"fenced", "settling"}

(* No start in flight and no turn that holds the agent's slot.             *)
Quiet(a) ==
  \/ closing[a] = "fenced" /\ call[a] = "none"
  \/ closing[a] = "settling"

CloseRecords(a) ==
  /\ ~hung
  /\ Quiet(a)
  /\ ~occupiesSlot(node[a].status)
  /\ \/ /\ ~CanTransition(node[a].status, "closed")
        /\ At(closing, a, "none")
        /\ UNCHANGED <<managerVars, budget>>
     \/ \E answer \in Answers :
          /\ Record(a, "closed", node[a].turn, answer)
          /\ At(closing, a, CASE answer = "ok" -> "discarding"
                              [] answer = "hung" -> closing[a]
                              [] OTHER -> "none")
  /\ UNCHANGED <<closeRest, tree, canceled>>

CloseDiscards(a) ==
  /\ ~hung
  /\ closing[a] = "discarding"
  /\ At(closing, a, "none")
  /\ \/ tree' = tree \ {a} /\ UNCHANGED budget
     \/ Spend("faults") /\ UNCHANGED tree
  /\ UNCHANGED <<closeRest, managerVars, canceled>>

(* The caller's context is canceled while the close waits.                 *)
CloseAborts(a) ==
  /\ ~hung
  /\ closing[a] \in {"fenced", "canceling", "settling"}
  /\ At(closing, a, "none")
  /\ UNCHANGED <<closeRest, managerVars, tree, canceled, budget>>

-----------------------------------------------------------------------------
(* applyMergeAuthorized: the parent applies a child's changes.             *)
mergeRest == <<spawning, alloc, tree, call, track, settlers, failing, closing,
               turn, canceled, queue>>

(* Mutant: the changes are applied without the move to integrating.        *)
MergeBeginsUnfenced(a) ==
  /\ ~hung
  /\ a \in Writers /\ merge[a] = "none"
  /\ Latest(a) # None /\ node[a].status # "closed"
  /\ At(merge, a, "begun")
  /\ UNCHANGED <<mergeRest, applied, managerVars, budget>>

(* The candidate is saved as applying and BeginIntegration fences the      *)
(* agent; a refusal leaves nothing but a failed candidate.                 *)
MergeBegins(a) ==
  /\ a \in Writers /\ merge[a] = "none"
  /\ Latest(a) # None
  /\ \E answer \in Answers :
       /\ Record(a, "integrating", node[a].turn, answer)
       /\ At(merge, a, IF answer = "ok" THEN "begun" ELSE "none")
  /\ UNCHANGED <<mergeRest, applied>>

(* CommitApply writes the workspace, or fails and leaves it as it was.     *)
MergeCommits(a) ==
  /\ ~hung
  /\ merge[a] = "begun"
  /\ \/ At(merge, a, "committed") /\ UNCHANGED budget
     \/ At(merge, a, "undone") /\ Spend("faults")
  /\ UNCHANGED <<mergeRest, applied, managerVars>>

(* SaveIntegration of the receipt publishes under the mutex as well.       *)
MergeSavesReceipt(a) ==
  /\ ~hung
  /\ merge[a] = "committed"
  /\ \/ /\ applied' = applied \cup {a} /\ At(merge, a, "applied")
        /\ UNCHANGED <<hung, budget>>
     \/ /\ Spend("faults") /\ At(merge, a, "undone")
        /\ applied' \in {applied, applied \cup {a}}
        /\ UNCHANGED hung
     \/ /\ Reenters /\ hung' = TRUE /\ applied' = applied \cup {a}
        /\ UNCHANGED <<merge, budget>>
  /\ UNCHANGED <<mergeRest, node, graph, ahead, misled>>

(* FinishIntegration, tried once.                                          *)
MergeFinishes(a) ==
  /\ merge[a] \in {"applied", "undone"}
  /\ \E answer \in Answers :
       /\ Record(a, IF merge[a] = "applied" THEN "integrated"
                    ELSE "integration_failed",
                 node[a].turn, answer)
       /\ At(merge, a, IF answer = "hung" THEN merge[a] ELSE "none")
       /\ applied' = IF answer = "ok" THEN applied \ {a} ELSE applied
  /\ UNCHANGED mergeRest

-----------------------------------------------------------------------------
(* A restart.  The runtime resumes the turns that were active, the graph   *)
(* is reconciled with them, and the Manager and the Runner are rebuilt     *)
(* from it.                                                                *)
Resumed(t) == IF Live(t) THEN [turn[t] EXCEPT !.at = "accepted"] ELSE turn[t]

Survives(a) == Latest(a) # None /\ Live(Latest(a))

(* A worktree whose spawn was not recorded is adopted by its allocation.   *)
Orphaned(a) == graph[a].status = "absent" /\ a \in tree /\ a \in alloc

(* PlanReconciliation and PlanIntegrationRecovery.                         *)
Reconciled(a) ==
  CASE graph[a].status \in {"requested", "starting"} /\ Survives(a) ->
         Moved(graph[a], "running", Latest(a))
    [] graph[a].status \in {"running", "waiting"} /\ Survives(a) -> graph[a]
    [] graph[a].status \in Active \cup {"requested"} /\ ~Survives(a) ->
         Moved(graph[a], "failed", Latest(a))
    [] graph[a].status = "integrating" ->
         Moved(graph[a], IF a \in applied THEN "integrated"
                         ELSE "integration_failed", None)
    [] Orphaned(a) -> [status |-> "failed", turn |-> None]
    [] OTHER -> graph[a]

(* Runner.Bind tracks the turn of an agent that is still active.           *)
Rebound(rec) ==
  IF rec.status \in Active /\ rec.turn # None
  THEN [turn |-> rec.turn, started |-> FALSE, at |-> "live"]
  ELSE NoTrack

Crash ==
  /\ Spend("faults")
  /\ graph' = [a \in Agents |-> Reconciled(a)]
  /\ node' = graph'
  /\ ahead' = {}
  /\ turn' = [t \in Turns |-> Resumed(t)]
  /\ track' = [a \in Agents |-> Rebound(graph'[a])]
  /\ applied' = {}
  /\ alloc' = {}
  /\ spawning' = [a \in Agents |-> "none"]
  /\ call' = [a \in Agents |-> "none"]
  /\ closing' = [a \in Agents |-> "none"]
  /\ merge' = [a \in Agents |-> "none"]
  /\ settlers' = {}
  /\ failing' = {}
  /\ canceled' = {}
  /\ queue' = <<>>
  /\ hung' = FALSE
  /\ UNCHANGED <<tree, misled>>

-----------------------------------------------------------------------------
Spawn(a) ==
  \/ SpawnAllocate(a) \/ SpawnProvision(a) \/ SpawnParentGone(a)
  \/ SpawnCommit(a) \/ SpawnDiscard(a)
Start(a) ==
  StartTurn(a) \/ RunnerStart(a) \/ RunnerRefuses(a) \/ StartReturns(a)
Close(a) ==
  \/ CloseBegin(a) \/ CloseInterrupt(a) \/ CloseCancels(a)
  \/ CloseRecords(a) \/ CloseDiscards(a) \/ CloseAborts(a)
Merge(a) ==
  \/ MergeBegins(a) \/ MergeCommits(a)
  \/ MergeSavesReceipt(a) \/ MergeFinishes(a)
RunTurn(t) ==
  TurnStarts(t) \/ TurnAsks(t) \/ TurnAnswered(t) \/ TurnEnds(t)
SettleTurn(s) == SettleAttempt(s) \/ SettlementDone(s)

Next ==
  \/ \E a \in Agents :
       Spawn(a) \/ Start(a) \/ CancelTurn(a) \/ Close(a) \/ Merge(a)
  \/ \E t \in Turns : RunTurn(t)
  \/ \E s \in settlers : SettleTurn(s)
  \/ Dispatch
  \/ Crash

SubagentSpec == Init /\ [][Next]_vars

(* Every goroutine runs on: the caller of startTurn, the settler with its  *)
(* retries, the drain of the observer queue, a close that is not aborted.  *)
(* A turn starts once accepted.  No turn need end, a canceled one either:  *)
(* settle may give up on it, and then it ends with the next restart only.  *)
SettlerSteps(a) == \E s \in settlers : s.agent = a /\ SettleTurn(s)

Fairness ==
  /\ WF_vars(Dispatch)
  /\ \A a \in Agents :
       /\ WF_vars(RunnerStart(a) \/ RunnerRefuses(a) \/ StartReturns(a))
       /\ WF_vars(SettlerSteps(a))
  /\ \A a \in Closers :
       WF_vars(CloseInterrupt(a) \/ CloseCancels(a) \/ CloseRecords(a)
               \/ CloseDiscards(a))
  /\ \A t \in Turns :
       WF_vars(TurnStarts(t))

FairSubagentSpec == SubagentSpec /\ Fairness

-----------------------------------------------------------------------------
(* Type invariant.                                                         *)
SubagentTypeOK ==
  LET Node == [status : Statuses, turn : Turns \cup {None}]
  IN /\ node \in [Agents -> Node]
     /\ graph \in [Agents -> Node]
     /\ ahead \subseteq Agents
     /\ spawning \in [Agents -> {"none", "allocated", "provisioned",
                                 "discarding", "abandoned"}]
     /\ alloc \subseteq Agents
     /\ tree \subseteq Agents
     /\ call \in [Agents -> {"none", "entered", "accepted", "refused"}]
     /\ track \in [Agents -> [turn : Turns \cup {None}, started : BOOLEAN,
                              at : {"none", "live", "settling"}]]
     /\ settlers \subseteq [agent : Agents, turn : Turns, outcome : Ended,
                            at : {"trying", "done"}]
     /\ failing \subseteq Turns
     /\ closing \in [Agents -> {"none", "fenced", "canceling", "settling",
                                "discarding"}]
     /\ merge \in [Agents -> {"none", "begun", "committed", "applied",
                              "undone"}]
     /\ applied \subseteq Agents
     /\ turn \in [Turns -> [owner : Agents \cup {None},
                            at : {"none", "accepted", "started", "asking",
                                  "ended"}]]
     /\ canceled \subseteq Turns
     /\ queue \in Seq([turn : Turns,
                       kind : {"started", "asked", "answered"} \cup Ended])
     /\ hung \in BOOLEAN
     /\ misled \subseteq Agents
     /\ budget.asks \in 0..MaxAsks /\ budget.faults \in 0..MaxFaults

(* Whatever failed, was retried or restarted in between, the agents hold   *)
(* at most MaxParallel slots, and every turn the runtime still runs is the *)
(* one its agent's Runner entry tracks and holds a slot, as long as the    *)
(* Manager was not misled about that agent.                                *)
Trusted == Agents \ misled

TurnsHoldSlots ==
  /\ Cardinality(Busy) <= MaxParallel
  /\ \A t \in Turns :
       Live(t) /\ turn[t].owner \in Trusted =>
         /\ occupiesSlot(node[turn[t].owner].status)
         /\ Tracks(turn[t].owner, t)

(* A worktree is there as long as a turn may work in it, its changes are   *)
(* being applied, or the graph knows an agent that can be started again,   *)
(* unless the Manager was misled about the agent; and no worktree is there *)
(* that a restart could not attribute.                                     *)
WorktreesKept ==
  \A a \in Agents :
    /\ a \in Trusted
       /\ \/ graph[a].status \notin {"absent", "closed"}
          \/ call[a] # "none"
          \/ merge[a] \in {"begun", "committed", "applied", "undone"}
          \/ \E t \in Owned(a) : Live(t)
       => a \in tree
    /\ a \in tree => graph[a].status # "absent" \/ a \in alloc

(* A record the Manager was not told of has had no effect: until it is     *)
(* repeated or taken for another one, the graph is one legal transition    *)
(* ahead, a start in the graph alone has no turn, an end in the graph alone *)
(* is that of a turn that is over, an integration in the graph alone has   *)
(* written nothing, and a close in the graph alone has removed nothing.    *)
Untold(a) ==
  /\ CanTransition(node[a].status, graph[a].status)
  /\ graph[a].status \notin {"running", "waiting"} =>
       \A t \in Owned(a) : ~Live(t)
  /\ graph[a].status = "integrating" => merge[a] = "none"
  /\ graph[a].status = "closed" => a \in tree

GraphFollows ==
  \A a \in Trusted :
    IF a \in ahead THEN Untold(a) ELSE node[a] = graph[a]

(* Changes are written to the workspace only while no turn of the child    *)
(* runs and the agent is fenced against start and close, unless the        *)
(* Manager was misled about the agent.                                     *)
MergeIsFenced ==
  \A a \in Trusted :
    merge[a] \in {"begun", "committed", "applied", "undone"} =>
      /\ node[a].status = "integrating"
      /\ \A t \in Owned(a) : ~Live(t)
      /\ closing[a] # "discarding"

(* A turn that has ended is settled, unless the mutex hangs or the Manager *)
(* was misled about its agent.                                             *)
Unsettled(a) ==
  track[a].turn # None /\ turn[track[a].turn].at = "ended"

EndedIsSettled ==
  \A a \in Agents : Unsettled(a) ~> (~Unsettled(a) \/ hung \/ a \in misled)

(* A close returns or waits for a turn of its agent that the runtime has   *)
(* been asked to cancel, under the same exceptions: nothing makes a        *)
(* canceled turn end, but no close waits for one that nobody stops.        *)
WaitsForTurn(a) ==
  /\ closing[a] = "settling"
  /\ \E t \in Owned(a) : Live(t) /\ t \in canceled

CloseReturns ==
  \A a \in Closers :
    (closing[a] # "none" /\ ~WaitsForTurn(a))
      ~> (closing[a] = "none" \/ WaitsForTurn(a) \/ hung \/ a \in misled)

(* The mutex never waits for its own holder.                               *)
NeverHangs == ~hung
=============================================================================
