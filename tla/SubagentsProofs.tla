-------------------------- MODULE SubagentsProofs --------------------------
(***************************************************************************)
(* The safety of the child agents, for any number of agents, turns,        *)
(* approvals and failures.                                                 *)
(*                                                                         *)
(* A step is about one agent and leaves the others alone (Untouched), so   *)
(* the inductive invariant is one of every agent by itself (AgentOK), next *)
(* to what holds of the runtime's turns and of the observer queue          *)
(* (TurnsOK).  What ties an agent together is where its turn is: tracked   *)
(* while it may run, then in the hands of one settler, while the start     *)
(* that submitted it may still be on its way.  What relates the Manager to *)
(* the graph holds of the agents about which it was not misled; what       *)
(* relates it to its own turns and slots holds of them all.                *)
(***************************************************************************)
EXTENDS Subagents, FiniteSetTheorems, SequenceTheorems, TLAPS

Node == [status : Statuses, turn : Turns \cup {None}]
Spawns == {"none", "allocated", "provisioned", "discarding", "abandoned"}
CallStates == {"none", "entered", "accepted", "refused"}
TrackType ==
  [turn : Turns \cup {None}, started : BOOLEAN, at : {"none", "live", "settling"}]
Settlers ==
  [agent : Agents, turn : Turns, outcome : Ended, at : {"trying", "done"}]
Closes == {"none", "fenced", "canceling", "settling", "discarding"}
Merges == {"none", "begun", "committed", "applied", "undone"}
TurnType ==
  [owner : Agents \cup {None},
   at : {"none", "accepted", "started", "asking", "ended"}]
Events == [turn : Turns, kind : {"started", "asked", "answered"} \cup Ended]
Budgets == [asks : 0..MaxAsks, faults : 0..MaxFaults]

ManagerTypes ==
  /\ node \in [Agents -> Node] /\ graph \in [Agents -> Node]
  /\ ahead \subseteq Agents /\ hung \in BOOLEAN /\ misled \subseteq Agents
WorkTypes ==
  /\ spawning \in [Agents -> Spawns] /\ call \in [Agents -> CallStates]
  /\ closing \in [Agents -> Closes] /\ merge \in [Agents -> Merges]
  /\ alloc \subseteq Agents /\ tree \subseteq Agents /\ applied \subseteq Agents
RunnerTypes ==
  /\ track \in [Agents -> TrackType] /\ settlers \subseteq Settlers
  /\ failing \subseteq Turns
RuntimeTypes ==
  /\ turn \in [Turns -> TurnType] /\ canceled \subseteq Turns
  /\ queue \in Seq(Events) /\ budget \in Budgets

Types == ManagerTypes /\ WorkTypes /\ RunnerTypes /\ RuntimeTypes

-----------------------------------------------------------------------------
(* The runtime's turns are handed out in order, and what the queue tells   *)
(* of them has happened.                                                   *)
TurnsOK ==
  /\ \A t, u \in Turns : turn[t] # NoTurn /\ u < t => turn[u] # NoTurn
  /\ \A t \in Turns : turn[t].owner = None <=> turn[t] = NoTurn
  /\ \A t \in Turns : turn[t].at = "none" <=> turn[t] = NoTurn
  /\ \A a \in Agents : Owned(a) # {} =>
       Latest(a) \in Owned(a) /\ \A u \in Owned(a) : u <= Latest(a)
  /\ \A i \in 1..Len(queue) :
       /\ turn[queue[i].turn] # NoTurn
       /\ queue[i].kind \in Ended => turn[queue[i].turn].at = "ended"

TryingFor(s, a) == s.agent = a /\ s.at = "trying"

(* A turn that runs is tracked, and the tracked turn is the agent's last.  *)
(* Of an agent the Manager was misled about, a restart may leave one       *)
(* behind that nobody tracks, in a status that no turn starts from.        *)
OnTurn(rec, a) ==
  /\ rec.status \in Active
  /\ rec.status \in {"running", "waiting"} => rec.turn = Latest(a)

Past == {"integrating", "integrated", "integration_failed", "closed"}

Beyond(a) == a \in misled /\ node[a].status \in Past /\ graph[a].status \in Past

Tracked(a) ==
  /\ track[a].at = "live" =>
       /\ track[a].turn = Latest(a) /\ Owned(a) # {}
       /\ call[a] \in {"none", "accepted"}
       /\ \A s \in settlers : s.agent # a
       /\ OnTurn(node[a], a)
       /\ a \in misled \/ OnTurn(graph[a], a)
  /\ \A t \in Owned(a) : Live(t) => Tracks(a, t) \/ Beyond(a)

(* A settler has the agent's last turn, which ended, to itself.  Until it  *)
(* is done the agent is active.                                            *)
Settling(a) ==
  \A s \in settlers : s.agent = a =>
    /\ track[a].at = "settling" /\ track[a].turn = s.turn
    /\ s.turn = Latest(a) /\ s.turn \in Owned(a) /\ turn[s.turn].at = "ended"
    /\ \A r \in settlers : r.agent = a => r = s
    /\ s.at = "trying" =>
         node[a].status \in Active /\ call[a] \in {"none", "accepted"}

(* A start that has submitted nothing holds its slot alone.                *)
Calling(a) ==
  /\ call[a] \in {"entered", "refused"} =>
       /\ node[a].status = "starting" /\ track[a].at # "live"
       /\ \A s \in settlers : ~TryingFor(s, a)
       /\ a \in ahead => hung \/ a \in misled
  /\ call[a] = "accepted" =>
       Owned(a) # {} /\ node[a].status \notin {"absent", "closed"}

(* What the graph holds, whatever the Manager makes of it: a running agent *)
(* has its last turn, and no turn runs that the graph has as ended.        *)
Early == {"requested", "starting"} \cup Past

Named(a) ==
  /\ graph[a].status \in {"running", "waiting"} =>
       graph[a].turn = Latest(a) /\ Owned(a) # {}
  /\ call[a] \in {"entered", "refused"} => graph[a].status \in Early \/ hung
  /\ a \in ahead /\ node[a].status \notin Active => graph[a].status \in Early
  /\ (\E t \in Owned(a) : Live(t)) =>
       graph[a].status \in Early \cup {"running", "waiting"}
  /\ a \in ahead \cup misled => graph[a].status # "absent"

Following(a) ==
  a \in misled \/ IF a \in ahead THEN Untold(a) ELSE node[a] = graph[a]

Closing(a) ==
  /\ closing[a] \in {"canceling", "settling", "discarding"} => call[a] = "none"
  /\ closing[a] = "discarding" =>
       node[a].status = "closed" /\ (a \in misled \/ graph[a].status = "closed")

Merging(a) == merge[a] # "none" => node[a].status = "integrating"

Spawning(a) ==
  /\ spawning[a] \in {"allocated", "provisioned", "discarding"} =>
       a \in alloc /\ node[a].status = "absent"
  /\ \/ a \in misled
     \/ /\ spawning[a] \in {"allocated", "discarding"} => graph[a].status = "absent"
        /\ spawning[a] = "provisioned" =>
             a \in tree /\ (graph[a].status = "absent" \/ hung)
        /\ spawning[a] = "allocated" => a \notin tree
        /\ spawning[a] = "none" /\ a \in tree => graph[a].status # "absent"
        /\ a \in ahead /\ node[a].status = "absent" => hung

Kept(a) ==
  /\ \/ a \in misled
     \/ \/ graph[a].status \notin {"absent", "closed"}
        \/ call[a] # "none"
        \/ merge[a] \in {"begun", "committed", "applied", "undone"}
        \/ \E t \in Owned(a) : Live(t)
        => a \in tree
  /\ a \in tree => graph[a].status # "absent" \/ a \in alloc

AgentOK(a) ==
  /\ Tracked(a) /\ Settling(a) /\ Calling(a) /\ Named(a) /\ Following(a)
  /\ Closing(a) /\ Merging(a) /\ Spawning(a) /\ Kept(a)

SlotsOK == IsFiniteSet(Busy) /\ Cardinality(Busy) <= MaxParallel

IInv == Types /\ TurnsOK /\ SlotsOK /\ \A a \in Agents : AgentOK(a)

(* What a step about another agent leaves of an agent.                     *)
Untouched(b) ==
  /\ node'[b] = node[b] /\ graph'[b] = graph[b] /\ (b \in ahead' <=> b \in ahead)
  /\ spawning'[b] = spawning[b] /\ (b \in alloc' <=> b \in alloc)
  /\ b \in tree' <=> b \in tree
  /\ call'[b] = call[b] /\ track'[b].turn = track[b].turn /\ track'[b].at = track[b].at
  /\ closing'[b] = closing[b] /\ merge'[b] = merge[b]
  /\ \A s \in settlers \cup settlers' :
       s.agent = b => (s \in settlers <=> s \in settlers')
  /\ \A t \in Turns : turn[t].owner = b \/ turn'[t].owner = b => turn'[t] = turn[t]
  /\ hung => hung'
  /\ b \in misled' <=> b \in misled

-----------------------------------------------------------------------------
(* Facts about statuses and records.                                       *)

LEMMA Transitions ==
  /\ \A to \in Statuses :
       /\ CanTransition("absent", to) <=> to = "requested"
       /\ CanTransition("requested", to) <=> to \in Ended \cup {"starting", "closed"}
       /\ CanTransition("starting", to) <=> to \in Ended \cup {"running"}
       /\ CanTransition("running", to) <=> to \in Ended \cup {"waiting"}
       /\ CanTransition("waiting", to) <=> to \in Ended \cup {"running"}
       /\ \A e \in Ended :
            CanTransition(e, to) <=> to \in {"starting", "integrating", "closed"}
       /\ CanTransition("integrating", to) <=> to \in {"integrated", "integration_failed"}
       /\ CanTransition("integration_failed", to) <=> to \in {"integrating", "closed"}
       /\ CanTransition("integrated", to) <=> to = "closed"
       /\ ~CanTransition("closed", to)
BY DEF CanTransition, Ended, Statuses, Active, Terminal

LEMMA Updated ==
  ASSUME NEW S, NEW T, NEW f \in [S -> T], NEW x, NEW v \in T
  PROVE  [f EXCEPT ![x] = v] \in [S -> T]
OBVIOUS

(* An update changes one place.                                            *)
LEMMA Placed ==
  ASSUME NEW S, NEW T, NEW f \in [S -> T], NEW x \in S, NEW v
  PROVE  /\ [f EXCEPT ![x] = v][x] = v
         /\ \A y \in S : y # x => [f EXCEPT ![x] = v][y] = f[y]
OBVIOUS

LEMMA TurnFacts ==
  /\ None \notin Turns /\ None \notin Agents
  /\ Turns \subseteq Nat /\ MaxTurns \in Nat
BY SubagentAssumption DEF Turns

LEMMA MovedFacts ==
  ASSUME NEW rec \in Node, NEW to \in Statuses, NEW t \in Turns \cup {None}
  PROVE  /\ Moved(rec, to, t) \in Node /\ Moved(rec, to, t).status = to
         /\ Moved(rec, to, t).turn = IF t = None THEN rec.turn ELSE t
BY DEF Moved, Node

LEMMA SpendTypes ==
  ASSUME budget \in Budgets, NEW what \in {"asks", "faults"}, Spend(what)
  PROVE  budget' \in Budgets
<1> USE SubagentAssumption
<1>1. CASE what = "asks"
  BY <1>1 DEF Spend, Budgets
<1>2. CASE what = "faults"
  BY <1>2 DEF Spend, Budgets
<1> QED  BY <1>1, <1>2

(* The turns of an agent and the last of them depend on the owners only.   *)
LEMMA LatestSame ==
  ASSUME NEW a, Owned(a)' = Owned(a)
  PROVE  Latest(a)' = Latest(a)
BY DEF Latest

LEMMA SameTurns ==
  ASSUME UNCHANGED turn
  PROVE  /\ \A a \in Agents : Owned(a)' = Owned(a) /\ Latest(a)' = Latest(a)
         /\ \A t \in Turns : Live(t)' <=> Live(t)
<1>1. \A a \in Agents : Owned(a)' = Owned(a)
  BY DEF Owned
<1> QED  BY <1>1, LatestSame DEF Live

LEMMA LatestFacts ==
  ASSUME Types, TurnsOK, NEW a \in Agents
  PROVE  /\ Latest(a) \in Turns \cup {None}
         /\ Owned(a) = {} <=> Latest(a) = None
         /\ Owned(a) # {} => Latest(a) \in Owned(a) /\ Latest(a) \in Turns
         /\ Owned(a) \subseteq Turns
<1>1. Owned(a) \subseteq Turns
  BY DEF Owned
<1>2. CASE Owned(a) = {}
  BY <1>1, <1>2 DEF Latest
<1>3. CASE Owned(a) # {}
  BY <1>1, <1>3, TurnFacts DEF TurnsOK
<1> QED  BY <1>1, <1>2, <1>3

(* An agent that nothing was done to keeps its invariant.                  *)
LEMMA UntouchedKeeps ==
  ASSUME Types, TurnsOK, NEW b \in Agents, AgentOK(b), Untouched(b)
  PROVE  AgentOK(b)'
<1>1. Owned(b)' = Owned(b)
  BY DEF Untouched, Owned
<1>2. Latest(b)' = Latest(b)
  BY <1>1, LatestSame
<1>3. \A t \in Owned(b) : turn'[t] = turn[t] /\ (Live(t)' <=> Live(t)) /\ (Tracks(b, t)' <=> Tracks(b, t))
  BY DEF Untouched, Owned, Live, Tracks
<1>4. \A s : s \in settlers' /\ s.agent = b <=> s \in settlers /\ s.agent = b
  BY DEF Untouched
<1>5. Tracked(b)'
  BY <1>1, <1>2, <1>3, <1>4 DEF AgentOK, Tracked, OnTurn, Untouched, Beyond
<1>6. Settling(b)'
  BY <1>1, <1>2, <1>3, <1>4 DEF AgentOK, Settling, Untouched
<1>7. Calling(b)' /\ Named(b)'
  BY <1>1, <1>2, <1>3, <1>4 DEF AgentOK, Calling, Named, Untouched, TryingFor
<1>8. Following(b)'
  BY <1>1, <1>3 DEF AgentOK, Following, Untold, Untouched
<1>9. Closing(b)' /\ Merging(b)' /\ Spawning(b)'
  BY DEF AgentOK, Closing, Merging, Spawning, Untouched
<1>10. Kept(b)'
  BY <1>1, <1>3 DEF AgentOK, Kept, Untouched
<1> QED  BY <1>5, <1>6, <1>7, <1>8, <1>9, <1>10 DEF AgentOK

-----------------------------------------------------------------------------
(* transitionLocked, for each of its answers.                              *)
LEMMA RecordEffect ==
  ASSUME Types, NEW a \in Agents, NEW to \in Statuses, NEW t \in Turns \cup {None},
         NEW answer \in Answers, Record(a, to, t, answer)
  PROVE  /\ ~hung /\ CanTransition(node[a].status, to)
         /\ \A b \in Agents : b # a =>
              node'[b] = node[b] /\ graph'[b] = graph[b] /\ (b \in ahead' <=> b \in ahead)
                /\ (b \in misled' <=> b \in misled)
         /\ hung' <=> answer = "hung"
         /\ answer = "ok" => node'[a] = Moved(node[a], to, t) /\ a \notin ahead'
         /\ answer # "ok" => node'[a] = node[a]
         /\ answer = "refused" => graph'[a] = graph[a] /\ (a \in ahead' <=> a \in ahead)
         /\ answer # "refused" /\ a \in ahead => graph'[a] = graph[a]
         /\ answer # "refused" /\ a \notin ahead => graph'[a] = Moved(graph[a], to, t)
         /\ answer # "refused" /\ a \notin ahead => CanTransition(graph[a].status, to)
         /\ answer \in {"lost", "hung"} => a \in ahead'
         /\ a \in misled => a \in misled'
         /\ answer = "ok" /\ a \notin misled' => graph'[a] = node'[a]
         /\ answer = "lost" /\ to = "requested" => a \in misled'
         /\ ManagerTypes' /\ budget' \in Budgets
<1>1. ~hung /\ CanTransition(node[a].status, to) /\ hung' = (answer = "hung")
  BY DEF Record
<1>2. node[a] \in Node /\ graph[a] \in Node
  BY DEF Types, ManagerTypes
<1>3. /\ answer = "ok" => node' = [node EXCEPT ![a] = Moved(node[a], to, t)]
      /\ answer # "ok" => node' = node
  BY DEF Record, Remembered
<1>4. /\ answer = "ok" => node'[a] = Moved(node[a], to, t)
      /\ answer # "ok" => node'[a] = node[a]
      /\ \A b \in Agents : b # a => node'[b] = node[b]
      /\ node' \in [Agents -> Node]
  BY <1>2, <1>3, MovedFacts, Updated, Placed DEF Types, ManagerTypes
<1>5. /\ answer = "refused" \/ a \in ahead => graph' = graph
      /\ answer # "refused" /\ a \notin ahead => graph' = [graph EXCEPT ![a] = Moved(graph[a], to, t)]
  BY DEF Record, Projected, AlreadyApplied
<1>6. /\ answer = "refused" \/ a \in ahead => graph'[a] = graph[a]
      /\ answer # "refused" /\ a \notin ahead => graph'[a] = Moved(graph[a], to, t)
      /\ \A b \in Agents : b # a => graph'[b] = graph[b]
      /\ graph' \in [Agents -> Node]
  BY <1>2, <1>5, MovedFacts, Updated, Placed DEF Types, ManagerTypes
<1>7. ahead' = CASE answer = "ok" -> ahead \ {a}
                 [] answer = "refused" -> ahead
                 [] OTHER -> ahead \cup {a}
  BY DEF Record
<1>8. /\ answer = "ok" => a \notin ahead'
      /\ answer = "refused" => (a \in ahead' <=> a \in ahead)
      /\ answer \in {"lost", "hung"} => a \in ahead'
      /\ \A b \in Agents : b # a => (b \in ahead' <=> b \in ahead)
      /\ ahead' \subseteq Agents
  BY <1>7 DEF Answers, Types, ManagerTypes
<1>9. Answered(a, to, answer)
  BY DEF Record
<1>10. /\ answer # "refused" => Accepts(a, to)
       /\ UNCHANGED budget \/ Spend("faults")
  BY <1>9 DEF Answered, Answers
<1>11. answer # "refused" /\ a \notin ahead => CanTransition(graph[a].status, to)
  BY <1>10 DEF Accepts, AlreadyApplied
<1>12. budget' \in Budgets
  BY <1>10, SpendTypes DEF Types, RuntimeTypes
<1>13. hung' \in BOOLEAN /\ (hung' <=> answer = "hung")
  BY <1>1
<1>14. /\ a \in misled => a \in misled'
       /\ answer = "ok" /\ a \notin misled' => graph'[a] = node'[a]
       /\ answer = "lost" /\ to = "requested" => a \in misled'
       /\ \A b \in Agents : b # a => (b \in misled' <=> b \in misled)
       /\ misled' \subseteq Agents
  BY DEF Record, Misleads, Types, ManagerTypes
<1>15. ManagerTypes'
  BY <1>4, <1>6, <1>8, <1>13, <1>14 DEF ManagerTypes
<1> QED  BY <1>1, <1>4, <1>6, <1>8, <1>10, <1>11, <1>12, <1>13, <1>14, <1>15

(* What it leaves of an agent the Manager is not misled about.             *)
LEMMA RecordTrusted ==
  ASSUME Types, NEW a \in Agents, AgentOK(a), NEW to \in Statuses, NEW t \in Turns \cup {None},
         NEW answer \in Answers, Record(a, to, t, answer), a \notin misled'
  PROVE  /\ a \notin misled
         /\ Moved(node[a], to, t) \in Node /\ Moved(node[a], to, t).status = to
         /\ answer = "ok" =>
              /\ node'[a] = Moved(node[a], to, t) /\ graph'[a] = Moved(node[a], to, t)
              /\ a \notin ahead'
         /\ answer = "refused" =>
              node'[a] = node[a] /\ graph'[a] = graph[a] /\ (a \in ahead' <=> a \in ahead)
         /\ answer \in {"lost", "hung"} =>
              /\ node'[a] = node[a] /\ a \in ahead'
              /\ a \in ahead => graph'[a] = graph[a]
              /\ a \notin ahead => graph'[a] = Moved(node[a], to, t)
<1>1. a \notin misled
  BY RecordEffect
<1>2. node[a] \in Node
  BY DEF Types, ManagerTypes
<1>3. a \notin ahead => node[a] = graph[a]
  BY <1>1 DEF AgentOK, Following
<1>4. Moved(node[a], to, t) \in Node /\ Moved(node[a], to, t).status = to
  BY <1>2, MovedFacts
<1>5. /\ answer = "ok" => node'[a] = Moved(node[a], to, t) /\ a \notin ahead' /\ graph'[a] = node'[a]
      /\ answer # "ok" => node'[a] = node[a]
      /\ answer = "refused" => graph'[a] = graph[a] /\ (a \in ahead' <=> a \in ahead)
      /\ answer # "refused" /\ a \in ahead => graph'[a] = graph[a]
      /\ answer # "refused" /\ a \notin ahead => graph'[a] = Moved(graph[a], to, t)
      /\ answer \in {"lost", "hung"} => a \in ahead'
  BY RecordEffect
<1> HIDE DEF Moved
<1> QED  BY <1>1, <1>3, <1>4, <1>5

(* The worktree of an agent that was spawned and is not closed.            *)
LEMMA HasTree ==
  ASSUME NEW a \in Agents, AgentOK(a), a \notin misled, node[a].status \notin {"absent", "closed"}
  PROVE  a \in tree
<1>1. CASE a \in ahead
  BY <1>1 DEF AgentOK, Following, Untold, Named, Kept
<1>2. CASE a \notin ahead
  BY <1>2 DEF AgentOK, Following, Kept
<1> QED  BY <1>1, <1>2

LEMMA IntoActive ==
  ASSUME NEW from \in Statuses, NEW to \in Active, CanTransition(from, to), from \notin Active
  PROVE  to = "starting"
<1>1. to \in Statuses
  BY DEF Statuses
<1>2. CASE from \in Ended
  BY <1>1, <1>2, Transitions DEF Active
<1>3. CASE from \in {"absent", "requested", "integrating", "integrated", "integration_failed",
                     "closed"}
  BY <1>1, <1>3, Transitions DEF Active, Ended
<1> QED  BY <1>2, <1>3 DEF Statuses, Terminal, Active

LEMMA FromPast ==
  ASSUME NEW from \in Past, NEW to \in Statuses, CanTransition(from, to)
  PROVE  to \in Past
BY Transitions DEF Past

LEMMA FromRest ==
  ASSUME NEW from \in Statuses, from \notin Active, NEW to \in Statuses, to \notin Ended,
         CanTransition(from, to)
  PROVE  to \in Early
<1>1. CASE from \in Ended
  BY <1>1, Transitions DEF Early, Past
<1>2. CASE from \notin Ended
  BY <1>2, Transitions DEF Early, Past, Statuses, Terminal, Active
<1> QED  BY <1>1, <1>2

(* What it leaves of the graph, of any agent.                              *)
LEMMA RecordNamed ==
  ASSUME Types, NEW a \in Agents, AgentOK(a), NEW to \in Statuses, NEW t \in Turns \cup {None},
         NEW answer \in Answers, Record(a, to, t, answer), UNCHANGED turn,
         to \in {"running", "waiting"} => t = Latest(a) /\ Owned(a) # {} /\ t # None,
         to \in Ended => node[a].status \in Active /\ \A u \in Owned(a) : ~Live(u),
         call'[a] \in {"entered", "refused"} =>
           \/ answer = "ok" /\ to = "starting" /\ node[a].status \notin Active
           \/ answer = "hung"
  PROVE  Named(a)'
<1>1. /\ Owned(a)' = Owned(a) /\ Latest(a)' = Latest(a) /\ Owned(a) \subseteq Turns
      /\ \A u \in Turns : Live(u)' <=> Live(u)
  BY SameTurns DEF Owned
<1>2. /\ node[a] \in Node /\ graph[a] \in Node /\ node[a].status \in Statuses
      /\ graph[a].status \in Statuses
  BY DEF Types, ManagerTypes, Node
<1>3. /\ Moved(graph[a], to, t).status = to
      /\ Moved(graph[a], to, t).turn = IF t = None THEN graph[a].turn ELSE t
      /\ Moved(node[a], to, t).status = to
  BY <1>2, MovedFacts
<1>4. /\ CanTransition(node[a].status, to) /\ (hung' <=> answer = "hung")
      /\ answer = "ok" => node'[a].status = to /\ a \notin ahead'
      /\ answer # "ok" => node'[a] = node[a]
      /\ graph'[a] = graph[a] \/ (graph'[a].status = to /\ graph'[a].turn = Moved(graph[a], to, t).turn)
      /\ a \in ahead => graph'[a] = graph[a]
      /\ a \notin ahead /\ answer # "refused" => graph'[a].status = to
      /\ answer = "refused" => (a \in ahead' <=> a \in ahead)
      /\ answer \in {"lost", "hung"} => a \in ahead'
      /\ a \in misled => a \in misled'
  BY <1>3, RecordEffect
<1>5. to # "absent"
  BY <1>2, <1>4, Transitions DEF Statuses, Active, Terminal, Ended
<1>6. graph'[a].status \in {"running", "waiting"} =>
        graph'[a].turn = Latest(a)' /\ Owned(a)' # {}
  BY <1>1, <1>3, <1>4 DEF AgentOK, Named
<1>7. node[a].status \notin Active => to \in Early
  BY <1>2, <1>4, FromRest
<1>8. a \in ahead' /\ node'[a].status \notin Active => graph'[a].status \in Early
  BY <1>4, <1>7 DEF AgentOK, Named, Answers
<1>9. call'[a] \in {"entered", "refused"} => graph'[a].status \in Early \/ hung'
  BY <1>4, <1>7 DEF AgentOK, Named
<1>10. (\E u \in Owned(a)' : Live(u)') => graph'[a].status \in Early \cup {"running", "waiting"}
  <2> SUFFICES ASSUME \E u \in Owned(a)' : Live(u)', graph'[a] # graph[a]
               PROVE  graph'[a].status \in Early \cup {"running", "waiting"}
    BY <1>1 DEF AgentOK, Named
  <2>1. graph'[a].status = to /\ to \notin Ended
    BY <1>1, <1>4
  <2>2. node[a].status \in Active => to \in {"running", "waiting"}
    BY <1>4, <2>1, Transitions DEF Active
  <2> QED  BY <1>7, <2>1, <2>2
<1>11. a \in ahead' \cup misled' => graph'[a].status # "absent"
  <2>1. CASE answer = "refused"
    <3>1. a \in misled' => a \in misled
      BY <2>1 DEF Record, Misleads
    <3> QED  BY <1>4, <1>5, <2>1, <3>1 DEF AgentOK, Named
  <2>2. CASE answer # "refused"
    BY <1>4, <1>5, <2>2 DEF AgentOK, Named
  <2> QED  BY <2>1, <2>2
<1> QED  BY <1>6, <1>8, <1>9, <1>10, <1>11 DEF Named

-----------------------------------------------------------------------------
(* One agent at a time.                                                    *)
Base == Types /\ TurnsOK /\ \A b \in Agents : AgentOK(b)

LEMMA ByAgent ==
  ASSUME Base, NEW a \in Agents, AgentOK(a)',
         \A b \in Agents : b # a => Untouched(b)
  PROVE  \A b \in Agents : AgentOK(b)'
BY UntouchedKeeps DEF Base

(* What the Manager and the Runner know of an agent's turn is not touched. *)
LEMMA RunFrame ==
  ASSUME Types, NEW a \in Agents, AgentOK(a), UNCHANGED <<settlers, turn>>,
         node'[a] = node[a], graph'[a] = graph[a], a \in ahead' <=> a \in ahead,
         call'[a] = call[a], track'[a] = track[a], hung => hung', a \in misled' <=> a \in misled,
         a \notin misled /\ a \in ahead =>
           /\ a \in tree => a \in tree'
           /\ merge'[a] = merge[a] \/ graph[a].status # "integrating"
  PROVE  Tracked(a)' /\ Settling(a)' /\ Calling(a)' /\ Named(a)' /\ Following(a)'
<1>1. Owned(a)' = Owned(a) /\ Latest(a)' = Latest(a) /\ \A t \in Turns : Live(t)' <=> Live(t)
  BY SameTurns
<1>2. Owned(a) \subseteq Turns
  BY DEF Owned
<1>3. Tracked(a)'
  BY <1>1, <1>2 DEF AgentOK, Tracked, OnTurn, Tracks, Beyond
<1>4. Settling(a)'
  BY <1>1 DEF AgentOK, Settling
<1>5. Calling(a)'
  BY <1>1 DEF AgentOK, Calling, TryingFor
<1>6. Named(a)'
  BY <1>1, <1>2 DEF AgentOK, Named
<1>7. Following(a)'
  BY <1>1, <1>2 DEF AgentOK, Following, Untold
<1> QED  BY <1>3, <1>4, <1>5, <1>6, <1>7

(* A transition of an agent that holds no slot and whose calls it suits.    *)
QuietRecord(a, to, t, answer) ==
  /\ node[a].status \notin Active /\ to \notin Ended
  /\ Record(a, to, t, answer) /\ UNCHANGED <<settlers, turn, track, tree>>
  /\ call'[a] \in {"entered", "refused"} => answer = "ok" /\ to = "starting"
  /\ call'[a] = "accepted" => call[a] = "accepted" /\ to \notin {"absent", "closed"}
  /\ answer # "ok" => merge'[a] \in {merge[a], "none"} /\ (to = "integrating" => merge'[a] = "none")

(* No turn of it runs, unless the Manager was misled about it.             *)
LEMMA RecordQuiet ==
  ASSUME Types, TurnsOK, NEW a \in Agents, AgentOK(a),
         NEW to \in Statuses, NEW t \in Turns \cup {None}, NEW answer \in Answers,
         QuietRecord(a, to, t, answer)
  PROVE  Tracked(a)' /\ Settling(a)' /\ Calling(a)' /\ Named(a)' /\ Following(a)'
<1>0. /\ node[a].status \notin Active /\ to \notin Ended
      /\ Record(a, to, t, answer) /\ UNCHANGED <<settlers, turn, track, tree>>
      /\ call'[a] \in {"entered", "refused"} => answer = "ok" /\ to = "starting"
      /\ call'[a] = "accepted" => call[a] = "accepted" /\ to \notin {"absent", "closed"}
      /\ answer # "ok" => merge'[a] \in {merge[a], "none"} /\ (to = "integrating" => merge'[a] = "none")
  BY DEF QuietRecord
<1>1. ~hung /\ CanTransition(node[a].status, to)
  BY <1>0 DEF Record
<1>2. node[a].status \in Statuses /\ node[a] \in Node /\ graph[a] \in Node
  BY DEF Types, ManagerTypes, Node
<1>3. track[a].at # "live" /\ \A s \in settlers : ~TryingFor(s, a)
  BY <1>0 DEF AgentOK, Tracked, OnTurn, Settling, TryingFor
<1>4. Owned(a)' = Owned(a) /\ Latest(a)' = Latest(a) /\ (\A u \in Turns : Live(u)' <=> Live(u))
      /\ Owned(a) \subseteq Turns
  BY <1>0, SameTurns DEF Owned
<1>5. to \notin {"running", "waiting"}
  BY <1>0, <1>1, <1>2, IntoActive DEF Active
<1>6. /\ node'[a] = node[a] \/ node'[a].status = to
      /\ graph'[a] = graph[a] \/ graph'[a].status = to
      /\ a \in misled => a \in misled'
      /\ answer = "ok" => a \notin ahead' /\ node'[a].status = to
      /\ answer # "ok" => node'[a] = node[a]
  BY <1>0, <1>2, MovedFacts, RecordEffect
<1>7. Tracked(a)'
  <2>1. Beyond(a) => Beyond(a)'
    BY <1>1, <1>6, FromPast DEF Beyond
  <2> QED  BY <1>0, <1>3, <1>4, <2>1 DEF AgentOK, Tracked, Tracks
<1>8. Settling(a)'
  BY <1>0, <1>3, <1>4 DEF AgentOK, Settling, TryingFor
<1>9. Calling(a)'
  BY <1>0, <1>3, <1>4, <1>6 DEF AgentOK, Calling, TryingFor
<1>10. Named(a)'
  BY <1>0, <1>5, RecordNamed
<1>11. Following(a)'
  <2> SUFFICES ASSUME a \notin misled' PROVE Following(a)'
    BY DEF Following
  <2>1. a \notin misled /\ \A u \in Owned(a) : ~Live(u)
    BY <1>3, <1>6 DEF AgentOK, Tracked, Tracks, Beyond
  <2>2. CASE answer = "ok"
    BY <1>0, <2>2, RecordTrusted DEF Following
  <2>3. CASE answer # "ok" /\ a \in ahead
    <3>1. node'[a] = node[a] /\ graph'[a] = graph[a] /\ a \in ahead'
      BY <1>0, <2>3, RecordTrusted DEF Answers
    <3> QED  BY <1>0, <1>4, <2>1, <2>3, <3>1 DEF AgentOK, Following, Untold
  <2>4. CASE answer = "refused" /\ a \notin ahead
    BY <1>0, <2>1, <2>4, RecordTrusted DEF AgentOK, Following
  <2>5. CASE answer \in {"lost", "hung"} /\ a \notin ahead
    <3>1. node'[a] = node[a] /\ graph'[a].status = to /\ a \in ahead'
      BY <1>0, <2>5, RecordTrusted
    <3>2. to = "closed" => a \in tree
      <4>1. to = "closed" => node[a].status \notin {"absent", "closed"}
        BY <1>1, Transitions DEF Statuses, Terminal
      <4> QED  BY <2>1, <4>1, HasTree
    <3> QED  BY <1>0, <1>1, <1>4, <2>1, <2>5, <3>1, <3>2 DEF Following, Untold
  <2> QED  BY <2>2, <2>3, <2>4, <2>5 DEF Answers
<1> QED  BY <1>7, <1>8, <1>9, <1>10, <1>11

(* What a transition of an agent that was spawned leaves of the rest.      *)
LEMMA RecordRest ==
  ASSUME Types, NEW a \in Agents, AgentOK(a),
         NEW to \in Statuses, NEW t \in Turns \cup {None}, NEW answer \in Answers,
         Record(a, to, t, answer), to \notin {"absent", "requested"}, Named(a)',
         spawning'[a] = spawning[a], a \in alloc' <=> a \in alloc, a \in tree' <=> a \in tree,
         UNCHANGED turn
  PROVE  /\ Spawning(a)'
         /\ (call'[a] # "none" => call[a] # "none" \/ a \in tree \/ a \in misled)
              /\ (merge'[a] # "none" => merge[a] # "none" \/ a \in tree \/ a \in misled)
            => Kept(a)'
<1>1. /\ CanTransition(node[a].status, to) /\ node[a].status # "absent"
      /\ \/ graph'[a] = graph[a]
         \/ graph'[a].status = to /\ CanTransition(graph[a].status, to)
      /\ node'[a] = node[a] \/ node'[a].status = to
      /\ a \in misled => a \in misled'
  BY RecordEffect, MovedFacts, Transitions DEF Types, ManagerTypes
<1>2. graph[a].status # graph'[a].status => graph[a].status \notin {"absent", "closed"} /\ graph'[a].status = to
  BY <1>1, Transitions
<1>3. spawning[a] \notin {"allocated", "provisioned", "discarding"}
  BY <1>1 DEF AgentOK, Spawning
<1>4. Spawning(a)'
  BY <1>1, <1>2, <1>3 DEF AgentOK, Spawning
<1>5. Owned(a)' = Owned(a) /\ (\A u \in Turns : Live(u)' <=> Live(u)) /\ Owned(a) \subseteq Turns
  BY SameTurns DEF Owned
<1>6. merge[a] # "none" => merge[a] \in {"begun", "committed", "applied", "undone"}
  BY DEF Types, WorkTypes, Merges
<1> QED  BY <1>1, <1>2, <1>4, <1>5, <1>6 DEF AgentOK, Kept

-----------------------------------------------------------------------------
(* Spawn.                                                                  *)

LEMMA SpawnAllocateStep ==
  ASSUME Base, NEW a \in Agents, SpawnAllocate(a)
  PROVE  Types' /\ \A b \in Agents : AgentOK(b)'
<1> USE DEF Base
<1>1. /\ UNCHANGED <<node, graph, ahead, hung, misled, tree, call, track, settlers, failing, closing,
                     merge, applied, turn, canceled, queue>>
      /\ ~hung /\ spawning[a] = "none" /\ node[a].status = "absent"
      /\ \/ /\ alloc' = alloc \cup {a} /\ spawning' = [spawning EXCEPT ![a] = "allocated"]
            /\ UNCHANGED budget
         \/ /\ Spend("faults") /\ spawning' = [spawning EXCEPT ![a] = "abandoned"]
            /\ UNCHANGED alloc
  BY DEF SpawnAllocate, managerVars, spawnRest
<1>2. Types'
  <2>1. spawning' \in [Agents -> Spawns] /\ alloc' \subseteq Agents
    BY <1>1, Updated DEF Types, WorkTypes, Spawns
  <2>2. budget' \in Budgets
    BY <1>1, SpendTypes DEF Types, RuntimeTypes
  <2> QED  BY <1>1, <2>1, <2>2 DEF Types, ManagerTypes, WorkTypes, RunnerTypes, RuntimeTypes
<1>3. /\ \A b \in Agents : b # a => spawning'[b] = spawning[b]
      /\ \A b \in Agents : b # a => (b \in alloc' <=> b \in alloc)
      /\ a \in alloc => a \in alloc'
      /\ (spawning'[a] = "allocated" /\ a \in alloc') \/ spawning'[a] = "abandoned"
  BY <1>1, Placed DEF Types, WorkTypes
<1>4. \A b \in Agents : b # a => Untouched(b)
  BY <1>1, <1>3 DEF Untouched
<1>5. a \in misled \/ graph[a] = node[a]
  BY <1>1 DEF AgentOK, Following, Spawning
<1>6. Tracked(a)' /\ Settling(a)' /\ Calling(a)' /\ Named(a)' /\ Following(a)'
  BY <1>1, RunFrame
<1>7. Closing(a)' /\ Merging(a)' /\ Spawning(a)'
  BY <1>1, <1>3, <1>5 DEF AgentOK, Closing, Merging, Spawning
<1>8. Kept(a)'
  BY <1>1, <1>3, SameTurns DEF AgentOK, Kept, Owned
<1> QED  BY <1>2, <1>4, <1>6, <1>7, <1>8, ByAgent DEF AgentOK

LEMMA SpawnProvisionStep ==
  ASSUME Base, NEW a \in Agents, SpawnProvision(a)
  PROVE  Types' /\ \A b \in Agents : AgentOK(b)'
<1> USE DEF Base
<1>1. /\ UNCHANGED <<node, graph, ahead, hung, misled, call, track, settlers, failing, closing,
                     merge, applied, turn, canceled, queue>>
      /\ spawning[a] = "allocated"
      /\ \/ /\ tree' = tree \cup {a} /\ spawning' = [spawning EXCEPT ![a] = "provisioned"]
            /\ UNCHANGED <<alloc, budget>>
         \/ /\ Spend("faults") /\ spawning' = [spawning EXCEPT ![a] = "abandoned"]
            /\ alloc' = alloc \ {a} /\ UNCHANGED tree
  BY DEF SpawnProvision, managerVars, spawnRest
<1>2. Types'
  <2>1. spawning' \in [Agents -> Spawns] /\ alloc' \subseteq Agents /\ tree' \subseteq Agents
    BY <1>1, Updated DEF Types, WorkTypes, Spawns
  <2>2. budget' \in Budgets
    BY <1>1, SpendTypes DEF Types, RuntimeTypes
  <2> QED  BY <1>1, <2>1, <2>2 DEF Types, ManagerTypes, WorkTypes, RunnerTypes, RuntimeTypes
<1>3. /\ \A b \in Agents : b # a => spawning'[b] = spawning[b]
      /\ \A b \in Agents : b # a => (b \in alloc' <=> b \in alloc) /\ (b \in tree' <=> b \in tree)
      /\ \/ spawning'[a] = "provisioned" /\ a \in tree' /\ alloc' = alloc
         \/ spawning'[a] = "abandoned" /\ tree' = tree
  BY <1>1, Placed DEF Types, WorkTypes
<1>4. \A b \in Agents : b # a => Untouched(b)
  BY <1>1, <1>3 DEF Untouched
<1>5. /\ node[a].status = "absent" /\ a \in alloc
      /\ a \in misled \/ (graph[a].status = "absent" /\ a \notin tree)
      /\ a \in misled => graph[a].status # "absent"
  BY <1>1 DEF AgentOK, Spawning, Named
<1>6. Tracked(a)' /\ Settling(a)' /\ Calling(a)' /\ Named(a)' /\ Following(a)'
  BY <1>1, <1>3, RunFrame
<1>7. Closing(a)' /\ Merging(a)' /\ Spawning(a)'
  BY <1>1, <1>3, <1>5 DEF AgentOK, Closing, Merging, Spawning
<1>8. Kept(a)'
  BY <1>1, <1>3, <1>5, SameTurns DEF AgentOK, Kept, Owned
<1> QED  BY <1>2, <1>4, <1>6, <1>7, <1>8, ByAgent DEF AgentOK

LEMMA SpawnDiscardStep ==
  ASSUME Base, NEW a \in Agents, SpawnDiscard(a)
  PROVE  Types' /\ \A b \in Agents : AgentOK(b)'
<1> USE DEF Base
<1>1. /\ UNCHANGED <<node, graph, ahead, hung, misled, call, track, settlers, failing, closing,
                     merge, applied, turn, canceled, queue>>
      /\ spawning[a] = "discarding" /\ spawning' = [spawning EXCEPT ![a] = "abandoned"]
      /\ \/ tree' = tree \ {a} /\ alloc' = alloc \ {a} /\ UNCHANGED budget
         \/ Spend("faults") /\ UNCHANGED <<tree, alloc>>
  BY DEF SpawnDiscard, managerVars, spawnRest
<1>2. Types'
  <2>1. spawning' \in [Agents -> Spawns] /\ alloc' \subseteq Agents /\ tree' \subseteq Agents
    BY <1>1, Updated DEF Types, WorkTypes, Spawns
  <2>2. budget' \in Budgets
    BY <1>1, SpendTypes DEF Types, RuntimeTypes
  <2> QED  BY <1>1, <2>1, <2>2 DEF Types, ManagerTypes, WorkTypes, RunnerTypes, RuntimeTypes
<1>3. /\ \A b \in Agents : b # a => spawning'[b] = spawning[b]
      /\ \A b \in Agents : b # a => (b \in alloc' <=> b \in alloc) /\ (b \in tree' <=> b \in tree)
      /\ spawning'[a] = "abandoned"
      /\ (a \notin tree' /\ a \notin alloc') \/ (tree' = tree /\ alloc' = alloc)
  BY <1>1, Placed DEF Types, WorkTypes
<1>4. \A b \in Agents : b # a => Untouched(b)
  BY <1>1, <1>3 DEF Untouched
<1>5. /\ node[a].status = "absent" /\ (a \in misled \/ graph[a].status = "absent")
      /\ a \in ahead \cup misled => graph[a].status # "absent"
  BY <1>1 DEF AgentOK, Spawning, Named
<1>6. call[a] = "none" /\ merge[a] = "none" /\ \A t \in Owned(a) : ~Live(t)
  BY <1>5 DEF AgentOK, Calling, Merging, Tracked, Tracks, OnTurn, Active, Beyond, Past,
              Types, WorkTypes, CallStates
<1>7. Tracked(a)' /\ Settling(a)' /\ Calling(a)' /\ Named(a)' /\ Following(a)'
  BY <1>1, <1>5, RunFrame
<1>8. Closing(a)' /\ Merging(a)' /\ Spawning(a)'
  BY <1>1, <1>3, <1>5 DEF AgentOK, Closing, Merging, Spawning
<1>9. Kept(a)'
  BY <1>1, <1>3, <1>5, <1>6, SameTurns DEF AgentOK, Kept, Owned
<1> QED  BY <1>2, <1>4, <1>7, <1>8, <1>9, ByAgent DEF AgentOK

LEMMA SpawnParentGoneStep ==
  ASSUME Base, NEW a \in Agents, SpawnParentGone(a)
  PROVE  Types' /\ \A b \in Agents : AgentOK(b)'
<1> USE DEF Base
<1>1. /\ UNCHANGED <<node, graph, ahead, hung, misled, alloc, tree, budget, call, track, settlers,
                     failing, closing, merge, applied, turn, canceled, queue>>
      /\ ~hung /\ spawning[a] = "provisioned" /\ spawning' = [spawning EXCEPT ![a] = "discarding"]
  BY DEF SpawnParentGone, managerVars, spawnRest
<1>2. spawning' \in [Agents -> Spawns]
  BY <1>1, Updated DEF Types, WorkTypes, Spawns
<1>3. spawning'[a] = "discarding" /\ \A b \in Agents : b # a => spawning'[b] = spawning[b]
  BY <1>1, Placed DEF Types, WorkTypes
<1>4. Types'
  BY <1>1, <1>2 DEF Types, ManagerTypes, WorkTypes, RunnerTypes, RuntimeTypes
<1>5. \A b \in Agents : b # a => Untouched(b)
  BY <1>1, <1>3 DEF Untouched
<1>6. Tracked(a)' /\ Settling(a)' /\ Calling(a)' /\ Named(a)' /\ Following(a)'
  BY <1>1, RunFrame
<1>7. Closing(a)' /\ Merging(a)' /\ Spawning(a)'
  BY <1>1, <1>3 DEF AgentOK, Closing, Merging, Spawning
<1>8. Kept(a)'
  BY <1>1, SameTurns DEF AgentOK, Kept, Owned
<1> QED  BY <1>4, <1>5, <1>6, <1>7, <1>8, ByAgent DEF AgentOK

LEMMA SpawnCommitStep ==
  ASSUME Base, NEW a \in Agents, SpawnCommit(a)
  PROVE  Types' /\ \A b \in Agents : AgentOK(b)'
<1> USE DEF Base
<1>0. "requested" \in Statuses
  BY DEF Statuses
<1>1. PICK answer \in Answers :
        /\ Record(a, "requested", None, answer)
        /\ alloc' = IF answer = "ok" THEN alloc \ {a} ELSE alloc
        /\ spawning' = [spawning EXCEPT ![a] =
                          CASE answer = "ok" -> "none"
                            [] answer = "hung" -> "provisioned"
                            [] OTHER -> "discarding"]
  BY DEF SpawnCommit
<1>2. /\ UNCHANGED <<tree, call, track, settlers, failing, closing, merge, applied,
                     turn, canceled, queue>>
      /\ spawning[a] = "provisioned" /\ "requested" \notin Ended
  BY DEF SpawnCommit, spawnRest, Ended
<1>3. /\ answer = "ok" => spawning'[a] = "none"
      /\ answer = "hung" => spawning'[a] = "provisioned"
      /\ answer \notin {"ok", "hung"} => spawning'[a] = "discarding"
      /\ spawning' \in [Agents -> Spawns]
      /\ \A b \in Agents : b # a => spawning'[b] = spawning[b]
  <2> DEFINE v == CASE answer = "ok" -> "none"
                   [] answer = "hung" -> "provisioned"
                   [] OTHER -> "discarding"
  <2>1. /\ answer = "ok" => v = "none"
        /\ answer = "hung" => v = "provisioned"
        /\ answer \notin {"ok", "hung"} => v = "discarding"
        /\ v \in Spawns
    BY DEF Spawns
  <2>2. spawning' = [spawning EXCEPT ![a] = v]
    BY <1>1
  <2> HIDE DEF v
  <2> QED  BY <2>1, <2>2, Updated, Placed DEF Types, WorkTypes
<1>4. Types'
  <2>1. ManagerTypes' /\ budget' \in Budgets
    BY <1>0, <1>1, RecordEffect
  <2> QED  BY <1>1, <1>2, <1>3, <2>1 DEF Types, WorkTypes, RunnerTypes, RuntimeTypes
<1>5. \A b \in Agents : b # a => Untouched(b)
  BY <1>0, <1>1, <1>2, <1>3, RecordEffect DEF Untouched
<1>6. node[a].status = "absent" /\ a \in alloc /\ (a \in misled \/ a \in tree) /\ call[a] = "none"
      /\ merge[a] = "none"
  BY <1>2 DEF AgentOK, Spawning, Calling, Merging, Types, WorkTypes, CallStates
<1>7. Tracked(a)' /\ Settling(a)' /\ Calling(a)' /\ Named(a)' /\ Following(a)'
  <2>1. QuietRecord(a, "requested", None, answer)
    BY <1>1, <1>2, <1>6 DEF QuietRecord, Active
  <2> QED  BY <1>0, <1>1, <2>1, RecordQuiet
<1>8. /\ hung' <=> answer = "hung"
      /\ answer # "ok" => node'[a] = node[a]
      /\ a \in misled => a \in misled'
      /\ answer = "lost" => a \in misled'
  BY <1>0, <1>1, RecordEffect
<1>9. Closing(a)' /\ Merging(a)'
  BY <1>2, <1>6, <1>7, <1>8 DEF AgentOK, Closing, Merging
<1>10. a \notin misled' =>
         /\ answer = "ok" => graph'[a].status = "requested" /\ a \notin ahead'
         /\ answer = "refused" => /\ graph'[a] = graph[a] /\ (a \in ahead' <=> a \in ahead)
                                  /\ a \in misled \/ graph[a].status = "absent"
         /\ answer = "hung" => graph'[a].status = "requested"
  <2> SUFFICES ASSUME a \notin misled'
               PROVE  /\ answer = "ok" => graph'[a].status = "requested" /\ a \notin ahead'
                      /\ answer = "refused" => /\ graph'[a] = graph[a] /\ (a \in ahead' <=> a \in ahead)
                                               /\ graph[a].status = "absent"
                      /\ answer = "hung" => graph'[a].status = "requested"
    OBVIOUS
  <2>1. ~hung /\ a \notin misled
    BY <1>1, <1>8 DEF Record
  <2>2. graph[a].status = "absent" /\ a \notin ahead
    BY <1>2, <1>6, <2>1 DEF AgentOK, Spawning
  <2> QED  BY <1>0, <1>1, <2>2, RecordTrusted
<1>11. Spawning(a)'
  <2>1. CASE answer = "ok"
    <3>1. node'[a].status = "requested"
      BY <1>0, <1>1, <2>1, MovedFacts, RecordEffect DEF Types, ManagerTypes
    <3> QED  BY <1>3, <1>10, <2>1, <3>1 DEF Spawning
  <2>2. CASE answer = "refused"
    <3>1. a \notin misled' => a \notin misled /\ a \notin ahead'
      BY <1>1, <1>2, <1>6, <1>8, <1>10, <2>2 DEF AgentOK, Spawning, Record
    <3> QED  BY <1>1, <1>2, <1>3, <1>6, <1>8, <1>10, <2>2, <3>1 DEF Spawning
  <2>3. CASE answer = "lost"
    BY <1>1, <1>3, <1>6, <1>8, <2>3 DEF Spawning
  <2>4. CASE answer = "hung"
    BY <1>1, <1>2, <1>3, <1>6, <1>8, <1>10, <2>4 DEF Spawning
  <2> QED  BY <2>1, <2>2, <2>3, <2>4 DEF Answers
<1>12. Kept(a)'
  <2>1. a \in tree => graph'[a].status # "absent" \/ a \in alloc'
    <3>1. answer = "ok" => graph'[a].status # "absent"
      BY <1>7, <1>10 DEF Named
    <3> QED  BY <1>1, <1>6, <3>1
  <2> QED  BY <1>2, <1>6, <1>8, <2>1 DEF Kept
<1> QED  BY <1>4, <1>5, <1>7, <1>9, <1>11, <1>12, ByAgent DEF AgentOK

-----------------------------------------------------------------------------
(* Cancel and close.                                                       *)

LEMMA AllUntouched ==
  ASSUME Base, \A b \in Agents : Untouched(b)
  PROVE  \A b \in Agents : AgentOK(b)'
BY UntouchedKeeps DEF Base

LEMMA CancelTurnStep ==
  ASSUME Base, NEW a \in Agents, CancelTurn(a)
  PROVE  Types' /\ \A b \in Agents : AgentOK(b)'
<1> USE DEF Base
<1>1. UNCHANGED <<node, graph, ahead, hung, misled, spawning, alloc, tree, call, track, settlers,
                  failing, closing, merge, applied, turn, queue, budget>>
  BY DEF CancelTurn, cancelRest, managerVars
<1>2. track[a].at = "live"
  BY DEF CancelTurn
<1>3. track[a].turn \in Turns
  BY <1>2, LatestFacts DEF AgentOK, Tracked
<1>4. canceled' \subseteq Turns
  BY <1>3 DEF CancelTurn, Canceled, Types, RuntimeTypes
<1>5. Types'
  BY <1>1, <1>4 DEF Types, ManagerTypes, WorkTypes, RunnerTypes, RuntimeTypes
<1>6. \A b \in Agents : Untouched(b)
  BY <1>1 DEF Untouched
<1> QED  BY <1>5, <1>6, AllUntouched

(* A step of CloseContext that records nothing.                            *)
LEMMA CloseMoves ==
  ASSUME Base, NEW a \in Agents, NEW v \in Closes, At(closing, a, v),
         UNCHANGED <<closeRest, managerVars, tree>>,
         canceled' \subseteq Turns, budget' \in Budgets,
         v # "discarding", v \in {"canceling", "settling"} => call[a] = "none"
  PROVE  Types' /\ \A b \in Agents : AgentOK(b)'
<1> USE DEF Base
<1>1. UNCHANGED <<node, graph, ahead, hung, misled, spawning, alloc, tree, call, track, settlers,
                  failing, merge, applied, turn, queue>>
  BY DEF closeRest, managerVars
<1>2. closing' \in [Agents -> Closes]
  BY Updated DEF Types, WorkTypes, At
<1>3. closing'[a] = v /\ \A b \in Agents : b # a => closing'[b] = closing[b]
  BY Placed DEF Types, WorkTypes, At
<1>4. Types'
  BY <1>1, <1>2 DEF Types, ManagerTypes, WorkTypes, RunnerTypes, RuntimeTypes
<1>5. \A b \in Agents : b # a => Untouched(b)
  BY <1>1, <1>3 DEF Untouched
<1>6. Tracked(a)' /\ Settling(a)' /\ Calling(a)' /\ Named(a)' /\ Following(a)'
  BY <1>1, RunFrame
<1>7. Closing(a)' /\ Merging(a)' /\ Spawning(a)'
  BY <1>1, <1>3 DEF AgentOK, Closing, Merging, Spawning
<1>8. Kept(a)'
  BY <1>1, SameTurns DEF AgentOK, Kept, Owned
<1> QED  BY <1>4, <1>5, <1>6, <1>7, <1>8, ByAgent DEF AgentOK

LEMMA CloseBeginStep ==
  ASSUME Base, NEW a \in Agents, CloseBegin(a)
  PROVE  Types' /\ \A b \in Agents : AgentOK(b)'
<1>1. /\ At(closing, a, "fenced") /\ UNCHANGED <<closeRest, managerVars, tree>>
      /\ UNCHANGED <<canceled, budget>>
  BY DEF CloseBegin
<1>2. canceled' \subseteq Turns /\ budget' \in Budgets /\ "fenced" \in Closes
  BY <1>1 DEF Base, Types, RuntimeTypes, Closes
<1> QED  BY <1>1, <1>2, CloseMoves

LEMMA CloseInterruptStep ==
  ASSUME Base, NEW a \in Agents, CloseInterrupt(a)
  PROVE  Types' /\ \A b \in Agents : AgentOK(b)'
<1>1. /\ At(closing, a, "none") \/ At(closing, a, "canceling")
      /\ UNCHANGED <<closeRest, managerVars, tree>>
      /\ UNCHANGED <<canceled, budget>> /\ call[a] = "none"
  BY DEF CloseInterrupt
<1>2. /\ canceled' \subseteq Turns /\ budget' \in Budgets
      /\ "none" \in Closes /\ "canceling" \in Closes
  BY <1>1 DEF Base, Types, RuntimeTypes, Closes
<1>3. CASE At(closing, a, "none")
  BY <1>1, <1>2, <1>3, CloseMoves
<1>4. CASE At(closing, a, "canceling")
  BY <1>1, <1>2, <1>4, CloseMoves
<1> QED  BY <1>1, <1>3, <1>4

LEMMA CloseCancelsStep ==
  ASSUME Base, NEW a \in Agents, CloseCancels(a)
  PROVE  Types' /\ \A b \in Agents : AgentOK(b)'
<1> USE DEF Base
<1>1. call[a] = "none"
  BY DEF CloseCancels, AgentOK, Closing
<1>2. UNCHANGED <<closeRest, managerVars, tree>>
  BY DEF CloseCancels
<1>3. At(closing, a, "none") \/ At(closing, a, "settling")
  BY DEF CloseCancels
<1>4. canceled' \subseteq Turns
  <2>1. CASE Cancelable(a)
    <3>1. node[a].turn \in Turns
      BY <2>1, LatestFacts DEF Cancelable, Tracks, AgentOK, Tracked
    <3> QED  BY <3>1 DEF CloseCancels, Canceled, Types, RuntimeTypes
  <2>2. CASE ~Cancelable(a)
    BY <2>2 DEF CloseCancels, Types, RuntimeTypes
  <2> QED  BY <2>1, <2>2
<1>5. budget' \in Budgets
  <2>1. UNCHANGED budget \/ Spend("faults")
    BY DEF CloseCancels
  <2> QED  BY <2>1, SpendTypes DEF Types, RuntimeTypes
<1>6. "none" \in Closes /\ "settling" \in Closes
  BY DEF Closes
<1>7. CASE At(closing, a, "none")
  BY <1>2, <1>4, <1>5, <1>6, <1>7, CloseMoves
<1>8. CASE At(closing, a, "settling")
  BY <1>1, <1>2, <1>4, <1>5, <1>6, <1>8, CloseMoves
<1> QED  BY <1>3, <1>7, <1>8

LEMMA CloseAbortsStep ==
  ASSUME Base, NEW a \in Agents, CloseAborts(a)
  PROVE  Types' /\ \A b \in Agents : AgentOK(b)'
<1>1. /\ At(closing, a, "none") /\ UNCHANGED <<closeRest, managerVars, tree>>
      /\ UNCHANGED <<canceled, budget>>
  BY DEF CloseAborts
<1>2. canceled' \subseteq Turns /\ budget' \in Budgets /\ "none" \in Closes
  BY <1>1 DEF Base, Types, RuntimeTypes, Closes
<1> QED  BY <1>1, <1>2, CloseMoves

LEMMA CloseDiscardsStep ==
  ASSUME Base, NEW a \in Agents, CloseDiscards(a)
  PROVE  Types' /\ \A b \in Agents : AgentOK(b)'
<1> USE DEF Base
<1>1. /\ UNCHANGED <<node, graph, ahead, hung, misled, spawning, alloc, call, track, settlers,
                     failing, merge, applied, turn, queue, canceled>>
      /\ closing[a] = "discarding" /\ At(closing, a, "none")
      /\ \/ tree' = tree \ {a} /\ UNCHANGED budget
         \/ Spend("faults") /\ UNCHANGED tree
  BY DEF CloseDiscards, closeRest, managerVars
<1>2. closing' \in [Agents -> Closes] /\ tree' \subseteq Agents
  BY <1>1, Updated DEF Types, WorkTypes, At, Closes
<1>3. /\ closing'[a] = "none"
      /\ \A b \in Agents : b # a => closing'[b] = closing[b] /\ (b \in tree' <=> b \in tree)
      /\ a \in tree' => a \in tree
  BY <1>1, Placed DEF Types, WorkTypes, At
<1>4. budget' \in Budgets
  BY <1>1, SpendTypes DEF Types, RuntimeTypes
<1>5. Types'
  BY <1>1, <1>2, <1>4 DEF Types, ManagerTypes, WorkTypes, RunnerTypes, RuntimeTypes
<1>6. \A b \in Agents : b # a => Untouched(b)
  BY <1>1, <1>3 DEF Untouched
<1>8. /\ node[a].status = "closed" /\ call[a] = "none" /\ merge[a] = "none"
      /\ a \in misled \/ graph[a].status = "closed"
      /\ a \notin misled => \A t \in Owned(a) : ~Live(t)
  BY <1>1 DEF AgentOK, Closing, Merging, Tracked, Tracks, OnTurn, Active, Beyond
<1>7. Tracked(a)' /\ Settling(a)' /\ Calling(a)' /\ Named(a)' /\ Following(a)'
  <2>1. a \in misled \/ a \notin ahead
    BY <1>8, Transitions DEF AgentOK, Following, Untold, Types, ManagerTypes, Node
  <2> QED  BY <1>1, <2>1, RunFrame
<1>9. Closing(a)' /\ Merging(a)' /\ Spawning(a)'
  BY <1>1, <1>3, <1>8 DEF AgentOK, Closing, Merging, Spawning
<1>10. Kept(a)'
  BY <1>1, <1>3, <1>8, SameTurns DEF AgentOK, Kept, Owned
<1> QED  BY <1>5, <1>6, <1>7, <1>9, <1>10, ByAgent DEF AgentOK

(* closed is recorded, so nothing starts or integrates the agent again     *)
(* while its worktree is removed.                                          *)
LEMMA CloseRecordsStep ==
  ASSUME Base, NEW a \in Agents, CloseRecords(a)
  PROVE  Types' /\ \A b \in Agents : AgentOK(b)'
<1> USE DEF Base
<1>0. call[a] = "none" /\ node[a].status \notin Active
  BY DEF CloseRecords, Quiet, AgentOK, Closing, occupiesSlot
<1>1. UNCHANGED <<spawning, alloc, tree, call, track, settlers, failing, merge, applied,
                  turn, queue, canceled>> /\ closing[a] \in {"fenced", "settling"}
  BY DEF CloseRecords, closeRest, Quiet
<1>2. CASE At(closing, a, "none") /\ UNCHANGED <<managerVars, budget>>
  <2>1. "none" \in Closes /\ canceled' \subseteq Turns /\ budget' \in Budgets
        /\ UNCHANGED <<closeRest, managerVars, tree>>
    BY <1>1, <1>2 DEF Closes, Types, RuntimeTypes, closeRest
  <2> QED  BY <1>2, <2>1, CloseMoves
<1>3. ASSUME NEW answer \in Answers, NEW t \in Turns \cup {None},
             Record(a, "closed", t, answer),
             At(closing, a, CASE answer = "ok" -> "discarding"
                              [] answer = "hung" -> closing[a]
                              [] OTHER -> "none")
      PROVE  Types' /\ \A b \in Agents : AgentOK(b)'
  <2>0. "closed" \in Statuses
    BY DEF Statuses, Terminal
  <2>1. /\ answer = "ok" => closing'[a] = "discarding"
        /\ answer # "ok" => closing'[a] \in {"none", closing[a]}
        /\ closing' \in [Agents -> Closes]
        /\ \A b \in Agents : b # a => closing'[b] = closing[b]
    <3> DEFINE v == CASE answer = "ok" -> "discarding"
                      [] answer = "hung" -> closing[a]
                      [] OTHER -> "none"
    <3>1. /\ answer = "ok" => v = "discarding"
          /\ answer # "ok" => v \in {"none", closing[a]}
          /\ v \in Closes
      BY <1>1 DEF Closes
    <3>2. closing' = [closing EXCEPT ![a] = v]
      BY <1>3 DEF At
    <3> HIDE DEF v
    <3> QED  BY <3>1, <3>2, Updated, Placed DEF Types, WorkTypes
  <2>2. ManagerTypes' /\ budget' \in Budgets /\ CanTransition(node[a].status, "closed")
    BY <1>3, <2>0, RecordEffect
  <2>3. Types'
    BY <1>1, <2>1, <2>2 DEF Types, WorkTypes, RunnerTypes, RuntimeTypes
  <2>4. \A b \in Agents : b # a => Untouched(b)
    BY <1>1, <1>3, <2>0, <2>1, RecordEffect DEF Untouched
  <2>6. merge[a] = "none"
    BY <2>0, <2>2, Transitions DEF AgentOK, Merging
  <2>5. Tracked(a)' /\ Settling(a)' /\ Calling(a)' /\ Named(a)' /\ Following(a)'
    <3>1. /\ call'[a] \in {"entered", "refused"} => answer = "ok" /\ "closed" = "starting"
          /\ call'[a] = "accepted" => call[a] = "accepted" /\ "closed" \notin {"absent", "closed"}
          /\ UNCHANGED <<settlers, turn, track, tree>> /\ merge'[a] = merge[a]
          /\ "closed" \notin Ended
      BY <1>0, <1>1 DEF Ended
    <3>2. QuietRecord(a, "closed", t, answer)
      BY <1>0, <1>3, <2>0, <3>1 DEF QuietRecord
    <3> QED  BY <1>3, <2>0, <3>2, RecordQuiet
  <2>9. answer = "ok" => node'[a].status = "closed" /\ (a \in misled' \/ graph'[a].status = "closed")
    BY <1>3, <2>0, MovedFacts, RecordEffect DEF Types, ManagerTypes
  <2>7. Closing(a)' /\ Merging(a)'
    BY <1>0, <1>1, <2>1, <2>6, <2>9 DEF Closing, Merging
  <2>8. Spawning(a)' /\ Kept(a)'
    BY <1>0, <1>1, <1>3, <2>0, <2>5, <2>6, RecordRest
  <2> QED  BY <2>3, <2>4, <2>5, <2>7, <2>8, ByAgent DEF AgentOK
<1>4. \/ At(closing, a, "none") /\ UNCHANGED <<managerVars, budget>>
      \/ \E answer \in Answers :
           /\ Record(a, "closed", node[a].turn, answer)
           /\ At(closing, a, CASE answer = "ok" -> "discarding"
                               [] answer = "hung" -> closing[a]
                               [] OTHER -> "none")
  BY DEF CloseRecords
<1>5. node[a].turn \in Turns \cup {None}
  BY DEF Types, ManagerTypes, Node
<1> QED  BY <1>2, <1>3, <1>4, <1>5

-----------------------------------------------------------------------------
(* Integration.                                                            *)

LEMMA MergeBeginsStep ==
  ASSUME Base, NEW a \in Agents, MergeBegins(a)
  PROVE  Types' /\ \A b \in Agents : AgentOK(b)'
<1> USE DEF Base
<1>0. "integrating" \in Statuses /\ node[a].turn \in Turns \cup {None}
  BY DEF Statuses, Types, ManagerTypes, Node
<1>1. PICK answer \in Answers, t \in Turns \cup {None} :
        /\ Record(a, "integrating", t, answer)
        /\ merge' = [merge EXCEPT ![a] = IF answer = "ok" THEN "begun" ELSE "none"]
  BY <1>0 DEF MergeBegins, At
<1>2. UNCHANGED <<spawning, alloc, tree, call, track, settlers, failing, closing,
                  turn, canceled, queue, applied>> /\ merge[a] = "none"
  BY DEF MergeBegins, mergeRest
<1>3. /\ merge'[a] = IF answer = "ok" THEN "begun" ELSE "none"
      /\ merge' \in [Agents -> Merges]
      /\ \A b \in Agents : b # a => merge'[b] = merge[b]
  <2>1. (IF answer = "ok" THEN "begun" ELSE "none") \in Merges
    BY DEF Merges
  <2> QED  BY <1>1, <2>1, Updated, Placed DEF Types, WorkTypes
<1>4. /\ ManagerTypes' /\ budget' \in Budgets /\ ~hung
      /\ CanTransition(node[a].status, "integrating")
  BY <1>0, <1>1, RecordEffect
<1>5. Types'
  BY <1>2, <1>3, <1>4 DEF Types, WorkTypes, RunnerTypes, RuntimeTypes
<1>6. \A b \in Agents : b # a => Untouched(b)
  BY <1>0, <1>1, <1>2, <1>3, RecordEffect DEF Untouched
<1>7. node[a].status \notin Active /\ node[a].status \notin {"closed", "absent"}
  BY <1>0, <1>4, Transitions DEF Active
<1>9. a \in tree \/ a \in misled
  BY <1>7, HasTree
<1>10. /\ call'[a] \in {"entered", "refused"} => answer = "ok" /\ "integrating" = "starting"
       /\ call'[a] = "accepted" => call[a] = "accepted" /\ "integrating" \notin {"absent", "closed"}
       /\ UNCHANGED <<settlers, turn, track, tree>> /\ "integrating" \notin Ended
       /\ answer # "ok" => merge'[a] = "none"
  BY <1>2, <1>3, <1>7 DEF AgentOK, Calling, Active, Ended
<1>11. Tracked(a)' /\ Settling(a)' /\ Calling(a)' /\ Named(a)' /\ Following(a)'
  <2>1. QuietRecord(a, "integrating", t, answer)
    BY <1>0, <1>1, <1>7, <1>10 DEF QuietRecord
  <2> QED  BY <1>0, <1>1, <2>1, RecordQuiet
<1>8. answer = "ok" => node'[a].status = "integrating"
  BY <1>0, <1>1, MovedFacts, RecordEffect DEF Types, ManagerTypes
<1>12. Closing(a)' /\ Merging(a)'
  BY <1>2, <1>3, <1>7, <1>8 DEF AgentOK, Closing, Merging
<1>13. Spawning(a)' /\ Kept(a)'
  BY <1>0, <1>1, <1>2, <1>9, <1>11, RecordRest
<1> QED  BY <1>5, <1>6, <1>11, <1>12, <1>13, ByAgent DEF AgentOK

(* The steps of an integration between the fence and its last record.      *)
LEMMA MergeMoves ==
  ASSUME Base, NEW a \in Agents, NEW v \in Merges, merge[a] # "none",
         merge' = [merge EXCEPT ![a] = v],
         UNCHANGED <<mergeRest, node, graph, ahead, misled>>, applied' \subseteq Agents,
         budget' \in Budgets, hung => hung', hung' \in BOOLEAN
  PROVE  Types' /\ \A b \in Agents : AgentOK(b)'
<1> USE DEF Base
<1>1. UNCHANGED <<node, graph, ahead, misled, spawning, alloc, tree, call, track, settlers, failing,
                  closing, turn, canceled, queue>>
  BY DEF mergeRest
<1>2. merge' \in [Agents -> Merges]
  BY Updated DEF Types, WorkTypes
<1>3. merge'[a] = v /\ \A b \in Agents : b # a => merge'[b] = merge[b]
  BY Placed DEF Types, WorkTypes
<1>4. Types'
  BY <1>1, <1>2 DEF Types, ManagerTypes, WorkTypes, RunnerTypes, RuntimeTypes
<1>5. \A b \in Agents : b # a => Untouched(b)
  BY <1>1, <1>3 DEF Untouched
<1>6. Tracked(a)' /\ Settling(a)' /\ Calling(a)' /\ Named(a)' /\ Following(a)'
  <2>1. a \notin misled /\ a \in ahead => graph[a].status # "integrating"
    BY Transitions DEF AgentOK, Merging, Following, Untold, Statuses
  <2> QED  BY <1>1, <2>1, RunFrame
<1>7. Closing(a)' /\ Merging(a)' /\ Spawning(a)'
  BY <1>1 DEF AgentOK, Closing, Merging, Spawning
<1>8. merge[a] \in {"begun", "committed", "applied", "undone"}
  BY DEF Types, WorkTypes, Merges
<1>9. Kept(a)'
  BY <1>1, <1>8, SameTurns DEF AgentOK, Kept, Owned
<1> QED  BY <1>4, <1>5, <1>6, <1>7, <1>9, ByAgent DEF AgentOK

LEMMA MergeCommitsStep ==
  ASSUME Base, NEW a \in Agents, MergeCommits(a)
  PROVE  Types' /\ \A b \in Agents : AgentOK(b)'
<1>1. /\ merge[a] = "begun" /\ UNCHANGED <<mergeRest, node, graph, ahead, misled>>
      /\ UNCHANGED <<applied, hung>>
      /\ UNCHANGED budget \/ Spend("faults")
      /\ \E v \in {"committed", "undone"} : merge' = [merge EXCEPT ![a] = v]
  BY DEF MergeCommits, At, managerVars
<1>2. applied' \subseteq Agents /\ hung' \in BOOLEAN /\ (hung => hung')
  BY <1>1 DEF Base, Types, WorkTypes, ManagerTypes
<1>3. budget' \in Budgets
  BY <1>1, SpendTypes DEF Base, Types, RuntimeTypes
<1>4. PICK v \in Merges : merge' = [merge EXCEPT ![a] = v]
  BY <1>1 DEF Merges
<1>5. merge[a] # "none"
  BY <1>1
<1> QED  BY <1>1, <1>2, <1>3, <1>4, <1>5, MergeMoves

LEMMA MergeSavesReceiptStep ==
  ASSUME Base, NEW a \in Agents, MergeSavesReceipt(a)
  PROVE  Types' /\ \A b \in Agents : AgentOK(b)'
<1>1. /\ merge[a] = "committed" /\ UNCHANGED <<mergeRest, node, graph, ahead, misled>> /\ ~hung
      /\ \/ UNCHANGED <<hung, budget>> /\ applied' = applied \cup {a}
         \/ Spend("faults") /\ applied' \in {applied, applied \cup {a}} /\ UNCHANGED hung
         \/ hung' = TRUE /\ applied' = applied \cup {a} /\ UNCHANGED budget
  BY DEF MergeSavesReceipt
<1>2. applied' \subseteq Agents
  BY <1>1 DEF Base, Types, WorkTypes
<1>3. hung' \in BOOLEAN /\ (hung => hung')
  BY <1>1 DEF Base, Types, ManagerTypes
<1>4. budget' \in Budgets
  BY <1>1, SpendTypes DEF Base, Types, RuntimeTypes
<1>5. merge[a] # "none" /\ merge \in [Agents -> Merges] /\ merge[a] \in Merges
  BY <1>1 DEF Base, Types, WorkTypes
<1>6. merge = [merge EXCEPT ![a] = merge[a]]
  BY <1>5
<1>7. PICK v \in Merges : merge' = [merge EXCEPT ![a] = v]
  BY <1>5, <1>6 DEF MergeSavesReceipt, At, Merges
<1> QED  BY <1>1, <1>2, <1>3, <1>4, <1>5, <1>7, MergeMoves

LEMMA MergeFinishesStep ==
  ASSUME Base, NEW a \in Agents, MergeFinishes(a)
  PROVE  Types' /\ \A b \in Agents : AgentOK(b)'
<1> USE DEF Base
<1>0. node[a].turn \in Turns \cup {None}
  BY DEF Types, ManagerTypes, Node
<1>1. PICK answer \in Answers, to \in {"integrated", "integration_failed"},
           t \in Turns \cup {None} :
        /\ Record(a, to, t, answer)
        /\ merge' = [merge EXCEPT ![a] = IF answer = "hung" THEN merge[a] ELSE "none"]
        /\ applied' = IF answer = "ok" THEN applied \ {a} ELSE applied
  BY <1>0 DEF MergeFinishes, At
<1>2. UNCHANGED <<spawning, alloc, tree, call, track, settlers, failing, closing,
                  turn, canceled, queue>> /\ merge[a] \in {"applied", "undone"}
  BY DEF MergeFinishes, mergeRest
<1>3. /\ merge'[a] = IF answer = "hung" THEN merge[a] ELSE "none"
      /\ merge' \in [Agents -> Merges]
      /\ \A b \in Agents : b # a => merge'[b] = merge[b]
  <2>1. (IF answer = "hung" THEN merge[a] ELSE "none") \in Merges
    BY <1>2 DEF Merges
  <2> QED  BY <1>1, <2>1, Updated, Placed DEF Types, WorkTypes
<1>4. to \in Statuses /\ to \notin {"absent", "requested", "closed", "starting", "integrating"} /\ to \notin Ended
  BY DEF Statuses, Terminal, Ended
<1>5. ManagerTypes' /\ budget' \in Budgets /\ (answer # "ok" => node'[a] = node[a])
  BY <1>1, <1>4, RecordEffect
<1>6. Types'
  BY <1>1, <1>2, <1>3, <1>5 DEF Types, WorkTypes, RunnerTypes, RuntimeTypes
<1>7. \A b \in Agents : b # a => Untouched(b)
  BY <1>1, <1>2, <1>3, <1>4, RecordEffect DEF Untouched
<1>8. node[a].status = "integrating"
  BY <1>2 DEF AgentOK, Merging
<1>9. node[a].status \notin Active /\ call[a] \notin {"entered", "refused"}
  BY <1>8 DEF Active, AgentOK, Calling
<1>10. /\ call'[a] \in {"entered", "refused"} => answer = "ok" /\ to = "starting"
       /\ call'[a] = "accepted" => call[a] = "accepted" /\ to \notin {"absent", "closed"}
       /\ UNCHANGED <<settlers, turn, track, tree>> /\ merge'[a] \in {merge[a], "none"}
  BY <1>2, <1>3, <1>4, <1>9
<1>11. Tracked(a)' /\ Settling(a)' /\ Calling(a)' /\ Named(a)' /\ Following(a)'
  <2>1. QuietRecord(a, to, t, answer)
    BY <1>1, <1>4, <1>9, <1>10 DEF QuietRecord
  <2> QED  BY <1>1, <1>4, <2>1, RecordQuiet
<1>12. Closing(a)' /\ Merging(a)'
  BY <1>2, <1>3, <1>5, <1>8 DEF AgentOK, Closing, Merging
<1>13. merge'[a] # "none" => merge[a] # "none"
  BY <1>2
<1>14. Spawning(a)' /\ Kept(a)'
  BY <1>1, <1>2, <1>4, <1>11, <1>13, RecordRest
<1> QED  BY <1>6, <1>7, <1>11, <1>12, <1>14, ByAgent DEF AgentOK

-----------------------------------------------------------------------------
(* Start.                                                                  *)

LEMMA StartTurnStep ==
  ASSUME Base, NEW a \in Agents, StartTurn(a)
  PROVE  Types' /\ \A b \in Agents : AgentOK(b)'
<1> USE DEF Base
<1>0. "starting" \in Statuses
  BY DEF Statuses, Active
<1>1. PICK answer \in Answers :
        /\ Record(a, "starting", None, answer)
        /\ call' = [call EXCEPT ![a] = IF answer = "ok" THEN "entered" ELSE "none"]
  BY DEF StartTurn
<1>2. UNCHANGED <<spawning, alloc, tree, settlers, failing, closing, merge, applied, canceled,
                  queue, track, turn>> /\ closing[a] = "none" /\ call[a] = "none"
  BY DEF StartTurn, startRest
<1>3. /\ call'[a] = IF answer = "ok" THEN "entered" ELSE "none"
      /\ call' \in [Agents -> CallStates]
      /\ \A b \in Agents : b # a => call'[b] = call[b]
  <2>1. (IF answer = "ok" THEN "entered" ELSE "none") \in CallStates
    BY DEF CallStates
  <2> QED  BY <1>1, <2>1, Updated, Placed DEF Types, WorkTypes
<1>4. /\ ManagerTypes' /\ budget' \in Budgets /\ ~hung
      /\ CanTransition(node[a].status, "starting")
  BY <1>0, <1>1, RecordEffect
<1>5. Types'
  BY <1>2, <1>3, <1>4 DEF Types, WorkTypes, RunnerTypes, RuntimeTypes
<1>6. \A b \in Agents : b # a => Untouched(b)
  BY <1>0, <1>1, <1>2, <1>3, RecordEffect DEF Untouched
<1>7. node[a].status \notin Active /\ node[a].status \notin {"closed", "absent", "integrating"}
  BY <1>0, <1>4, Transitions DEF Active, Ended
<1>8. merge[a] = "none"
  BY <1>7 DEF AgentOK, Merging
<1>9. a \in tree \/ a \in misled
  BY <1>7, HasTree
<1>10. /\ call'[a] \in {"entered", "refused"} => answer = "ok" /\ "starting" = "starting"
       /\ call'[a] = "accepted" => call[a] = "accepted" /\ "starting" \notin {"absent", "closed"}
       /\ UNCHANGED <<settlers, turn, track, tree>> /\ merge'[a] = "none" /\ "starting" \notin Ended
  BY <1>2, <1>3, <1>8 DEF Ended
<1>11. Tracked(a)' /\ Settling(a)' /\ Calling(a)' /\ Named(a)' /\ Following(a)'
  <2>1. QuietRecord(a, "starting", None, answer)
    BY <1>0, <1>1, <1>7, <1>10 DEF QuietRecord
  <2> QED  BY <1>0, <1>1, <2>1, RecordQuiet
<1>12. Closing(a)' /\ Merging(a)'
  BY <1>2, <1>8 DEF Closing, Merging
<1>13. Spawning(a)' /\ Kept(a)'
  BY <1>0, <1>1, <1>2, <1>9, <1>11, RecordRest
<1> QED  BY <1>5, <1>6, <1>11, <1>12, <1>13, ByAgent DEF AgentOK

(* A start that the Runner refused.                                        *)
LEMMA CallRefused ==
  ASSUME Base, NEW a \in Agents, call[a] = "entered", call' = [call EXCEPT ![a] = "refused"],
         UNCHANGED <<startRest, managerVars, track, turn>>, budget' \in Budgets
  PROVE  Types' /\ \A b \in Agents : AgentOK(b)'
<1> USE DEF Base
<1>1. UNCHANGED <<node, graph, ahead, hung, misled, spawning, alloc, tree, settlers, failing, closing,
                  merge, applied, canceled, queue, track, turn>>
  BY DEF startRest, managerVars
<1>2. call' \in [Agents -> CallStates]
  BY Updated DEF Types, WorkTypes, CallStates
<1>3. call'[a] = "refused" /\ \A b \in Agents : b # a => call'[b] = call[b]
  BY Placed DEF Types, WorkTypes
<1>4. Types'
  BY <1>1, <1>2 DEF Types, ManagerTypes, WorkTypes, RunnerTypes, RuntimeTypes
<1>5. \A b \in Agents : b # a => Untouched(b)
  BY <1>1, <1>3 DEF Untouched
<1>6. /\ Owned(a)' = Owned(a) /\ Latest(a)' = Latest(a) /\ Owned(a) \subseteq Turns
      /\ \A t \in Turns : Live(t)' <=> Live(t)
  BY <1>1, SameTurns DEF Owned
<1>7. track[a].at # "live" /\ \A s \in settlers : ~TryingFor(s, a)
  BY DEF AgentOK, Calling
<1>8. Tracked(a)' /\ Settling(a)' /\ Calling(a)'
  BY <1>1, <1>3, <1>6, <1>7 DEF AgentOK, Tracked, Tracks, Beyond, Settling, Calling, TryingFor
<1>9. Named(a)' /\ Following(a)'
  BY <1>1, <1>3, <1>6, <1>7 DEF AgentOK, Named, Following, Untold
<1>10. Closing(a)' /\ Merging(a)' /\ Spawning(a)'
  BY <1>1, <1>3 DEF AgentOK, Closing, Merging, Spawning
<1>11. Kept(a)'
  BY <1>1, <1>3, <1>6 DEF AgentOK, Kept
<1> QED  BY <1>4, <1>5, <1>8, <1>9, <1>10, <1>11, ByAgent DEF AgentOK

LEMMA RunnerRefusesStep ==
  ASSUME Base, NEW a \in Agents, RunnerRefuses(a)
  PROVE  Types' /\ \A b \in Agents : AgentOK(b)'
<1>1. /\ call[a] = "entered" /\ call' = [call EXCEPT ![a] = "refused"]
      /\ UNCHANGED <<startRest, managerVars, track, turn>> /\ UNCHANGED budget
  BY DEF RunnerRefuses
<1>2. budget' \in Budgets
  BY <1>1 DEF Base, Types, RuntimeTypes
<1> QED  BY <1>1, <1>2, CallRefused

(* A turn the runtime has not handed out comes after all those it has.     *)
LEMMA FreshIsLast ==
  ASSUME Types, TurnsOK, NEW a \in Agents, NEW t \in Turns, turn[t] = NoTurn
  PROVE  /\ \A u \in Owned(a) : u < t
         /\ t \notin Owned(a)
<1>1. \A u \in Owned(a) : turn[u] # NoTurn /\ u \in Turns
  BY TurnFacts DEF Owned, NoTurn
<1>2. t \notin Owned(a)
  BY <1>1
<1>3. \A u \in Turns : t < u => (turn[u] = NoTurn)
  BY DEF TurnsOK
<1>4. \A u \in Owned(a) : u \in Nat /\ t \in Nat /\ u # t /\ ~(t < u)
  BY <1>1, <1>2, <1>3, TurnFacts
<1>5. \A u \in Owned(a) : u < t
  BY <1>4
<1> QED  BY <1>2, <1>5

LEMMA Greatest ==
  ASSUME NEW S, S \subseteq Nat, NEW t \in S, \A u \in S : u <= t
  PROVE  (CHOOSE x \in S : \A u \in S : u <= x) = t
<1>1. \A x \in S : (\A u \in S : u <= x) => x = t
  OBVIOUS
<1> QED  BY <1>1

(* The Runner accepts the turn t of the agent.                             *)
AcceptsTurn(a, t) ==
  /\ turn[t] = NoTurn
  /\ turn' = [turn EXCEPT ![t].owner = a, ![t].at = "accepted"]

(* The new turn is the last of its agent.                                  *)
LEMMA NewTurn ==
  ASSUME Types, TurnsOK, NEW a \in Agents, NEW t \in Turns, AcceptsTurn(a, t)
  PROVE  /\ turn'[t].owner = a /\ turn'[t].at = "accepted"
         /\ \A u \in Turns : u # t => turn'[u] = turn[u]
         /\ turn' \in [Turns -> TurnType]
         /\ Owned(a)' = Owned(a) \cup {t} /\ Latest(a)' = t
         /\ \A u \in Owned(a) \cup {t} : u <= t
<1>1. /\ turn'[t].owner = a /\ turn'[t].at = "accepted"
      /\ \A u \in Turns : u # t => turn'[u] = turn[u]
      /\ turn' \in [Turns -> TurnType]
  BY DEF AcceptsTurn, Types, RuntimeTypes, TurnType
<1>2. Owned(a)' = Owned(a) \cup {t}
  BY <1>1 DEF Owned
<1>3. \A u \in Owned(a) \cup {t} : u \in Nat /\ u <= t
  BY FreshIsLast, TurnFacts DEF AcceptsTurn, Owned
<1>4. Latest(a)' = t
  <2>1. Owned(a)' \subseteq Nat /\ t \in Owned(a)' /\ \A u \in Owned(a)' : u <= t
    BY <1>2, <1>3
  <2> DEFINE S == Owned(a)'
  <2>2. (CHOOSE x \in S : \A u \in S : u <= x) = t
    <3> HIDE DEF S
    <3>1. S \subseteq Nat /\ t \in S /\ \A u \in S : u <= t
      BY <2>1 DEF S
    <3> QED  BY <3>1, Greatest
  <2> QED  BY <2>1, <2>2 DEF Latest
<1> QED  BY <1>1, <1>2, <1>3, <1>4

(* The agent's earlier turns have all ended and are settled.               *)
LEMMA RunnerStartStep ==
  ASSUME Base, NEW a \in Agents, RunnerStart(a)
  PROVE  Types' /\ \A b \in Agents : AgentOK(b)'
<1> USE DEF Base
<1>1. /\ UNCHANGED <<startRest, managerVars>> /\ ~hung /\ call[a] = "entered"
      /\ track[a].at = "none"
  BY DEF RunnerStart, PreviousGone
<1>2. CASE /\ Spend("faults") /\ call' = [call EXCEPT ![a] = "refused"]
           /\ UNCHANGED <<turn, track>>
  <2>1. budget' \in Budgets
    BY <1>2, SpendTypes DEF Types, RuntimeTypes
  <2> QED  BY <1>1, <1>2, <2>1, CallRefused
<1>3. ASSUME NEW t \in Turns, turn[t] = NoTurn,
             turn' = [turn EXCEPT ![t].owner = a, ![t].at = "accepted"],
             track' = [track EXCEPT ![a] = [turn |-> t, started |-> FALSE, at |-> "live"]],
             call' = [call EXCEPT ![a] = "accepted"], UNCHANGED budget
      PROVE  Types' /\ \A b \in Agents : AgentOK(b)'
  <2>1. UNCHANGED <<node, graph, ahead, hung, misled, spawning, alloc, tree, settlers, failing, closing,
                    merge, applied, canceled, queue, budget>>
    BY <1>1, <1>3 DEF startRest, managerVars
  <2>2. /\ turn'[t].owner = a /\ turn'[t].at = "accepted"
        /\ \A u \in Turns : u # t => turn'[u] = turn[u]
        /\ turn' \in [Turns -> TurnType]
        /\ Owned(a)' = Owned(a) \cup {t} /\ Latest(a)' = t
    <3>1. AcceptsTurn(a, t)
      BY <1>3 DEF AcceptsTurn
    <3> QED  BY <3>1, NewTurn
  <2>3. /\ track'[a].turn = t /\ track'[a].at = "live"
        /\ \A b \in Agents : b # a => track'[b] = track[b]
        /\ track' \in [Agents -> TrackType]
    <3>1. [turn |-> t, started |-> FALSE, at |-> "live"] \in TrackType
      BY <1>3 DEF TrackType
    <3>2. track'[a] = [turn |-> t, started |-> FALSE, at |-> "live"]
          /\ \A b \in Agents : b # a => track'[b] = track[b]
      BY <1>3, Placed DEF Types, RunnerTypes
    <3> QED  BY <1>3, <3>1, <3>2, Updated DEF Types, RunnerTypes
  <2>4. call'[a] = "accepted" /\ \A b \in Agents : b # a => call'[b] = call[b]
    BY <1>3, Placed DEF Types, WorkTypes
  <2>5. call' \in [Agents -> CallStates]
    BY <1>3, Updated DEF Types, WorkTypes, CallStates
  <2>6. Types'
    BY <2>1, <2>2, <2>3, <2>5 DEF Types, ManagerTypes, WorkTypes, RunnerTypes, RuntimeTypes
  <2>7. \A b \in Agents : b # a => Untouched(b)
    <3> SUFFICES ASSUME NEW b \in Agents, b # a PROVE Untouched(b)
      OBVIOUS
    <3>1. \A u \in Turns : turn[u].owner = b \/ turn'[u].owner = b => turn'[u] = turn[u]
      BY <1>3, <2>2, TurnFacts DEF NoTurn
    <3> QED  BY <2>1, <2>3, <2>4, <3>1 DEF Untouched
  <2>8. /\ node[a].status = "starting" /\ (a \notin ahead \/ a \in misled)
        /\ graph[a].status \in Early
        /\ \A s \in settlers : s.agent # a
    BY <1>1 DEF AgentOK, Calling, Settling, Named
  <2>9. a \in misled \/ (graph[a] = node[a] /\ a \in tree)
    BY <1>1, <2>8 DEF AgentOK, Following, Kept
  <2>10. \A u \in Owned(a)' : Live(u)' => u = t
    BY <1>1, <1>3, <2>2, <2>8 DEF AgentOK, Tracked, Tracks, Beyond, Past, Live, Owned
  <2>11. Tracked(a)'
    BY <2>1, <2>3, <2>4, <2>8, <2>9, <2>2, <2>10 DEF Tracked, OnTurn, Tracks, Active
  <2>15. Named(a)'
    BY <2>1, <2>4, <2>8 DEF AgentOK, Named, Early, Past, Active
  <2>12. Settling(a)' /\ Calling(a)' /\ Following(a)'
    BY <2>1, <2>4, <2>8, <2>2, <2>9 DEF Settling, Calling, Following
  <2>13. Closing(a)' /\ Merging(a)' /\ Spawning(a)'
    BY <1>1, <2>1, <2>4 DEF AgentOK, Closing, Merging, Spawning
  <2>14. Kept(a)'
    BY <2>1, <2>8, <2>9 DEF AgentOK, Kept
  <2> QED  BY <2>6, <2>7, <2>11, <2>12, <2>13, <2>14, <2>15, ByAgent DEF AgentOK
<1>4. \/ \E t \in Turns :
           /\ turn[t] = NoTurn
           /\ turn' = [turn EXCEPT ![t].owner = a, ![t].at = "accepted"]
           /\ track' = [track EXCEPT ![a] = [turn |-> t, started |-> FALSE, at |-> "live"]]
           /\ call' = [call EXCEPT ![a] = "accepted"]
           /\ UNCHANGED budget
      \/ /\ Spend("faults") /\ call' = [call EXCEPT ![a] = "refused"]
         /\ UNCHANGED <<turn, track>>
  BY DEF RunnerStart
<1> QED  BY <1>2, <1>3, <1>4

(* Back under the lock after a refused submission: a result whose message  *)
(* was lost leaves the agent for a restart.                                *)
LEMMA RefusedReturns ==
  ASSUME Base, NEW a \in Agents, call[a] = "refused", NEW answer \in Answers,
         Record(a, "failed", None, answer),
         call' = [call EXCEPT ![a] = IF answer = "hung" THEN call[a] ELSE "none"],
         UNCHANGED <<startRest, track, turn>>
  PROVE  Types' /\ \A b \in Agents : AgentOK(b)'
<1> USE DEF Base
<1>0. "failed" \in Statuses /\ "failed" \notin {"absent", "requested"}
  BY DEF Statuses, Terminal, Ended
<1>1. UNCHANGED <<spawning, alloc, tree, settlers, failing, closing, merge, applied, canceled,
                  queue, track, turn>>
  BY DEF startRest
<1>2. /\ call'[a] = IF answer = "hung" THEN "refused" ELSE "none"
      /\ call' \in [Agents -> CallStates]
      /\ \A b \in Agents : b # a => call'[b] = call[b]
  <2>1. (IF answer = "hung" THEN call[a] ELSE "none") \in CallStates
    BY DEF CallStates
  <2> QED  BY <2>1, Updated, Placed DEF Types, WorkTypes
<1>3. /\ ManagerTypes' /\ budget' \in Budgets /\ ~hung /\ (hung' <=> answer = "hung")
      /\ CanTransition(node[a].status, "failed")
  BY <1>0, RecordEffect
<1>4. Types'
  BY <1>1, <1>2, <1>3 DEF Types, WorkTypes, RunnerTypes, RuntimeTypes
<1>5. \A b \in Agents : b # a => Untouched(b)
  BY <1>0, <1>1, <1>2, RecordEffect DEF Untouched
<1>6. /\ node[a].status = "starting" /\ track[a].at # "live" /\ (a \notin ahead \/ a \in misled)
      /\ \A s \in settlers : ~TryingFor(s, a)
      /\ \A u \in Owned(a) : ~Live(u)
  BY <1>3 DEF AgentOK, Calling, Tracked, Tracks, Beyond, Past
<1>11. /\ Owned(a)' = Owned(a) /\ Latest(a)' = Latest(a) /\ Owned(a) \subseteq Turns
       /\ \A t \in Turns : Live(t)' <=> Live(t)
  BY <1>1, SameTurns DEF Owned
<1>12. Tracked(a)'
  BY <1>1, <1>6, <1>11 DEF AgentOK, Tracked, Tracks
<1>13. Settling(a)'
  BY <1>1, <1>6, <1>11 DEF AgentOK, Settling, TryingFor
<1>14. Calling(a)'
  <2>1. answer = "hung" => node'[a] = node[a]
    BY <1>0, RecordEffect
  <2> QED  BY <1>1, <1>2, <1>3, <1>6, <2>1 DEF Calling, TryingFor
<1>9. Named(a)'
  <2>1. "failed" \in Ended /\ "failed" \notin {"running", "waiting"} /\ node[a].status \in Active
    BY <1>6 DEF Ended, Active
  <2> QED  BY <1>0, <1>1, <1>2, <1>6, <2>1, RecordNamed
<1>15. Following(a)'
  <2> SUFFICES ASSUME a \notin misled' PROVE Following(a)'
    BY DEF Following
  <2>1. a \notin misled /\ a \notin ahead /\ node[a] = graph[a]
    BY <1>0, <1>6, RecordEffect DEF AgentOK, Following
  <2>2. CASE answer \in {"ok", "refused"}
    BY <1>0, <2>1, <2>2, RecordTrusted DEF Following
  <2>3. CASE answer \in {"lost", "hung"}
    <3>1. node'[a] = node[a] /\ graph'[a].status = "failed" /\ a \in ahead'
      BY <1>0, <2>1, <2>3, RecordTrusted
    <3> QED  BY <1>3, <1>6, <1>11, <3>1 DEF Following, Untold
  <2> QED  BY <2>2, <2>3 DEF Answers
<1>16. Closing(a)' /\ Merging(a)'
  BY <1>1, <1>6 DEF AgentOK, Closing, Merging
<1>17. Spawning(a)' /\ Kept(a)'
  BY <1>0, <1>1, <1>2, <1>9, RecordRest
<1> QED  BY <1>4, <1>5, <1>9, <1>12, <1>13, <1>14, <1>15, <1>16, <1>17, ByAgent DEF AgentOK

(* The submitted turn makes the agent running, even when a settlement that *)
(* failed halfway has its result in the graph already.                     *)
LEMMA AcceptedReturns ==
  ASSUME Base, NEW a \in Agents, call[a] = "accepted", NEW answer \in Answers,
         NEW t \in Turns \cup {None}, t = Latest(a), Record(a, "running", t, answer),
         call' = [call EXCEPT ![a] = IF answer = "hung" THEN call[a] ELSE "none"],
         UNCHANGED <<startRest, track, turn>>
  PROVE  Types' /\ \A b \in Agents : AgentOK(b)'
<1> USE DEF Base
<1>0. "running" \in Statuses /\ "running" \notin {"absent", "requested"}
  BY DEF Statuses, Active
<1>1. UNCHANGED <<spawning, alloc, tree, settlers, failing, closing, merge, applied, canceled,
                  queue, track, turn>>
  BY DEF startRest
<1>2. /\ call'[a] = IF answer = "hung" THEN "accepted" ELSE "none"
      /\ call' \in [Agents -> CallStates]
      /\ \A b \in Agents : b # a => call'[b] = call[b]
  <2>1. (IF answer = "hung" THEN call[a] ELSE "none") \in CallStates
    BY DEF CallStates
  <2> QED  BY <2>1, Updated, Placed DEF Types, WorkTypes
<1>3. /\ ManagerTypes' /\ budget' \in Budgets /\ ~hung /\ (hung' <=> answer = "hung")
      /\ CanTransition(node[a].status, "running")
  BY <1>0, RecordEffect
<1>4. Types'
  BY <1>1, <1>2, <1>3 DEF Types, WorkTypes, RunnerTypes, RuntimeTypes
<1>5. \A b \in Agents : b # a => Untouched(b)
  BY <1>0, <1>1, <1>2, RecordEffect DEF Untouched
<1>6. node[a].status \in {"starting", "waiting"} /\ node[a] \in Node /\ graph[a] \in Node
  <2>1. node[a].status \in Statuses
    BY DEF Types, ManagerTypes, Node
  <2>2. CASE node[a].status \in Ended
    BY <1>0, <1>3, <2>2, Transitions
  <2>3. node[a].status \in {"absent", "requested", "running", "integrating", "integrated",
                            "integration_failed", "closed"} => FALSE
    BY <1>0, <1>3, Transitions DEF Ended
  <2> QED  BY <2>1, <2>2, <2>3 DEF Statuses, Active, Terminal, Types, ManagerTypes
<1>7. Owned(a) # {} /\ t # None /\ t \in Owned(a)
  BY LatestFacts DEF AgentOK, Calling
<1>8. /\ Moved(node[a], "running", t).status = "running" /\ Moved(node[a], "running", t).turn = t
      /\ Moved(graph[a], "running", t).status = "running" /\ Moved(graph[a], "running", t).turn = t
  BY <1>0, <1>6, <1>7, MovedFacts
<1>9. /\ answer = "ok" => node'[a] = Moved(node[a], "running", t)
      /\ answer # "ok" => node'[a] = node[a]
      /\ a \in misled => a \in misled'
  BY <1>0, RecordEffect
<1>12. /\ Owned(a)' = Owned(a) /\ Latest(a)' = Latest(a) /\ Owned(a) \subseteq Turns
       /\ \A u \in Turns : Live(u)' <=> Live(u)
  BY <1>1, SameTurns DEF Owned
<1>13. node'[a].status \in Active /\ ~Beyond(a)
  BY <1>6, <1>8, <1>9 DEF Active, Beyond, Past
<1>14. Calling(a)'
  BY <1>1, <1>2, <1>7, <1>12, <1>13 DEF Calling, Active
<1>15. Settling(a)'
  BY <1>1, <1>2, <1>12, <1>13 DEF AgentOK, Settling
<1>16. Named(a)'
  <2>1. "running" \notin Ended /\ call'[a] \notin {"entered", "refused"}
    BY <1>2 DEF Ended
  <2> QED  BY <1>0, <1>1, <1>7, <2>1, RecordNamed
<1>17. a \notin misled' =>
         \/ node'[a] = graph'[a] /\ node'[a] = Moved(node[a], "running", t)
         \/ graph'[a] = graph[a]
         \/ graph'[a] = Moved(node[a], "running", t)
  BY <1>0, RecordTrusted DEF Answers
<1>19. Tracked(a)'
  <2>1. track[a].at = "live" => OnTurn(node[a], a)'
    BY <1>7, <1>8, <1>9, <1>12 DEF AgentOK, Tracked, OnTurn, Active
  <2>2. track[a].at = "live" /\ a \notin misled' => OnTurn(graph[a], a)'
    BY <1>7, <1>8, <1>9, <1>12, <1>17 DEF AgentOK, Tracked, OnTurn, Active
  <2> QED  BY <1>1, <1>2, <1>12, <1>13, <2>1, <2>2 DEF AgentOK, Tracked, Tracks
<1>20. Following(a)'
  <2> SUFFICES ASSUME a \notin misled' PROVE Following(a)'
    BY DEF Following
  <2>1. a \notin misled
    BY <1>9
  <2>2. CASE answer = "ok"
    BY <1>0, <2>2, RecordTrusted DEF Following
  <2>3. CASE answer # "ok" /\ a \in ahead
    <3>1. node'[a] = node[a] /\ graph'[a] = graph[a] /\ a \in ahead'
      BY <1>0, <2>3, RecordTrusted DEF Answers
    <3> QED  BY <1>1, <1>12, <2>1, <2>3, <3>1 DEF AgentOK, Following, Untold
  <2>4. CASE answer = "refused" /\ a \notin ahead
    BY <1>0, <2>1, <2>4, RecordTrusted DEF AgentOK, Following
  <2>5. CASE answer \in {"lost", "hung"} /\ a \notin ahead
    <3>1. node'[a] = node[a] /\ graph'[a].status = "running" /\ a \in ahead'
      BY <1>0, <2>5, RecordTrusted
    <3> QED  BY <1>3, <3>1 DEF Following, Untold
  <2> QED  BY <2>2, <2>3, <2>4, <2>5 DEF Answers
<1>21. Closing(a)' /\ Merging(a)'
  BY <1>1, <1>2, <1>6 DEF AgentOK, Closing, Merging
<1>22. Spawning(a)' /\ Kept(a)'
  BY <1>0, <1>1, <1>2, <1>16, RecordRest
<1> QED  BY <1>4, <1>5, <1>14, <1>15, <1>16, <1>19, <1>20, <1>21, <1>22, ByAgent DEF AgentOK

(* A start that finds the agent settled, or cannot move it, just returns.  *)
LEMMA StartGone ==
  ASSUME Base, NEW a \in Agents, call[a] = "accepted", call' = [call EXCEPT ![a] = "none"],
         UNCHANGED <<startRest, managerVars, budget, track, turn>>
  PROVE  Types' /\ \A b \in Agents : AgentOK(b)'
<1> USE DEF Base
<1>1. UNCHANGED <<node, graph, ahead, hung, misled, spawning, alloc, tree, settlers, failing, closing,
                  merge, applied, canceled, queue, track, turn, budget>>
  BY DEF startRest, managerVars
<1>2. call' \in [Agents -> CallStates]
  BY Updated DEF Types, WorkTypes, CallStates
<1>3. call'[a] = "none" /\ \A b \in Agents : b # a => call'[b] = call[b]
  BY Placed DEF Types, WorkTypes
<1>4. Types'
  BY <1>1, <1>2 DEF Types, ManagerTypes, WorkTypes, RunnerTypes, RuntimeTypes
<1>5. \A b \in Agents : b # a => Untouched(b)
  BY <1>1, <1>3 DEF Untouched
<1>6. /\ Owned(a)' = Owned(a) /\ Latest(a)' = Latest(a) /\ Owned(a) \subseteq Turns
      /\ \A t \in Turns : Live(t)' <=> Live(t)
  BY <1>1, SameTurns DEF Owned
<1>7. Tracked(a)' /\ Settling(a)' /\ Calling(a)'
  BY <1>1, <1>3, <1>6 DEF AgentOK, Tracked, OnTurn, Tracks, Beyond, Settling, Calling, TryingFor
<1>8. Named(a)' /\ Following(a)'
  BY <1>1, <1>3, <1>6 DEF AgentOK, Named, Following, Untold
<1>9. Closing(a)' /\ Merging(a)' /\ Spawning(a)'
  BY <1>1, <1>3 DEF AgentOK, Closing, Merging, Spawning
<1>10. Kept(a)'
  BY <1>1, <1>3, <1>6 DEF AgentOK, Kept
<1> QED  BY <1>4, <1>5, <1>7, <1>8, <1>9, <1>10, ByAgent DEF AgentOK

LEMMA StartReturnsStep ==
  ASSUME Base, NEW a \in Agents, StartReturns(a)
  PROVE  Types' /\ \A b \in Agents : AgentOK(b)'
<1>1. UNCHANGED <<startRest, track, turn>>
  BY DEF StartReturns
<1>2. \/ /\ call[a] = "refused"
         /\ \E answer \in Answers :
              /\ Record(a, "failed", None, answer)
              /\ call' = [call EXCEPT ![a] = IF answer = "hung" THEN call[a] ELSE "none"]
      \/ /\ call[a] = "accepted"
         /\ \E answer \in Answers :
              /\ Record(a, "running", Latest(a), answer)
              /\ call' = [call EXCEPT ![a] = IF answer = "hung" THEN call[a] ELSE "none"]
      \/ /\ call[a] = "accepted" /\ call' = [call EXCEPT ![a] = "none"]
         /\ UNCHANGED <<managerVars, budget>>
  BY DEF StartReturns
<1>3. Latest(a) \in Turns \cup {None}
  BY LatestFacts DEF Base
<1>4. CASE /\ call[a] = "refused"
           /\ \E answer \in Answers :
                /\ Record(a, "failed", None, answer)
                /\ call' = [call EXCEPT ![a] = IF answer = "hung" THEN call[a] ELSE "none"]
  BY <1>1, <1>4, RefusedReturns
<1>5. CASE /\ call[a] = "accepted"
           /\ \E answer \in Answers :
                /\ Record(a, "running", Latest(a), answer)
                /\ call' = [call EXCEPT ![a] = IF answer = "hung" THEN call[a] ELSE "none"]
  BY <1>1, <1>3, <1>5, AcceptedReturns
<1>6. CASE /\ call[a] = "accepted" /\ call' = [call EXCEPT ![a] = "none"]
           /\ UNCHANGED <<managerVars, budget>>
  BY <1>1, <1>6, StartGone
<1> QED  BY <1>2, <1>4, <1>5, <1>6

-----------------------------------------------------------------------------
(* The runtime's turns.                                                    *)

LEMMA QueueTurns ==
  ASSUME Types
  PROVE  \A i \in 1..Len(queue) : queue[i].turn \in Turns
<1>1. queue \in Seq(Events)
  BY DEF Types, RuntimeTypes
<1>2. \A i \in 1..Len(queue) : queue[i] \in Events
  BY <1>1
<1> QED  BY <1>2 DEF Events

(* A turn that runs moves on or ends; its owner stays.                     *)
LEMMA TurnMoves ==
  ASSUME Base, NEW t \in Turns, Live(t), NEW at \in {"started", "asking", "ended"},
         turn' = [turn EXCEPT ![t].at = at], UNCHANGED turnRest,
         canceled' \subseteq Turns, budget' \in Budgets,
         NEW kind \in {"started", "asked", "answered"} \cup Ended, Publish(t, kind),
         kind \in Ended => at = "ended"
  PROVE  Types' /\ TurnsOK' /\ \A b \in Agents : AgentOK(b)'
<1> USE DEF Base
<1>1. UNCHANGED <<node, graph, ahead, hung, misled, spawning, alloc, tree, call, track, settlers,
                  failing, closing, merge, applied>>
  BY DEF turnRest, managerVars
<1>2. /\ turn' \in [Turns -> TurnType]
      /\ turn'[t].at = at
      /\ \A u \in Turns : turn'[u].owner = turn[u].owner
      /\ \A u \in Turns : u # t => turn'[u] = turn[u]
  BY DEF Types, RuntimeTypes, TurnType
<1>3. queue' \in Seq(Events)
  <2>1. [turn |-> t, kind |-> kind] \in Events
    BY DEF Events
  <2>2. queue' = Append(queue, [turn |-> t, kind |-> kind]) /\ queue \in Seq(Events)
    BY DEF Publish, Types, RuntimeTypes
  <2> HIDE DEF Events
  <2> QED  BY <2>1, <2>2, AppendProperties
<1>4. Types'
  BY <1>1, <1>2, <1>3 DEF Types, ManagerTypes, WorkTypes, RunnerTypes, RuntimeTypes
<1>5. \A b \in Agents : Owned(b)' = Owned(b) /\ Latest(b)' = Latest(b) /\ Owned(b) \subseteq Turns
  <2>1. \A b \in Agents : Owned(b)' = Owned(b) /\ Owned(b) \subseteq Turns
    BY <1>2 DEF Owned
  <2> QED  BY <2>1, LatestSame
<1>6. /\ \A u \in Turns : Live(u)' => Live(u)
      /\ \A u \in Turns : turn[u].at = "ended" => turn'[u].at = "ended"
  BY <1>2 DEF Live
<1>7. ASSUME NEW b \in Agents
      PROVE  AgentOK(b)'
  <2>1. Tracked(b)'
    BY <1>1, <1>5, <1>6 DEF AgentOK, Tracked, OnTurn, Tracks, Beyond
  <2>2. Settling(b)'
    BY <1>1, <1>5, <1>6 DEF AgentOK, Settling
  <2>3. Calling(b)' /\ Named(b)'
    BY <1>1, <1>5, <1>6 DEF AgentOK, Calling, Named, TryingFor
  <2>4. Following(b)'
    BY <1>1, <1>5, <1>6 DEF AgentOK, Following, Untold
  <2>5. Closing(b)' /\ Merging(b)' /\ Spawning(b)'
    BY <1>1 DEF AgentOK, Closing, Merging, Spawning
  <2>6. Kept(b)'
    BY <1>1, <1>5, <1>6 DEF AgentOK, Kept
  <2> QED  BY <2>1, <2>2, <2>3, <2>4, <2>5, <2>6 DEF AgentOK
<1>8. TurnsOK'
  <2>1. turn[t] # NoTurn /\ turn'[t] # NoTurn
    BY <1>2 DEF Live, NoTurn
  <2>2. \A u \in Turns : turn'[u] = NoTurn <=> turn[u] = NoTurn
    BY <1>2, <2>1
  <2>3. /\ \A v, u \in Turns : turn'[v] # NoTurn /\ u < v => turn'[u] # NoTurn
        /\ \A u \in Turns : turn'[u].owner = None <=> turn'[u] = NoTurn
        /\ \A u \in Turns : turn'[u].at = "none" <=> turn'[u] = NoTurn
    BY <1>2, <2>1, <2>2 DEF TurnsOK
  <2>4. \A b \in Agents : Owned(b)' # {} =>
          Latest(b)' \in Owned(b)' /\ \A u \in Owned(b)' : u <= Latest(b)'
    BY <1>5 DEF TurnsOK
  <2>5. queue \in Seq(Events) /\ queue' = Append(queue, [turn |-> t, kind |-> kind])
    BY DEF Publish, Types, RuntimeTypes
  <2>6. \A i \in 1..Len(queue') :
          (i \in 1..Len(queue) /\ queue'[i] = queue[i]) \/ queue'[i] = [turn |-> t, kind |-> kind]
    <3> HIDE DEF Events
    <3> QED  BY <2>5
  <2>7. \A i \in 1..Len(queue) : queue[i].turn \in Turns
    BY QueueTurns
  <2>8. \A i \in 1..Len(queue') :
          /\ turn'[queue'[i].turn] # NoTurn
          /\ queue'[i].kind \in Ended => turn'[queue'[i].turn].at = "ended"
    BY <1>2, <1>6, <2>1, <2>2, <2>6, <2>7 DEF TurnsOK
  <2> QED  BY <2>3, <2>4, <2>8 DEF TurnsOK
<1> QED  BY <1>4, <1>7, <1>8

LEMMA RunTurnStep ==
  ASSUME Base, NEW t \in Turns, RunTurn(t)
  PROVE  Types' /\ TurnsOK' /\ \A b \in Agents : AgentOK(b)'
<1>1. canceled \subseteq Turns /\ budget \in Budgets
  BY DEF Base, Types, RuntimeTypes
<1>0. "started" \notin Ended /\ "asked" \notin Ended /\ "answered" \notin Ended
  BY DEF Ended
<1>2. CASE TurnStarts(t)
  <2>1. /\ Live(t) /\ turn' = [turn EXCEPT ![t].at = "started"] /\ UNCHANGED turnRest
        /\ canceled' \subseteq Turns /\ budget' \in Budgets /\ Publish(t, "started")
    BY <1>1, <1>2 DEF TurnStarts, Live
  <2> QED  BY <1>0, <2>1, TurnMoves
<1>3. CASE TurnAsks(t)
  <2>1. /\ Live(t) /\ turn' = [turn EXCEPT ![t].at = "asking"] /\ UNCHANGED turnRest
        /\ canceled' \subseteq Turns /\ Spend("asks") /\ Publish(t, "asked")
    BY <1>1, <1>3 DEF TurnAsks, Live
  <2>2. budget' \in Budgets
    BY <1>1, <2>1, SpendTypes
  <2> QED  BY <1>0, <2>1, <2>2, TurnMoves
<1>4. CASE TurnAnswered(t)
  <2>1. /\ Live(t) /\ turn' = [turn EXCEPT ![t].at = "started"] /\ UNCHANGED turnRest
        /\ canceled' \subseteq Turns /\ budget' \in Budgets /\ Publish(t, "answered")
    BY <1>1, <1>4 DEF TurnAnswered, Live
  <2> QED  BY <1>0, <2>1, TurnMoves
<1>5. CASE TurnEnds(t)
  <2>1. PICK outcome \in Ended :
          /\ Live(t) /\ turn' = [turn EXCEPT ![t].at = "ended"] /\ UNCHANGED turnRest
          /\ canceled' \subseteq Turns /\ budget' \in Budgets /\ Publish(t, outcome)
    BY <1>1, <1>5 DEF TurnEnds, Live
  <2> QED  BY <1>0, <2>1, TurnMoves
<1> QED  BY <1>2, <1>3, <1>4, <1>5 DEF RunTurn

-----------------------------------------------------------------------------
(* Runner.Observe.                                                         *)

(* The event at the head of the queue, when the Runner tracks its turn:    *)
(* that turn is the agent's last.                                          *)
LEMMA ObservedFacts ==
  ASSUME Base, ~hung, queue # <<>>, NEW e, e = Head(queue), ~Ignored(e)
  PROVE  /\ e \in Events /\ Observed(e) \in Agents /\ track[Observed(e)].at = "live"
         /\ track[Observed(e)].turn = e.turn
         /\ e.turn = Latest(Observed(e)) /\ e.turn \in Owned(Observed(e))
         /\ e.kind \in Ended => turn[e.turn].at = "ended"
         /\ \A s \in settlers : s.agent # Observed(e)
<1> USE DEF Base
<1>1. queue \in Seq(Events) /\ 1 \in 1..Len(queue) /\ e = queue[1]
  <2>1. queue \in Seq(Events)
    BY DEF Types, RuntimeTypes
  <2> HIDE DEF Events
  <2> QED  BY <2>1
<1>2. e \in Events
  <2> HIDE DEF Events
  <2> QED  BY <1>1
<1>3. /\ turn[e.turn] # NoTurn
      /\ e.kind \in Ended => turn[e.turn].at = "ended"
  BY <1>1 DEF TurnsOK
<1>4. e.turn \in Turns
  BY <1>2 DEF Events
<1>5. Observed(e) \in Agents
  BY <1>3, <1>4 DEF Observed, TurnsOK, Types, RuntimeTypes, TurnType
<1>6. /\ track[Observed(e)].at = "live" /\ track[Observed(e)].turn = e.turn
      /\ e.turn \in Owned(Observed(e))
  BY <1>4 DEF Ignored, Tracks, Observed, Owned
<1>7. PICK a \in Agents : a = Observed(e)
  BY <1>5
<1>8. e.turn = Latest(a) /\ \A s \in settlers : s.agent # a
  BY <1>6, <1>7 DEF AgentOK, Tracked
<1> QED  BY <1>2, <1>3, <1>5, <1>6, <1>7, <1>8

LEMMA DispatchStep ==
  ASSUME Base, Dispatch
  PROVE  Types' /\ \A b \in Agents : AgentOK(b)'
<1> USE DEF Base
<1>1. /\ UNCHANGED <<spawning, alloc, tree, call, failing, closing, merge, applied, turn,
                     canceled>>
      /\ ~hung /\ queue # <<>> /\ queue' = Tail(queue)
  BY DEF Dispatch
<1>2. queue' \in Seq(Events)
  <2>1. queue \in Seq(Events)
    BY DEF Types, RuntimeTypes
  <2> HIDE DEF Events
  <2> QED  BY <1>1, <2>1
<1>3. PICK e : e = Head(queue)
  OBVIOUS
<1>4. \/ Ignored(e) /\ UNCHANGED <<managerVars, track, settlers, budget>>
      \/ ~Ignored(e) /\ (Settles(e) \/ Starts(e) \/ Approves(e))
  BY <1>3 DEF Dispatch
<1>5. CASE Ignored(e) /\ UNCHANGED <<managerVars, track, settlers, budget>>
  <2>1. UNCHANGED <<node, graph, ahead, hung, misled, track, settlers, budget>>
    BY <1>5 DEF managerVars
  <2>2. Types'
    BY <1>1, <1>2, <2>1 DEF Types, ManagerTypes, WorkTypes, RunnerTypes, RuntimeTypes
  <2>3. \A b \in Agents : Untouched(b)
    BY <1>1, <2>1 DEF Untouched
  <2> QED  BY <2>2, <2>3, AllUntouched
<1>6. ASSUME ~Ignored(e), Settles(e) \/ Starts(e) \/ Approves(e)
      PROVE  Types' /\ \A b \in Agents : AgentOK(b)'
  <2>1. PICK a \in Agents : a = Observed(e)
    BY <1>1, <1>3, <1>6, ObservedFacts
  <2>2. /\ e \in Events /\ track[a].at = "live" /\ track[a].turn = e.turn
        /\ e.turn = Latest(a) /\ e.turn \in Owned(a)
        /\ e.kind \in Ended => turn[e.turn].at = "ended"
        /\ \A s \in settlers : s.agent # a
    BY <1>1, <1>3, <1>6, <2>1, ObservedFacts
  <2>3. /\ call[a] \in {"none", "accepted"} /\ OnTurn(node[a], a)
        /\ a \in misled \/ OnTurn(graph[a], a)
        /\ ~Beyond(a)
    BY <2>2 DEF AgentOK, Tracked, Beyond, Past, OnTurn, Active
  <2>4. /\ Owned(a)' = Owned(a) /\ Latest(a)' = Latest(a) /\ Owned(a) \subseteq Turns
        /\ \A t \in Turns : Live(t)' <=> Live(t)
    BY <1>1, SameTurns DEF Owned
  <2>5. CASE Settles(e)
    <3>1. e.kind \in Ended /\ UNCHANGED <<node, graph, ahead, hung, misled, budget>>
      BY <2>5 DEF Settles, managerVars
    <3> DEFINE s == [agent |-> a, turn |-> e.turn, outcome |-> e.kind, at |-> "trying"]
    <3>2. /\ settlers' = settlers \cup {s}
          /\ track' = [track EXCEPT ![a].at = "settling"]
      BY <2>1, <2>5 DEF Settles
    <3>3. /\ s \in Settlers /\ s.agent = a /\ s.turn = e.turn /\ s.at = "trying"
      BY <2>2, <3>1 DEF Settlers, Events
    <3> HIDE DEF s
    <3>4. /\ track'[a].at = "settling" /\ track'[a].turn = e.turn
          /\ \A b \in Agents : b # a => track'[b] = track[b]
          /\ track' \in [Agents -> TrackType]
      BY <2>2, <3>2 DEF Types, RunnerTypes, TrackType
    <3>5. Types'
      BY <1>1, <1>2, <3>1, <3>2, <3>3, <3>4
         DEF Types, ManagerTypes, WorkTypes, RunnerTypes, RuntimeTypes
    <3>6. \A b \in Agents : b # a => Untouched(b)
      BY <1>1, <3>1, <3>2, <3>3, <3>4 DEF Untouched
    <3>7. \A u \in Owned(a) : ~Live(u)
      BY <2>2, <2>3, <3>1 DEF AgentOK, Tracked, Tracks, Live
    <3>8. Tracked(a)'
      BY <2>4, <3>4, <3>7 DEF Tracked
    <3>9. Settling(a)'
      BY <1>1, <2>2, <2>3, <2>4, <3>1, <3>2, <3>3, <3>4 DEF Settling, OnTurn
    <3>10. Calling(a)'
      BY <1>1, <2>3, <2>4, <3>1 DEF AgentOK, Calling
    <3>11. Named(a)' /\ Following(a)'
      BY <1>1, <2>4, <3>1 DEF AgentOK, Named, Following, Untold
    <3>12. Closing(a)' /\ Merging(a)' /\ Spawning(a)'
      BY <1>1, <3>1 DEF AgentOK, Closing, Merging, Spawning
    <3>13. Kept(a)'
      BY <1>1, <2>4, <3>1 DEF AgentOK, Kept
    <3> QED  BY <3>5, <3>6, <3>8, <3>9, <3>10, <3>11, <3>12, <3>13, ByAgent DEF AgentOK
  <2>6. CASE Starts(e)
    <3>1. UNCHANGED <<node, graph, ahead, hung, misled, settlers, budget>>
          /\ track' = [track EXCEPT ![a].started = TRUE]
      BY <2>1, <2>6 DEF Starts, managerVars
    <3>2. track' \in [Agents -> TrackType]
          /\ \A b \in Agents : track'[b].at = track[b].at /\ track'[b].turn = track[b].turn
      BY <3>1 DEF Types, RunnerTypes, TrackType
    <3>3. Types'
      BY <1>1, <1>2, <3>1, <3>2 DEF Types, ManagerTypes, WorkTypes, RunnerTypes, RuntimeTypes
    <3>4. \A b \in Agents : Untouched(b)
      BY <1>1, <3>1, <3>2 DEF Untouched
    <3> QED  BY <3>3, <3>4, AllUntouched
  <2>7. CASE Approves(e)
    <3>1. UNCHANGED <<track, settlers>>
      BY <2>7 DEF Approves
    <3>2. CASE UNCHANGED <<managerVars, budget>>
      <4>1. UNCHANGED <<node, graph, ahead, hung, misled, budget>>
        BY <3>2 DEF managerVars
      <4>2. Types'
        BY <1>1, <1>2, <3>1, <4>1 DEF Types, ManagerTypes, WorkTypes, RunnerTypes, RuntimeTypes
      <4>3. \A b \in Agents : Untouched(b)
        BY <1>1, <3>1, <4>1 DEF Untouched
      <4> QED  BY <4>2, <4>3, AllUntouched
    <3>3. ASSUME NEW answer \in {"ok", "refused", "lost"}, NEW to \in {"running", "waiting"},
                 NEW t \in Turns \cup {None}, t = node[a].turn,
                 node[a].status \in {"running", "waiting"},
                 Record(a, to, t, answer)
          PROVE  Types' /\ \A b \in Agents : AgentOK(b)'
      <4>0. to \in Statuses /\ to \notin {"absent", "requested"} /\ answer \in Answers
        BY DEF Statuses, Active, Answers
      <4>1. ManagerTypes' /\ budget' \in Budgets
        BY <3>3, <4>0, RecordEffect
      <4>2. Types'
        BY <1>1, <1>2, <3>1, <4>1 DEF Types, WorkTypes, RunnerTypes, RuntimeTypes
      <4>3. \A b \in Agents : b # a => Untouched(b)
        BY <1>1, <3>1, <3>3, <4>0, RecordEffect DEF Untouched
      <4>4. t = e.turn /\ t \in Turns /\ node[a] \in Node
        BY <2>2, <2>3, <2>4, <3>3 DEF OnTurn, Types, ManagerTypes
      <4>5. Moved(node[a], to, t).status = to /\ Moved(node[a], to, t).turn = t
        BY <4>0, <4>4, TurnFacts, MovedFacts
      <4>6. /\ node'[a] = node[a] \/ node'[a] = Moved(node[a], to, t)
            /\ a \in misled => a \in misled'
            /\ answer # "ok" => node'[a] = node[a]
        BY <3>3, <4>0, RecordEffect
      <4>7. /\ OnTurn(node[a], a)'
            /\ a \in misled' \/ OnTurn(graph[a], a)'
        <5>1. OnTurn(node[a], a)'
          BY <2>2, <2>3, <2>4, <3>3, <4>4, <4>5, <4>6 DEF OnTurn, Active
        <5>2. a \notin misled' => graph'[a] \in {graph[a], Moved(node[a], to, t)}
          BY <3>3, <4>0, RecordTrusted DEF Answers
        <5> QED  BY <2>2, <2>3, <2>4, <4>4, <4>5, <4>6, <5>1, <5>2 DEF OnTurn, Active
      <4>8. Tracked(a)'
        BY <1>1, <2>3, <2>4, <3>1, <4>7 DEF AgentOK, Tracked, Tracks
      <4>9. Settling(a)'
        BY <2>2, <3>1 DEF Settling
      <4>10. Calling(a)'
        BY <1>1, <2>3, <2>4, <4>7 DEF AgentOK, Calling, OnTurn, Active
      <4>14. Named(a)'
        <5>1. t = Latest(a) /\ Owned(a) # {} /\ t # None /\ to \notin Ended
              /\ call'[a] \notin {"entered", "refused"}
          BY <1>1, <2>2, <2>3, <4>4, TurnFacts DEF Ended
        <5> QED  BY <1>1, <3>3, <4>0, <5>1, RecordNamed
      <4>11. Following(a)'
        <5> SUFFICES ASSUME a \notin misled' PROVE Following(a)'
          BY DEF Following
        <5>1. a \notin misled /\ CanTransition(node[a].status, to)
          BY <3>3, <4>6 DEF Record
        <5>2. CASE answer = "ok"
          BY <3>3, <4>0, <5>2, RecordTrusted DEF Following
        <5>3. CASE answer # "ok" /\ a \in ahead
          <6>1. node'[a] = node[a] /\ graph'[a] = graph[a] /\ a \in ahead'
            BY <3>3, <4>0, <5>3, RecordTrusted DEF Answers
          <6> QED  BY <1>1, <2>4, <5>1, <5>3, <6>1 DEF AgentOK, Following, Untold
        <5>4. CASE answer = "refused" /\ a \notin ahead
          BY <3>3, <4>0, <5>1, <5>4, RecordTrusted DEF AgentOK, Following
        <5>5. CASE answer = "lost" /\ a \notin ahead
          <6>1. node'[a] = node[a] /\ graph'[a].status = to /\ a \in ahead'
            BY <3>3, <4>0, <5>5, RecordTrusted
          <6> QED  BY <5>1, <6>1 DEF Following, Untold
        <5> QED  BY <5>2, <5>3, <5>4, <5>5
      <4>12. Closing(a)' /\ Merging(a)'
        BY <1>1, <3>3 DEF AgentOK, Closing, Merging
      <4>13. Spawning(a)' /\ Kept(a)'
        BY <1>1, <3>3, <4>0, <4>14, RecordRest
      <4> QED  BY <4>2, <4>3, <4>8, <4>9, <4>10, <4>11, <4>12, <4>13, <4>14, ByAgent DEF AgentOK
    <3>4. node[a].turn \in Turns \cup {None}
      BY DEF Types, ManagerTypes, Node
    <3>5. \/ UNCHANGED <<managerVars, budget>>
          \/ \E answer \in {"ok", "refused", "lost"}, to \in {"running", "waiting"} :
               /\ node[a].status \in {"running", "waiting"}
               /\ Record(a, to, node[a].turn, answer)
      BY <2>1, <2>7 DEF Approves
    <3> QED  BY <3>2, <3>3, <3>4, <3>5
  <2> QED  BY <1>6, <2>5, <2>6, <2>7
<1> QED  BY <1>4, <1>5, <1>6

-----------------------------------------------------------------------------
(* Settlement.                                                             *)

(* What a settler that still tries finds.                                  *)
LEMMA TryingFacts ==
  ASSUME Base, NEW s \in settlers, s.at = "trying"
  PROVE  /\ s \in Settlers /\ s.agent \in Agents /\ s.outcome \in Ended /\ s.turn \in Turns
         /\ node[s.agent].status \in Active
         /\ CanTransition(node[s.agent].status, s.outcome)
<1> USE DEF Base
<1>1. s \in Settlers
  BY DEF Types, RunnerTypes
<1>2. s.agent \in Agents /\ s.outcome \in Ended /\ s.turn \in Turns
  BY <1>1 DEF Settlers
<1>3. node[s.agent].status \in Active
  BY <1>2 DEF AgentOK, Settling
<1>4. CanTransition(node[s.agent].status, s.outcome)
  BY <1>2, <1>3, Transitions DEF Active, Statuses, Terminal
<1> QED  BY <1>1, <1>2, <1>3, <1>4

LEMMA SettleAttemptStep ==
  ASSUME Base, NEW s \in settlers, SettleAttempt(s)
  PROVE  Types' /\ \A b \in Agents : AgentOK(b)'
<1> USE DEF Base
<1> DEFINE done == [s EXCEPT !.at = "done"]
<1>0. s.at = "trying" /\ ~hung
  BY DEF SettleAttempt, Trying
<1>1. PICK a \in Agents : a = s.agent
  BY <1>0, TryingFacts
<1>2. PICK to \in Ended, t \in Turns \cup {None} : to = s.outcome /\ t = s.turn /\ t \in Turns
  BY <1>0, TryingFacts
<1>3. to \in Statuses /\ to \notin {"absent", "requested"} /\ to \notin Active
  BY DEF Statuses, Terminal, Ended, Active
<1>4. /\ node[a].status \in Active /\ CanTransition(node[a].status, to)
      /\ node[a] \in Node /\ graph[a] \in Node
  BY <1>0, <1>1, <1>2, TryingFacts DEF Types, ManagerTypes
<1>5. PICK answer \in Answers :
        /\ Record(a, to, t, answer)
        /\ answer = "ok" => settlers' = (settlers \ {s}) \cup {done} /\ UNCHANGED failing
        /\ answer = "hung" => UNCHANGED <<settlers, failing>>
        /\ answer \in {"refused", "lost"} => failing' = failing \cup {s.turn} /\ UNCHANGED settlers
  <2>1. ~(node[a].status = s.outcome /\ node[a].turn = s.turn)
    BY <1>2, <1>3, <1>4
  <2> QED  BY <1>1, <1>2, <1>4, <2>1 DEF SettleAttempt, Answers
<1>6. UNCHANGED <<spawning, alloc, tree, call, closing, merge, applied, turn, canceled, queue,
                  track>>
  BY DEF SettleAttempt, settleRest
<1>7. /\ done \in Settlers /\ done.agent = a /\ done.turn = s.turn /\ done.at = "done"
      /\ s.agent = a
  BY <1>0, <1>1, TryingFacts DEF Settlers
<1> HIDE DEF done
<1>8. ManagerTypes' /\ budget' \in Budgets /\ (hung' <=> answer = "hung")
  BY <1>3, <1>5, RecordEffect
<1>9. settlers' \subseteq Settlers /\ failing' \subseteq Turns
  BY <1>2, <1>5, <1>7 DEF Types, RunnerTypes, Answers
<1>10. Types'
  BY <1>6, <1>8, <1>9 DEF Types, WorkTypes, RunnerTypes, RuntimeTypes
<1>11. \A b \in Agents : b # a => Untouched(b)
  <2>1. \A b \in Agents : b # a => node'[b] = node[b] /\ graph'[b] = graph[b]
                                   /\ (b \in ahead' <=> b \in ahead)
                                   /\ (b \in misled' <=> b \in misled)
    BY <1>3, <1>5, RecordEffect
  <2>2. \A b \in Agents : b # a => \A r \in settlers \cup settlers' :
           r.agent = b => (r \in settlers <=> r \in settlers')
    BY <1>5, <1>7 DEF Answers
  <2> QED  BY <1>0, <1>6, <2>1, <2>2 DEF Untouched
<1>12. /\ track[a].at = "settling" /\ track[a].turn = s.turn
       /\ s.turn = Latest(a) /\ s.turn \in Owned(a) /\ turn[s.turn].at = "ended"
       /\ \A r \in settlers : r.agent = a => r = s
       /\ call[a] \in {"none", "accepted"}
  BY <1>0, <1>7 DEF AgentOK, Settling
<1>13. /\ Owned(a)' = Owned(a) /\ Latest(a)' = Latest(a) /\ Owned(a) \subseteq Turns
       /\ \A u \in Turns : Live(u)' <=> Live(u)
  BY <1>6, SameTurns DEF Owned
<1>14. Tracked(a)' /\ \A u \in Owned(a) : ~Live(u)
  <2>1. ~Beyond(a)
    BY <1>4 DEF Beyond, Past, Active
  <2> QED  BY <1>6, <1>12, <1>13, <2>1 DEF AgentOK, Tracked, Tracks
<1>15. answer = "ok" => \A r \in settlers' : r.agent = a => r = done
  BY <1>5, <1>12
<1>16. answer # "ok" => settlers' = settlers
  BY <1>5 DEF Answers
<1>17. answer # "ok" => node'[a] = node[a]
  BY <1>3, <1>5, RecordEffect
<1>18. Settling(a)'
  BY <1>4, <1>6, <1>7, <1>12, <1>13, <1>15, <1>16, <1>17 DEF Settling
<1>20. answer = "ok" => node'[a].status = to
  BY <1>3, <1>4, <1>5, MovedFacts, RecordEffect
<1>21. node'[a].status \in Active \/ node'[a].status = to
  BY <1>4, <1>17, <1>20
<1>22. Calling(a)'
  BY <1>6, <1>12, <1>13, <1>21 DEF AgentOK, Calling, Active, Ended
<1>23. Named(a)'
  <2>1. to \notin {"running", "waiting"} /\ call'[a] \notin {"entered", "refused"}
    BY <1>3, <1>6, <1>12 DEF Active
  <2> QED  BY <1>3, <1>4, <1>5, <1>6, <1>14, <2>1, RecordNamed
<1>25. Following(a)'
  <2> SUFFICES ASSUME a \notin misled' PROVE Following(a)'
    BY DEF Following
  <2>1. a \notin misled
    BY <1>3, <1>5, RecordEffect
  <2>2. CASE answer = "ok"
    BY <1>3, <1>5, <2>2, RecordTrusted DEF Following
  <2>3. CASE answer # "ok" /\ a \in ahead
    <3>1. node'[a] = node[a] /\ graph'[a] = graph[a] /\ a \in ahead'
      BY <1>3, <1>5, <2>3, RecordTrusted DEF Answers
    <3> QED  BY <1>6, <1>13, <2>1, <2>3, <3>1 DEF AgentOK, Following, Untold
  <2>4. CASE answer = "refused" /\ a \notin ahead
    BY <1>3, <1>5, <2>1, <2>4, RecordTrusted DEF AgentOK, Following
  <2>5. CASE answer \in {"lost", "hung"} /\ a \notin ahead
    <3>1. node'[a] = node[a] /\ graph'[a].status = to /\ a \in ahead'
      BY <1>3, <1>5, <2>5, RecordTrusted
    <3> QED  BY <1>4, <1>13, <1>14, <3>1 DEF Following, Untold, Ended
  <2> QED  BY <2>2, <2>3, <2>4, <2>5 DEF Answers
<1>26. Closing(a)' /\ Merging(a)'
  BY <1>4, <1>6 DEF AgentOK, Closing, Merging, Active
<1>27. Spawning(a)' /\ Kept(a)'
  BY <1>3, <1>5, <1>6, <1>23, RecordRest
<1> QED  BY <1>10, <1>11, <1>14, <1>18, <1>22, <1>23, <1>25, <1>26, <1>27, ByAgent DEF AgentOK

LEMMA SettlementDoneStep ==
  ASSUME Base, NEW s \in settlers, SettlementDone(s)
  PROVE  Types' /\ \A b \in Agents : AgentOK(b)'
<1> USE DEF Base
<1>0. s.at = "done" /\ settlers' = settlers \ {s} /\ failing' = failing \ {s.turn}
  BY DEF SettlementDone
<1>1. PICK a \in Agents : a = s.agent
  BY DEF Types, RunnerTypes, Settlers
<1>2. UNCHANGED <<node, graph, ahead, hung, misled, spawning, alloc, tree, call, closing, merge, applied,
                  turn, canceled, queue, budget>>
  BY DEF SettlementDone, settleRest, managerVars
<1>3. /\ track'[a] = NoTrack /\ track' \in [Agents -> TrackType]
      /\ \A b \in Agents : b # a => track'[b] = track[b]
  <2>1. NoTrack \in TrackType
    BY DEF NoTrack, TrackType
  <2>2. track' = [track EXCEPT ![a] = NoTrack]
    BY <1>1 DEF SettlementDone
  <2> QED  BY <2>1, <2>2, Updated, Placed DEF Types, RunnerTypes
<1>4. track'[a].at = "none"
  BY <1>3 DEF NoTrack
<1>5. Types'
  BY <1>0, <1>2, <1>3 DEF Types, ManagerTypes, WorkTypes, RunnerTypes, RuntimeTypes
<1>6. \A b \in Agents : b # a => Untouched(b)
  BY <1>0, <1>1, <1>2, <1>3 DEF Untouched
<1>7. track[a].at = "settling" /\ \A r \in settlers : r.agent = a => r = s
  BY <1>1 DEF AgentOK, Settling
<1>8. \A r \in settlers' : r \in settlers /\ r.agent # a
  BY <1>0, <1>7
<1>9. /\ Owned(a)' = Owned(a) /\ Latest(a)' = Latest(a) /\ Owned(a) \subseteq Turns
      /\ \A u \in Turns : Live(u)' <=> Live(u)
  BY <1>2, SameTurns DEF Owned
<1>10. Tracked(a)' /\ Settling(a)' /\ Calling(a)'
  BY <1>2, <1>4, <1>7, <1>8, <1>9
     DEF AgentOK, Tracked, Tracks, Beyond, Settling, Calling, TryingFor
<1>11. Named(a)' /\ Following(a)'
  BY <1>2, <1>9 DEF AgentOK, Named, Following, Untold
<1>12. Closing(a)' /\ Merging(a)' /\ Spawning(a)'
  BY <1>2 DEF AgentOK, Closing, Merging, Spawning
<1>13. Kept(a)'
  BY <1>2, <1>9 DEF AgentOK, Kept
<1> QED  BY <1>5, <1>6, <1>10, <1>11, <1>12, <1>13, ByAgent DEF AgentOK

-----------------------------------------------------------------------------
(* A restart.                                                              *)

(* A turn that survives is the one the Manager has the agent active with,  *)
(* or one left behind before.                                              *)
LEMMA SurvivesFacts ==
  ASSUME Base, NEW a \in Agents, NEW t \in Owned(a), Live(t), ~Beyond(a)
  PROVE  /\ t = Latest(a) /\ Survives(a) /\ Latest(a) \in Turns
         /\ node[a].status \in Active /\ (a \in misled \/ OnTurn(graph[a], a))
         /\ graph[a].status \in Early \cup {"running", "waiting"}
<1>1. t \in Turns
  BY DEF Owned
<1>2. Tracks(a, t)
  BY DEF Base, AgentOK, Tracked
<1>3. /\ t = Latest(a) /\ node[a].status \in Active /\ (a \in misled \/ OnTurn(graph[a], a))
  BY <1>2 DEF Base, AgentOK, Tracked, Tracks, OnTurn
<1>4. graph[a].status \in Early \cup {"running", "waiting"}
  BY DEF Base, AgentOK, Named
<1> QED  BY <1>1, <1>3, <1>4, TurnFacts DEF Survives

LEMMA SurvivorOwned ==
  ASSUME Base, NEW a \in Agents, Survives(a)
  PROVE  Latest(a) \in Owned(a) /\ Live(Latest(a))
BY LatestFacts DEF Base, Survives

LEMMA ReconciledFacts ==
  ASSUME Base, NEW a \in Agents
  PROVE  /\ Reconciled(a) \in Node
         /\ Reconciled(a).status \in Active =>
              /\ Survives(a) /\ Reconciled(a).turn = Latest(a)
              /\ Reconciled(a).status \in {"running", "waiting"}
         /\ graph[a].status \in Active \cup {"requested"} /\ Survives(a) =>
              Reconciled(a).status \in Active
         /\ Reconciled(a).status \in Active => graph[a].status \in Active \cup {"requested"}
         /\ graph[a].status \in Past => Reconciled(a).status \in Past
         /\ Reconciled(a).status = "absent" => graph[a].status = "absent" /\ ~Orphaned(a)
         /\ graph[a].status = "absent" /\ ~Orphaned(a) => Reconciled(a) = graph[a]
         /\ graph[a].status = "closed" => Reconciled(a) = graph[a]
<1> USE DEF Base
<1>1. graph[a] \in Node /\ Latest(a) \in Turns \cup {None}
  BY LatestFacts DEF Types, ManagerTypes
<1>2. {"running", "failed", "integrated", "integration_failed"} \subseteq Statuses
  BY DEF Statuses, Active, Terminal, Ended
<1>3. None \in Turns \cup {None}
  OBVIOUS
<1>4. CASE graph[a].status \in {"requested", "starting"} /\ Survives(a)
  <2>1. Reconciled(a) = Moved(graph[a], "running", Latest(a))
    BY <1>4 DEF Reconciled, Active, Orphaned
  <2>2. Reconciled(a) \in Node /\ Reconciled(a).status = "running" /\ Reconciled(a).turn = Latest(a)
    BY <1>1, <1>2, <1>4, <2>1, MovedFacts DEF Survives
  <2> QED  BY <1>4, <2>2 DEF Active, Past
<1>5. CASE graph[a].status \in {"running", "waiting"} /\ Survives(a)
  <2>1. Reconciled(a) = graph[a]
    BY <1>5 DEF Reconciled, Active, Orphaned
  <2>2. graph[a].turn = Latest(a)
    BY <1>5 DEF AgentOK, Named
  <2> QED  BY <1>1, <1>5, <2>1, <2>2 DEF Active, Past
<1>6. CASE graph[a].status \in Active \cup {"requested"} /\ ~Survives(a)
  <2>1. Reconciled(a) = Moved(graph[a], "failed", Latest(a))
    BY <1>6 DEF Reconciled, Active, Orphaned
  <2>2. Reconciled(a) \in Node /\ Reconciled(a).status = "failed"
    BY <1>1, <1>2, <2>1, MovedFacts
  <2> QED  BY <1>6, <2>2 DEF Active, Past
<1>7. CASE graph[a].status = "integrating"
  <2>1. Reconciled(a) = Moved(graph[a], IF a \in applied THEN "integrated"
                                        ELSE "integration_failed", None)
    BY <1>7 DEF Reconciled, Active, Orphaned
  <2>2. PICK to \in {"integrated", "integration_failed"} : Reconciled(a) = Moved(graph[a], to, None)
    BY <2>1
  <2>3. Reconciled(a) \in Node /\ Reconciled(a).status = to
    BY <1>1, <1>2, <1>3, <2>2, MovedFacts
  <2> QED  BY <1>7, <2>3 DEF Active, Past
<1>8. CASE Orphaned(a)
  <2>1. Reconciled(a) = [status |-> "failed", turn |-> None]
    BY <1>8 DEF Reconciled, Orphaned, Active
  <2>2. Reconciled(a) \in Node /\ Reconciled(a).status = "failed"
    BY <1>2, <2>1 DEF Node
  <2> QED  BY <1>8, <2>2 DEF Active, Orphaned, Past
<1>9. CASE graph[a].status \notin Active \cup {"requested", "integrating"} /\ ~Orphaned(a)
  <2>1. Reconciled(a) = graph[a]
    BY <1>9 DEF Reconciled, Active
  <2> QED  BY <1>1, <1>9, <2>1
<1> QED  BY <1>4, <1>5, <1>6, <1>7, <1>8, <1>9 DEF Active

LEMMA CrashStep ==
  ASSUME Base, Crash
  PROVE  Types' /\ \A b \in Agents : AgentOK(b)'
<1> USE DEF Base
<1>1. /\ graph' = [a \in Agents |-> Reconciled(a)] /\ node' = graph' /\ ahead' = {}
      /\ turn' = [t \in Turns |-> Resumed(t)]
      /\ track' = [a \in Agents |-> Rebound(graph'[a])] /\ applied' = {} /\ alloc' = {}
      /\ settlers' = {} /\ failing' = {} /\ canceled' = {} /\ queue' = <<>> /\ hung' = FALSE
      /\ UNCHANGED <<tree, misled>>
  BY DEF Crash
<1>2. /\ spawning' = [a \in Agents |-> "none"] /\ call' = [a \in Agents |-> "none"]
      /\ closing' = [a \in Agents |-> "none"] /\ merge' = [a \in Agents |-> "none"]
  BY DEF Crash
<1>3. /\ turn' \in [Turns -> TurnType]
      /\ \A t \in Turns : turn'[t].owner = turn[t].owner /\ (Live(t)' => Live(t))
  <2>1. \A t \in Turns : turn'[t] = Resumed(t)
    BY <1>1
  <2>2. \A t \in Turns : /\ Resumed(t) \in TurnType /\ Resumed(t).owner = turn[t].owner
                         /\ ~Live(t) => Resumed(t) = turn[t]
    BY DEF Resumed, Types, RuntimeTypes, TurnType
  <2>3. \A t \in Turns : Live(t)' => Live(t)
    BY <2>1, <2>2 DEF Live
  <2> QED  BY <1>1, <2>1, <2>2, <2>3
<1>4. \A a \in Agents : graph'[a] = Reconciled(a) /\ node'[a] = Reconciled(a)
  BY <1>1
<1>5. graph' \in [Agents -> Node]
  BY <1>1, ReconciledFacts
<1>6. \A rec \in Node :
        /\ Rebound(rec) \in TrackType
        /\ rec.status \in Active /\ rec.turn # None =>
             Rebound(rec).turn = rec.turn /\ Rebound(rec).at = "live"
        /\ ~(rec.status \in Active /\ rec.turn # None) => Rebound(rec).at = "none"
  BY DEF Rebound, NoTrack, TrackType, Node
<1>7. \A a \in Agents : track'[a] = Rebound(Reconciled(a))
  BY <1>1, <1>4
<1>8. Types'
  <2>1. track' \in [Agents -> TrackType]
    BY <1>1, <1>5, <1>6
  <2>2. ManagerTypes'
    BY <1>1, <1>5 DEF ManagerTypes, Types
  <2>3. WorkTypes'
    BY <1>1, <1>2 DEF Types, WorkTypes, Spawns, CallStates, Closes, Merges
  <2>4. Spend("faults") /\ budget \in Budgets
    BY DEF Crash, Types, RuntimeTypes
  <2>5. budget' \in Budgets
    BY <2>4, SpendTypes
  <2>6. queue' \in Seq(Events)
    BY <1>1
  <2> QED  BY <1>1, <1>3, <2>1, <2>2, <2>3, <2>5, <2>6 DEF Types, RunnerTypes, RuntimeTypes
<1>9. ASSUME NEW a \in Agents
      PROVE  AgentOK(a)'
  <2>1. Owned(a)' = Owned(a) /\ Owned(a) \subseteq Turns
    BY <1>3 DEF Owned
  <2>2. Latest(a)' = Latest(a)
    BY <2>1, LatestSame
  <2>3. PICK rec \in Node : rec = Reconciled(a)
    BY ReconciledFacts
  <2>4. graph'[a] = rec /\ node'[a] = rec /\ track'[a] = Rebound(rec)
    BY <1>4, <1>7, <2>3
  <2>5. rec.status \in Active => /\ Survives(a) /\ rec.turn = Latest(a) /\ Latest(a) # None
                                 /\ Latest(a) \in Owned(a)
    BY <2>3, ReconciledFacts, SurvivorOwned DEF Survives
  <2>6. Tracked(a)'
    <3>1. ASSUME track'[a].at = "live"
          PROVE  /\ track'[a].turn = Latest(a)' /\ Owned(a)' # {}
                 /\ OnTurn(node[a], a)' /\ OnTurn(graph[a], a)'
      BY <1>6, <2>1, <2>2, <2>4, <2>5, <3>1 DEF OnTurn
    <3>2. ASSUME NEW t \in Owned(a)', Live(t)'
          PROVE  Tracks(a, t)' \/ Beyond(a)'
      <4>1. t \in Owned(a) /\ Live(t)
        BY <1>3, <2>1, <3>2
      <4>2. CASE Beyond(a)
        BY <1>1, <2>3, <2>4, <4>2, ReconciledFacts DEF Beyond
      <4>3. CASE ~Beyond(a)
        <5>1. /\ t = Latest(a) /\ Survives(a) /\ (a \in misled \/ OnTurn(graph[a], a))
              /\ graph[a].status \in Early \cup {"running", "waiting"}
          BY <4>1, <4>3, SurvivesFacts
        <5>2. CASE graph[a].status \in Past
          <6>1. a \in misled
            BY <5>1, <5>2 DEF OnTurn, Active, Past
          <6> QED  BY <1>1, <2>3, <2>4, <5>2, <6>1, ReconciledFacts DEF Beyond
        <5>3. CASE graph[a].status \notin Past
          <6>1. graph[a].status \in Active \cup {"requested"}
            BY <5>1, <5>3 DEF Early, Active
          <6>2. rec.status \in Active
            BY <2>3, <5>1, <6>1, ReconciledFacts
          <6> QED  BY <1>6, <2>4, <2>5, <5>1, <6>2 DEF Tracks
        <5> QED  BY <5>2, <5>3
      <4> QED  BY <4>2, <4>3
    <3>3. call'[a] = "none" /\ \A s \in settlers' : s.agent # a
      BY <1>1, <1>2
    <3> QED  BY <3>1, <3>2, <3>3 DEF Tracked
  <2>7. Settling(a)' /\ Calling(a)' /\ Closing(a)' /\ Merging(a)'
    BY <1>1, <1>2 DEF Settling, Calling, Closing, Merging
  <2>8. Following(a)'
    BY <1>1 DEF Following
  <2>11. Named(a)'
    <3>1. rec.status \in {"running", "waiting"} => rec.turn = Latest(a) /\ Owned(a) # {}
      BY <2>5 DEF Active
    <3>2. (\E t \in Owned(a)' : Live(t)') => rec.status \in Early \cup {"running", "waiting"}
      <4>1. SUFFICES ASSUME NEW t \in Owned(a), Live(t)
                     PROVE  rec.status \in Early \cup {"running", "waiting"}
        BY <1>3, <2>1
      <4>2. CASE graph[a].status \in Past
        BY <2>3, <4>2, ReconciledFacts DEF Early
      <4>3. CASE graph[a].status \notin Past
        <5>1. ~Beyond(a)
          BY <4>3 DEF Beyond
        <5>2. Survives(a) /\ graph[a].status \in Active \cup {"requested"}
          BY <4>1, <4>3, <5>1, SurvivesFacts DEF Early, Active
        <5> QED  BY <2>3, <5>2, ReconciledFacts
      <4> QED  BY <4>2, <4>3
    <3>3. a \in misled => rec.status # "absent"
      BY <2>3, ReconciledFacts DEF AgentOK, Named
    <3> QED  BY <1>1, <1>2, <2>1, <2>2, <2>4, <3>1, <3>2, <3>3 DEF Named
  <2>9. Kept(a)'
    <3>1. rec.status \notin {"absent", "closed"} => a \in tree \/ a \in misled
      BY <2>3, ReconciledFacts DEF AgentOK, Kept, Orphaned
    <3>2. (\E t \in Owned(a)' : Live(t)') => a \in tree \/ a \in misled
      BY <1>3, <2>1 DEF AgentOK, Kept
    <3>3. a \in tree => rec.status # "absent"
      BY <2>3, ReconciledFacts DEF AgentOK, Kept, Orphaned
    <3> QED  BY <1>1, <1>2, <2>4, <3>1, <3>2, <3>3 DEF Kept
  <2>10. Spawning(a)'
    BY <1>1, <1>2, <2>9 DEF Spawning, Kept
  <2> QED  BY <2>6, <2>7, <2>8, <2>9, <2>10, <2>11 DEF AgentOK
<1> QED  BY <1>8, <1>9

-----------------------------------------------------------------------------
(* The turns and the queue.                                                *)

LEMMA TurnsFrame ==
  ASSUME TurnsOK, UNCHANGED <<turn, queue>>
  PROVE  TurnsOK'
<1>1. \A a \in Agents : Owned(a)' = Owned(a) /\ Latest(a)' = Latest(a)
  BY SameTurns
<1> QED  BY <1>1 DEF TurnsOK

LEMMA DispatchTurns ==
  ASSUME Base, Dispatch
  PROVE  TurnsOK'
<1>1. \A a \in Agents : Owned(a)' = Owned(a) /\ Latest(a)' = Latest(a)
  BY SameTurns DEF Dispatch
<1>2. queue \in Seq(Events) /\ queue # <<>> /\ queue' = Tail(queue)
  BY DEF Base, Types, RuntimeTypes, Dispatch
<1>3. \A i \in 1..Len(queue') : i + 1 \in 1..Len(queue) /\ queue'[i] = queue[i + 1]
  <2> HIDE DEF Events
  <2> QED  BY <1>2
<1> QED  BY <1>1, <1>3 DEF Base, TurnsOK, Dispatch

LEMMA RunnerStartTurns ==
  ASSUME Base, NEW a \in Agents, RunnerStart(a)
  PROVE  TurnsOK'
<1> USE DEF Base
<1>1. UNCHANGED queue
  BY DEF RunnerStart, startRest
<1>2. CASE UNCHANGED turn
  BY <1>1, <1>2, TurnsFrame
<1>3. ASSUME NEW t \in Turns, turn[t] = NoTurn, \A u \in 1..(t - 1) : turn[u] # NoTurn,
             turn' = [turn EXCEPT ![t].owner = a, ![t].at = "accepted"]
      PROVE  TurnsOK'
  <2>1. turn'[t].owner = a /\ turn'[t].at = "accepted" /\ \A u \in Turns : u # t => turn'[u] = turn[u]
    BY <1>3 DEF Types, RuntimeTypes, TurnType
  <2>2. /\ Owned(a)' = Owned(a) \cup {t} /\ Latest(a)' = t
        /\ \A u \in Owned(a) \cup {t} : u <= t
    <3>1. AcceptsTurn(a, t)
      BY <1>3 DEF AcceptsTurn
    <3> QED  BY <3>1, NewTurn
  <2>3. turn'[t] # NoTurn
    BY <2>1 DEF NoTurn
  <2>4. \A b \in Agents : b # a => Owned(b)' = Owned(b)
    <3>1. turn[t].owner = None
      BY <1>3 DEF NoTurn
    <3>2. \A b \in Agents : b # a => \A u \in Turns : turn'[u].owner = b <=> turn[u].owner = b
      BY <2>1, <3>1, TurnFacts
    <3> QED  BY <3>2 DEF Owned
  <2>5. \A b \in Agents : b # a => Latest(b)' = Latest(b)
    BY <2>4, LatestSame
  <2>6. \A b \in Agents : Owned(b)' # {} =>
          Latest(b)' \in Owned(b)' /\ \A u \in Owned(b)' : u <= Latest(b)'
    <3>1. ASSUME NEW b \in Agents, b # a, Owned(b)' # {}
          PROVE  Latest(b)' \in Owned(b)' /\ \A u \in Owned(b)' : u <= Latest(b)'
      <4>1. Owned(b)' = Owned(b) /\ Latest(b)' = Latest(b)
        BY <2>4, <2>5, <3>1
      <4>2. Latest(b) \in Owned(b) /\ \A u \in Owned(b) : u <= Latest(b)
        BY <3>1, <4>1 DEF TurnsOK
      <4> QED  BY <4>1, <4>2
    <3>2. Latest(a)' \in Owned(a)' /\ \A u \in Owned(a)' : u <= Latest(a)'
      BY <2>2
    <3> QED  BY <3>1, <3>2
  <2>7. \A v, u \in Turns : turn'[v] # NoTurn /\ u < v => turn'[u] # NoTurn
    <3>1. \A u \in Turns : u < t => u \in 1..(t - 1)
      BY TurnFacts DEF Turns
    <3>2. \A u \in Turns : u < t => turn[u] # NoTurn
      BY <1>3, <3>1
    <3>3. ASSUME NEW v \in Turns, NEW u \in Turns, turn'[v] # NoTurn, u < v, u # t
          PROVE  turn'[u] # NoTurn
      <4>1. turn'[u] = turn[u]
        BY <2>1, <3>3
      <4>2. CASE v = t
        BY <3>2, <3>3, <4>1, <4>2
      <4>3. CASE v # t
        <5>1. turn[v] # NoTurn
          BY <2>1, <3>3, <4>3
        <5> QED  BY <3>3, <4>1, <5>1 DEF TurnsOK
      <4> QED  BY <4>2, <4>3
    <3> QED  BY <2>3, <3>3
  <2>8. /\ \A u \in Turns : turn'[u].owner = None <=> turn'[u] = NoTurn
        /\ \A u \in Turns : turn'[u].at = "none" <=> turn'[u] = NoTurn
    BY <2>1, <2>3, TurnFacts DEF TurnsOK
  <2>9. \A i \in 1..Len(queue) : queue[i].turn \in Turns /\ queue[i].turn # t
    BY <1>3, QueueTurns DEF TurnsOK
  <2>10. \A i \in 1..Len(queue') :
           /\ turn'[queue'[i].turn] # NoTurn
           /\ queue'[i].kind \in Ended => turn'[queue'[i].turn].at = "ended"
    <3>1. \A i \in 1..Len(queue) :
            /\ turn[queue[i].turn] # NoTurn
            /\ queue[i].kind \in Ended => turn[queue[i].turn].at = "ended"
      BY DEF TurnsOK
    <3>2. \A i \in 1..Len(queue) : turn'[queue[i].turn] = turn[queue[i].turn]
      BY <2>1, <2>9
    <3> QED  BY <1>1, <3>1, <3>2
  <2> QED  BY <2>6, <2>7, <2>8, <2>10 DEF TurnsOK
<1> QED  BY <1>2, <1>3 DEF RunnerStart

LEMMA CrashTurns ==
  ASSUME Base, Crash
  PROVE  TurnsOK'
<1> USE DEF Base
<1>1. queue' = <<>> /\ turn' = [t \in Turns |-> Resumed(t)]
  BY DEF Crash
<1>2. \A t \in Turns : turn'[t] = Resumed(t)
  BY <1>1
<1>3. \A t \in Turns :
        /\ Resumed(t).owner = turn[t].owner
        /\ Resumed(t) = NoTurn <=> turn[t] = NoTurn
        /\ Resumed(t).at = "none" <=> turn[t].at = "none"
  BY DEF Resumed, Live, NoTurn, Types, RuntimeTypes, TurnType
<1>4. \A a \in Agents : Owned(a)' = Owned(a)
  BY <1>2, <1>3 DEF Owned
<1>5. \A a \in Agents : Latest(a)' = Latest(a)
  BY <1>4, LatestSame
<1>6. Len(queue') = 0
  BY <1>1
<1>7. \A i \in 1..Len(queue') : FALSE
  BY <1>6
<1>8. /\ \A t, u \in Turns : turn'[t] # NoTurn /\ u < t => turn'[u] # NoTurn
      /\ \A t \in Turns : turn'[t].owner = None <=> turn'[t] = NoTurn
      /\ \A t \in Turns : turn'[t].at = "none" <=> turn'[t] = NoTurn
  BY <1>2, <1>3 DEF TurnsOK
<1>9. \A a \in Agents : Owned(a)' # {} =>
        Latest(a)' \in Owned(a)' /\ \A u \in Owned(a)' : u <= Latest(a)'
  BY <1>4, <1>5 DEF TurnsOK
<1> QED  BY <1>7, <1>8, <1>9 DEF TurnsOK

-----------------------------------------------------------------------------
(* The slots.  Only StartTurn takes one.                                   *)

LEMMA SlotsKept ==
  ASSUME SlotsOK, \A b \in Agents : node'[b].status \in Active => node[b].status \in Active
  PROVE  SlotsOK'
<1>1. Busy' \subseteq Busy
  BY DEF Busy, occupiesSlot
<1>2. IsFiniteSet(Busy') /\ Cardinality(Busy') <= Cardinality(Busy)
  BY <1>1, FS_Subset DEF SlotsOK
<1>3. Cardinality(Busy) \in Nat /\ Cardinality(Busy') \in Nat /\ MaxParallel \in Nat
  BY <1>2, FS_CardinalityType, SubagentAssumption DEF SlotsOK
<1>4. Cardinality(Busy') <= MaxParallel
  BY <1>2, <1>3 DEF SlotsOK
<1> QED  BY <1>2, <1>4 DEF SlotsOK

LEMMA RecordSlots ==
  ASSUME Types, SlotsOK, NEW a \in Agents, NEW to \in Statuses, NEW t \in Turns \cup {None},
         NEW answer \in Answers, Record(a, to, t, answer), to # "starting"
  PROVE  SlotsOK'
<1>1. node[a] \in Node /\ node[a].status \in Statuses
  BY DEF Types, ManagerTypes, Node
<1>2. /\ CanTransition(node[a].status, to)
      /\ \A b \in Agents : b # a => node'[b] = node[b]
      /\ answer = "ok" => node'[a] = Moved(node[a], to, t)
      /\ answer # "ok" => node'[a] = node[a]
  BY DEF Record, Remembered, Types, ManagerTypes
<1>3. Moved(node[a], to, t).status = to
  BY <1>1, MovedFacts
<1>4. to \in Active => node[a].status \in Active
  BY <1>1, <1>2, IntoActive
<1> QED  BY <1>2, <1>3, <1>4, SlotsKept

LEMMA StartTurnSlots ==
  ASSUME Base, SlotsOK, NEW a \in Agents, StartTurn(a)
  PROVE  SlotsOK'
<1>1. /\ Cardinality(Busy) < MaxParallel
      /\ \A b \in Agents : b # a => node'[b] = node[b]
  BY DEF StartTurn, Record, Remembered, Base, Types, ManagerTypes
<1>2. Busy' \subseteq Busy \cup {a}
  BY <1>1 DEF Busy, occupiesSlot
<1>3. /\ IsFiniteSet(Busy \cup {a}) /\ Cardinality(Busy) \in Nat
      /\ \/ Cardinality(Busy \cup {a}) = Cardinality(Busy)
         \/ Cardinality(Busy \cup {a}) = Cardinality(Busy) + 1
  BY FS_AddElement, FS_CardinalityType DEF SlotsOK
<1>4. IsFiniteSet(Busy') /\ Cardinality(Busy') <= Cardinality(Busy \cup {a})
  BY <1>2, <1>3, FS_Subset
<1>5. Cardinality(Busy') \in Nat /\ MaxParallel \in Nat
  BY <1>4, FS_CardinalityType, SubagentAssumption
<1>6. Cardinality(Busy') <= MaxParallel
  BY <1>1, <1>3, <1>4, <1>5
<1> QED  BY <1>4, <1>6 DEF SlotsOK

LEMMA CrashSlots ==
  ASSUME Base, SlotsOK, Crash
  PROVE  SlotsOK'
<1>1. \A b \in Agents : node'[b] = Reconciled(b)
  BY DEF Crash
<1>2. \A b \in Agents : Reconciled(b).status \in Active => node[b].status \in Active
  <2> SUFFICES ASSUME NEW b \in Agents, Reconciled(b).status \in Active
               PROVE  node[b].status \in Active
    OBVIOUS
  <2>1. Survives(b) /\ graph[b].status \in Active \cup {"requested"}
    BY ReconciledFacts
  <2>2. ~Beyond(b)
    BY <2>1 DEF Beyond, Past, Active
  <2> QED  BY <2>1, <2>2, SurvivorOwned, SurvivesFacts
<1> QED  BY <1>1, <1>2, SlotsKept

(* Every other step that moves an agent of the Manager does so through     *)
(* transitionLocked, and not to starting.                                  *)
LEMMA Moves ==
  ASSUME Base, Next
  PROVE  \/ UNCHANGED node
         \/ \E a \in Agents, to \in Statuses \ {"starting"}, t \in Turns \cup {None},
               answer \in Answers : Record(a, to, t, answer)
         \/ \E a \in Agents : StartTurn(a)
         \/ Crash
<1> USE DEF Base
<1> DEFINE Goal == \E a \in Agents, to \in Statuses \ {"starting"}, t \in Turns \cup {None},
                      answer \in Answers : Record(a, to, t, answer)
<1>0. /\ {"requested", "failed", "running", "waiting", "closed", "integrating", "integrated",
          "integration_failed"} \cup Ended \subseteq Statuses \ {"starting"}
  BY DEF Statuses, Active, Terminal, Ended
<1>1. ASSUME NEW a \in Agents, NEW to \in Statuses \ {"starting"}, NEW t \in Turns \cup {None},
             NEW answer \in Answers, Record(a, to, t, answer)
      PROVE  Goal
  BY <1>1
<1> HIDE DEF Goal
<1>2. \A a \in Agents : node[a].turn \in Turns \cup {None} /\ Latest(a) \in Turns \cup {None}
  BY LatestFacts DEF Types, ManagerTypes, Node
<1>3. ASSUME NEW a \in Agents, Spawn(a)
      PROVE  UNCHANGED node \/ Goal
  <2>1. CASE SpawnCommit(a)
    BY <1>0, <1>1, <2>1 DEF SpawnCommit
  <2>2. CASE SpawnAllocate(a) \/ SpawnProvision(a) \/ SpawnParentGone(a) \/ SpawnDiscard(a)
    BY <2>2 DEF SpawnAllocate, SpawnProvision, SpawnParentGone, SpawnDiscard, managerVars
  <2> QED  BY <1>3, <2>1, <2>2 DEF Spawn
<1>4. ASSUME NEW a \in Agents, RunnerStart(a) \/ RunnerRefuses(a)
      PROVE  UNCHANGED node
  BY <1>4 DEF RunnerStart, RunnerRefuses, managerVars
<1>5. ASSUME NEW a \in Agents, StartReturns(a)
      PROVE  UNCHANGED node \/ Goal
  <2>1. \/ UNCHANGED node
        \/ \E answer \in Answers : Record(a, "failed", None, answer)
        \/ \E answer \in Answers : Record(a, "running", Latest(a), answer)
    BY <1>5 DEF StartReturns, managerVars
  <2> QED  BY <1>0, <1>1, <1>2, <2>1
<1>6. ASSUME NEW a \in Agents, CancelTurn(a)
      PROVE  UNCHANGED node
  BY <1>6 DEF CancelTurn, cancelRest, managerVars
<1>7. ASSUME NEW a \in Agents, Close(a)
      PROVE  UNCHANGED node \/ Goal
  <2>1. CASE CloseRecords(a)
    <3>1. \/ UNCHANGED node
          \/ \E answer \in Answers : Record(a, "closed", node[a].turn, answer)
      BY <2>1 DEF CloseRecords, managerVars
    <3> QED  BY <1>0, <1>1, <1>2, <3>1
  <2>2. CASE ~CloseRecords(a)
    BY <1>7, <2>2
       DEF Close, CloseBegin, CloseInterrupt, CloseCancels, CloseDiscards, CloseAborts, managerVars
  <2> QED  BY <2>1, <2>2
<1>8. ASSUME NEW a \in Agents, Merge(a)
      PROVE  UNCHANGED node \/ Goal
  <2>1. CASE MergeBegins(a)
    BY <1>0, <1>1, <1>2, <2>1 DEF MergeBegins
  <2>2. CASE MergeFinishes(a)
    <3>1. \E to \in {"integrated", "integration_failed"}, answer \in Answers :
            Record(a, to, node[a].turn, answer)
      BY <2>2 DEF MergeFinishes
    <3> QED  BY <1>0, <1>1, <1>2, <3>1
  <2>3. CASE MergeCommits(a) \/ MergeSavesReceipt(a)
    BY <2>3 DEF MergeCommits, MergeSavesReceipt, managerVars
  <2> QED  BY <1>8, <2>1, <2>2, <2>3 DEF Merge
<1>9. ASSUME NEW t \in Turns, RunTurn(t)
      PROVE  UNCHANGED node
  BY <1>9 DEF RunTurn, TurnStarts, TurnAsks, TurnAnswered, TurnEnds, turnRest, managerVars
<1>10. ASSUME NEW s \in settlers, SettleTurn(s)
       PROVE  UNCHANGED node \/ Goal
  <2>1. CASE SettlementDone(s)
    BY <2>1 DEF SettlementDone, managerVars
  <2>2. CASE SettleAttempt(s)
    <3>1. s.agent \in Agents /\ s.outcome \in Ended /\ s.turn \in Turns
      BY <2>2, TryingFacts DEF SettleAttempt, Trying
    <3>2. \/ UNCHANGED node
          \/ \E answer \in Answers : Record(s.agent, s.outcome, s.turn, answer)
      BY <2>2 DEF SettleAttempt, managerVars
    <3> QED  BY <1>0, <1>1, <3>1, <3>2
  <2> QED  BY <1>10, <2>1, <2>2 DEF SettleTurn
<1>11. ASSUME Dispatch
       PROVE  UNCHANGED node \/ Goal
  <2>1. PICK e : e = Head(queue)
    OBVIOUS
  <2>2. ~hung /\ queue # <<>>
    BY <1>11 DEF Dispatch
  <2>3. CASE Ignored(e) \/ Settles(e) \/ Starts(e)
    BY <1>11, <2>1, <2>3 DEF Dispatch, Settles, Starts, Approves, managerVars
  <2>4. CASE ~Ignored(e) /\ Approves(e)
    <3>1. PICK a \in Agents : a = Observed(e)
      BY <2>1, <2>2, <2>4, ObservedFacts
    <3>2. \/ UNCHANGED node
          \/ \E to \in {"running", "waiting"}, answer \in {"ok", "refused", "lost"} :
               Record(a, to, node[a].turn, answer)
      BY <2>4, <3>1 DEF Approves, managerVars
    <3>3. {"ok", "refused", "lost"} \subseteq Answers
      BY DEF Answers
    <3> QED  BY <1>0, <1>1, <1>2, <3>2, <3>3
  <2> QED  BY <1>11, <2>1, <2>3, <2>4 DEF Dispatch
<1>12. UNCHANGED node \/ Goal \/ (\E a \in Agents : StartTurn(a)) \/ Crash
  BY <1>3, <1>4, <1>5, <1>6, <1>7, <1>8, <1>9, <1>10, <1>11 DEF Next, Start
<1> QED  BY <1>12 DEF Goal

LEMMA SlotsStep ==
  ASSUME Base, SlotsOK, Next
  PROVE  SlotsOK'
<1>1. CASE UNCHANGED node
  BY <1>1, SlotsKept
<1>2. CASE \E a \in Agents, to \in Statuses \ {"starting"}, t \in Turns \cup {None},
              answer \in Answers : Record(a, to, t, answer)
  BY <1>2, RecordSlots DEF Base
<1>3. CASE \E a \in Agents : StartTurn(a)
  BY <1>3, StartTurnSlots
<1>4. CASE Crash
  BY <1>4, CrashSlots
<1> QED  BY <1>1, <1>2, <1>3, <1>4, Moves

LEMMA TurnsStep ==
  ASSUME Base, Next
  PROVE  TurnsOK'
<1> USE DEF Base
<1>1. ASSUME NEW a \in Agents, Spawn(a)
      PROVE  UNCHANGED <<turn, queue>>
  BY <1>1 DEF Spawn, SpawnAllocate, SpawnProvision, SpawnParentGone, SpawnCommit, SpawnDiscard,
              spawnRest
<1>2. ASSUME NEW a \in Agents, Start(a)
      PROVE  UNCHANGED <<turn, queue>> \/ RunnerStart(a)
  BY <1>2 DEF Start, StartTurn, RunnerRefuses, StartReturns, startRest
<1>3. ASSUME NEW a \in Agents, CancelTurn(a)
      PROVE  UNCHANGED <<turn, queue>>
  BY <1>3 DEF CancelTurn, cancelRest
<1>4. ASSUME NEW a \in Agents, Close(a)
      PROVE  UNCHANGED <<turn, queue>>
  BY <1>4 DEF Close, CloseBegin, CloseInterrupt, CloseCancels, CloseRecords, CloseDiscards,
              CloseAborts, closeRest
<1>5. ASSUME NEW a \in Agents, Merge(a)
      PROVE  UNCHANGED <<turn, queue>>
  BY <1>5 DEF Merge, MergeBegins, MergeCommits, MergeSavesReceipt, MergeFinishes, mergeRest
<1>6. ASSUME NEW s \in settlers, SettleTurn(s)
      PROVE  UNCHANGED <<turn, queue>>
  BY <1>6 DEF SettleTurn, SettleAttempt, SettlementDone, settleRest
<1>7. \/ UNCHANGED <<turn, queue>>
      \/ \E a \in Agents : RunnerStart(a)
      \/ \E t \in Turns : RunTurn(t)
      \/ Dispatch
      \/ Crash
  BY <1>1, <1>2, <1>3, <1>4, <1>5, <1>6 DEF Next
<1> QED  BY <1>7, TurnsFrame, RunnerStartTurns, RunTurnStep, DispatchTurns, CrashTurns

-----------------------------------------------------------------------------
LEMMA InitHolds ==
  ASSUME Init
  PROVE  IInv
<1>1. \A a \in Agents : node[a] \in Node /\ node[a].status \in {"failed", "absent"}
                        /\ (node[a].status = "failed" <=> a \in Residents)
  BY DEF Init, Node, Statuses, Terminal, Ended
<1>2. Types
  <2>1. node \in [Agents -> Node] /\ graph \in [Agents -> Node]
    BY <1>1 DEF Init
  <2>2. ManagerTypes
    BY <2>1 DEF Init, ManagerTypes
  <2>3. WorkTypes
    BY SubagentAssumption DEF Init, WorkTypes, Spawns, CallStates, Closes, Merges
  <2>4. RunnerTypes
    <3>1. NoTrack \in TrackType
      BY DEF NoTrack, TrackType
    <3> QED  BY <3>1 DEF Init, RunnerTypes
  <2>5. RuntimeTypes
    <3>1. turn \in [Turns -> TurnType]
      BY DEF Init, NoTurn, TurnType
    <3>2. budget \in Budgets
      BY SubagentAssumption DEF Init, Budgets
    <3>3. queue \in Seq(Events)
      BY DEF Init
    <3> QED  BY <3>1, <3>2, <3>3 DEF Init, RuntimeTypes
  <2> QED  BY <2>2, <2>3, <2>4, <2>5 DEF Types
<1>3. \A t \in Turns : turn[t] = NoTurn
  BY DEF Init
<1>4. \A a \in Agents : Owned(a) = {}
  BY <1>3, TurnFacts DEF Owned, NoTurn
<1>5. TurnsOK
  <2>1. Len(queue) = 0
    BY DEF Init
  <2>2. \A i \in 1..Len(queue) : FALSE
    BY <2>1
  <2>3. \A t \in Turns : turn[t].owner = None /\ turn[t].at = "none"
    BY <1>3 DEF NoTurn
  <2> QED  BY <1>3, <1>4, <2>2, <2>3 DEF TurnsOK
<1>6. SlotsOK
  <2>1. Busy = {}
    BY <1>1 DEF Busy, occupiesSlot, Active
  <2>2. IsFiniteSet(Busy) /\ Cardinality(Busy) = 0
    BY <2>1, FS_EmptySet
  <2> QED  BY <2>2, SubagentAssumption DEF SlotsOK
<1>7. ASSUME NEW a \in Agents
      PROVE  AgentOK(a)
  <2>1. /\ graph[a] = node[a] /\ a \notin ahead /\ spawning[a] = "none" /\ call[a] = "none"
        /\ track[a] = NoTrack /\ settlers = {} /\ closing[a] = "none" /\ merge[a] = "none"
        /\ (a \in tree <=> node[a].status = "failed") /\ a \notin misled
    BY <1>1 DEF Init
  <2>2. track[a].at = "none"
    BY <2>1 DEF NoTrack
  <2>3. Tracked(a) /\ Settling(a) /\ Calling(a) /\ Following(a) /\ Closing(a) /\ Merging(a)
    BY <1>4, <2>1, <2>2 DEF Tracked, Settling, Calling, Following, Closing, Merging
  <2>4. Spawning(a) /\ Kept(a) /\ Named(a)
    BY <1>1, <1>4, <2>1 DEF Spawning, Kept, Named
  <2> QED  BY <2>3, <2>4 DEF AgentOK
<1> QED  BY <1>2, <1>5, <1>6, <1>7 DEF IInv

LEMMA AgentsStep ==
  ASSUME Base, Next
  PROVE  Types' /\ \A b \in Agents : AgentOK(b)'
<1>1. ASSUME NEW a \in Agents, Spawn(a)
      PROVE  Types' /\ \A b \in Agents : AgentOK(b)'
  BY <1>1, SpawnAllocateStep, SpawnProvisionStep, SpawnParentGoneStep, SpawnCommitStep,
     SpawnDiscardStep DEF Spawn
<1>2. ASSUME NEW a \in Agents, Start(a)
      PROVE  Types' /\ \A b \in Agents : AgentOK(b)'
  BY <1>2, StartTurnStep, RunnerStartStep, RunnerRefusesStep, StartReturnsStep DEF Start
<1>3. ASSUME NEW a \in Agents, Close(a)
      PROVE  Types' /\ \A b \in Agents : AgentOK(b)'
  BY <1>3, CloseBeginStep, CloseInterruptStep, CloseCancelsStep, CloseRecordsStep,
     CloseDiscardsStep, CloseAbortsStep DEF Close
<1>4. ASSUME NEW a \in Agents, Merge(a)
      PROVE  Types' /\ \A b \in Agents : AgentOK(b)'
  BY <1>4, MergeBeginsStep, MergeCommitsStep, MergeSavesReceiptStep, MergeFinishesStep DEF Merge
<1>5. ASSUME NEW s \in settlers, SettleTurn(s)
      PROVE  Types' /\ \A b \in Agents : AgentOK(b)'
  BY <1>5, SettleAttemptStep, SettlementDoneStep DEF SettleTurn
<1> QED  BY <1>1, <1>2, <1>3, <1>4, <1>5, CancelTurnStep, RunTurnStep, DispatchStep, CrashStep
            DEF Next

LEMMA NextHolds ==
  ASSUME IInv, [Next]_vars
  PROVE  IInv'
<1>1. Base /\ SlotsOK
  BY DEF IInv, Base
<1>2. CASE Next
  BY <1>1, <1>2, AgentsStep, TurnsStep, SlotsStep DEF IInv
<1>3. CASE UNCHANGED vars
  <2>1. UNCHANGED <<node, graph, ahead, spawning, alloc, tree, call, track, settlers, failing,
                    closing, merge, applied, turn, canceled, queue, hung, budget, misled>>
    BY <1>3 DEF vars
  <2>2. Types'
    BY <1>1, <2>1 DEF Base, Types, ManagerTypes, WorkTypes, RunnerTypes, RuntimeTypes
  <2>3. \A b \in Agents : Untouched(b)
    BY <2>1 DEF Untouched
  <2>4. TurnsOK'
    BY <1>1, <2>1, TurnsFrame DEF Base
  <2>5. SlotsOK'
    BY <1>1, <2>1, SlotsKept
  <2> QED  BY <1>1, <2>2, <2>3, <2>4, <2>5, AllUntouched DEF IInv
<1> QED  BY <1>2, <1>3

(* The inductive invariant holds of the Manager, the Runner and the graph  *)
(* in every behaviour.                                                     *)
THEOREM SubagentInvariance == SubagentSpec => []IInv
<1>1. Init => IInv
  BY InitHolds
<1>2. IInv /\ [Next]_vars => IInv'
  BY NextHolds
<1> QED  BY <1>1, <1>2, PTL DEF SubagentSpec

(* Whatever the Manager and the Runner do, every variable keeps its type.  *)
THEOREM SubagentTypes == SubagentSpec => []SubagentTypeOK
<1>1. IInv => SubagentTypeOK
  BY DEF IInv, Types, ManagerTypes, WorkTypes, RunnerTypes, RuntimeTypes, SubagentTypeOK,
         Node, Spawns, CallStates, TrackType, Settlers, Closes, Merges, TurnType, Events, Budgets
<1> QED  BY <1>1, SubagentInvariance, PTL

(* The agents never hold more slots than execution.subagent.max_parallel,  *)
(* and every turn that may still run is tracked and holds one of them, of  *)
(* every agent the Manager was not misled about.                           *)
THEOREM Slotted == SubagentSpec => []TurnsHoldSlots
<1>1. IInv => TurnsHoldSlots
  <2> SUFFICES ASSUME IInv PROVE TurnsHoldSlots
    OBVIOUS
  <2>1. ASSUME NEW t \in Turns, Live(t), turn[t].owner \in Trusted
        PROVE  occupiesSlot(node[turn[t].owner].status) /\ Tracks(turn[t].owner, t)
    <3>1. PICK a \in Agents : a = turn[t].owner /\ a \notin misled
      BY <2>1 DEF Trusted
    <3>2. Tracks(a, t)
      BY <2>1, <3>1 DEF IInv, AgentOK, Tracked, Owned, Beyond
    <3>3. node[a].status \in Active
      BY <3>2 DEF IInv, AgentOK, Tracked, Tracks, OnTurn
    <3> QED  BY <3>1, <3>2, <3>3 DEF occupiesSlot
  <2> QED  BY <2>1 DEF IInv, SlotsOK, TurnsHoldSlots
<1> QED  BY <1>1, SubagentInvariance, PTL

(* The worktree of an agent the Manager was not misled about is there as   *)
(* long as a turn, an integration or a later start may need it, and a      *)
(* restart can attribute every worktree.                                   *)
THEOREM Worktrees == SubagentSpec => []WorktreesKept
<1>1. IInv => WorktreesKept
  BY DEF IInv, AgentOK, Kept, WorktreesKept, Trusted
<1> QED  BY <1>1, SubagentInvariance, PTL

(* Of an agent the Manager was not misled about, a record in the graph     *)
(* that the Manager was told had failed is one legal transition ahead and  *)
(* has had no effect; without one the two agree.                           *)
THEOREM Followed == SubagentSpec => []GraphFollows
<1>1. IInv => GraphFollows
  BY DEF IInv, AgentOK, Following, GraphFollows, Trusted
<1> QED  BY <1>1, SubagentInvariance, PTL

(* The changes of a child are written to the workspace only while the      *)
(* child is fenced: integrating, with no turn running and no close         *)
(* removing its worktree, unless the Manager was misled about it.          *)
THEOREM Fenced == SubagentSpec => []MergeIsFenced
<1>1. IInv => MergeIsFenced
  <2> SUFFICES ASSUME IInv, NEW a \in Agents, a \notin misled,
                      merge[a] \in {"begun", "committed", "applied", "undone"}
               PROVE  /\ node[a].status = "integrating"
                      /\ \A t \in Owned(a) : ~Live(t)
                      /\ closing[a] # "discarding"
    BY DEF MergeIsFenced, Trusted
  <2>1. AgentOK(a)
    BY DEF IInv
  <2>2. node[a].status = "integrating"
    BY <2>1 DEF AgentOK, Merging
  <2>3. closing[a] # "discarding"
    BY <2>1, <2>2 DEF AgentOK, Closing
  <2>4. \A t \in Owned(a) : ~Live(t)
    BY <2>1, <2>2 DEF AgentOK, Tracked, Tracks, OnTurn, Active, Beyond
  <2> QED  BY <2>2, <2>3, <2>4
<1> QED  BY <1>1, SubagentInvariance, PTL
=============================================================================
