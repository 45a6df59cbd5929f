--------------------------- MODULE McpPoolProofs ---------------------------
(***************************************************************************)
(* The safety of the MCP connections, for any number of servers, callers,  *)
(* connections, changes and failures.                                      *)
(*                                                                         *)
(* What the invariants rest on is who may touch a runtime: the holder of   *)
(* Pool.lifecycle alone builds, publishes and closes connections (Held,    *)
(* Building, Connecting).  A retry that no timer and no flag stands for is *)
(* one the worker will still come to in its pass (RetryDue), and a catalog *)
(* is followed from the connection that discovered it, before the Pool     *)
(* offers it (StaleKnown).                                                 *)
(***************************************************************************)
EXTENDS McpPool, TLAPS

Lives == {"none", "building", "discovered", "open", "dead", "closed"}
Trackers ==
  [state : {"starting", "healthy", "degraded", "open", "half_open"},
   failures : 0..Threshold, wait : 0..Cooldown]
Reloads ==
  [at : {"none", "queued", "late", "connecting", "found", "closing", "leaving"},
   gen : 0..MaxGens, old : 0..MaxGens]
Workers ==
  [at : {"idle", "reload", "connecting", "probe", "pinging"},
   on : Links \cup {None}, todo : SUBSET Links]
CallType ==
  [at : {"idle", "chosen", "probing", "sent"}, server : Servers \cup {None},
   gen : 0..MaxGens]

LinkTypes ==
  /\ conn \in [Links -> Lives]
  /\ health \in [Links -> Trackers]
  /\ found \in [Links -> 0..MaxChanges]
  /\ notes \subseteq Links /\ timers \subseteq 0..Cooldown

ServerTypes ==
  /\ rivals \subseteq Servers /\ collided \subseteq rivals /\ missed \subseteq Servers
  /\ current \in [Servers -> Gens]
  /\ offered \in [Servers -> 0..MaxGens]
  /\ version \in [Servers -> 0..MaxChanges]

RoutineTypes ==
  /\ reload \in [Servers -> Reloads]
  /\ lifecycle \in Servers \cup {WorkerHolds, None}
  /\ worker \in Workers
  /\ hung \in BOOLEAN /\ dirty \in BOOLEAN /\ token \in BOOLEAN

CallTypes ==
  /\ calls \in [Callers -> CallType]
  /\ \A c \in Callers : calls[c].at # "idle" => Link(c) \in Links
  /\ faults \in 0..MaxFaults

Types == LinkTypes /\ ServerTypes /\ RoutineTypes /\ CallTypes

(* Who holds Pool.lifecycle.                                               *)
Held ==
  /\ \A s \in Servers :
       reload[s].at \in {"connecting", "found", "closing"} <=> lifecycle = s
  /\ worker.at = "connecting" <=> lifecycle = WorkerHolds

(* What ReloadServer builds, publishes and closes, and what is offered.    *)
Building ==
  \A s \in Servers :
    /\ offered[s] \in {0, current[s]}
    /\ offered[s] # 0 => conn[Current(s)] \in {"open", "dead"}
    /\ reload[s].at \in {"connecting", "found"} =>
         reload[s].gen \in Gens \ {current[s]} /\ reload[s].old = offered[s]
    /\ reload[s].at = "connecting" => conn[New(s)] = "building"
    /\ reload[s].at = "found" /\ ~hung => conn[New(s)] = "discovered"
    /\ reload[s].at = "closing" =>
         /\ reload[s].gen = current[s] /\ offered[s] = current[s]
         /\ reload[s].old # current[s]

(* What the worker connects in Pool.Reload.                                *)
Connecting ==
  /\ worker.at = "connecting" =>
       /\ \A l \in worker.todo : l = Current(l[1]) /\ offered[l[1]] = 0
       /\ worker.on # None =>
            /\ worker.on = Current(worker.on[1]) /\ offered[worker.on[1]] = 0
            /\ conn[worker.on] \in {"building", "discovered"}
       /\ \A s \in Servers :
            conn[Current(s)] \in {"building", "discovered"} =>
              worker.on = Current(s)
  /\ worker.at \in {"idle", "reload"} => worker.on = None /\ worker.todo = {}
  /\ worker.at = "probe" => worker.on = None
  /\ worker.at = "pinging" => worker.on # None

Structure == Held /\ Building /\ Connecting /\ NothingLeaks

(* The pass the worker is in, or about to begin, will look at a server.    *)
Pass(s) ==
  \/ worker.at = "reload"
  \/ /\ worker.at = "connecting"
     /\ worker.on = Current(s) \/ conn[Current(s)] \in {"open", "dead"}
  \/ Current(s) \in worker.todo

(* An open tracker is due to be looked at: by a timer, by a wake-up, or    *)
(* by the pass the worker is in.                                           *)
Awaited(s) ==
  \/ health[Current(s)].wait \in timers
  \/ health[Current(s)].wait = 0 /\ ((dirty /\ token) \/ Pass(s))

RetryDue ==
  \A s \in Servers \ collided :
    health[Current(s)].state = "open" /\ ~hung => Awaited(s)

(* The connections whose catalog is offered or about to be.                *)
Follows(s, g) ==
  \/ g = offered[s] /\ conn[<<s, g>>] = "open"
  \/ reload[s].at = "found" /\ g = reload[s].gen
  \/ /\ lifecycle = WorkerHolds /\ g = current[s]
     /\ conn[<<s, g>>] \in {"discovered", "open"}

(* One of them that was overtaken has its notification pending, or a       *)
(* reload of the server has its discovery ahead, or has made it.           *)
Known(s, g) ==
  Follows(s, g) /\ found[<<s, g>>] < version[s] =>
    \/ <<s, g>> \in notes
    \/ reload[s].at \in {"queued", "late", "connecting"}
    \/ reload[s].at = "found" /\ g = offered[s]

(* A reload that ends leaves the Pool with what it found.                  *)
Left(s) ==
  reload[s].at = "leaving" =>
    reload[s].gen = current[s] /\ offered[s] = current[s]

StaleKnown ==
  ~hung => \A s \in Servers \ missed : Left(s) /\ \A g \in Gens : Known(s, g)

IInv == Types /\ Structure /\ RetryDue /\ StaleKnown

-----------------------------------------------------------------------------
(* Links and trackers.                                                     *)

LEMMA LinkFacts ==
  /\ \A s \in Servers, g \in Gens :
       <<s, g>> \in Links /\ <<s, g>>[1] = s /\ <<s, g>>[2] = g
  /\ \A l \in Links : l[1] \in Servers /\ l[2] \in Gens /\ l = <<l[1], l[2]>>
  /\ None \notin Servers /\ None # WorkerHolds /\ WorkerHolds \notin Servers
  /\ None \notin Links
  /\ 0 \notin Gens /\ Gens \subseteq 0..MaxGens /\ Gens \subseteq Nat
  /\ Servers \subseteq Nat /\ MaxGens \in Nat /\ 0 \in 0..MaxGens
<1>1. \A s \in Servers, g \in Gens :
       <<s, g>> \in Links /\ <<s, g>>[1] = s /\ <<s, g>>[2] = g
  BY DEF Links
<1>2. ASSUME NEW l \in Links
      PROVE  l[1] \in Servers /\ l[2] \in Gens /\ l = <<l[1], l[2]>>
  <2>1. PICK s \in Servers, g \in Gens : l = <<s, g>>
    BY DEF Links
  <2>2. l[1] = s /\ l[2] = g
    BY <2>1
  <2> QED  BY <2>1, <2>2, Zenon
<1>3. /\ None \notin Servers /\ None # WorkerHolds /\ WorkerHolds \notin Servers
      /\ None \notin Links
  <2>1. Links \subseteq Servers \X Nat
    BY PoolAssumption DEF Links, Gens
  <2>2. None \notin Links
    BY <2>1, PoolAssumption, Zenon
  <2>3. None \notin Nat /\ Servers \subseteq Nat \ {0}
    BY PoolAssumption, Zenon
  <2>4. None \notin Servers
    BY <2>3
  <2>5. None # 0 /\ 0 \notin Servers
    BY <2>3
  <2> QED  BY <2>2, <2>4, <2>5, Zenon DEF WorkerHolds
<1>4. /\ 0 \notin Gens /\ Gens \subseteq 0..MaxGens /\ Gens \subseteq Nat
      /\ Servers \subseteq Nat /\ MaxGens \in Nat /\ 0 \in 0..MaxGens
  BY PoolAssumption DEF Gens
<1> QED  BY <1>1, <1>2, <1>3, <1>4

(* The trackers the code makes.                                            *)
LEMMA TrackerFacts ==
  /\ Fresh \in Trackers /\ Well \in Trackers /\ Opened \in Trackers
  /\ Fresh.state = "starting" /\ Well.state = "healthy"
  /\ Opened.state = "open" /\ Opened.wait = Cooldown
  /\ Cooldown \in 0..Cooldown
  /\ \A h \in Trackers :
       /\ Failed(h) \in Trackers /\ HalfOpen(h) \in Trackers
       /\ HalfOpen(h).state = "half_open"
       /\ Failed(h).state = "open" => Failed(h).wait = Cooldown
       /\ [h EXCEPT !.wait = Lower(@)] \in Trackers
<1> USE PoolAssumption
<1>1. Fresh \in Trackers /\ Well \in Trackers /\ Opened \in Trackers
  BY DEF Fresh, Well, Opened, Trackers
<1>2. ASSUME NEW h \in Trackers
      PROVE  /\ Failed(h) \in Trackers
             /\ Failed(h).state = "open" => Failed(h).wait = Cooldown
  <2>1. h.failures \in Nat
    BY DEF Trackers
  <2>2. CASE h.failures + 1 >= Threshold
    BY <1>1, <2>2 DEF Failed, Opened
  <2>3. CASE ~(h.failures + 1 >= Threshold)
    <3>1. h.failures + 1 \in 0..Threshold /\ 0 \in 0..Cooldown
      BY <2>1, <2>3
    <3>2. Failed(h) = [state |-> "degraded", failures |-> h.failures + 1, wait |-> 0]
      BY <2>3 DEF Failed
    <3> QED  BY <3>1, <3>2 DEF Trackers
  <2> QED  BY <2>2, <2>3
<1>3. ASSUME NEW h \in Trackers
      PROVE  HalfOpen(h) \in Trackers /\ HalfOpen(h).state = "half_open"
  BY DEF HalfOpen, Trackers
<1>4. ASSUME NEW h \in Trackers PROVE [h EXCEPT !.wait = Lower(@)] \in Trackers
  BY DEF Lower, Trackers
<1> QED
  BY <1>1, <1>2, <1>3, <1>4 DEF Fresh, Well, Opened

(* What a change of a tracker does to the timers.                          *)
LEMMA BecomesFacts ==
  ASSUME Types, NEW l \in Links, NEW h \in Trackers, Becomes(l, h)
  PROVE  /\ health' \in [Links -> Trackers] /\ timers' \subseteq 0..Cooldown
         /\ timers \subseteq timers' /\ ~hung
         /\ health'[l] = h /\ (h.state = "open" => h.wait \in timers')
         /\ \A k \in Links : k # l => health'[k] = health[k]
BY DEF Becomes, Emit, Types, LinkTypes, Trackers

(* An update keeps a function's type.                                      *)
LEMMA Updated ==
  ASSUME NEW S, NEW T, NEW f \in [S -> T], NEW x, NEW v \in T
  PROVE  [f EXCEPT ![x] = v] \in [S -> T]
OBVIOUS

(* A change of a tracker keeps the types.                                  *)
LEMMA BecomesTypes ==
  ASSUME LinkTypes, NEW l, NEW h \in Trackers, Becomes(l, h)
  PROVE  health' \in [Links -> Trackers] /\ timers' \subseteq 0..Cooldown
BY Updated DEF Becomes, Emit, LinkTypes, Trackers

(* So does what resolveCatalogCollisions makes of them.                    *)
LEMMA ResolvedTypes ==
  ASSUME NEW h \in [Links -> Trackers], NEW gen, NEW flags, NEW conflicts
  PROVE  Resolved(h, gen, flags, conflicts) \in [Links -> Trackers]
BY TrackerFacts DEF Resolved

(* The connections that calls and pings use.                               *)
LEMMA Users ==
  ASSUME Types, Structure
  PROVE  /\ \A c \in Callers : calls[c].at # "idle" =>
              Link(c) \in Links /\ health[Link(c)] \in Trackers
         /\ worker.at = "pinging" => worker.on \in Links /\ health[worker.on] \in Trackers
         /\ worker.on # None => worker.on \in Links
         /\ \A s \in Servers : Current(s) \in Links
BY LinkFacts DEF Types, CallTypes, LinkTypes, RoutineTypes, ServerTypes, Workers,
       Structure, Connecting, Current

-----------------------------------------------------------------------------
(* Types.                                                                  *)

(* What a call goes on with.                                               *)
LEMMA CallSteps ==
  ASSUME CallTypes, NEW c \in Callers,
         \/ calls[c].at # "idle" /\ CallGoes(c, "sent")
         \/ calls[c].at # "idle" /\ CallGoes(c, "probing")
         \/ CallEnds(c)
  PROVE  /\ calls' \in [Callers -> CallType]
         /\ \A d \in Callers : calls'[d].at # "idle" => Link(d)' \in Links
<1> USE DEF CallTypes
<1>1. CASE CallEnds(c)
  <2>1. Idle \in CallType /\ Idle.at = "idle"
    BY LinkFacts DEF Idle, CallType
  <2>2. calls' = [calls EXCEPT ![c] = Idle]
    BY <1>1 DEF CallEnds
  <2> QED  BY <2>1, <2>2 DEF Link
<1>2. CASE calls[c].at # "idle" /\ (CallGoes(c, "sent") \/ CallGoes(c, "probing"))
  <2>1. PICK at \in {"sent", "probing"} : calls' = [calls EXCEPT ![c].at = at]
    BY <1>2 DEF CallGoes
  <2>2. /\ calls' \in [Callers -> CallType]
        /\ calls'[c].server = calls[c].server /\ calls'[c].gen = calls[c].gen
        /\ \A d \in Callers : d # c => calls'[d] = calls[d]
    BY <2>1 DEF CallType
  <2> QED  BY <1>2, <2>2 DEF Link
<1> QED  BY <1>1, <1>2

LEMMA LinkTypesStep ==
  ASSUME Types, Structure, Next
  PROVE  LinkTypes'
<1> USE DEF Types, LinkTypes, envVars, linkVars, poolVars, wakeVars, Handled
<1>1. ASSUME NEW s \in Servers, ListChanges(s) PROVE LinkTypes'
  BY <1>1 DEF ListChanges
<1>2. ASSUME NEW s \in Servers, ReloadConnects(s) PROVE LinkTypes'
  <2>1. PICK g \in Gens : /\ conn' = [conn EXCEPT ![<<s, g>>] = "building"]
                         /\ health' = [health EXCEPT ![<<s, g>>] = Fresh]
    BY <1>2 DEF ReloadConnects, Unused
  <2>2. conn' \in [Links -> Lives] /\ health' \in [Links -> Trackers]
    BY <2>1, Updated, TrackerFacts DEF Lives
  <2> QED  BY <1>2, <2>2 DEF ReloadConnects
<1>3. ASSUME NEW s \in Servers, ReloadDiscovers(s) PROVE LinkTypes'
  <2>1. version[New(s)[1]] \in 0..MaxChanges
    BY DEF New, ServerTypes
  <2>2. conn' \in [Links -> Lives] /\ found' \in [Links -> 0..MaxChanges]
    BY <1>3, <2>1, Updated DEF ReloadDiscovers, Discovers, Lives
  <2> QED  BY <1>3, <2>2 DEF ReloadDiscovers
<1>4. ASSUME NEW s \in Servers, ReloadFails(s) PROVE LinkTypes'
  <2>1. health' \in [Links -> Trackers] /\ timers' \subseteq 0..Cooldown
    BY <1>4, BecomesTypes, TrackerFacts DEF ReloadFails
  <2>2. 0 \in 0..MaxChanges
    BY PoolAssumption
  <2>3. conn' \in [Links -> Lives] /\ found' \in [Links -> 0..MaxChanges]
    BY <1>4, <2>2, Updated DEF ReloadFails, Lives
  <2> QED  BY <1>4, <2>1, <2>3 DEF ReloadFails
<1>5. ASSUME NEW s \in Servers, ReloadPublishes(s) PROVE LinkTypes'
  <2>1. conn' \in [Links -> Lives]
    BY <1>5, Updated DEF ReloadPublishes, Lives
  <2>2. [health EXCEPT ![New(s)] = Well] \in [Links -> Trackers]
    BY Updated, TrackerFacts
  <2>3. health' \in [Links -> Trackers]
    BY <1>5, <2>2, ResolvedTypes DEF ReloadPublishes
  <2> QED  BY <1>5, <2>1, <2>3 DEF ReloadPublishes
<1>6. ASSUME NEW s \in Servers, ReloadCloses(s) PROVE LinkTypes'
  <2>1. 0 \in 0..MaxChanges /\ "closed" \in Lives /\ "none" \in Lives
    BY PoolAssumption DEF Lives
  <2>2. conn' \in [Links -> Lives]
    BY <1>6, <2>1 DEF ReloadCloses
  <2>3. found' \in [Links -> 0..MaxChanges]
    BY <1>6, <2>1 DEF ReloadCloses
  <2>4. health' \in [Links -> Trackers]
    BY <1>6, TrackerFacts DEF ReloadCloses
  <2> QED  BY <1>6, <2>2, <2>3, <2>4 DEF ReloadCloses
<1>7. ASSUME NEW s \in Servers, ReloadLeaves(s) PROVE LinkTypes'
  BY <1>7 DEF ReloadLeaves
<1>8. ASSUME NEW l \in Links, RequestServerReload(l) PROVE LinkTypes'
  BY <1>8 DEF RequestServerReload
<1>9. ASSUME NEW l \in Links, TransportDies(l) PROVE LinkTypes'
  <2>1. Failed(health[l]) \in Trackers
    BY TrackerFacts
  <2>2. health' \in [Links -> Trackers] /\ timers' \subseteq 0..Cooldown
    BY <1>9, <2>1, BecomesTypes DEF TransportDies
  <2>3. conn' \in [Links -> Lives]
    BY <1>9, Updated DEF TransportDies, Lives
  <2> QED  BY <1>9, <2>2, <2>3 DEF TransportDies
<1>10. ASSUME NEW l \in Links, WorkerConnects(l) PROVE LinkTypes'
  <2>1. conn' \in [Links -> Lives]
    BY <1>10, Updated DEF WorkerConnects, Lives
  <2> QED  BY <1>10, <2>1 DEF WorkerConnects
<1>11. ASSUME NEW l \in Links, WorkerProbes(l) PROVE LinkTypes'
  <2>1. HalfOpen(health[l]) \in Trackers
    BY TrackerFacts
  <2>2. health' \in [Links -> Trackers] /\ timers' \subseteq 0..Cooldown
    BY <1>11, <2>1, BecomesTypes DEF WorkerProbes
  <2> QED  BY <1>11, <2>2 DEF WorkerProbes
<1>12. ASSUME WorkerWakes PROVE LinkTypes'
  BY <1>12 DEF WorkerWakes
<1>13. ASSUME WorkerReloads PROVE LinkTypes'
  BY <1>13 DEF WorkerReloads
<1>14. ASSUME WorkerDiscovers PROVE LinkTypes'
  <2>1. worker.on \in Links
    BY <1>14, Users DEF WorkerDiscovers
  <2>2. version[worker.on[1]] \in 0..MaxChanges
    BY <2>1, LinkFacts DEF ServerTypes
  <2>3. conn' \in [Links -> Lives] /\ found' \in [Links -> 0..MaxChanges]
    BY <1>14, <2>2, Updated DEF WorkerDiscovers, Discovers, Lives
  <2> QED  BY <1>14, <2>3 DEF WorkerDiscovers
<1>15. ASSUME WorkerConnected PROVE LinkTypes'
  <2>1. health' \in [Links -> Trackers] /\ timers' \subseteq 0..Cooldown
    BY <1>15, BecomesTypes, TrackerFacts DEF WorkerConnected
  <2>2. conn' \in [Links -> Lives]
    BY <1>15, Updated DEF WorkerConnected, Lives
  <2> QED  BY <1>15, <2>1, <2>2 DEF WorkerConnected
<1>16. ASSUME WorkerRefused PROVE LinkTypes'
  <2>1. health' \in [Links -> Trackers] /\ timers' \subseteq 0..Cooldown
    BY <1>16, BecomesTypes, TrackerFacts DEF WorkerRefused
  <2>2. conn' \in [Links -> Lives]
    BY <1>16, Updated DEF WorkerRefused, Lives
  <2> QED  BY <1>16, <2>1, <2>2 DEF WorkerRefused
<1>17. ASSUME WorkerPublishes PROVE LinkTypes'
  <2>1. health' \in [Links -> Trackers]
    BY <1>17, ResolvedTypes DEF WorkerPublishes
  <2>2. timers' \subseteq 0..Cooldown
    BY <1>17, TrackerFacts DEF WorkerPublishes
  <2> QED  BY <1>17, <2>1, <2>2 DEF WorkerPublishes
<1>18. ASSUME WorkerPinged PROVE LinkTypes'
  <2>1. health' \in [Links -> Trackers] /\ timers' \subseteq 0..Cooldown
    BY <1>18, BecomesTypes, TrackerFacts DEF WorkerPinged
  <2> QED  BY <1>18, <2>1 DEF WorkerPinged
<1>19. ASSUME WorkerRests PROVE LinkTypes'
  BY <1>19 DEF WorkerRests
<1>20. ASSUME Tick PROVE LinkTypes'
  <2>1. health' \in [Links -> Trackers]
    BY <1>20, TrackerFacts DEF Tick
  <2>2. \A n \in 0..Cooldown : Lower(n) \in 0..Cooldown
    BY PoolAssumption DEF Lower
  <2>3. timers' \subseteq 0..Cooldown
    BY <1>20, <2>2 DEF Tick
  <2> QED  BY <1>20, <2>1, <2>3 DEF Tick
<1>21. ASSUME RequestRetry PROVE LinkTypes'
  BY <1>21 DEF RequestRetry
<1>22. ASSUME NEW c \in Callers, BeforeBusinessCall(c) PROVE LinkTypes'
  <2>1. calls[c].at # "idle"
    BY <1>22 DEF BeforeBusinessCall
  <2>2. HalfOpen(health[Link(c)]) \in Trackers
    BY <2>1, Users, TrackerFacts
  <2>3. health' \in [Links -> Trackers] /\ timers' \subseteq 0..Cooldown
    BY <1>22, <2>2, BecomesTypes DEF BeforeBusinessCall
  <2> QED  BY <1>22, <2>3 DEF BeforeBusinessCall
<1>23. ASSUME NEW c \in Callers, CallPinged(c) PROVE LinkTypes'
  <2>1. health' \in [Links -> Trackers] /\ timers' \subseteq 0..Cooldown
    BY <1>23, BecomesTypes, TrackerFacts DEF CallPinged
  <2> QED  BY <1>23, <2>1 DEF CallPinged
<1>24. ASSUME NEW c \in Callers, CallReturns(c) PROVE LinkTypes'
  <2>1. calls[c].at # "idle"
    BY <1>24 DEF CallReturns
  <2>2. Failed(health[Link(c)]) \in Trackers
    BY <2>1, Users, TrackerFacts
  <2>3. health' \in [Links -> Trackers] /\ timers' \subseteq 0..Cooldown
    BY <1>24, <2>2, BecomesTypes, TrackerFacts DEF CallReturns
  <2> QED  BY <1>24, <2>3 DEF CallReturns
<1>25. ASSUME NEW c \in Callers, CallCanceled(c) PROVE LinkTypes'
  BY <1>25 DEF CallCanceled
<1>26. ASSUME NEW c \in Callers, NEW s \in Servers, CallTool(c, s) PROVE LinkTypes'
  BY <1>26 DEF CallTool
<1>30. ASSUME NEW s \in Servers, ReloadLate(s) PROVE LinkTypes'
  BY <1>30 DEF ReloadLate
<1>31. ASSUME NEW s \in Servers, ReloadExpires(s) PROVE LinkTypes'
  <2>1. health' \in [Links -> Trackers] /\ timers' \subseteq 0..Cooldown
    BY <1>31, BecomesTypes, TrackerFacts DEF ReloadExpires
  <2> QED  BY <1>31, <2>1 DEF ReloadExpires
<1> QED
  BY <1>1, <1>2, <1>3, <1>4, <1>5, <1>6, <1>7, <1>8, <1>9, <1>10, <1>11, <1>12, <1>13, <1>14, <1>15, <1>16, <1>17, <1>18, <1>19, <1>20, <1>21, <1>22, <1>23, <1>24, <1>25, <1>26, <1>30, <1>31 DEF Next, Reload, Worker, Call

LEMMA ServerTypesStep ==
  ASSUME Types, Structure, Next
  PROVE  ServerTypes'
<1> USE DEF Types, ServerTypes, envVars, linkVars, poolVars, wakeVars
<1>1. ASSUME NEW s \in Servers, ListChanges(s) PROVE ServerTypes'
  <2>1. version[s] + 1 \in 0..MaxChanges
    BY <1>1, PoolAssumption DEF ListChanges
  <2>2. version' \in [Servers -> 0..MaxChanges]
    BY <1>1, <2>1, Updated DEF ListChanges
  <2> QED  BY <1>1, <2>2 DEF ListChanges
<1>2. ASSUME NEW s \in Servers, ReloadConnects(s) PROVE ServerTypes'
  BY <1>2 DEF ReloadConnects
<1>3. ASSUME NEW s \in Servers, ReloadDiscovers(s) PROVE ServerTypes'
  BY <1>3 DEF ReloadDiscovers
<1>4. ASSUME NEW s \in Servers, ReloadFails(s) PROVE ServerTypes'
  BY <1>4 DEF ReloadFails
<1>5. ASSUME NEW s \in Servers, ReloadPublishes(s) PROVE ServerTypes'
  <2>1. CASE UNCHANGED <<poolVars, missed, reload>>
    BY <1>5, <2>1 DEF ReloadPublishes
  <2>2. CASE ~UNCHANGED <<poolVars, missed, reload>>
    <3> DEFINE next == [offered EXCEPT ![s] = reload[s].gen]
    <3>1. /\ current' = [current EXCEPT ![s] = reload[s].gen] /\ offered' = next
          /\ collided' = Conflicted({r \in Servers : next[r] # 0})
          /\ missed' \subseteq missed /\ UNCHANGED <<rivals, version>>
      BY <1>5, <2>2 DEF ReloadPublishes
    <3>2. reload[s].gen \in Gens /\ reload[s].gen \in 0..MaxGens
      BY <1>5, LinkFacts DEF ReloadPublishes, Structure, Building, RoutineTypes
    <3>3. current' \in [Servers -> Gens] /\ offered' \in [Servers -> 0..MaxGens]
      BY <3>1, <3>2, Updated
    <3>4. collided' \subseteq rivals'
      BY <3>1 DEF Conflicted
    <3> QED  BY <3>1, <3>3, <3>4
  <2> QED  BY <2>1, <2>2
<1>6. ASSUME NEW s \in Servers, ReloadCloses(s) PROVE ServerTypes'
  BY <1>6 DEF ReloadCloses
<1>7. ASSUME NEW s \in Servers, ReloadLeaves(s) PROVE ServerTypes'
  BY <1>7 DEF ReloadLeaves
<1>8. ASSUME NEW l \in Links, RequestServerReload(l) PROVE ServerTypes'
  <2>1. l[1] \in Servers
    BY LinkFacts
  <2>2. missed' \subseteq Servers
    BY <1>8, <2>1 DEF RequestServerReload
  <2> QED  BY <1>8, <2>2 DEF RequestServerReload
<1>9. ASSUME NEW l \in Links, TransportDies(l) PROVE ServerTypes'
  BY <1>9 DEF TransportDies
<1>10. ASSUME NEW l \in Links, WorkerConnects(l) PROVE ServerTypes'
  BY <1>10 DEF WorkerConnects
<1>11. ASSUME NEW l \in Links, WorkerProbes(l) PROVE ServerTypes'
  BY <1>11 DEF WorkerProbes
<1>12. ASSUME WorkerWakes PROVE ServerTypes'
  BY <1>12 DEF WorkerWakes
<1>13. ASSUME WorkerReloads PROVE ServerTypes'
  BY <1>13 DEF WorkerReloads
<1>14. ASSUME WorkerDiscovers PROVE ServerTypes'
  BY <1>14 DEF WorkerDiscovers
<1>15. ASSUME WorkerConnected PROVE ServerTypes'
  BY <1>15 DEF WorkerConnected
<1>16. ASSUME WorkerRefused PROVE ServerTypes'
  BY <1>16 DEF WorkerRefused
<1>17. ASSUME WorkerPublishes PROVE ServerTypes'
  <2>1. offered' \in [Servers -> 0..MaxGens]
    <3>1. \A s \in Servers : current[s] \in 0..MaxGens /\ 0 \in 0..MaxGens
      BY LinkFacts
    <3> QED  BY <1>17, <3>1 DEF WorkerPublishes
  <2>2. collided' \subseteq rivals
    BY <1>17 DEF WorkerPublishes, Conflicted
  <2> QED  BY <1>17, <2>1, <2>2 DEF WorkerPublishes
<1>18. ASSUME WorkerPinged PROVE ServerTypes'
  BY <1>18 DEF WorkerPinged
<1>19. ASSUME WorkerRests PROVE ServerTypes'
  BY <1>19 DEF WorkerRests
<1>20. ASSUME Tick PROVE ServerTypes'
  BY <1>20 DEF Tick
<1>21. ASSUME RequestRetry PROVE ServerTypes'
  BY <1>21 DEF RequestRetry
<1>22. ASSUME NEW c \in Callers, BeforeBusinessCall(c) PROVE ServerTypes'
  BY <1>22 DEF BeforeBusinessCall
<1>23. ASSUME NEW c \in Callers, CallPinged(c) PROVE ServerTypes'
  BY <1>23 DEF CallPinged
<1>24. ASSUME NEW c \in Callers, CallReturns(c) PROVE ServerTypes'
  BY <1>24 DEF CallReturns
<1>25. ASSUME NEW c \in Callers, CallCanceled(c) PROVE ServerTypes'
  BY <1>25 DEF CallCanceled
<1>26. ASSUME NEW c \in Callers, NEW s \in Servers, CallTool(c, s) PROVE ServerTypes'
  BY <1>26 DEF CallTool
<1>30. ASSUME NEW s \in Servers, ReloadLate(s) PROVE ServerTypes'
  BY <1>30 DEF ReloadLate
<1>31. ASSUME NEW s \in Servers, ReloadExpires(s) PROVE ServerTypes'
  BY <1>31 DEF ReloadExpires
<1> QED
  BY <1>1, <1>2, <1>3, <1>4, <1>5, <1>6, <1>7, <1>8, <1>9, <1>10, <1>11, <1>12, <1>13, <1>14, <1>15, <1>16, <1>17, <1>18, <1>19, <1>20, <1>21, <1>22, <1>23, <1>24, <1>25, <1>26, <1>30, <1>31 DEF Next, Reload, Worker, Call

LEMMA RoutineTypesStep ==
  ASSUME Types, Structure, Next
  PROVE  RoutineTypes'
<1> USE DEF Types, RoutineTypes, envVars, linkVars, poolVars, wakeVars
<1>1. ASSUME NEW s \in Servers, ListChanges(s) PROVE RoutineTypes'
  BY <1>1 DEF ListChanges
<1>2. ASSUME NEW s \in Servers, ReloadConnects(s) PROVE RoutineTypes'
  <2>1. PICK g \in Gens : reload' = [reload EXCEPT ![s] = [at |-> "connecting",
                                       gen |-> g, old |-> offered[s]]]
    BY <1>2 DEF ReloadConnects, Unused
  <2>2. [at |-> "connecting", gen |-> g, old |-> offered[s]] \in Reloads
    BY LinkFacts DEF Reloads, ServerTypes
  <2>3. reload' \in [Servers -> Reloads]
    BY <2>1, <2>2, Updated
  <2>4. lifecycle' = s
    BY <1>2 DEF ReloadConnects
  <2> QED  BY <1>2, <2>3, <2>4 DEF ReloadConnects
<1>3. ASSUME NEW s \in Servers, ReloadDiscovers(s) PROVE RoutineTypes'
  BY <1>3 DEF ReloadDiscovers, ReloadGoes, Reloads
<1>4. ASSUME NEW s \in Servers, ReloadFails(s) PROVE RoutineTypes'
  BY <1>4 DEF ReloadFails, ReloadGoes, Reloads
<1>5. ASSUME NEW s \in Servers, ReloadPublishes(s) PROVE RoutineTypes'
  <2>1. reload' = reload \/ ReloadGoes(s, "closing")
    BY <1>5 DEF ReloadPublishes
  <2>2. reload' \in [Servers -> Reloads]
    BY <2>1 DEF ReloadGoes, Reloads
  <2>3. hung' \in BOOLEAN
    BY <1>5 DEF ReloadPublishes
  <2>4. UNCHANGED <<lifecycle, worker, dirty, token>>
    BY <1>5 DEF ReloadPublishes
  <2> QED  BY <2>2, <2>3, <2>4
<1>6. ASSUME NEW s \in Servers, ReloadCloses(s) PROVE RoutineTypes'
  BY <1>6 DEF ReloadCloses, ReloadGoes, Reloads
<1>7. ASSUME NEW s \in Servers, ReloadLeaves(s) PROVE RoutineTypes'
  <2>1. NoReload \in Reloads
    BY LinkFacts DEF NoReload, Reloads
  <2>2. reload' \in [Servers -> Reloads]
    BY <1>7, <2>1, Updated DEF ReloadLeaves
  <2> QED  BY <1>7, <2>2 DEF ReloadLeaves
<1>8. ASSUME NEW l \in Links, RequestServerReload(l) PROVE RoutineTypes'
  BY <1>8 DEF RequestServerReload, Reloads
<1>9. ASSUME NEW l \in Links, TransportDies(l) PROVE RoutineTypes'
  BY <1>9 DEF TransportDies
<1>10. ASSUME NEW l \in Links, WorkerConnects(l) PROVE RoutineTypes'
  BY <1>10 DEF WorkerConnects, Workers
<1>11. ASSUME NEW l \in Links, WorkerProbes(l) PROVE RoutineTypes'
  BY <1>11 DEF WorkerProbes, Workers
<1>12. ASSUME WorkerWakes PROVE RoutineTypes'
  BY <1>12 DEF WorkerWakes, Workers, Resting
<1>13. ASSUME WorkerReloads PROVE RoutineTypes'
  <2>1. worker' \in Workers
    <3>1. CASE \E s \in Servers : NeedsRetry(s)
      <4> DEFINE T == {Current(s) : s \in {r \in Servers : offered[r] = 0}}
      <4>1. worker' = [worker EXCEPT !.at = "connecting", !.todo = T]
        BY <1>13, <3>1 DEF WorkerReloads
      <4>2. T \subseteq Links
        BY Users
      <4> HIDE DEF T
      <4> QED  BY <4>1, <4>2 DEF Workers
    <3>2. CASE ~\E s \in Servers : NeedsRetry(s)
      <4> DEFINE T == {l \in Links : l[2] = offered[l[1]] /\ l[1] \notin collided}
      <4>1. worker' = [Resting EXCEPT !.at = "probe", !.todo = T]
        BY <1>13, <3>2 DEF WorkerReloads, Probing
      <4>2. T \subseteq Links
        OBVIOUS
      <4> HIDE DEF T
      <4> QED  BY <4>1, <4>2 DEF Resting, Workers
    <3> QED  BY <3>1, <3>2
  <2>2. lifecycle' \in Servers \cup {WorkerHolds, None}
    BY <1>13 DEF WorkerReloads
  <2> QED  BY <1>13, <2>1, <2>2 DEF WorkerReloads
<1>14. ASSUME WorkerDiscovers PROVE RoutineTypes'
  BY <1>14 DEF WorkerDiscovers
<1>15. ASSUME WorkerConnected PROVE RoutineTypes'
  BY <1>15 DEF WorkerConnected, Workers
<1>16. ASSUME WorkerRefused PROVE RoutineTypes'
  BY <1>16 DEF WorkerRefused, Workers
<1>17. ASSUME WorkerPublishes PROVE RoutineTypes'
  BY <1>17 DEF WorkerPublishes, Workers, Probing, Resting
<1>18. ASSUME WorkerPinged PROVE RoutineTypes'
  BY <1>18 DEF WorkerPinged, Workers
<1>19. ASSUME WorkerRests PROVE RoutineTypes'
  BY <1>19 DEF WorkerRests, Workers, Resting
<1>20. ASSUME Tick PROVE RoutineTypes'
  BY <1>20 DEF Tick
<1>21. ASSUME RequestRetry PROVE RoutineTypes'
  BY <1>21 DEF RequestRetry
<1>22. ASSUME NEW c \in Callers, BeforeBusinessCall(c) PROVE RoutineTypes'
  BY <1>22 DEF BeforeBusinessCall
<1>23. ASSUME NEW c \in Callers, CallPinged(c) PROVE RoutineTypes'
  BY <1>23 DEF CallPinged
<1>24. ASSUME NEW c \in Callers, CallReturns(c) PROVE RoutineTypes'
  BY <1>24 DEF CallReturns
<1>25. ASSUME NEW c \in Callers, CallCanceled(c) PROVE RoutineTypes'
  BY <1>25 DEF CallCanceled
<1>26. ASSUME NEW c \in Callers, NEW s \in Servers, CallTool(c, s) PROVE RoutineTypes'
  BY <1>26 DEF CallTool
<1>30. ASSUME NEW s \in Servers, ReloadLate(s) PROVE RoutineTypes'
  BY <1>30 DEF ReloadLate, ReloadGoes, Reloads
<1>31. ASSUME NEW s \in Servers, ReloadExpires(s) PROVE RoutineTypes'
  <2>1. [at |-> "leaving", gen |-> current[s], old |-> 0] \in Reloads
    BY LinkFacts DEF Reloads, ServerTypes
  <2>2. reload' \in [Servers -> Reloads]
    BY <1>31, <2>1, Updated DEF ReloadExpires
  <2> QED  BY <1>31, <2>2 DEF ReloadExpires
<1> QED
  BY <1>1, <1>2, <1>3, <1>4, <1>5, <1>6, <1>7, <1>8, <1>9, <1>10, <1>11, <1>12, <1>13, <1>14, <1>15, <1>16, <1>17, <1>18, <1>19, <1>20, <1>21, <1>22, <1>23, <1>24, <1>25, <1>26, <1>30, <1>31 DEF Next, Reload, Worker, Call

LEMMA CallTypesStep ==
  ASSUME Types, Structure, Next
  PROVE  CallTypes'
<1> USE DEF Types, CallTypes, envVars, linkVars, poolVars, wakeVars
<1>1. ASSUME NEW s \in Servers, ListChanges(s) PROVE CallTypes'
  BY <1>1 DEF ListChanges, Link
<1>2. ASSUME NEW s \in Servers, ReloadConnects(s) PROVE CallTypes'
  BY <1>2 DEF ReloadConnects, Link
<1>3. ASSUME NEW s \in Servers, ReloadDiscovers(s) PROVE CallTypes'
  BY <1>3 DEF ReloadDiscovers, Link
<1>4. ASSUME NEW s \in Servers, ReloadFails(s) PROVE CallTypes'
  <2>1. UNCHANGED calls
    BY <1>4 DEF ReloadFails
  <2>2. faults' \in 0..MaxFaults
    BY <1>4, PoolAssumption DEF ReloadFails, Fault, Breaks
  <2> QED  BY <2>1, <2>2 DEF Link
<1>5. ASSUME NEW s \in Servers, ReloadPublishes(s) PROVE CallTypes'
  BY <1>5 DEF ReloadPublishes, Link
<1>6. ASSUME NEW s \in Servers, ReloadCloses(s) PROVE CallTypes'
  BY <1>6 DEF ReloadCloses, Link
<1>7. ASSUME NEW s \in Servers, ReloadLeaves(s) PROVE CallTypes'
  BY <1>7 DEF ReloadLeaves, Link
<1>8. ASSUME NEW l \in Links, RequestServerReload(l) PROVE CallTypes'
  BY <1>8 DEF RequestServerReload, Link
<1>9. ASSUME NEW l \in Links, TransportDies(l) PROVE CallTypes'
  <2>1. UNCHANGED calls
    BY <1>9 DEF TransportDies
  <2>2. faults' \in 0..MaxFaults
    BY <1>9, PoolAssumption DEF TransportDies, Fault, Breaks
  <2> QED  BY <2>1, <2>2 DEF Link
<1>10. ASSUME NEW l \in Links, WorkerConnects(l) PROVE CallTypes'
  BY <1>10 DEF WorkerConnects, Link
<1>11. ASSUME NEW l \in Links, WorkerProbes(l) PROVE CallTypes'
  BY <1>11 DEF WorkerProbes, Link
<1>12. ASSUME WorkerWakes PROVE CallTypes'
  BY <1>12 DEF WorkerWakes, Link
<1>13. ASSUME WorkerReloads PROVE CallTypes'
  BY <1>13 DEF WorkerReloads, Link
<1>14. ASSUME WorkerDiscovers PROVE CallTypes'
  BY <1>14 DEF WorkerDiscovers, Link
<1>15. ASSUME WorkerConnected PROVE CallTypes'
  BY <1>15 DEF WorkerConnected, Link
<1>16. ASSUME WorkerRefused PROVE CallTypes'
  <2>1. UNCHANGED calls
    BY <1>16 DEF WorkerRefused
  <2>2. faults' \in 0..MaxFaults
    BY <1>16, PoolAssumption DEF WorkerRefused, Fault, Breaks
  <2> QED  BY <2>1, <2>2 DEF Link
<1>17. ASSUME WorkerPublishes PROVE CallTypes'
  BY <1>17 DEF WorkerPublishes, Link
<1>18. ASSUME WorkerPinged PROVE CallTypes'
  <2>1. UNCHANGED calls
    BY <1>18 DEF WorkerPinged
  <2>2. faults' \in 0..MaxFaults
    BY <1>18, PoolAssumption DEF WorkerPinged, Fault, Breaks
  <2> QED  BY <2>1, <2>2 DEF Link
<1>19. ASSUME WorkerRests PROVE CallTypes'
  BY <1>19 DEF WorkerRests, Link
<1>20. ASSUME Tick PROVE CallTypes'
  BY <1>20 DEF Tick, Link
<1>21. ASSUME RequestRetry PROVE CallTypes'
  BY <1>21 DEF RequestRetry, Link
<1>22. ASSUME NEW c \in Callers, BeforeBusinessCall(c) PROVE CallTypes'
  <2>1. calls[c].at # "idle" /\ (CallGoes(c, "sent") \/ CallGoes(c, "probing") \/ CallEnds(c))
    BY <1>22 DEF BeforeBusinessCall
  <2>2. faults' \in 0..MaxFaults
    BY <1>22 DEF BeforeBusinessCall
  <2> QED  BY <2>1, <2>2, CallSteps
<1>23. ASSUME NEW c \in Callers, CallPinged(c) PROVE CallTypes'
  <2>1. calls[c].at # "idle" /\ (CallGoes(c, "sent") \/ CallEnds(c))
    BY <1>23 DEF CallPinged
  <2>2. faults' \in 0..MaxFaults
    BY <1>23, PoolAssumption DEF CallPinged, Fault, Breaks
  <2> QED  BY <2>1, <2>2, CallSteps
<1>24. ASSUME NEW c \in Callers, CallReturns(c) PROVE CallTypes'
  <2>1. calls[c].at # "idle" /\ (CallEnds(c))
    BY <1>24 DEF CallReturns
  <2>2. faults' \in 0..MaxFaults
    BY <1>24, PoolAssumption DEF CallReturns, Fault, Breaks
  <2> QED  BY <2>1, <2>2, CallSteps
<1>25. ASSUME NEW c \in Callers, CallCanceled(c) PROVE CallTypes'
  <2>1. calls[c].at # "idle" /\ (CallEnds(c))
    BY <1>25 DEF CallCanceled
  <2>2. faults' \in 0..MaxFaults
    BY <1>25 DEF CallCanceled
  <2> QED  BY <2>1, <2>2, CallSteps
<1>26. ASSUME NEW c \in Callers, NEW s \in Servers, CallTool(c, s) PROVE CallTypes'
  <2>1. calls' = [calls EXCEPT ![c] = [at |-> "chosen", server |-> s, gen |-> offered[s]]]
    BY <1>26 DEF CallTool
  <2>2. offered[s] \in Gens
    BY <1>26, LinkFacts DEF CallTool, Visible, Structure, Building, ServerTypes
  <2>3. [at |-> "chosen", server |-> s, gen |-> offered[s]] \in CallType
    BY <2>2, LinkFacts DEF CallType
  <2>4. calls' \in [Callers -> CallType]
    BY <2>1, <2>3, Updated
  <2>5. ASSUME NEW d \in Callers, calls'[d].at # "idle" PROVE Link(d)' \in Links
    BY <2>1, <2>2, <2>5, LinkFacts DEF Link
  <2> QED  BY <1>26, <2>4, <2>5 DEF CallTool
<1>30. ASSUME NEW s \in Servers, ReloadLate(s) PROVE CallTypes'
  BY <1>30 DEF ReloadLate, Link
<1>31. ASSUME NEW s \in Servers, ReloadExpires(s) PROVE CallTypes'
  BY <1>31 DEF ReloadExpires, Link
<1> QED
  BY <1>1, <1>2, <1>3, <1>4, <1>5, <1>6, <1>7, <1>8, <1>9, <1>10, <1>11, <1>12, <1>13, <1>14, <1>15, <1>16, <1>17, <1>18, <1>19, <1>20, <1>21, <1>22, <1>23, <1>24, <1>25, <1>26, <1>30, <1>31 DEF Next, Reload, Worker, Call

(* Every step keeps the types.                                             *)
LEMMA TypesStep ==
  ASSUME Types, Structure, Next
  PROVE  Types'
BY LinkTypesStep, ServerTypesStep, RoutineTypesStep, CallTypesStep DEF Types

-----------------------------------------------------------------------------
(* What the steps of ReloadServer and of the worker change, link by link.  *)

(* An update changes one place.                                            *)
LEMMA Placed ==
  ASSUME NEW S, NEW T, NEW f \in [S -> T], NEW x \in S, NEW v
  PROVE  /\ [f EXCEPT ![x] = v][x] = v
         /\ \A y \in S : y # x => [f EXCEPT ![x] = v][y] = f[y]
OBVIOUS

LEMMA ReloadAt ==
  ASSUME RoutineTypes, NEW s \in Servers, NEW at, ReloadGoes(s, at)
  PROVE  /\ reload'[s].at = at
         /\ reload'[s].gen = reload[s].gen /\ reload'[s].old = reload[s].old
         /\ \A r \in Servers : r # s => reload'[r] = reload[r]
BY DEF ReloadGoes, RoutineTypes, Reloads

(* The goroutine that builds or closes holds Pool.lifecycle, so the worker *)
(* connects nothing.                                                       *)
LEMMA ReloadHolds ==
  ASSUME Types, Structure, NEW s \in Servers,
         reload[s].at \in {"connecting", "found", "closing"}
  PROVE  /\ lifecycle = s /\ worker.at # "connecting"
         /\ \A r \in Servers : reload[r].at \in {"connecting", "found", "closing"} => r = s
BY LinkFacts DEF Structure, Held

(* The connection of a reload is one of its own.                           *)
LEMMA ReloadBuilds ==
  ASSUME Types, Structure, NEW s \in Servers, reload[s].at \in {"connecting", "found"}
  PROVE  /\ New(s) \in Links /\ reload[s].gen # current[s]
         /\ New(s)[1] = s /\ New(s)[2] = reload[s].gen
         /\ reload[s].gen # offered[s] /\ reload[s].old = offered[s]
         /\ \A r \in Servers : New(s) # Current(r)
<1>1. reload[s].gen \in Gens /\ reload[s].gen # current[s] /\ reload[s].old = offered[s]
  BY DEF Structure, Building
<1>2. reload[s].gen # offered[s]
  BY <1>1, LinkFacts DEF Structure, Building
<1>3. New(s) \in Links /\ New(s)[1] = s /\ New(s)[2] = reload[s].gen
  BY <1>1, LinkFacts DEF New
<1>4. ASSUME NEW r \in Servers, New(s) = Current(r) PROVE FALSE
  BY <1>1, <1>4, LinkFacts DEF New, Current, Types, ServerTypes
<1> QED  BY <1>1, <1>2, <1>3, <1>4

LEMMA DiscoversEffect ==
  ASSUME Types, NEW l \in Links, Discovers(l)
  PROVE  /\ conn'[l] = "discovered" /\ found'[l] = version[l[1]]
         /\ \A k \in Links : k # l => conn'[k] = conn[k] /\ found'[k] = found[k]
BY Placed DEF Discovers, Types, LinkTypes

LEMMA ReloadFailsEffect ==
  ASSUME Types, Structure, NEW s \in Servers, ReloadFails(s)
  PROVE  /\ conn'[New(s)] = "none" /\ found'[New(s)] = 0
         /\ \A k \in Links : k # New(s) => conn'[k] = conn[k] /\ found'[k] = found[k]
         /\ lifecycle' = None /\ reload'[s].at = "leaving" 
         /\ \A r \in Servers : r # s => reload'[r] = reload[r]
         /\ UNCHANGED <<poolVars, version, hung, worker, dirty, token, rivals>>
         /\ notes' = notes \ {New(s)} /\ missed' = missed \cup {s}
         /\ Becomes(Current(s), Opened)
<1>1. New(s) \in Links
  BY ReloadBuilds DEF ReloadFails
<1>2. /\ conn'[New(s)] = "none" /\ found'[New(s)] = 0
      /\ \A k \in Links : k # New(s) => conn'[k] = conn[k] /\ found'[k] = found[k]
  BY <1>1, Placed DEF ReloadFails, Types, LinkTypes
<1>3. reload'[s].at = "leaving" /\ \A r \in Servers : r # s => reload'[r] = reload[r]
  BY ReloadAt DEF ReloadFails, Types
<1> QED  BY <1>2, <1>3, Zenon DEF ReloadFails

(* A publication, and one that hangs in it.                                *)
LEMMA ReloadPublishesEffect ==
  ASSUME Types, Structure, NEW s \in Servers, ReloadPublishes(s)
  PROVE  /\ conn'[New(s)] = "open" /\ ~hung
         /\ \A k \in Links : k # New(s) => conn'[k] = conn[k]
         /\ \A r \in Servers : r # s => reload'[r] = reload[r]
         /\ reload'[s].gen = reload[s].gen /\ reload'[s].old = reload[s].old
         /\ UNCHANGED <<rivals, version, faults, found, notes, lifecycle, worker, dirty, token, timers, calls>>
         /\ \/ hung' = TRUE /\ UNCHANGED <<current, offered, collided, missed, reload>>
            \/ /\ ~hung' /\ reload'[s].at = "closing"
               /\ current'[s] = reload[s].gen /\ offered'[s] = reload[s].gen
               /\ \A r \in Servers : r # s => current'[r] = current[r] /\ offered'[r] = offered[r]
               /\ missed' = IF found[New(s)] = version[s] THEN missed \ {s} ELSE missed
               /\ \A k \in Links : k # New(s) => health'[k] = health[k]
               /\ health'[New(s)] = Well
               /\ collided \ {s} \subseteq collided' \cup {r \in Servers : health[Current(r)] = Well}
<1> DEFINE gen == [current EXCEPT ![s] = reload[s].gen]
           next == [offered EXCEPT ![s] = reload[s].gen]
           flags == collided \ {s}
           conflicts == Conflicted({r \in Servers : next[r] # 0})
           well == [health EXCEPT ![New(s)] = Well]
           resolved == Resolved(well, gen, flags, conflicts)
<1>0. reload[s].at = "found" /\ ~hung
  BY DEF ReloadPublishes
<1>1. New(s) \in Links
  BY <1>0, ReloadBuilds
<1>2. /\ conn' = [conn EXCEPT ![New(s)] = "open"]
      /\ UNCHANGED <<rivals, version, faults, found, notes, lifecycle, worker, dirty, token, timers, calls>>
  BY DEF ReloadPublishes, envVars, wakeVars
<1>3. /\ conn'[New(s)] = "open"
      /\ \A k \in Links : k # New(s) => conn'[k] = conn[k]
  BY <1>1, <1>2, Placed DEF Types, LinkTypes
<1>4. CASE conflicts \ flags # {} \/ resolved # well
  <2>1. hung' = TRUE /\ UNCHANGED <<current, offered, collided, missed, reload>>
    BY <1>4, Zenon DEF ReloadPublishes, poolVars
  <2> QED  BY <1>0, <1>2, <1>3, <2>1
<1>5. CASE conflicts \ flags = {} /\ resolved = well
  <2>1. /\ current' = gen /\ offered' = next /\ collided' = conflicts
        /\ missed' = IF found[New(s)] = version[s] THEN missed \ {s} ELSE missed
        /\ ReloadGoes(s, "closing") /\ UNCHANGED hung /\ health' = well
    BY <1>5, Zenon DEF ReloadPublishes
  <2>2. /\ current'[s] = reload[s].gen /\ offered'[s] = reload[s].gen
        /\ \A r \in Servers : r # s => current'[r] = current[r] /\ offered'[r] = offered[r]
    BY <2>1, Placed DEF Types, ServerTypes
  <2>3. /\ \A k \in Links : k # New(s) => health'[k] = health[k]
        /\ health'[New(s)] = Well
    BY <1>1, <2>1, Placed DEF Types, LinkTypes
  <2>4. /\ reload'[s].at = "closing" /\ \A r \in Servers : r # s => reload'[r] = reload[r]
        /\ reload'[s].gen = reload[s].gen /\ reload'[s].old = reload[s].old
    BY <2>1, ReloadAt DEF Types
  <2>5. ASSUME NEW r \in collided \ {s}, r \notin conflicts PROVE r \in Servers /\ health[Current(r)] = Well
    <3>1. r \in Servers /\ r # s
      BY DEF Types, ServerTypes
    <3>2. Current(r) \in Links /\ Current(r)[1] = r /\ Current(r)[2] = current[r] /\ gen[r] = current[r]
      BY <3>1, LinkFacts DEF Current, Types, ServerTypes
    <3>3. Current(r) # New(s)
      BY <1>0, <3>1, ReloadBuilds
    <3>4. resolved[Current(r)] = Well
      BY <2>5, <3>1, <3>2 DEF Resolved
    <3>5. well[Current(r)] = health[Current(r)]
      BY <1>1, <3>2, <3>3, Placed DEF Types, LinkTypes
    <3> QED  BY <1>5, <3>1, <3>4, <3>5
  <2> QED  BY <1>0, <1>2, <1>3, <2>1, <2>2, <2>3, <2>4, <2>5
<1> QED  BY <1>4, <1>5

LEMMA ReloadClosesEffect ==
  ASSUME Types, Structure, NEW s \in Servers, ReloadCloses(s)
  PROVE  LET old == <<s, reload[s].old>>
         IN /\ \A k \in Links : k # old => conn'[k] = conn[k] /\ found'[k] = found[k]
                                           /\ health'[k] = health[k]
            /\ old \in Links => conn'[old] \in {"closed", "none"}
            /\ \A r \in Servers : old # Current(r)
            /\ reload'[s].at = "leaving"
            /\ reload'[s].gen = reload[s].gen /\ reload'[s].old = reload[s].old
            /\ \A r \in Servers : r # s => reload'[r] = reload[r]
            /\ reload[s].at = "closing"
            /\ notes' = notes \ {old} /\ lifecycle' = None
            /\ UNCHANGED <<current, offered, collided, version, hung, worker, dirty, token, timers, missed>>
<1>1. reload[s].at = "closing"
  BY DEF ReloadCloses
<1>2. reload[s].old # current[s]
  BY <1>1 DEF Structure, Building
<1>3. \A r \in Servers : <<s, reload[s].old>> # Current(r)
  BY <1>2 DEF Current
<1>4. /\ reload'[s].at = "leaving" /\ reload'[s].gen = reload[s].gen
      /\ reload'[s].old = reload[s].old /\ \A r \in Servers : r # s => reload'[r] = reload[r]
  BY ReloadAt DEF ReloadCloses, Types
<1>5. UNCHANGED <<current, offered, collided, version, hung, worker, dirty, token, timers, missed>>
  BY DEF ReloadCloses, envVars, poolVars, wakeVars
<1>6. /\ notes' = notes \ {<<s, reload[s].old>>} /\ lifecycle' = None
      /\ \A k \in Links : k # <<s, reload[s].old>> =>
           conn'[k] = conn[k] /\ found'[k] = found[k] /\ health'[k] = health[k]
      /\ <<s, reload[s].old>> \in Links => conn'[<<s, reload[s].old>>] \in {"closed", "none"}
  BY DEF ReloadCloses
<1> QED  BY <1>1, <1>3, <1>4, <1>5, <1>6

(* The worker's steps.                                                     *)
LEMMA WorkerReloadsEffect ==
  ASSUME Types, Structure, WorkerReloads
  PROVE  /\ lifecycle = None /\ ~hung /\ worker.at = "reload" /\ worker'.on = None
         /\ UNCHANGED <<envVars, linkVars, poolVars, notes, reload, hung, wakeVars, calls, missed>>
         /\ \/ /\ \E s \in Servers : NeedsRetry(s)
               /\ lifecycle' = WorkerHolds /\ worker'.at = "connecting"
               /\ worker'.todo = {Current(s) : s \in {r \in Servers : offered[r] = 0}}
            \/ /\ \A s \in Servers : ~NeedsRetry(s)
               /\ lifecycle' = None /\ worker'.at = "probe"
               /\ worker'.todo = {l \in Links : l[2] = offered[l[1]] /\ l[1] \notin collided}
<1>1. /\ lifecycle = None /\ ~hung /\ worker.at = "reload"
      /\ UNCHANGED <<envVars, linkVars, poolVars, notes, reload, hung, wakeVars, calls, missed>>
  BY Zenon DEF WorkerReloads
<1>2. worker.on = None
  BY <1>1 DEF Structure, Connecting
<1>3. CASE \E s \in Servers : NeedsRetry(s)
  <2> DEFINE todo == {Current(s) : s \in {r \in Servers : offered[r] = 0}}
  <2>1. lifecycle' = WorkerHolds /\ worker' = [worker EXCEPT !.at = "connecting", !.todo = todo]
    BY <1>3, Zenon DEF WorkerReloads
  <2> HIDE DEF todo
  <2>2. worker'.at = "connecting" /\ worker'.todo = todo /\ worker'.on = worker.on
    BY <2>1 DEF Types, RoutineTypes, Workers
  <2> QED  BY <1>1, <1>2, <1>3, <2>1, <2>2, Zenon DEF todo
<1>4. CASE \A s \in Servers : ~NeedsRetry(s)
  <2>1. Probing(collided, offered) /\ UNCHANGED lifecycle
    BY <1>4, Zenon DEF WorkerReloads
  <2>2. /\ worker'.at = "probe" /\ worker'.on = None
        /\ worker'.todo = {l \in Links : l[2] = offered[l[1]] /\ l[1] \notin collided}
    BY <2>1 DEF Probing, Resting
  <2> QED  BY <1>1, <1>4, <2>1, <2>2, Zenon
<1> QED  BY <1>3, <1>4

(* The one it connects was not connected, and is in the Pool.              *)
LEMMA WorkerOn ==
  ASSUME Types, Structure, worker.at = "connecting", worker.on # None
  PROVE  /\ worker.on \in Links /\ worker.on[1] \in Servers
         /\ worker.on = Current(worker.on[1]) /\ offered[worker.on[1]] = 0
         /\ conn[worker.on] \in {"building", "discovered"}
         /\ worker.on[2] = current[worker.on[1]]
<1>1. worker.on \in Links
  BY DEF Types, RoutineTypes, Workers
<1>2. /\ worker.on = Current(worker.on[1]) /\ offered[worker.on[1]] = 0
      /\ conn[worker.on] \in {"building", "discovered"}
  BY DEF Structure, Connecting
<1>3. worker.on[1] \in Servers
  BY <1>1, LinkFacts
<1>4. Current(worker.on[1])[2] = current[worker.on[1]]
  BY DEF Current
<1> QED  BY <1>1, <1>2, <1>3, <1>4, Zenon

LEMMA WorkerConnectsEffect ==
  ASSUME Types, Structure, NEW l \in Links, WorkerConnects(l)
  PROVE  /\ l[1] \in Servers /\ l = Current(l[1]) /\ offered[l[1]] = 0 /\ l[2] = current[l[1]]
         /\ worker.at = "connecting" /\ worker.on = None /\ l \in worker.todo
         /\ lifecycle = WorkerHolds
         /\ conn'[l] = "building" /\ \A k \in Links : k # l => conn'[k] = conn[k]
         /\ worker'.at = "connecting" /\ worker'.on = l /\ worker'.todo = worker.todo \ {l}
         /\ UNCHANGED <<envVars, health, found, poolVars, notes, reload, lifecycle, hung, wakeVars, missed>>
<1>1. worker.at = "connecting" /\ worker.on = None /\ l \in worker.todo
  BY DEF WorkerConnects
<1>2. l = Current(l[1]) /\ offered[l[1]] = 0
  BY <1>1 DEF Structure, Connecting
<1>3. l[1] \in Servers
  BY LinkFacts
<1>4. l[2] = current[l[1]]
  BY <1>2 DEF Current
<1>5. worker'.at = "connecting" /\ worker'.on = l /\ worker'.todo = worker.todo \ {l}
  BY <1>1 DEF WorkerConnects, Types, RoutineTypes, Workers
<1>6. conn'[l] = "building" /\ \A k \in Links : k # l => conn'[k] = conn[k]
  BY Placed DEF WorkerConnects, Types, LinkTypes
<1>7. lifecycle = WorkerHolds
  BY <1>1 DEF Structure, Held
<1> QED  BY <1>1, <1>2, <1>3, <1>4, <1>5, <1>6, <1>7, Zenon DEF WorkerConnects

LEMMA WorkerConnectedEffect ==
  ASSUME Types, Structure, WorkerConnected
  PROVE  /\ worker.at = "connecting" /\ worker.on # None
         /\ conn'[worker.on] = "open" /\ \A k \in Links : k # worker.on => conn'[k] = conn[k]
         /\ worker'.at = "connecting" /\ worker'.on = None /\ worker'.todo = worker.todo
         /\ Becomes(worker.on, Well) /\ conn[worker.on] = "discovered"
         /\ UNCHANGED <<envVars, found, poolVars, notes, reload, lifecycle, hung, dirty, token, missed>>
<1>1. worker.at = "connecting" /\ worker.on # None
  BY DEF WorkerConnected
<1>2. worker'.at = "connecting" /\ worker'.on = None /\ worker'.todo = worker.todo
  BY <1>1 DEF WorkerConnected, Types, RoutineTypes, Workers
<1>3. conn'[worker.on] = "open" /\ \A k \in Links : k # worker.on => conn'[k] = conn[k]
  BY <1>1, WorkerOn, Placed DEF WorkerConnected, Types, LinkTypes
<1> QED  BY <1>1, <1>2, <1>3, Zenon DEF WorkerConnected

LEMMA WorkerRefusedEffect ==
  ASSUME Types, Structure, WorkerRefused
  PROVE  /\ worker.at = "connecting" /\ worker.on # None
         /\ conn'[worker.on] = "none" /\ \A k \in Links : k # worker.on => conn'[k] = conn[k]
         /\ worker'.at = "connecting" /\ worker'.on = None /\ worker'.todo = worker.todo
         /\ Becomes(worker.on, Opened) /\ notes' = notes \ {worker.on}
         /\ UNCHANGED <<version, found, poolVars, reload, lifecycle, hung, dirty, token, missed>>
<1>1. worker.at = "connecting" /\ worker.on # None
  BY DEF WorkerRefused
<1>2. worker'.at = "connecting" /\ worker'.on = None /\ worker'.todo = worker.todo
  BY <1>1 DEF WorkerRefused, Types, RoutineTypes, Workers
<1>3. conn'[worker.on] = "none" /\ \A k \in Links : k # worker.on => conn'[k] = conn[k]
  BY <1>1, WorkerOn, Placed DEF WorkerRefused, Types, LinkTypes
<1> QED  BY <1>1, <1>2, <1>3, Zenon DEF WorkerRefused

LEMMA WorkerPublishesEffect ==
  ASSUME Types, Structure, WorkerPublishes
  PROVE  /\ worker.at = "connecting" /\ worker.on = None /\ worker.todo = {}
         /\ lifecycle = WorkerHolds /\ ~hung
         /\ \A s \in Servers : offered'[s] = IF conn[Current(s)] \in {"open", "dead"}
                                               THEN current[s] ELSE 0
         /\ \A s \in Servers :
              \/ health'[Current(s)] = health[Current(s)]
              \/ s \in collided' /\ s \notin collided /\ health'[Current(s)] = Opened
              \/ s \in collided /\ s \notin collided' /\ health'[Current(s)] = Well
         /\ \A s \in collided : s \notin collided' => health'[Current(s)] = Well
         /\ timers \subseteq timers'
         /\ lifecycle' = None /\ worker'.at = "probe" /\ worker'.on = None
         /\ worker'.todo = {l \in Links : l[2] = offered'[l[1]] /\ l[1] \notin collided'}
         /\ UNCHANGED <<envVars, conn, found, current, notes, reload, hung, dirty, token, missed>>
<1> DEFINE next == [s \in Servers |-> IF conn[Current(s)] \in {"open", "dead"}
                                        THEN current[s] ELSE 0]
           conflicts == Conflicted({s \in Servers : next[s] # 0})
           resolved == Resolved(health, current, collided, conflicts)
<1>1. worker.at = "connecting" /\ worker.on = None /\ worker.todo = {} /\ ~hung
  BY Zenon DEF WorkerPublishes
<1>2. /\ health' = resolved /\ offered' = next /\ collided' = conflicts /\ lifecycle' = None
      /\ Probing(conflicts, next)
      /\ UNCHANGED <<envVars, conn, found, current, notes, reload, hung, dirty, token, missed>>
  BY Zenon DEF WorkerPublishes
<1>3. timers \subseteq timers'
  BY DEF WorkerPublishes
<1>4. /\ worker'.at = "probe" /\ worker'.on = None
      /\ worker'.todo = {l \in Links : l[2] = next[l[1]] /\ l[1] \notin conflicts}
  <2> HIDE DEF next, conflicts
  <2> QED  BY <1>2 DEF Probing, Resting
<1>5. lifecycle = WorkerHolds
  BY <1>1 DEF Structure, Held
<1>6. \A s \in Servers : offered'[s] = IF conn[Current(s)] \in {"open", "dead"}
                                         THEN current[s] ELSE 0
  BY <1>2
<1>7. ASSUME NEW s \in Servers
      PROVE  /\ \/ health'[Current(s)] = health[Current(s)]
                \/ s \in collided' /\ s \notin collided /\ health'[Current(s)] = Opened
                \/ s \in collided /\ s \notin collided' /\ health'[Current(s)] = Well
             /\ s \in collided /\ s \notin collided' => health'[Current(s)] = Well
  <2>1. Current(s) \in Links /\ Current(s)[1] = s /\ Current(s)[2] = current[s]
    BY LinkFacts DEF Current, Types, ServerTypes
  <2> HIDE DEF conflicts
  <2>2. health'[Current(s)] = IF s \in conflicts \ collided THEN Opened
                              ELSE IF s \in collided \ conflicts THEN Well
                              ELSE health[Current(s)]
    BY <1>2, <2>1 DEF Resolved
  <2> QED  BY <1>2, <2>2
<1>8. \A s \in collided : s \in Servers
  BY DEF Types, ServerTypes
<1>9. worker'.todo = {l \in Links : l[2] = offered'[l[1]] /\ l[1] \notin collided'}
  BY <1>2, <1>4, Zenon
<1> HIDE DEF next, conflicts, resolved
<1> QED  BY <1>1, <1>2, <1>3, <1>4, <1>5, <1>6, <1>7, <1>8, <1>9

LEMMA WorkerProbesEffect ==
  ASSUME Types, Structure, NEW l \in Links, WorkerProbes(l)
  PROVE  /\ worker.at = "probe" /\ l \in worker.todo /\ worker'.todo = worker.todo \ {l}
         /\ \/ /\ Due(health[l]) /\ Becomes(l, HalfOpen(health[l]))
               /\ worker'.at = "pinging" /\ worker'.on = l
            \/ /\ ~Due(health[l]) /\ UNCHANGED <<health, timers>>
               /\ worker'.at = "probe" /\ worker'.on = None
         /\ UNCHANGED <<envVars, conn, found, poolVars, notes, reload, lifecycle, hung, dirty, token, missed>>
<1>1. worker.at = "probe" /\ l \in worker.todo
  BY DEF WorkerProbes
<1>2. worker.on = None
  BY <1>1 DEF Structure, Connecting
<1>3. UNCHANGED <<envVars, conn, found, poolVars, notes, reload, lifecycle, hung, dirty, token, missed>>
  BY Zenon DEF WorkerProbes
<1>4. CASE Due(health[l])
  <2>1. /\ Becomes(l, HalfOpen(health[l]))
        /\ worker' = [worker EXCEPT !.at = "pinging", !.on = l, !.todo = worker.todo \ {l}]
    BY <1>4, Zenon DEF WorkerProbes
  <2>2. worker'.at = "pinging" /\ worker'.on = l /\ worker'.todo = worker.todo \ {l}
    BY <2>1 DEF Types, RoutineTypes, Workers
  <2> QED  BY <1>1, <1>3, <1>4, <2>1, <2>2, Zenon
<1>5. CASE ~Due(health[l])
  <2>1. worker' = [worker EXCEPT !.todo = worker.todo \ {l}] /\ UNCHANGED <<health, timers>>
    BY <1>5, Zenon DEF WorkerProbes
  <2>2. worker'.at = "probe" /\ worker'.on = None /\ worker'.todo = worker.todo \ {l}
    BY <1>1, <1>2, <2>1 DEF Types, RoutineTypes, Workers
  <2> QED  BY <1>1, <1>3, <1>5, <2>1, <2>2, Zenon
<1> QED  BY <1>4, <1>5

LEMMA RequestServerReloadEffect ==
  ASSUME Types, NEW l \in Links, RequestServerReload(l)
  PROVE  /\ l \in notes /\ notes' = notes \ {l}
         /\ \A r \in Servers : reload'[r].gen = reload[r].gen /\ reload'[r].old = reload[r].old
         /\ \A r \in Servers : r # l[1] => reload'[r] = reload[r]
         /\ \/ reload[l[1]].at = "none" /\ reload'[l[1]].at = "queued" /\ UNCHANGED missed
            \/ /\ reload[l[1]].at # "none" /\ reload'[l[1]].at = reload[l[1]].at
               /\ missed' = IF reload[l[1]].at \in {"found", "closing", "leaving"}
                                 /\ found[<<l[1], reload[l[1]].gen>>] < version[l[1]]
                              THEN missed \cup {l[1]} ELSE missed
         /\ UNCHANGED <<envVars, linkVars, poolVars, lifecycle, hung, worker, wakeVars>>
<1>1. /\ l \in notes /\ notes' = notes \ {l}
      /\ UNCHANGED <<envVars, linkVars, poolVars, lifecycle, hung, worker, wakeVars>>
  BY DEF RequestServerReload, Handled
<1>2. l[1] \in Servers
  BY LinkFacts
<1>3. CASE reload[l[1]].at = "none"
  <2>1. reload' = [reload EXCEPT ![l[1]].at = "queued"] /\ UNCHANGED missed
    BY <1>3, Zenon DEF RequestServerReload
  <2>2. ReloadGoes(l[1], "queued")
    BY <2>1 DEF ReloadGoes
  <2>3. /\ reload'[l[1]].at = "queued" /\ \A r \in Servers : r # l[1] => reload'[r] = reload[r]
        /\ reload'[l[1]].gen = reload[l[1]].gen /\ reload'[l[1]].old = reload[l[1]].old
    BY <1>2, <2>2, ReloadAt DEF Types
  <2>4. \A r \in Servers : reload'[r].gen = reload[r].gen /\ reload'[r].old = reload[r].old
    BY <2>3, Zenon
  <2> QED  BY <1>1, <1>3, <2>1, <2>3, <2>4, Zenon
<1>4. CASE reload[l[1]].at # "none"
  BY <1>1, <1>4, Zenon DEF RequestServerReload
<1> QED  BY <1>3, <1>4

LEMMA ReloadLeavesEffect ==
  ASSUME Types, Structure, NEW s \in Servers, ReloadLeaves(s)
  PROVE  /\ reload[s].at = "leaving" /\ reload'[s].at = "none" /\ lifecycle # s
         /\ \A r \in Servers : r # s => reload'[r] = reload[r]
         /\ UNCHANGED <<envVars, linkVars, poolVars, notes, lifecycle, hung, worker, wakeVars, missed>>
<1>1. reload[s].at = "leaving" /\ reload' = [reload EXCEPT ![s] = NoReload]
  BY Zenon DEF ReloadLeaves
<1>2. reload'[s] = NoReload /\ \A r \in Servers : r # s => reload'[r] = reload[r]
  BY <1>1, Placed DEF Types, RoutineTypes
<1>3. reload'[s].at = "none"
  BY <1>2 DEF NoReload
<1>4. lifecycle # s
  BY <1>1 DEF Structure, Held
<1> QED  BY <1>1, <1>2, <1>3, <1>4, Zenon DEF ReloadLeaves

LEMMA ReloadLateEffect ==
  ASSUME Types, NEW s \in Servers, ReloadLate(s)
  PROVE  /\ reload[s].at = "queued" /\ reload'[s].at = "late"
         /\ \A r \in Servers : r # s => reload'[r] = reload[r]
         /\ \A r \in Servers : reload'[r].gen = reload[r].gen /\ reload'[r].old = reload[r].old
         /\ UNCHANGED <<envVars, linkVars, poolVars, notes, lifecycle, hung, worker, wakeVars, missed>>
<1>1. ReloadGoes(s, "late") /\ reload[s].at = "queued"
  BY Zenon DEF ReloadLate
<1>2. /\ reload'[s].at = "late" /\ \A r \in Servers : r # s => reload'[r] = reload[r]
      /\ reload'[s].gen = reload[s].gen /\ reload'[s].old = reload[s].old
  BY <1>1, ReloadAt DEF Types
<1>3. \A r \in Servers : reload'[r].gen = reload[r].gen /\ reload'[r].old = reload[r].old
  BY <1>2, Zenon
<1> QED  BY <1>1, <1>2, <1>3, Zenon DEF ReloadLate

LEMMA ReloadExpiresEffect ==
  ASSUME Types, NEW s \in Servers, ReloadExpires(s)
  PROVE  /\ reload[s].at = "late" /\ reload'[s].at = "leaving" /\ lifecycle = None
         /\ \A r \in Servers : r # s => reload'[r] = reload[r]
         /\ missed' = missed \cup {s} /\ Becomes(Current(s), Opened)
         /\ UNCHANGED <<envVars, conn, found, poolVars, notes, lifecycle, hung, worker, dirty, token>>
<1>1. reload' = [reload EXCEPT ![s] = [at |-> "leaving", gen |-> current[s], old |-> 0]]
  BY Zenon DEF ReloadExpires
<1>2. /\ reload'[s] = [at |-> "leaving", gen |-> current[s], old |-> 0]
      /\ \A r \in Servers : r # s => reload'[r] = reload[r]
  BY <1>1, Placed DEF Types, RoutineTypes
<1>3. reload'[s].at = "leaving"
  BY <1>2
<1> QED  BY <1>2, <1>3, Zenon DEF ReloadExpires

LEMMA ReloadConnectsEffect ==
  ASSUME Types, Structure, NEW s \in Servers, ReloadConnects(s)
  PROVE  /\ reload[s].at = "queued" /\ lifecycle = None /\ ~hung /\ lifecycle' = s
         /\ reload'[s].at = "connecting" /\ reload'[s].old = offered[s]
         /\ reload'[s].gen \in Gens /\ reload'[s].gen # current[s]
         /\ New(s)' \in Links /\ conn[New(s)'] = "none" /\ conn'[New(s)'] = "building"
         /\ \A k \in Links : k # New(s)' => conn'[k] = conn[k] /\ health'[k] = health[k]
         /\ \A r \in Servers : r # s => reload'[r] = reload[r]
         /\ UNCHANGED <<envVars, found, poolVars, notes, hung, worker, wakeVars, missed>>
<1>1. PICK g \in Unused(s) :
        /\ reload' = [reload EXCEPT ![s] = [at |-> "connecting", gen |-> g, old |-> offered[s]]]
        /\ conn' = [conn EXCEPT ![<<s, g>>] = "building"]
        /\ health' = [health EXCEPT ![<<s, g>>] = Fresh]
  BY DEF ReloadConnects
<1>2. g \in Gens /\ g # current[s] /\ conn[<<s, g>>] = "none"
  BY DEF Unused
<1>3. /\ reload'[s] = [at |-> "connecting", gen |-> g, old |-> offered[s]]
      /\ \A r \in Servers : r # s => reload'[r] = reload[r]
  BY <1>1, Placed DEF Types, RoutineTypes
<1>4. reload'[s].at = "connecting" /\ reload'[s].gen = g /\ reload'[s].old = offered[s]
  BY <1>3
<1>5. New(s)' = <<s, g>> /\ <<s, g>> \in Links
  BY <1>2, <1>4, LinkFacts DEF New
<1>6. /\ conn'[<<s, g>>] = "building"
      /\ \A k \in Links : k # <<s, g>> => conn'[k] = conn[k] /\ health'[k] = health[k]
  BY <1>1, <1>5, Placed DEF Types, LinkTypes
<1>7. /\ reload[s].at = "queued" /\ lifecycle = None /\ ~hung /\ lifecycle' = s
      /\ UNCHANGED <<envVars, found, poolVars, notes, hung, worker, wakeVars, missed>>
  BY DEF ReloadConnects
<1> QED  BY <1>2, <1>3, <1>4, <1>5, <1>6, <1>7, Zenon

LEMMA TransportDiesEffect ==
  ASSUME Types, NEW l \in Links, TransportDies(l)
  PROVE  /\ conn[l] = "open" /\ conn'[l] = "dead"
         /\ \A k \in Links : k # l => conn'[k] = conn[k]
         /\ UNCHANGED <<health, timers>> \/ Becomes(l, Failed(health[l]))
         /\ notes' = notes \ {l}
         /\ UNCHANGED <<found, poolVars, version, reload, lifecycle, hung, worker, dirty, token, missed>>
<1>1. conn' = [conn EXCEPT ![l] = "dead"]
  BY Zenon DEF TransportDies
<1>2. conn'[l] = "dead" /\ \A k \in Links : k # l => conn'[k] = conn[k]
  BY <1>1, Placed DEF Types, LinkTypes
<1> QED  BY <1>2, Zenon DEF TransportDies

-----------------------------------------------------------------------------
(* The holder of Pool.lifecycle.                                           *)

LEMMA HeldStep ==
  ASSUME Types, Types', Structure, Next
  PROVE  Held'
<1>1. ASSUME NEW s \in Servers, ReloadConnects(s) PROVE Held'
  BY <1>1, LinkFacts DEF ReloadConnects, Unused, New,
    Structure, Held, envVars, linkVars, poolVars, wakeVars, Types, LinkTypes, ServerTypes, RoutineTypes, Reloads, Workers
<1>2. ASSUME NEW s \in Servers, ReloadDiscovers(s) PROVE Held'
  BY <1>2, LinkFacts DEF ReloadDiscovers, ReloadGoes, Discovers, New,
    Structure, Held, envVars, linkVars, poolVars, wakeVars, Types, LinkTypes, ServerTypes, RoutineTypes, Reloads, Workers
<1>3. ASSUME NEW s \in Servers, ReloadFails(s) PROVE Held'
  BY <1>3, LinkFacts DEF ReloadFails, ReloadGoes, New,
    Structure, Held, envVars, linkVars, poolVars, wakeVars, Types, LinkTypes, ServerTypes, RoutineTypes, Reloads, Workers
<1>4. ASSUME NEW s \in Servers, ReloadPublishes(s) PROVE Held'
  <2>1. /\ reload'[s].at \in {"found", "closing"} /\ reload[s].at = "found"
        /\ \A r \in Servers : r # s => reload'[r] = reload[r]
        /\ UNCHANGED <<lifecycle, worker>>
    BY <1>4, ReloadPublishesEffect DEF ReloadPublishes
  <2> QED  BY <2>1 DEF Structure, Held
<1>5. ASSUME NEW s \in Servers, ReloadCloses(s) PROVE Held'
  BY <1>5, LinkFacts DEF ReloadCloses, ReloadGoes, New,
    Structure, Held, envVars, linkVars, poolVars, wakeVars, Types, LinkTypes, ServerTypes, RoutineTypes, Reloads, Workers
<1>6. ASSUME NEW s \in Servers, ReloadLeaves(s) PROVE Held'
  BY <1>6, LinkFacts DEF ReloadLeaves, NoReload, New,
    Structure, Held, envVars, linkVars, poolVars, wakeVars, Types, LinkTypes, ServerTypes, RoutineTypes, Reloads, Workers
<1>7. ASSUME NEW l \in Links, RequestServerReload(l) PROVE Held'
  BY <1>7, LinkFacts DEF RequestServerReload, Handled,
    Structure, Held, envVars, linkVars, poolVars, wakeVars, Types, LinkTypes, ServerTypes, RoutineTypes, Reloads, Workers
<1>8. ASSUME NEW l \in Links, TransportDies(l) PROVE Held'
  BY <1>8, LinkFacts DEF TransportDies,
    Structure, Held, envVars, linkVars, poolVars, wakeVars, Types, LinkTypes, ServerTypes, RoutineTypes, Reloads, Workers
<1>9. ASSUME NEW l \in Links, WorkerConnects(l) PROVE Held'
  BY <1>9, LinkFacts DEF WorkerConnects, Current,
    Structure, Held, envVars, linkVars, poolVars, wakeVars, Types, LinkTypes, ServerTypes, RoutineTypes, Reloads, Workers
<1>10. ASSUME NEW l \in Links, WorkerProbes(l) PROVE Held'
  BY <1>10, WorkerProbesEffect, LinkFacts DEF Structure, Held, envVars
<1>11. ASSUME WorkerWakes PROVE Held'
  BY <1>11, LinkFacts DEF WorkerWakes, Resting, Current,
    Structure, Held, envVars, linkVars, poolVars, wakeVars, Types, LinkTypes, ServerTypes, RoutineTypes, Reloads, Workers
<1>12. ASSUME WorkerReloads PROVE Held'
  BY <1>12, WorkerReloadsEffect, LinkFacts DEF Structure, Held
<1>13. ASSUME WorkerDiscovers PROVE Held'
  BY <1>13, LinkFacts DEF WorkerDiscovers, Discovers, Current,
    Structure, Held, envVars, linkVars, poolVars, wakeVars, Types, LinkTypes, ServerTypes, RoutineTypes, Reloads, Workers
<1>14. ASSUME WorkerConnected PROVE Held'
  BY <1>14, LinkFacts DEF WorkerConnected, Current,
    Structure, Held, envVars, linkVars, poolVars, wakeVars, Types, LinkTypes, ServerTypes, RoutineTypes, Reloads, Workers
<1>15. ASSUME WorkerRefused PROVE Held'
  BY <1>15, LinkFacts DEF WorkerRefused, Current,
    Structure, Held, envVars, linkVars, poolVars, wakeVars, Types, LinkTypes, ServerTypes, RoutineTypes, Reloads, Workers
<1>16. ASSUME WorkerPublishes PROVE Held'
  BY <1>16, WorkerPublishesEffect, LinkFacts DEF Structure, Held
<1>17. ASSUME WorkerPinged PROVE Held'
  BY <1>17, LinkFacts DEF WorkerPinged, Current,
    Structure, Held, envVars, linkVars, poolVars, wakeVars, Types, LinkTypes, ServerTypes, RoutineTypes, Reloads, Workers
<1>18. ASSUME WorkerRests PROVE Held'
  BY <1>18, LinkFacts DEF WorkerRests, Resting, Current,
    Structure, Held, envVars, linkVars, poolVars, wakeVars, Types, LinkTypes, ServerTypes, RoutineTypes, Reloads, Workers
<1>19. ASSUME UNCHANGED <<conn, current, offered, lifecycle, hung, reload, worker>> PROVE Held'
  BY <1>19 DEF Structure, Held, envVars, linkVars, poolVars, wakeVars, Types, LinkTypes, ServerTypes, RoutineTypes, Reloads, Workers
<1>30. ASSUME NEW s \in Servers, ReloadLate(s) PROVE Held'
  BY <1>30, ReloadLateEffect DEF Structure, Held
<1>31. ASSUME NEW s \in Servers, ReloadExpires(s) PROVE Held'
  BY <1>31, ReloadExpiresEffect DEF Structure, Held
<1> QED
  BY <1>1, <1>2, <1>3, <1>4, <1>5, <1>6, <1>7, <1>8, <1>9, <1>10, <1>11, <1>12, <1>13, <1>14, <1>15, <1>16, <1>17, <1>18, <1>19, <1>30, <1>31 DEF Next, Reload, Worker, Call, ListChanges, Tick, RequestRetry, BeforeBusinessCall, CallPinged, CallReturns, CallCanceled, CallTool,
    envVars, linkVars, poolVars, wakeVars

LEMMA BuildingStep ==
  ASSUME Types, Types', Structure, Next
  PROVE  Building'
<1>1. ASSUME NEW s \in Servers, ReloadConnects(s) PROVE Building'
  BY <1>1, LinkFacts DEF ReloadConnects, Unused,
    Structure, Building, envVars, linkVars, poolVars, wakeVars, New, Current, Types, LinkTypes, ServerTypes, RoutineTypes, Reloads, Workers
<1>2. ASSUME NEW s \in Servers, ReloadDiscovers(s) PROVE Building'
  BY <1>2, LinkFacts DEF ReloadDiscovers, ReloadGoes, Discovers,
    Structure, Building, envVars, linkVars, poolVars, wakeVars, New, Current, Types, LinkTypes, ServerTypes, RoutineTypes, Reloads, Workers
<1>3. ASSUME NEW s \in Servers, ReloadFails(s) PROVE Building'
  BY <1>3, LinkFacts DEF ReloadFails, ReloadGoes,
    Structure, Building, envVars, linkVars, poolVars, wakeVars, New, Current, Types, LinkTypes, ServerTypes, RoutineTypes, Reloads, Workers
<1>4. ASSUME NEW s \in Servers, ReloadPublishes(s) PROVE Building'
  <2>0. reload[s].at = "found"
    BY <1>4 DEF ReloadPublishes
  <2>1. \A r \in Servers : r # s => reload'[r] = reload[r] /\ reload[r].at \notin {"connecting", "found", "closing"}
    BY <2>0, <1>4, ReloadPublishesEffect, ReloadHolds
  <2>2. \A r \in Servers : Current(r) \in Links /\ Current(r) # New(s)
    BY <2>0, ReloadBuilds, Users
  <2>3. \A r \in Servers : conn'[Current(r)] = conn[Current(r)]
    BY <2>2, <1>4, ReloadPublishesEffect
  <2>4. CASE UNCHANGED <<current, offered, reload>> /\ hung' = TRUE
    BY <2>0, <2>1, <2>3, <2>4 DEF Structure, Building, Current, New
  <2>5. CASE /\ reload'[s].at = "closing" /\ current'[s] = reload[s].gen /\ offered'[s] = reload[s].gen
             /\ \A r \in Servers : r # s => current'[r] = current[r] /\ offered'[r] = offered[r]
    <3>1. ASSUME NEW r \in Servers, r # s
          PROVE  /\ offered'[r] \in {0, current'[r]}
                 /\ offered'[r] # 0 => conn'[Current(r)'] \in {"open", "dead"}
      <4>1. Current(r)' = Current(r)
        BY <2>5, <3>1 DEF Current
      <4> QED  BY <2>3, <2>5, <3>1, <4>1 DEF Structure, Building
    <3>2. Current(s)' = New(s)
      BY <2>5 DEF Current, New
    <3>3. conn'[Current(s)'] = "open"
      BY <3>2, <1>4, ReloadPublishesEffect
    <3>4. reload'[s].gen = reload[s].gen /\ reload'[s].old = offered[s] /\ offered[s] # reload[s].gen
      BY <2>0, <1>4, ReloadPublishesEffect, ReloadBuilds
    <3> QED  BY <2>1, <2>5, <3>1, <3>3, <3>4 DEF Building
  <2> QED  BY <2>4, <2>5, <1>4, ReloadPublishesEffect
<1>5. ASSUME NEW s \in Servers, ReloadCloses(s) PROVE Building'
  BY <1>5, LinkFacts DEF ReloadCloses, ReloadGoes,
    Structure, Building, envVars, linkVars, poolVars, wakeVars, New, Current, Types, LinkTypes, ServerTypes, RoutineTypes, Reloads, Workers
<1>6. ASSUME NEW s \in Servers, ReloadLeaves(s) PROVE Building'
  BY <1>6, LinkFacts DEF ReloadLeaves, NoReload,
    Structure, Building, envVars, linkVars, poolVars, wakeVars, New, Current, Types, LinkTypes, ServerTypes, RoutineTypes, Reloads, Workers
<1>7. ASSUME NEW l \in Links, RequestServerReload(l) PROVE Building'
  BY <1>7, LinkFacts DEF RequestServerReload, Handled,
    Structure, Building, envVars, linkVars, poolVars, wakeVars, New, Current, Types, LinkTypes, ServerTypes, RoutineTypes, Reloads, Workers
<1>8. ASSUME NEW l \in Links, TransportDies(l) PROVE Building'
  BY <1>8, LinkFacts DEF TransportDies,
    Structure, Building, envVars, linkVars, poolVars, wakeVars, New, Current, Types, LinkTypes, ServerTypes, RoutineTypes, Reloads, Workers
<1>9. ASSUME NEW l \in Links, WorkerConnects(l) PROVE Building'
  <2>1. /\ UNCHANGED <<offered, current, reload, hung>> /\ offered[l[1]] = 0 /\ l = Current(l[1])
        /\ \A k \in Links : k # l => conn'[k] = conn[k]
        /\ \A s \in Servers : reload[s].at \notin {"connecting", "found", "closing"}
    BY <1>9, WorkerConnectsEffect, LinkFacts DEF poolVars, Structure, Held
  <2>2. ASSUME NEW s \in Servers, offered[s] # 0 PROVE conn'[Current(s)] = conn[Current(s)]
    BY <2>1, <2>2, LinkFacts DEF Current, Types, ServerTypes
  <2> QED  BY <2>1, <2>2 DEF Structure, Building, Current, New
<1>10. ASSUME NEW l \in Links, WorkerProbes(l) PROVE Building'
  BY <1>10, LinkFacts DEF WorkerProbes,
    Structure, Building, envVars, linkVars, poolVars, wakeVars, New, Current, Types, LinkTypes, ServerTypes, RoutineTypes, Reloads, Workers
<1>11. ASSUME WorkerWakes PROVE Building'
  BY <1>11, LinkFacts DEF WorkerWakes, Resting,
    Structure, Building, envVars, linkVars, poolVars, wakeVars, New, Current, Types, LinkTypes, ServerTypes, RoutineTypes, Reloads, Workers
<1>12. ASSUME WorkerReloads PROVE Building'
  BY <1>12, LinkFacts DEF WorkerReloads, Probing, Resting, NeedsRetry,
    Structure, Building, envVars, linkVars, poolVars, wakeVars, New, Current, Types, LinkTypes, ServerTypes, RoutineTypes, Reloads, Workers
<1>13. ASSUME WorkerDiscovers PROVE Building'
  <2>1. /\ UNCHANGED <<offered, current, reload, hung>> /\ worker.at = "connecting" /\ worker.on # None
        /\ \A k \in Links : k # worker.on => conn'[k] = conn[k]
    BY <1>13, WorkerOn, DiscoversEffect DEF WorkerDiscovers, poolVars
  <2>2. \A s \in Servers : reload[s].at \notin {"connecting", "found", "closing"}
    BY <2>1, LinkFacts DEF Structure, Held
  <2>3. ASSUME NEW s \in Servers, offered[s] # 0 PROVE conn'[Current(s)] = conn[Current(s)]
    BY <2>1, <2>3, LinkFacts, WorkerOn DEF Current, Types, ServerTypes
  <2> QED  BY <2>1, <2>2, <2>3 DEF Structure, Building, Current, New
<1>14. ASSUME WorkerConnected PROVE Building'
  <2>1. /\ UNCHANGED <<offered, current, reload, hung>> /\ worker.at = "connecting" /\ worker.on # None
        /\ \A k \in Links : k # worker.on => conn'[k] = conn[k]
    BY <1>14, WorkerConnectedEffect, WorkerOn, DiscoversEffect DEF WorkerConnected, poolVars
  <2>2. \A s \in Servers : reload[s].at \notin {"connecting", "found", "closing"}
    BY <2>1, LinkFacts DEF Structure, Held
  <2>3. ASSUME NEW s \in Servers, offered[s] # 0 PROVE conn'[Current(s)] = conn[Current(s)]
    BY <2>1, <2>3, LinkFacts, WorkerOn DEF Current, Types, ServerTypes
  <2> QED  BY <2>1, <2>2, <2>3 DEF Structure, Building, Current, New
<1>15. ASSUME WorkerRefused PROVE Building'
  <2>1. /\ UNCHANGED <<offered, current, reload, hung>> /\ worker.at = "connecting" /\ worker.on # None
        /\ \A k \in Links : k # worker.on => conn'[k] = conn[k]
    BY <1>15, WorkerRefusedEffect, WorkerOn, DiscoversEffect DEF WorkerRefused, poolVars
  <2>2. \A s \in Servers : reload[s].at \notin {"connecting", "found", "closing"}
    BY <2>1, LinkFacts DEF Structure, Held
  <2>3. ASSUME NEW s \in Servers, offered[s] # 0 PROVE conn'[Current(s)] = conn[Current(s)]
    BY <2>1, <2>3, LinkFacts, WorkerOn DEF Current, Types, ServerTypes
  <2> QED  BY <2>1, <2>2, <2>3 DEF Structure, Building, Current, New
<1>16. ASSUME WorkerPublishes PROVE Building'
  <2>1. /\ UNCHANGED <<conn, current, reload, hung>>
        /\ \A s \in Servers : offered'[s] = IF conn[Current(s)] \in {"open", "dead"}
                                              THEN current[s] ELSE 0
        /\ \A s \in Servers : reload[s].at \notin {"connecting", "found", "closing"}
    BY <1>16, WorkerPublishesEffect, LinkFacts DEF Structure, Held
  <2> QED  BY <2>1 DEF Structure, Building, Current, New
<1>17. ASSUME WorkerPinged PROVE Building'
  BY <1>17, LinkFacts DEF WorkerPinged,
    Structure, Building, envVars, linkVars, poolVars, wakeVars, New, Current, Types, LinkTypes, ServerTypes, RoutineTypes, Reloads, Workers
<1>18. ASSUME WorkerRests PROVE Building'
  BY <1>18, LinkFacts DEF WorkerRests, Resting,
    Structure, Building, envVars, linkVars, poolVars, wakeVars, New, Current, Types, LinkTypes, ServerTypes, RoutineTypes, Reloads, Workers
<1>19. ASSUME UNCHANGED <<conn, current, offered, lifecycle, hung, reload, worker>> PROVE Building'
  BY <1>19 DEF Structure, Building, envVars, linkVars, poolVars, wakeVars, New, Current, Types, LinkTypes, ServerTypes, RoutineTypes, Reloads, Workers
<1>30. ASSUME NEW s \in Servers, ReloadLate(s) PROVE Building'
  <2>1. /\ UNCHANGED <<conn, current, offered, hung>> /\ reload'[s].at = "late"
        /\ \A r \in Servers : r # s => reload'[r] = reload[r]
    BY <1>30, ReloadLateEffect DEF linkVars, poolVars
  <2>2. \A r \in Servers : Current(r)' = Current(r) /\ (r # s => New(r)' = New(r))
    BY <2>1 DEF Current, New
  <2> QED  BY <2>1, <2>2 DEF Structure, Building
<1>31. ASSUME NEW s \in Servers, ReloadExpires(s) PROVE Building'
  <2>1. /\ UNCHANGED <<conn, current, offered, hung>> /\ reload'[s].at = "leaving"
        /\ \A r \in Servers : r # s => reload'[r] = reload[r]
    BY <1>31, ReloadExpiresEffect DEF poolVars
  <2>2. \A r \in Servers : Current(r)' = Current(r) /\ (r # s => New(r)' = New(r))
    BY <2>1 DEF Current, New
  <2> QED  BY <2>1, <2>2 DEF Structure, Building
<1> QED
  BY <1>1, <1>2, <1>3, <1>4, <1>5, <1>6, <1>7, <1>8, <1>9, <1>10, <1>11, <1>12, <1>13, <1>14, <1>15, <1>16, <1>17, <1>18, <1>19, <1>30, <1>31 DEF Next, Reload, Worker, Call, ListChanges, Tick, RequestRetry, BeforeBusinessCall, CallPinged, CallReturns, CallCanceled, CallTool,
    envVars, linkVars, poolVars, wakeVars

LEMMA ConnectingStep ==
  ASSUME Types, Types', Structure, Next
  PROVE  Connecting'
<1>1. ASSUME NEW s \in Servers, ReloadConnects(s) PROVE Connecting'
  <2>1. worker.at # "connecting" /\ UNCHANGED worker
    BY <1>1, LinkFacts DEF ReloadConnects, Structure, Held
  <2> QED  BY <2>1, Zenon DEF Structure, Connecting
<1>2. ASSUME NEW s \in Servers, ReloadDiscovers(s) PROVE Connecting'
  <2>1. worker.at # "connecting" /\ UNCHANGED worker
    BY <1>2, ReloadHolds DEF ReloadDiscovers
  <2> QED  BY <2>1, Zenon DEF Structure, Connecting
<1>3. ASSUME NEW s \in Servers, ReloadFails(s) PROVE Connecting'
  <2>1. worker.at # "connecting" /\ UNCHANGED worker
    BY <1>3, ReloadHolds DEF ReloadFails
  <2> QED  BY <2>1, Zenon DEF Structure, Connecting
<1>4. ASSUME NEW s \in Servers, ReloadPublishes(s) PROVE Connecting'
  <2>1. worker.at # "connecting" /\ UNCHANGED worker
    BY <1>4, ReloadHolds DEF ReloadPublishes
  <2> QED  BY <2>1, Zenon DEF Structure, Connecting
<1>5. ASSUME NEW s \in Servers, ReloadCloses(s) PROVE Connecting'
  <2>1. worker.at # "connecting" /\ UNCHANGED worker
    BY <1>5, ReloadHolds DEF ReloadCloses
  <2> QED  BY <2>1, Zenon DEF Structure, Connecting
<1>6. ASSUME NEW s \in Servers, ReloadLeaves(s) PROVE Connecting'
  BY <1>6, LinkFacts DEF ReloadLeaves, NoReload, New,
    Structure, Connecting, envVars, linkVars, poolVars, wakeVars, Current, Types, LinkTypes, ServerTypes, RoutineTypes, Reloads, Workers
<1>7. ASSUME NEW l \in Links, RequestServerReload(l) PROVE Connecting'
  BY <1>7, LinkFacts DEF RequestServerReload, Handled,
    Structure, Connecting, envVars, linkVars, poolVars, wakeVars, Current, Types, LinkTypes, ServerTypes, RoutineTypes, Reloads, Workers
<1>8. ASSUME NEW l \in Links, TransportDies(l) PROVE Connecting'
  BY <1>8, LinkFacts DEF TransportDies,
    Structure, Connecting, envVars, linkVars, poolVars, wakeVars, Current, Types, LinkTypes, ServerTypes, RoutineTypes, Reloads, Workers
<1>9. ASSUME NEW l \in Links, WorkerConnects(l) PROVE Connecting'
  BY <1>9, LinkFacts DEF WorkerConnects,
    Structure, Connecting, envVars, linkVars, poolVars, wakeVars, Current, Types, LinkTypes, ServerTypes, RoutineTypes, Reloads, Workers
<1>10. ASSUME NEW l \in Links, WorkerProbes(l) PROVE Connecting'
  <2>1. /\ worker'.at \in {"probe", "pinging"}
        /\ worker'.at = "probe" => worker'.on = None
        /\ worker'.at = "pinging" => worker'.on = l
    BY <1>10, WorkerProbesEffect
  <2> QED  BY <2>1, LinkFacts DEF Connecting
<1>11. ASSUME WorkerWakes PROVE Connecting'
  BY <1>11, LinkFacts DEF WorkerWakes, Resting,
    Structure, Connecting, envVars, linkVars, poolVars, wakeVars, Current, Types, LinkTypes, ServerTypes, RoutineTypes, Reloads, Workers
<1>12. ASSUME WorkerReloads PROVE Connecting'
  <2>1. CASE worker'.at = "probe"
    BY <1>12, <2>1, WorkerReloadsEffect DEF Connecting
  <2>2. CASE worker'.at = "connecting"
    <3>1. /\ worker'.on = None /\ lifecycle = None
          /\ worker'.todo = {Current(s) : s \in {r \in Servers : offered[r] = 0}}
          /\ UNCHANGED <<conn, current, offered>>
      BY <1>12, <2>2, WorkerReloadsEffect DEF linkVars, poolVars
    <3>2. ASSUME NEW l \in worker'.todo PROVE l = Current(l[1]) /\ offered[l[1]] = 0
      <4>1. PICK s \in Servers : l = Current(s) /\ offered[s] = 0
        BY <3>1
      <4>2. l[1] = s
        BY <4>1 DEF Current
      <4> QED  BY <4>1, <4>2
    <3>3. ASSUME NEW s \in Servers, conn[Current(s)] \in {"building", "discovered"} PROVE FALSE
      <4>1. Current(s) \in Links /\ Current(s)[1] = s /\ Current(s)[2] = current[s]
        BY LinkFacts DEF Current, Types, ServerTypes
      <4>2. offered[s] # 0 => conn[Current(s)] \in {"open", "dead"}
        BY DEF Structure, Building
      <4>3. current[s] # offered[s]
        BY <3>3, <4>2, LinkFacts DEF Types, ServerTypes
      <4> QED  BY <3>1, <3>3, <4>1, <4>3, LinkFacts DEF Structure, NothingLeaks
    <3>5. /\ \A l \in worker'.todo : l = Current(l[1])' /\ offered'[l[1]] = 0
          /\ \A s \in Servers : conn'[Current(s)'] \notin {"building", "discovered"}
      BY <3>1, <3>2, <3>3 DEF Current
    <3> QED  BY <2>2, <3>1, <3>5 DEF Connecting
  <2> QED  BY <1>12, <2>1, <2>2, WorkerReloadsEffect
<1>13. ASSUME WorkerDiscovers PROVE Connecting'
  BY <1>13, LinkFacts DEF WorkerDiscovers, Discovers,
    Structure, Connecting, envVars, linkVars, poolVars, wakeVars, Current, Types, LinkTypes, ServerTypes, RoutineTypes, Reloads, Workers
<1>14. ASSUME WorkerConnected PROVE Connecting'
  BY <1>14, LinkFacts DEF WorkerConnected,
    Structure, Connecting, envVars, linkVars, poolVars, wakeVars, Current, Types, LinkTypes, ServerTypes, RoutineTypes, Reloads, Workers
<1>15. ASSUME WorkerRefused PROVE Connecting'
  BY <1>15, LinkFacts DEF WorkerRefused,
    Structure, Connecting, envVars, linkVars, poolVars, wakeVars, Current, Types, LinkTypes, ServerTypes, RoutineTypes, Reloads, Workers
<1>16. ASSUME WorkerPublishes PROVE Connecting'
  BY <1>16, LinkFacts DEF WorkerPublishes, Probing, Resting,
    Structure, Connecting, envVars, linkVars, poolVars, wakeVars, Current, Types, LinkTypes, ServerTypes, RoutineTypes, Reloads, Workers
<1>17. ASSUME WorkerPinged PROVE Connecting'
  BY <1>17, LinkFacts DEF WorkerPinged,
    Structure, Connecting, envVars, linkVars, poolVars, wakeVars, Current, Types, LinkTypes, ServerTypes, RoutineTypes, Reloads, Workers
<1>18. ASSUME WorkerRests PROVE Connecting'
  BY <1>18, LinkFacts DEF WorkerRests, Resting,
    Structure, Connecting, envVars, linkVars, poolVars, wakeVars, Current, Types, LinkTypes, ServerTypes, RoutineTypes, Reloads, Workers
<1>19. ASSUME UNCHANGED <<conn, current, offered, lifecycle, hung, reload, worker>> PROVE Connecting'
  BY <1>19 DEF Structure, Connecting, envVars, linkVars, poolVars, wakeVars, Current, Types, LinkTypes, ServerTypes, RoutineTypes, Reloads, Workers
<1>30. ASSUME NEW s \in Servers, ReloadLate(s) PROVE Connecting'
  <2>1. UNCHANGED <<conn, current, offered, worker>>
    BY <1>30, ReloadLateEffect DEF linkVars, poolVars
  <2> QED  BY <2>1 DEF Structure, Connecting, Current
<1>31. ASSUME NEW s \in Servers, ReloadExpires(s) PROVE Connecting'
  <2>1. UNCHANGED <<conn, current, offered, worker>>
    BY <1>31, ReloadExpiresEffect DEF poolVars
  <2> QED  BY <2>1 DEF Structure, Connecting, Current
<1> QED
  BY <1>1, <1>2, <1>3, <1>4, <1>5, <1>6, <1>7, <1>8, <1>9, <1>10, <1>11, <1>12, <1>13, <1>14, <1>15, <1>16, <1>17, <1>18, <1>19, <1>30, <1>31 DEF Next, Reload, Worker, Call, ListChanges, Tick, RequestRetry, BeforeBusinessCall, CallPinged, CallReturns, CallCanceled, CallTool,
    envVars, linkVars, poolVars, wakeVars

LEMMA NothingLeaksStep ==
  ASSUME Types, Types', Structure, Next
  PROVE  NothingLeaks'
<1>1. ASSUME NEW s \in Servers, ReloadConnects(s) PROVE NothingLeaks'
  BY <1>1, LinkFacts DEF ReloadConnects, Unused, New,
    Structure, NothingLeaks, envVars, linkVars, poolVars, wakeVars, Types, LinkTypes, ServerTypes, RoutineTypes, Reloads, Workers
<1>2. ASSUME NEW s \in Servers, ReloadDiscovers(s) PROVE NothingLeaks'
  <2> SUFFICES ASSUME NEW k \in Links, conn'[k] \in {"building", "discovered", "open", "dead"}
               PROVE  \/ k[2] = offered'[k[1]]
                      \/ lifecycle' = k[1] /\ k[2] \in {reload'[k[1]].gen, reload'[k[1]].old}
                      \/ lifecycle' = WorkerHolds /\ k[2] = current'[k[1]]
    BY DEF NothingLeaks
  <2>0. k[1] \in Servers /\ k[2] \in Gens /\ k = <<k[1], k[2]>>
    BY LinkFacts
  <2>1. /\ UNCHANGED <<offered, lifecycle, current>> /\ reload[s].at = "connecting"
        /\ ReloadGoes(s, "found") /\ Discovers(New(s))
    BY <1>2 DEF ReloadDiscovers, poolVars
  <2>2. \A r \in Servers : reload'[r].gen = reload[r].gen /\ reload'[r].old = reload[r].old
    BY <2>1, ReloadAt DEF Types
  <2>3. CASE k = New(s)
    BY <2>1, <2>2, <2>3, ReloadHolds, ReloadBuilds
  <2>4. CASE k # New(s)
    <3>1. conn'[k] = conn[k]
      BY <2>1, <2>4, DiscoversEffect, ReloadBuilds
    <3> QED  BY <2>0, <2>1, <2>2, <3>1 DEF Structure, NothingLeaks
  <2> QED  BY <2>3, <2>4
<1>3. ASSUME NEW s \in Servers, ReloadFails(s) PROVE NothingLeaks'
  <2> SUFFICES ASSUME NEW k \in Links, conn'[k] \in {"building", "discovered", "open", "dead"}
               PROVE  \/ k[2] = offered'[k[1]]
                      \/ lifecycle' = k[1] /\ k[2] \in {reload'[k[1]].gen, reload'[k[1]].old}
                      \/ lifecycle' = WorkerHolds /\ k[2] = current'[k[1]]
    BY DEF NothingLeaks
  <2>0. k[1] \in Servers /\ k[2] \in Gens /\ k = <<k[1], k[2]>>
    BY LinkFacts
  <2>1. k # New(s) /\ conn'[k] = conn[k] /\ UNCHANGED <<offered, current>>
    BY <1>3, ReloadFailsEffect DEF poolVars
  <2>2. /\ lifecycle = s /\ reload[s].old = offered[s]
        /\ New(s) = <<s, reload[s].gen>>
    BY <1>3, ReloadHolds, ReloadBuilds DEF ReloadFails, New
  <2>3. k[1] = s => k[2] # reload[s].gen
    BY <2>0, <2>1, <2>2, Zenon
  <2> QED  BY <2>0, <2>1, <2>2, <2>3, LinkFacts DEF Structure, NothingLeaks
<1>4. ASSUME NEW s \in Servers, ReloadPublishes(s) PROVE NothingLeaks'
  <2> SUFFICES ASSUME NEW k \in Links, conn'[k] \in {"building", "discovered", "open", "dead"}
               PROVE  \/ k[2] = offered'[k[1]]
                      \/ lifecycle' = k[1] /\ k[2] \in {reload'[k[1]].gen, reload'[k[1]].old}
                      \/ lifecycle' = WorkerHolds /\ k[2] = current'[k[1]]
    BY DEF NothingLeaks
  <2>0. k[1] \in Servers /\ k[2] \in Gens /\ k = <<k[1], k[2]>>
    BY LinkFacts
  <2>1. /\ reload[s].at = "found" /\ UNCHANGED lifecycle
    BY <1>4 DEF ReloadPublishes
  <2>2. /\ lifecycle = s /\ reload[s].old = offered[s] /\ New(s)[1] = s /\ New(s)[2] = reload[s].gen
    BY <2>1, ReloadHolds, ReloadBuilds
  <2>3. reload'[s].gen = reload[s].gen /\ reload'[s].old = reload[s].old
    BY <1>4, ReloadPublishesEffect
  <2>4. CASE k = New(s)
    BY <2>1, <2>2, <2>3, <2>4
  <2>5. CASE k # New(s)
    <3>1. conn'[k] = conn[k]
      BY <1>4, <2>5, ReloadPublishesEffect
    <3>2. k[1] # s => offered'[k[1]] = offered[k[1]] /\ current'[k[1]] = current[k[1]]
      BY <1>4, <2>0, ReloadPublishesEffect
    <3>3. k[2] = offered[k[1]] \/ (k[1] = s /\ k[2] \in {reload[s].gen, reload[s].old})
      BY <2>2, <3>1, LinkFacts DEF Structure, NothingLeaks
    <3> QED  BY <2>1, <2>2, <2>3, <3>2, <3>3
  <2> QED  BY <2>4, <2>5
<1>5. ASSUME NEW s \in Servers, ReloadCloses(s) PROVE NothingLeaks'
  <2> SUFFICES ASSUME NEW k \in Links, conn'[k] \in {"building", "discovered", "open", "dead"}
               PROVE  \/ k[2] = offered'[k[1]]
                      \/ lifecycle' = k[1] /\ k[2] \in {reload'[k[1]].gen, reload'[k[1]].old}
                      \/ lifecycle' = WorkerHolds /\ k[2] = current'[k[1]]
    BY DEF NothingLeaks
  <2>0. k[1] \in Servers /\ k[2] \in Gens /\ k = <<k[1], k[2]>>
    BY LinkFacts
  <2> DEFINE old == <<s, reload[s].old>>
  <2>1. k # old /\ conn'[k] = conn[k] /\ UNCHANGED <<offered, current>> /\ reload[s].at = "closing"
    BY <1>5, ReloadClosesEffect
  <2>2. lifecycle = s /\ reload[s].gen = offered[s]
    BY <2>1, ReloadHolds DEF Structure, Building
  <2>3. k[1] = s => k[2] # reload[s].old
    BY <2>0, <2>1, Zenon
  <2> QED  BY <2>0, <2>1, <2>2, <2>3, LinkFacts DEF Structure, NothingLeaks
<1>6. ASSUME NEW s \in Servers, ReloadLeaves(s) PROVE NothingLeaks'
  BY <1>6, ReloadLeavesEffect, LinkFacts DEF Structure, NothingLeaks, linkVars, poolVars
<1>7. ASSUME NEW l \in Links, RequestServerReload(l) PROVE NothingLeaks'
  <2>1. /\ UNCHANGED <<conn, current, offered, lifecycle>>
        /\ \A r \in Servers : reload'[r].gen = reload[r].gen /\ reload'[r].old = reload[r].old
    BY <1>7, RequestServerReloadEffect DEF linkVars, poolVars
  <2> QED  BY <2>1, LinkFacts DEF Structure, NothingLeaks
<1>8. ASSUME NEW l \in Links, TransportDies(l) PROVE NothingLeaks'
  BY <1>8, LinkFacts DEF TransportDies,
    Structure, NothingLeaks, envVars, linkVars, poolVars, wakeVars, Types, LinkTypes, ServerTypes, RoutineTypes, Reloads, Workers
<1>9. ASSUME NEW l \in Links, WorkerConnects(l) PROVE NothingLeaks'
  <2> SUFFICES ASSUME NEW k \in Links, conn'[k] \in {"building", "discovered", "open", "dead"}
               PROVE  \/ k[2] = offered'[k[1]]
                      \/ lifecycle' = k[1] /\ k[2] \in {reload'[k[1]].gen, reload'[k[1]].old}
                      \/ lifecycle' = WorkerHolds /\ k[2] = current'[k[1]]
    BY DEF NothingLeaks
  <2>0. k[1] \in Servers /\ k[2] \in Gens /\ k = <<k[1], k[2]>>
    BY LinkFacts
  <2>1. /\ UNCHANGED <<offered, lifecycle, current, reload>>
        /\ lifecycle = WorkerHolds /\ l[2] = current[l[1]] /\ (k # l => conn'[k] = conn[k])
    BY <1>9, WorkerConnectsEffect DEF poolVars
  <2> QED  BY <2>0, <2>1 DEF Structure, NothingLeaks
<1>10. ASSUME NEW l \in Links, WorkerProbes(l) PROVE NothingLeaks'
  BY <1>10, LinkFacts DEF WorkerProbes, Current,
    Structure, NothingLeaks, envVars, linkVars, poolVars, wakeVars, Types, LinkTypes, ServerTypes, RoutineTypes, Reloads, Workers
<1>11. ASSUME WorkerWakes PROVE NothingLeaks'
  BY <1>11, LinkFacts DEF WorkerWakes, Resting, Current,
    Structure, NothingLeaks, envVars, linkVars, poolVars, wakeVars, Types, LinkTypes, ServerTypes, RoutineTypes, Reloads, Workers
<1>12. ASSUME WorkerReloads PROVE NothingLeaks'
  BY <1>12, LinkFacts DEF WorkerReloads, Probing, Resting, NeedsRetry, Current,
    Structure, NothingLeaks, envVars, linkVars, poolVars, wakeVars, Types, LinkTypes, ServerTypes, RoutineTypes, Reloads, Workers
<1>13. ASSUME WorkerDiscovers PROVE NothingLeaks'
  BY <1>13, LinkFacts DEF WorkerDiscovers, Discovers, Current,
    Structure, NothingLeaks, envVars, linkVars, poolVars, wakeVars, Types, LinkTypes, ServerTypes, RoutineTypes, Reloads, Workers
<1>14. ASSUME WorkerConnected PROVE NothingLeaks'
  BY <1>14, LinkFacts DEF WorkerConnected, Current,
    Structure, NothingLeaks, envVars, linkVars, poolVars, wakeVars, Types, LinkTypes, ServerTypes, RoutineTypes, Reloads, Workers
<1>15. ASSUME WorkerRefused PROVE NothingLeaks'
  BY <1>15, LinkFacts DEF WorkerRefused, Current,
    Structure, NothingLeaks, envVars, linkVars, poolVars, wakeVars, Types, LinkTypes, ServerTypes, RoutineTypes, Reloads, Workers
<1>16. ASSUME WorkerPublishes PROVE NothingLeaks'
  <2> SUFFICES ASSUME NEW k \in Links, conn'[k] \in {"building", "discovered", "open", "dead"}
               PROVE  \/ k[2] = offered'[k[1]]
                      \/ lifecycle' = k[1] /\ k[2] \in {reload'[k[1]].gen, reload'[k[1]].old}
                      \/ lifecycle' = WorkerHolds /\ k[2] = current'[k[1]]
    BY DEF NothingLeaks
  <2>0. k[1] \in Servers /\ k[2] \in Gens /\ k = <<k[1], k[2]>>
    BY LinkFacts
  <2>1. /\ lifecycle = WorkerHolds /\ UNCHANGED <<conn, current>> /\ worker.on = None
        /\ worker.at = "connecting"
        /\ \A s \in Servers : offered'[s] = IF conn[Current(s)] \in {"open", "dead"}
                                              THEN current[s] ELSE 0
    BY <1>16, WorkerPublishesEffect
  <2>2. k[2] = current[k[1]]
    BY <2>0, <2>1, LinkFacts DEF Structure, NothingLeaks, Building
  <2>3. k = Current(k[1])
    BY <2>0, <2>2, Zenon DEF Current
  <2>4. Current(k[1]) # None
    BY <2>3, LinkFacts
  <2>5. conn[k] \in {"open", "dead"}
    BY <2>0, <2>1, <2>3, <2>4 DEF Structure, Connecting
  <2> QED  BY <2>0, <2>1, <2>2, <2>3, <2>5
<1>17. ASSUME WorkerPinged PROVE NothingLeaks'
  BY <1>17, LinkFacts DEF WorkerPinged, Current,
    Structure, NothingLeaks, envVars, linkVars, poolVars, wakeVars, Types, LinkTypes, ServerTypes, RoutineTypes, Reloads, Workers
<1>18. ASSUME WorkerRests PROVE NothingLeaks'
  BY <1>18, LinkFacts DEF WorkerRests, Resting, Current,
    Structure, NothingLeaks, envVars, linkVars, poolVars, wakeVars, Types, LinkTypes, ServerTypes, RoutineTypes, Reloads, Workers
<1>19. ASSUME UNCHANGED <<conn, current, offered, lifecycle, hung, reload, worker>> PROVE NothingLeaks'
  BY <1>19 DEF Structure, NothingLeaks, envVars, linkVars, poolVars, wakeVars, Types, LinkTypes, ServerTypes, RoutineTypes, Reloads, Workers
<1>30. ASSUME NEW s \in Servers, ReloadLate(s) PROVE NothingLeaks'
  <2>1. /\ UNCHANGED <<conn, current, offered, lifecycle>>
        /\ \A r \in Servers : reload'[r].gen = reload[r].gen /\ reload'[r].old = reload[r].old
    BY <1>30, ReloadLateEffect DEF linkVars, poolVars
  <2> QED  BY <2>1, LinkFacts DEF Structure, NothingLeaks
<1>31. ASSUME NEW s \in Servers, ReloadExpires(s) PROVE NothingLeaks'
  <2>1. UNCHANGED <<conn, current, offered, lifecycle>> /\ lifecycle = None
    BY <1>31, ReloadExpiresEffect DEF poolVars
  <2> QED  BY <2>1, LinkFacts DEF Structure, NothingLeaks
<1> QED
  BY <1>1, <1>2, <1>3, <1>4, <1>5, <1>6, <1>7, <1>8, <1>9, <1>10, <1>11, <1>12, <1>13, <1>14, <1>15, <1>16, <1>17, <1>18, <1>19, <1>30, <1>31 DEF Next, Reload, Worker, Call, ListChanges, Tick, RequestRetry, BeforeBusinessCall, CallPinged, CallReturns, CallCanceled, CallTool,
    envVars, linkVars, poolVars, wakeVars

(* Every step keeps the structure.                                         *)
LEMMA StructureStep ==
  ASSUME Types, Types', Structure, Next
  PROVE  Structure'
BY HeldStep, BuildingStep, ConnectingStep, NothingLeaksStep DEF Structure

-----------------------------------------------------------------------------
(* Retries.                                                                *)

(* Nothing happens to a tracker.                                           *)
LEMMA RetryByPass ==
  ASSUME RetryDue, hung' = hung, timers \subseteq timers',
         dirty /\ token => dirty' /\ token',
         \A s \in Servers \ collided' :
           /\ Current(s)' = Current(s)
           /\ \/ health'[Current(s)].state # "open"
              \/ /\ s \notin collided /\ health'[Current(s)] = health[Current(s)]
                 /\ Pass(s) => Pass(s)'
  PROVE  RetryDue'
<1> SUFFICES ASSUME NEW s \in Servers \ collided', health'[Current(s)'].state = "open", ~hung'
             PROVE  Awaited(s)'
  BY DEF RetryDue
<1>1. /\ Current(s)' = Current(s) /\ health'[Current(s)] = health[Current(s)]
      /\ Pass(s) => Pass(s)'
  OBVIOUS
<1>2. Awaited(s)
  BY <1>1 DEF RetryDue
<1> QED  BY <1>1, <1>2 DEF Awaited

(* A tracker changes: one that opens has its timer.                        *)
LEMMA RetryByTracker ==
  ASSUME Types, RetryDue, NEW l \in Links, NEW h \in Trackers, Becomes(l, h),
         UNCHANGED <<current, collided, hung>>, dirty /\ token => dirty' /\ token',
         \A s \in Servers : Current(s) # l /\ Pass(s) => Pass(s)'
  PROVE  RetryDue'
<1> SUFFICES ASSUME NEW s \in Servers \ collided, health'[Current(s)'].state = "open", ~hung
             PROVE  Awaited(s)'
  BY DEF RetryDue
<1>0. /\ timers \subseteq timers'
      /\ health'[l] = h /\ (h.state = "open" => h.wait \in timers')
      /\ \A k \in Links : k # l => health'[k] = health[k]
  BY BecomesFacts
<1>1. Current(s)' = Current(s) /\ Current(s) \in Links
  BY LinkFacts DEF Current, Types, ServerTypes
<1>2. CASE Current(s) = l
  BY <1>0, <1>1, <1>2 DEF Awaited
<1>3. CASE Current(s) # l
  <2>1. health'[Current(s)] = health[Current(s)] /\ (Pass(s) => Pass(s)')
    BY <1>0, <1>1, <1>3
  <2>2. Awaited(s)
    BY <1>1, <2>1 DEF RetryDue
  <2> QED  BY <1>0, <1>1, <2>1, <2>2 DEF Awaited
<1> QED  BY <1>2, <1>3

(* Every open tracker stays awaited.                                       *)
LEMMA RetryDueStep ==
  ASSUME Types, Structure, RetryDue, Next
  PROVE  RetryDue'
<1>1. ASSUME NEW s \in Servers, ReloadConnects(s) PROVE RetryDue'
  <2>1. /\ UNCHANGED <<current, collided, hung, worker, dirty, token, timers>>
        /\ \A k \in Links : k # New(s)' => conn'[k] = conn[k] /\ health'[k] = health[k]
        /\ New(s)' = <<s, reload'[s].gen>> /\ reload'[s].gen # current[s]
    BY <1>1, ReloadConnectsEffect DEF poolVars, wakeVars, New
  <2>2. \A r \in Servers : Current(r) \in Links /\ Current(r)' = Current(r)
    BY <2>1, Users DEF Current
  <2>3. \A r \in Servers : Current(r) # New(s)'
    BY <2>1 DEF Current
  <2>4. \A r \in Servers : Pass(r) => Pass(r)'
    BY <2>1, <2>2, <2>3 DEF Pass
  <2> QED  BY <2>1, <2>2, <2>3, <2>4, RetryByPass
<1>2. ASSUME NEW s \in Servers, ReloadDiscovers(s) PROVE RetryDue'
  <2>1. /\ UNCHANGED <<current, collided, hung, worker, dirty, token, timers, health>>
        /\ reload[s].at = "connecting" /\ Discovers(New(s))
    BY <1>2 DEF ReloadDiscovers, poolVars, wakeVars
  <2>2. \A r \in Servers : Current(r) \in Links /\ Current(r)' = Current(r)
    BY <2>1, Users DEF Current
  <2>3. \A r \in Servers : conn'[Current(r)] = conn[Current(r)]
    BY <2>1, <2>2, ReloadBuilds, DiscoversEffect
  <2>4. \A r \in Servers : Pass(r) => Pass(r)'
    BY <2>1, <2>2, <2>3 DEF Pass
  <2> QED  BY <2>1, <2>2, <2>4, RetryByPass
<1>3. ASSUME NEW s \in Servers, ReloadFails(s) PROVE RetryDue'
  <2>1. /\ UNCHANGED <<current, collided, hung, worker, dirty, token>>
        /\ Becomes(Current(s), Opened) /\ \A k \in Links : k # New(s) => conn'[k] = conn[k]
    BY <1>3, ReloadFailsEffect DEF poolVars
  <2>2. \A r \in Servers : Current(r) \in Links /\ Current(r)' = Current(r)
    BY <2>1, Users DEF Current
  <2>3. \A r \in Servers : conn'[Current(r)] = conn[Current(r)]
    BY <1>3, <2>1, <2>2, ReloadBuilds DEF ReloadFails
  <2>4. \A r \in Servers : Pass(r) => Pass(r)'
    BY <2>1, <2>2, <2>3 DEF Pass
  <2> QED  BY <2>1, <2>2, <2>4, RetryByTracker, TrackerFacts
<1>4. ASSUME NEW s \in Servers, ReloadPublishes(s) PROVE RetryDue'
  <2>1. reload[s].at = "found"
    BY <1>4 DEF ReloadPublishes
  <2>2. CASE hung'
    BY <2>2 DEF RetryDue
  <2>3. CASE ~hung'
    <3>1. /\ UNCHANGED <<worker, dirty, token, timers>> /\ ~hung
          /\ \A k \in Links : k # New(s) => conn'[k] = conn[k] /\ health'[k] = health[k]
          /\ \A r \in Servers : r # s => current'[r] = current[r]
          /\ health'[New(s)] = Well /\ current'[s] = reload[s].gen
          /\ collided \ {s} \subseteq collided' \cup {r \in Servers : health[Current(r)] = Well}
      BY <1>4, <2>3, ReloadPublishesEffect
    <3>2. SUFFICES ASSUME NEW r \in Servers \ collided', health'[Current(r)'].state = "open"
                   PROVE  Awaited(r)'
      BY DEF RetryDue
    <3>3. CASE r = s
      <4>1. Current(s)' = New(s)
        BY <3>1 DEF Current, New
      <4> QED  BY <3>1, <3>2, <3>3, <4>1, TrackerFacts
    <3>4. CASE r # s
      <4>1. Current(r)' = Current(r)
        BY <3>1, <3>4 DEF Current
      <4>2. Current(r) \in Links /\ Current(r) # New(s)
        BY <2>1, Users, ReloadBuilds
      <4>3. conn'[Current(r)] = conn[Current(r)] /\ health'[Current(r)] = health[Current(r)]
        BY <3>1, <4>2
      <4>4. r \notin collided
        BY <3>1, <3>2, <3>4, <4>1, <4>3, TrackerFacts
      <4>5. Awaited(r)
        BY <3>1, <3>2, <4>1, <4>3, <4>4 DEF RetryDue
      <4>6. Pass(r) => Pass(r)'
        BY <3>1, <4>1, <4>3 DEF Pass
      <4> QED  BY <3>1, <4>1, <4>3, <4>5, <4>6 DEF Awaited
    <3> QED  BY <3>3, <3>4
  <2> QED  BY <2>2, <2>3
<1>5. ASSUME NEW s \in Servers, ReloadCloses(s) PROVE RetryDue'
  <2> DEFINE old == <<s, reload[s].old>>
  <2>1. /\ UNCHANGED <<current, collided, hung, worker, dirty, token, timers>>
        /\ \A k \in Links : k # old => conn'[k] = conn[k] /\ health'[k] = health[k]
        /\ \A r \in Servers : old # Current(r)
    BY <1>5, ReloadClosesEffect
  <2> HIDE DEF old
  <2>2. \A r \in Servers : Current(r) \in Links /\ Current(r)' = Current(r)
    BY <2>1, Users DEF Current
  <2>3. \A r \in Servers : conn'[Current(r)] = conn[Current(r)] /\ health'[Current(r)] = health[Current(r)]
    BY <2>1, <2>2
  <2>4. \A r \in Servers : Pass(r) => Pass(r)'
    BY <2>1, <2>2, <2>3 DEF Pass
  <2> QED  BY <2>1, <2>2, <2>3, <2>4, RetryByPass
<1>6. ASSUME NEW l \in Links, TransportDies(l) PROVE RetryDue'
  <2>1. /\ UNCHANGED <<current, collided, hung, worker, dirty, token>>
        /\ conn'[l] = "dead" /\ \A k \in Links : k # l => conn'[k] = conn[k]
        /\ UNCHANGED <<health, timers>> \/ Becomes(l, Failed(health[l]))
    BY <1>6, TransportDiesEffect DEF poolVars
  <2>2. \A r \in Servers : Current(r) \in Links /\ Current(r)' = Current(r)
    BY <2>1, Users DEF Current
  <2>3. ASSUME NEW r \in Servers, Pass(r) PROVE Pass(r)'
    <3>1. conn'[Current(r)] \in {"dead", conn[Current(r)]}
      BY <2>1, <2>2
    <3> QED  BY <2>1, <2>2, <2>3, <3>1 DEF Pass
  <2>4. CASE UNCHANGED <<health, timers>>
    BY <2>1, <2>2, <2>3, <2>4, RetryByPass
  <2>5. CASE Becomes(l, Failed(health[l]))
    <3>1. Failed(health[l]) \in Trackers
      BY TrackerFacts DEF Types, LinkTypes
    <3> QED  BY <2>1, <2>3, <2>5, <3>1, RetryByTracker
  <2> QED  BY <2>1, <2>4, <2>5
<1>7. ASSUME NEW l \in Links, WorkerConnects(l) PROVE RetryDue'
  <2>1. /\ UNCHANGED <<current, collided, hung, dirty, token, health, timers>>
        /\ worker.at = "connecting" /\ worker.on = None
        /\ \A k \in Links : k # l => conn'[k] = conn[k]
        /\ worker'.at = "connecting" /\ worker'.on = l /\ worker'.todo = worker.todo \ {l}
    BY <1>7, WorkerConnectsEffect DEF poolVars, wakeVars
  <2>2. \A r \in Servers : Current(r) \in Links /\ Current(r)' = Current(r)
    BY <2>1, Users DEF Current
  <2>3. ASSUME NEW r \in Servers, Pass(r) PROVE Pass(r)'
    BY <2>1, <2>2, <2>3, LinkFacts DEF Pass
  <2> QED  BY <2>1, <2>2, <2>3, RetryByPass
<1>8. ASSUME NEW l \in Links, WorkerProbes(l) PROVE RetryDue'
  <2>1. /\ UNCHANGED <<conn, current, collided, hung, dirty, token>>
        /\ worker.at = "probe" /\ worker'.todo = worker.todo \ {l}
        /\ \/ Becomes(l, HalfOpen(health[l]))
           \/ ~Due(health[l]) /\ UNCHANGED <<health, timers>>
    BY <1>8, WorkerProbesEffect DEF poolVars
  <2>2. \A r \in Servers : Current(r) \in Links /\ Current(r)' = Current(r)
    BY <2>1, Users DEF Current
  <2>3. ASSUME NEW r \in Servers, Current(r) # l, Pass(r) PROVE Pass(r)'
    BY <2>1, <2>2, <2>3 DEF Pass
  <2>4. CASE Becomes(l, HalfOpen(health[l]))
    <3>1. HalfOpen(health[l]) \in Trackers
      BY TrackerFacts DEF Types, LinkTypes
    <3> QED  BY <2>1, <2>3, <2>4, <3>1, RetryByTracker
  <2>5. CASE ~Due(health[l]) /\ UNCHANGED <<health, timers>>
    <3> SUFFICES ASSUME NEW r \in Servers \ collided, health[Current(r)].state = "open", ~hung
                 PROVE  Awaited(r)'
      BY <2>1, <2>2, <2>5 DEF RetryDue
    <3>1. Awaited(r)
      BY DEF RetryDue
    <3>2. CASE Current(r) = l
      BY <2>2, <2>5, <3>1, <3>2 DEF Awaited, Due
    <3>3. CASE Current(r) # l
      BY <2>1, <2>2, <2>3, <2>5, <3>1, <3>3 DEF Awaited
    <3> QED  BY <3>2, <3>3
  <2> QED  BY <2>1, <2>4, <2>5
<1>9. ASSUME WorkerWakes PROVE RetryDue'
  <2>1. /\ UNCHANGED <<conn, current, collided, hung, health, timers>> /\ worker = Resting /\ token
        /\ worker' = IF dirty THEN [worker EXCEPT !.at = "reload"] ELSE Resting
    BY <1>9 DEF WorkerWakes, linkVars, poolVars
  <2>2. worker.at = "idle" /\ worker.todo = {} /\ (dirty => worker'.at = "reload")
    BY <2>1 DEF Resting
  <2> SUFFICES ASSUME NEW r \in Servers \ collided, health[Current(r)].state = "open", ~hung
               PROVE  Awaited(r)'
    BY <2>1 DEF RetryDue, Current
  <2>3. Awaited(r)
    BY DEF RetryDue
  <2> QED  BY <2>1, <2>2, <2>3 DEF Awaited, Pass, Current
<1>10. ASSUME WorkerReloads PROVE RetryDue'
  <2>1. /\ UNCHANGED <<conn, current, collided, hung, dirty, token, health, timers>> /\ ~hung
    BY <1>10, WorkerReloadsEffect DEF linkVars, poolVars, wakeVars
  <2> SUFFICES ASSUME NEW r \in Servers \ collided, health[Current(r)].state = "open"
               PROVE  Awaited(r)'
    BY <2>1 DEF RetryDue, Current
  <2>2. Awaited(r) /\ Current(r)' = Current(r)
    BY <2>1 DEF RetryDue, Current
  <2>3. Current(r) \in Links /\ Current(r)[1] = r /\ Current(r)[2] = current[r]
    BY Users DEF Current
  <2>4. CASE offered[r] = 0
    <3>1. health[Current(r)].wait = 0 => Current(r) \in worker'.todo
      BY <1>10, <2>4, WorkerReloadsEffect DEF NeedsRetry
    <3> QED  BY <2>1, <2>2, <3>1 DEF Awaited, Pass
  <2>5. CASE offered[r] # 0
    <3>1. offered[r] = current[r] /\ conn[Current(r)] \in {"open", "dead"}
      BY <2>5 DEF Structure, Building
    <3>2. worker'.at = "connecting" \/ Current(r) \in worker'.todo
      BY <1>10, <2>3, <3>1, WorkerReloadsEffect
    <3> QED  BY <2>1, <2>2, <3>1, <3>2 DEF Awaited, Pass
  <2> QED  BY <2>4, <2>5
<1>11. ASSUME WorkerDiscovers PROVE RetryDue'
  <2>1. /\ UNCHANGED <<current, collided, hung, dirty, token, health, timers, worker>>
        /\ worker.at = "connecting" /\ worker.on # None /\ Discovers(worker.on)
    BY <1>11 DEF WorkerDiscovers, poolVars, wakeVars
  <2>2. \A k \in Links : k # worker.on => conn'[k] = conn[k]
    BY <2>1, WorkerOn, DiscoversEffect
  <2>3. \A r \in Servers : Current(r) \in Links /\ Current(r)' = Current(r)
    BY <2>1, Users DEF Current
  <2>4. ASSUME NEW r \in Servers, Pass(r) PROVE Pass(r)'
    BY <2>1, <2>2, <2>3, <2>4 DEF Pass
  <2> QED  BY <2>1, <2>3, <2>4, RetryByPass
<1>12. ASSUME WorkerConnected PROVE RetryDue'
  <2>1. /\ UNCHANGED <<current, collided, hung, dirty, token>>
        /\ Becomes(worker.on, Well) /\ worker.at = "connecting" /\ worker.on # None
        /\ \A k \in Links : k # worker.on => conn'[k] = conn[k]
        /\ worker'.at = "connecting" /\ worker'.todo = worker.todo
    BY <1>12, WorkerConnectedEffect DEF poolVars
  <2>2. \A r \in Servers : Current(r) \in Links /\ Current(r)' = Current(r)
    BY <2>1, Users DEF Current
  <2>3. ASSUME NEW r \in Servers, Current(r) # worker.on, Pass(r) PROVE Pass(r)'
    BY <2>1, <2>2, <2>3 DEF Pass
  <2> QED  BY <2>1, <2>3, WorkerOn, RetryByTracker, TrackerFacts
<1>13. ASSUME WorkerRefused PROVE RetryDue'
  <2>1. /\ UNCHANGED <<current, collided, hung, dirty, token>>
        /\ Becomes(worker.on, Opened) /\ worker.at = "connecting" /\ worker.on # None
        /\ \A k \in Links : k # worker.on => conn'[k] = conn[k]
        /\ worker'.at = "connecting" /\ worker'.todo = worker.todo
    BY <1>13, WorkerRefusedEffect DEF poolVars
  <2>2. \A r \in Servers : Current(r) \in Links /\ Current(r)' = Current(r)
    BY <2>1, Users DEF Current
  <2>3. ASSUME NEW r \in Servers, Current(r) # worker.on, Pass(r) PROVE Pass(r)'
    BY <2>1, <2>2, <2>3 DEF Pass
  <2> QED  BY <2>1, <2>3, WorkerOn, RetryByTracker, TrackerFacts
<1>14. ASSUME WorkerPublishes PROVE RetryDue'
  <2>1. /\ worker.at = "connecting" /\ worker.on = None /\ worker.todo = {}
        /\ timers \subseteq timers' /\ UNCHANGED <<conn, current, hung, dirty, token>>
        /\ worker'.todo = {l \in Links : l[2] = offered'[l[1]] /\ l[1] \notin collided'}
    BY <1>14, WorkerPublishesEffect
  <2>2. ASSUME NEW r \in Servers \ collided'
        PROVE  /\ offered'[r] = IF conn[Current(r)] \in {"open", "dead"} THEN current[r] ELSE 0
               /\ health'[Current(r)].state # "open" \/ (r \notin collided /\ health'[Current(r)] = health[Current(r)])
    BY <1>14, WorkerPublishesEffect, TrackerFacts
  <2>3. ASSUME NEW r \in Servers
        PROVE  /\ Current(r) \in Links /\ Current(r)' = Current(r)
               /\ Current(r)[1] = r /\ Current(r)[2] = current[r]
    BY <2>1, Users DEF Current
  <2>4. ASSUME NEW r \in Servers \ collided', Pass(r) PROVE Pass(r)'
    <3>1. conn[Current(r)] \in {"open", "dead"}
      BY <2>1, <2>3, <2>4, LinkFacts DEF Pass
    <3>2. Current(r) \in worker'.todo
      BY <2>1, <2>2, <2>3, <3>1
    <3> QED  BY <2>3, <3>2 DEF Pass
  <2> QED  BY <2>1, <2>2, <2>3, <2>4, RetryByPass
<1>15. ASSUME WorkerPinged PROVE RetryDue'
  <2>1. /\ UNCHANGED <<conn, current, collided, hung, token>> /\ worker.at = "pinging"
        /\ dirty /\ token => dirty' /\ token'
        /\ Becomes(worker.on, Well) \/ Becomes(worker.on, Opened)
        /\ worker' = [worker EXCEPT !.at = "probe", !.on = None]
    BY <1>15 DEF WorkerPinged, poolVars
  <2>2. worker'.at = "probe" /\ worker'.todo = worker.todo
    BY <2>1 DEF Types, RoutineTypes, Workers
  <2>3. \A r \in Servers : Pass(r) => Pass(r)'
    BY <2>1, <2>2 DEF Pass, Current
  <2>4. worker.on \in Links
    BY <2>1, Users
  <2> QED  BY <2>1, <2>3, <2>4, RetryByTracker, TrackerFacts
<1>16. ASSUME WorkerRests PROVE RetryDue'
  <2>1. /\ UNCHANGED <<conn, current, collided, hung, dirty, token, health, timers>>
        /\ worker.at = "probe" /\ worker.todo = {}
    BY <1>16 DEF WorkerRests, linkVars, poolVars, wakeVars
  <2>2. \A r \in Servers : Current(r)' = Current(r) /\ ~Pass(r)
    BY <2>1 DEF Pass, Current
  <2> QED  BY <2>1, <2>2, RetryByPass
<1>17. ASSUME Tick PROVE RetryDue'
  <2>1. /\ UNCHANGED <<conn, current, collided, hung, dirty, token, worker>>
        /\ timers' = {Lower(n) : n \in timers}
        /\ \A l \in Links : health'[l] = [health[l] EXCEPT !.wait = Lower(health[l].wait)]
    BY <1>17 DEF Tick, poolVars
  <2> SUFFICES ASSUME NEW r \in Servers \ collided, health'[Current(r)].state = "open", ~hung
               PROVE  Awaited(r)'
    BY <2>1 DEF RetryDue, Current
  <2>2. health[Current(r)] \in Trackers /\ Current(r) \in Links
    BY Users DEF Types, LinkTypes
  <2>3. health'[Current(r)].state = health[Current(r)].state /\ health'[Current(r)].wait = Lower(health[Current(r)].wait)
    BY <2>1, <2>2 DEF Trackers
  <2>4. Awaited(r) /\ Current(r)' = Current(r) /\ (Pass(r) => Pass(r)')
    BY <2>1, <2>3 DEF RetryDue, Current, Pass
  <2>5. Lower(0) = 0
    BY DEF Lower
  <2> QED  BY <2>1, <2>3, <2>4, <2>5 DEF Awaited
<1>18. ASSUME RequestRetry PROVE RetryDue'
  <2>1. /\ UNCHANGED <<conn, current, collided, hung, health, worker>> /\ dirty' /\ token'
        /\ timers' = timers \ {0}
    BY <1>18 DEF RequestRetry, poolVars, linkVars
  <2> SUFFICES ASSUME NEW r \in Servers \ collided, health[Current(r)].state = "open", ~hung
               PROVE  Awaited(r)'
    BY <2>1 DEF RetryDue, Current
  <2>2. Awaited(r) /\ Current(r)' = Current(r)
    BY <2>1 DEF RetryDue, Current
  <2> QED  BY <2>1, <2>2 DEF Awaited
<1>19. ASSUME NEW c \in Callers, BeforeBusinessCall(c) PROVE RetryDue'
  <2>1. /\ UNCHANGED <<conn, current, collided, hung, dirty, token, worker>> /\ calls[c].at # "idle"
        /\ Becomes(Link(c), HalfOpen(health[Link(c)])) \/ UNCHANGED <<health, timers>>
    BY <1>19 DEF BeforeBusinessCall, poolVars
  <2>2. \A r \in Servers : Current(r)' = Current(r) /\ (Pass(r) => Pass(r)')
    BY <2>1 DEF Pass, Current
  <2>3. Link(c) \in Links /\ health[Link(c)] \in Trackers
    BY <2>1, Users
  <2>4. HalfOpen(health[Link(c)]) \in Trackers
    BY <2>3, TrackerFacts
  <2>5. CASE UNCHANGED <<health, timers>>
    BY <2>1, <2>2, <2>5, RetryByPass
  <2>6. CASE Becomes(Link(c), HalfOpen(health[Link(c)]))
    BY <2>1, <2>2, <2>3, <2>4, <2>6, RetryByTracker
  <2> QED  BY <2>1, <2>5, <2>6
<1>20. ASSUME NEW c \in Callers, CallPinged(c) PROVE RetryDue'
  <2>1. /\ UNCHANGED <<conn, current, collided, hung, dirty, token, worker>> /\ calls[c].at # "idle"
        /\ Becomes(Link(c), Well) \/ Becomes(Link(c), Opened)
    BY <1>20 DEF CallPinged, poolVars
  <2>2. \A r \in Servers : Current(r)' = Current(r) /\ (Pass(r) => Pass(r)')
    BY <2>1 DEF Pass, Current
  <2>3. Link(c) \in Links /\ health[Link(c)] \in Trackers
    BY <2>1, Users
  <2>4. Well \in Trackers /\ Opened \in Trackers
    BY <2>3, TrackerFacts
  <2> QED  BY <2>1, <2>2, <2>3, <2>4, RetryByTracker
<1>21. ASSUME NEW c \in Callers, CallReturns(c) PROVE RetryDue'
  <2>1. /\ UNCHANGED <<conn, current, collided, hung, dirty, token, worker>> /\ calls[c].at # "idle"
        /\ Becomes(Link(c), Well) \/ Becomes(Link(c), Failed(health[Link(c)]))
    BY <1>21 DEF CallReturns, poolVars
  <2>2. \A r \in Servers : Current(r)' = Current(r) /\ (Pass(r) => Pass(r)')
    BY <2>1 DEF Pass, Current
  <2>3. Link(c) \in Links /\ health[Link(c)] \in Trackers
    BY <2>1, Users
  <2>4. Well \in Trackers /\ Failed(health[Link(c)]) \in Trackers
    BY <2>3, TrackerFacts
  <2> QED  BY <2>1, <2>2, <2>3, <2>4, RetryByTracker
<1>22. ASSUME UNCHANGED <<conn, current, collided, hung, worker, dirty, token, health, timers>> PROVE RetryDue'
  BY <1>22 DEF RetryDue, Awaited, Pass, Current
<1>30. ASSUME NEW s \in Servers, ReloadLate(s) PROVE RetryDue'
  <2>1. UNCHANGED <<conn, current, collided, hung, worker, dirty, token, health, timers>>
    BY <1>30, ReloadLateEffect DEF linkVars, poolVars, wakeVars
  <2> QED  BY <2>1, <1>22
<1>31. ASSUME NEW s \in Servers, ReloadExpires(s) PROVE RetryDue'
  <2>1. /\ UNCHANGED <<conn, current, collided, hung, worker, dirty, token>>
        /\ Becomes(Current(s), Opened)
    BY <1>31, ReloadExpiresEffect DEF poolVars
  <2>2. \A r \in Servers : Current(r) \in Links /\ (Pass(r) => Pass(r)')
    BY <2>1, Users DEF Pass, Current
  <2> QED  BY <2>1, <2>2, RetryByTracker, TrackerFacts
<1> QED
  BY <1>1, <1>2, <1>3, <1>4, <1>5, <1>6, <1>7, <1>8, <1>9, <1>10, <1>11, <1>12, <1>13, <1>14, <1>15, <1>16, <1>17, <1>18, <1>19, <1>20, <1>21, <1>22, <1>30, <1>31
    DEF Next, Reload, Worker, Call, ListChanges, ReloadLeaves, RequestServerReload, CallCanceled, CallTool,
    envVars, linkVars, poolVars, wakeVars

-----------------------------------------------------------------------------
(* Catalogs.                                                               *)

(* Nothing happens to a server but that it is followed less.               *)
LEMMA StaleKept ==
  ASSUME NEW s \in Servers, Left(s), \A g \in Gens : Known(s, g),
         current'[s] = current[s], offered'[s] = offered[s], version'[s] = version[s],
         reload'[s] = reload[s],
         \A g \in Gens : Follows(s, g)' =>
           /\ Follows(s, g) /\ found'[<<s, g>>] = found[<<s, g>>]
           /\ <<s, g>> \in notes => <<s, g>> \in notes'
  PROVE  Left(s)' /\ \A g \in Gens : Known(s, g)'
<1>1. Left(s)'
  BY DEF Left
<1>2. ASSUME NEW g \in Gens PROVE Known(s, g)'
  <2> SUFFICES ASSUME Follows(s, g)', found'[<<s, g>>] < version'[s]
               PROVE  \/ <<s, g>> \in notes'
                      \/ reload'[s].at \in {"queued", "late", "connecting"}
                      \/ reload'[s].at = "found" /\ g = offered'[s]
    BY DEF Known
  <2>1. Follows(s, g) /\ found[<<s, g>>] < version[s]
    BY Zenon
  <2>2. Known(s, g)
    OBVIOUS
  <2> QED  BY <2>1, <2>2 DEF Known
<1> QED  BY <1>1, <1>2

(* What is followed and overtaken stays known.                             *)
LEMMA StaleKnownStep ==
  ASSUME Types, Structure, StaleKnown, Next
  PROVE  StaleKnown'
<1>1. ASSUME NEW s \in Servers, ListChanges(s) PROVE StaleKnown'
  <2> SUFFICES ASSUME ~hung', NEW r \in Servers \ missed'
               PROVE  Left(r)' /\ \A g \in Gens : Known(r, g)'
    BY DEF StaleKnown
  <2>1. /\ UNCHANGED <<conn, found, current, offered, reload, lifecycle, hung, missed>>
        /\ version' = [version EXCEPT ![s] = version[s] + 1]
        /\ notes' = notes \cup {l \in Links : l[1] = s /\ conn[l] \in {"building", "discovered", "open"}}
    BY <1>1 DEF ListChanges, linkVars, poolVars
  <2>2. Left(r) /\ \A g \in Gens : Known(r, g)
    BY <2>1 DEF StaleKnown
  <2>3. CASE r # s
    <3>1. version'[r] = version[r]
      BY <2>1, <2>3 DEF Types, ServerTypes
    <3> QED  BY <2>1, <2>2, <3>1, StaleKept DEF Follows
  <2>4. CASE r = s
    <3>1. ASSUME NEW g \in Gens, Follows(r, g)' PROVE <<r, g>> \in notes'
      <4>1. Follows(r, g)
        BY <2>1, <3>1 DEF Follows
      <4>2. conn[<<r, g>>] \in {"discovered", "open"}
        BY <2>1, <4>1 DEF Follows, Structure, Building, New
      <4> QED  BY <2>1, <2>4, <4>2, LinkFacts
    <3> QED  BY <2>1, <2>2, <3>1 DEF Left, Known
  <2> QED  BY <2>3, <2>4
<1>2. ASSUME NEW s \in Servers, ReloadConnects(s) PROVE StaleKnown'
  <2> SUFFICES ASSUME ~hung', NEW r \in Servers \ missed'
               PROVE  Left(r)' /\ \A g \in Gens : Known(r, g)'
    BY DEF StaleKnown
  <2>1. /\ UNCHANGED <<found, current, offered, version, notes, hung, missed>>
        /\ lifecycle' = s /\ reload'[s].at = "connecting" /\ New(s)' = <<s, reload'[s].gen>>
        /\ \A k \in Links : k # New(s)' => conn'[k] = conn[k]
        /\ \A q \in Servers : q # s => reload'[q] = reload[q]
    BY <1>2, ReloadConnectsEffect DEF envVars, poolVars, New
  <2>2. CASE r = s
    BY <2>1, <2>2 DEF Left, Known
  <2>3. CASE r # s
    <3>1. Left(r) /\ \A g \in Gens : Known(r, g)
      BY <2>1 DEF StaleKnown
    <3>2. \A g \in Gens : conn'[<<r, g>>] = conn[<<r, g>>]
      BY <2>1, <2>3, LinkFacts
    <3>3. \A g \in Gens : Follows(r, g)' => Follows(r, g)
      BY <2>1, <2>3, <3>2, LinkFacts DEF Follows
    <3> QED  BY <2>1, <2>3, <3>1, <3>3, StaleKept
  <2> QED  BY <2>2, <2>3
<1>3. ASSUME NEW s \in Servers, ReloadDiscovers(s) PROVE StaleKnown'
  <2> SUFFICES ASSUME ~hung', NEW r \in Servers \ missed'
               PROVE  Left(r)' /\ \A g \in Gens : Known(r, g)'
    BY DEF StaleKnown
  <2>1. /\ UNCHANGED <<current, offered, version, notes, lifecycle, hung, missed>>
        /\ reload[s].at = "connecting" /\ ReloadGoes(s, "found") /\ Discovers(New(s))
    BY <1>3 DEF ReloadDiscovers, envVars, poolVars
  <2>2. /\ lifecycle = s /\ New(s) \in Links /\ New(s)[1] = s /\ New(s) = <<s, reload[s].gen>>
    BY <2>1, ReloadHolds, ReloadBuilds DEF New
  <2>3. /\ reload'[s].at = "found" /\ reload'[s].gen = reload[s].gen
        /\ \A q \in Servers : q # s => reload'[q] = reload[q]
    BY <2>1, ReloadAt DEF Types
  <2>4. /\ found'[New(s)] = version[s]
        /\ \A k \in Links : k # New(s) => conn'[k] = conn[k] /\ found'[k] = found[k]
    BY <2>1, <2>2, DiscoversEffect
  <2>5. CASE r = s
    <3>1. Left(r)'
      BY <2>3, <2>5 DEF Left
    <3>2. ASSUME NEW g \in Gens, Follows(s, g)', g # reload[s].gen PROVE g = offered[s]
      BY <2>1, <2>2, <2>3, <3>2, LinkFacts DEF Follows
    <3>3. ~(version[s] < version[s])
      BY DEF Types, ServerTypes
    <3>4. ASSUME NEW g \in Gens PROVE Known(s, g)'
      <4>1. CASE g = reload[s].gen
        BY <2>1, <2>2, <2>4, <3>3, <4>1 DEF Known
      <4>2. CASE g # reload[s].gen
        BY <2>1, <2>3, <3>2, <4>2 DEF Known
      <4> QED  BY <4>1, <4>2
    <3> QED  BY <2>5, <3>1, <3>4
  <2>6. CASE r # s
    <3>1. Left(r) /\ \A g \in Gens : Known(r, g)
      BY <2>1 DEF StaleKnown
    <3>2. \A g \in Gens : conn'[<<r, g>>] = conn[<<r, g>>] /\ found'[<<r, g>>] = found[<<r, g>>]
      BY <2>2, <2>4, <2>6, LinkFacts
    <3>3. \A g \in Gens : Follows(r, g)' => Follows(r, g)
      BY <2>1, <2>3, <2>6, <3>2 DEF Follows
    <3> QED  BY <2>1, <2>3, <2>6, <3>1, <3>2, <3>3, StaleKept
  <2> QED  BY <2>5, <2>6
<1>4. ASSUME NEW s \in Servers, ReloadFails(s) PROVE StaleKnown'
  <2> SUFFICES ASSUME ~hung', NEW r \in Servers \ missed'
               PROVE  Left(r)' /\ \A g \in Gens : Known(r, g)'
    BY DEF StaleKnown
  <2>1. /\ UNCHANGED <<current, offered, version, hung>> /\ r # s /\ r \notin missed
        /\ reload'[r] = reload[r] /\ lifecycle' = None
        /\ notes' = notes \ {New(s)} /\ New(s) = <<s, reload[s].gen>>
        /\ \A k \in Links : k # New(s) => conn'[k] = conn[k] /\ found'[k] = found[k]
    BY <1>4, ReloadFailsEffect DEF poolVars, New
  <2>2. Left(r) /\ \A g \in Gens : Known(r, g)
    BY <2>1 DEF StaleKnown
  <2>3. \A g \in Gens : <<r, g>> # New(s) /\ <<r, g>> \in Links
    BY <2>1, LinkFacts
  <2>4. \A g \in Gens : Follows(r, g)' => Follows(r, g)
    BY <2>1, <2>3, LinkFacts DEF Follows
  <2> QED  BY <2>1, <2>2, <2>3, <2>4, StaleKept
<1>5. ASSUME NEW s \in Servers, ReloadPublishes(s) PROVE StaleKnown'
  <2> SUFFICES ASSUME ~hung', NEW r \in Servers \ missed'
               PROVE  Left(r)' /\ \A g \in Gens : Known(r, g)'
    BY DEF StaleKnown
  <2>1. reload[s].at = "found" /\ ~hung
    BY <1>5 DEF ReloadPublishes
  <2>2. /\ lifecycle = s /\ New(s) \in Links /\ New(s) = <<s, reload[s].gen>>
        /\ reload[s].gen # offered[s] /\ reload[s].gen \in Gens
    BY <2>1, ReloadHolds, ReloadBuilds, LinkFacts DEF New
  <2>3. /\ UNCHANGED <<version, found, notes, lifecycle>>
        /\ \A k \in Links : k # New(s) => conn'[k] = conn[k]
        /\ \A q \in Servers : q # s => reload'[q] = reload[q] /\ current'[q] = current[q] /\ offered'[q] = offered[q]
        /\ reload'[s].at = "closing" /\ offered'[s] = reload[s].gen
        /\ missed' = IF found[New(s)] = version[s] THEN missed \ {s} ELSE missed
    BY <1>5, ReloadPublishesEffect
  <2>4. CASE r = s
    <3>1. ASSUME NEW g \in Gens, Follows(s, g)' PROVE g = reload[s].gen
      BY <2>2, <2>3, <3>1, LinkFacts DEF Follows
    <3>2. CASE found[New(s)] = version[s]
      <4>1. ~(version[s] < version[s])
        BY DEF Types, ServerTypes
      <4> QED  BY <2>2, <2>3, <2>4, <3>1, <3>2, <4>1 DEF Left, Known
    <3>3. CASE found[New(s)] # version[s]
      <4>1. Known(s, reload[s].gen)
        BY <2>1, <2>2, <2>3, <2>4, <3>3 DEF StaleKnown
      <4>2. Follows(s, reload[s].gen)
        BY <2>1 DEF Follows
      <4>3. found[New(s)] < version[s] => New(s) \in notes
        BY <2>1, <2>2, <4>1, <4>2 DEF Known
      <4> QED  BY <2>2, <2>3, <2>4, <3>1, <4>3 DEF Left, Known
    <3> QED  BY <3>2, <3>3
  <2>5. CASE r # s
    <3>1. Left(r) /\ \A g \in Gens : Known(r, g)
      BY <2>1, <2>3, <2>5 DEF StaleKnown
    <3>2. \A g \in Gens : conn'[<<r, g>>] = conn[<<r, g>>]
      BY <2>2, <2>3, <2>5, LinkFacts
    <3>3. \A g \in Gens : Follows(r, g)' => Follows(r, g)
      BY <2>2, <2>3, <2>5, <3>2, LinkFacts DEF Follows
    <3> QED  BY <2>3, <2>5, <3>1, <3>2, <3>3, StaleKept
  <2> QED  BY <2>4, <2>5
<1>6. ASSUME NEW s \in Servers, ReloadCloses(s) PROVE StaleKnown'
  <2> SUFFICES ASSUME ~hung', NEW r \in Servers \ missed'
               PROVE  Left(r)' /\ \A g \in Gens : Known(r, g)'
    BY DEF StaleKnown
  <2> DEFINE old == <<s, reload[s].old>>
  <2>1. /\ UNCHANGED <<current, offered, version, hung, missed>>
        /\ \A k \in Links : k # old => conn'[k] = conn[k] /\ found'[k] = found[k]
        /\ reload'[s].at = "leaving" /\ reload'[s].gen = reload[s].gen /\ reload[s].at = "closing"
        /\ \A q \in Servers : q # s => reload'[q] = reload[q]
        /\ notes' = notes \ {old} /\ lifecycle' = None
    BY <1>6, ReloadClosesEffect
  <2>2. Left(r) /\ \A g \in Gens : Known(r, g)
    BY <2>1 DEF StaleKnown
  <2>3. reload[s].gen = current[s] /\ offered[s] = current[s] /\ reload[s].old # current[s]
    BY <2>1 DEF Structure, Building
  <2>4. CASE r = s
    <3>1. ASSUME NEW g \in Gens, Follows(s, g)'
          PROVE  /\ g = offered[s] /\ <<s, g>> # old /\ Follows(s, g)
                 /\ found'[<<s, g>>] = found[<<s, g>>]
      <4>1. g = offered[s]
        BY <2>1, <3>1, LinkFacts DEF Follows
      <4>2. <<s, g>> # old /\ <<s, g>> \in Links
        BY <2>3, <4>1, LinkFacts
      <4>3. conn'[<<s, g>>] = conn[<<s, g>>] /\ found'[<<s, g>>] = found[<<s, g>>]
        BY <2>1, <4>2
      <4> QED  BY <2>1, <3>1, <4>1, <4>2, <4>3, LinkFacts DEF Follows
    <3>2. Left(s)'
      BY <2>1, <2>3 DEF Left
    <3>3. ASSUME NEW g \in Gens, Follows(s, g)', found'[<<s, g>>] < version'[s] PROVE <<s, g>> \in notes'
      <4>1. <<s, g>> \in notes
        BY <2>1, <2>2, <2>4, <3>1, <3>3 DEF Known
      <4> QED  BY <2>1, <3>1, <3>3, <4>1
    <3> QED  BY <2>4, <3>2, <3>3 DEF Known
  <2>5. CASE r # s
    <3>1. \A g \in Gens : <<r, g>> # old /\ <<r, g>> \in Links
      BY <2>5, LinkFacts
    <3> HIDE DEF old
    <3>2. \A g \in Gens : Follows(r, g)' => Follows(r, g)
      BY <2>1, <2>5, <3>1, LinkFacts DEF Follows
    <3> QED  BY <2>1, <2>2, <2>5, <3>1, <3>2, StaleKept
  <2> QED  BY <2>4, <2>5
<1>7. ASSUME NEW s \in Servers, ReloadLeaves(s) PROVE StaleKnown'
  <2> SUFFICES ASSUME ~hung', NEW r \in Servers \ missed'
               PROVE  Left(r)' /\ \A g \in Gens : Known(r, g)'
    BY DEF StaleKnown
  <2>1. /\ UNCHANGED <<conn, found, current, offered, version, notes, lifecycle, hung, missed>>
        /\ reload[s].at = "leaving" /\ reload'[s].at = "none"
        /\ \A q \in Servers : q # s => reload'[q] = reload[q]
    BY <1>7, ReloadLeavesEffect DEF envVars, linkVars, poolVars
  <2>2. Left(r) /\ \A g \in Gens : Known(r, g)
    BY <2>1 DEF StaleKnown
  <2>3. \A g \in Gens : Follows(r, g)' => Follows(r, g)
    BY <2>1 DEF Follows
  <2>4. CASE r = s
    BY <2>1, <2>2, <2>3, <2>4 DEF Left, Known
  <2>5. CASE r # s
    BY <2>1, <2>2, <2>3, <2>5, StaleKept
  <2> QED  BY <2>4, <2>5
<1>8. ASSUME NEW l \in Links, RequestServerReload(l) PROVE StaleKnown'
  <2> SUFFICES ASSUME ~hung', NEW r \in Servers \ missed'
               PROVE  Left(r)' /\ \A g \in Gens : Known(r, g)'
    BY DEF StaleKnown
  <2>1. /\ UNCHANGED <<conn, found, current, offered, version, lifecycle, hung>>
        /\ notes' = notes \ {l} /\ missed \subseteq missed'
        /\ \A q \in Servers : reload'[q].gen = reload[q].gen
        /\ \A q \in Servers : q # l[1] => reload'[q] = reload[q]
    BY <1>8, RequestServerReloadEffect DEF envVars, linkVars, poolVars
  <2>2. Left(r) /\ \A g \in Gens : Known(r, g)
    BY <2>1 DEF StaleKnown
  <2>3. CASE r # l[1]
    <3>1. \A g \in Gens : <<r, g>> # l
      BY <2>3
    <3> QED  BY <2>1, <2>2, <2>3, <3>1, StaleKept DEF Follows
  <2>4. CASE r = l[1] /\ reload'[r].at \in {"queued", "late", "connecting"}
    BY <2>4 DEF Left, Known
  <2>5. CASE r = l[1] /\ reload'[r].at \notin {"queued", "late", "connecting"}
    <3>1. reload'[r].at = reload[r].at /\ reload[r].at \in {"found", "closing", "leaving"}
          /\ ~(found[<<r, reload[r].gen>>] < version[r])
      BY <1>8, <2>5, RequestServerReloadEffect DEF Types, RoutineTypes, Reloads
    <3>2. Left(r)'
      BY <2>1, <2>2, <3>1 DEF Left
    <3>3. ASSUME NEW g \in Gens, Follows(r, g)', g # reload[r].gen
          PROVE  reload[r].at = "found" /\ g = offered[r]
      <4>1. \/ g = offered[r]
            \/ lifecycle = WorkerHolds /\ g = current[r]
        BY <2>1, <3>1, <3>3 DEF Follows
      <4>2. CASE reload[r].at = "found"
        BY <4>1, <4>2, ReloadHolds, LinkFacts
      <4>3. CASE reload[r].at = "closing"
        BY <3>3, <4>1, <4>3, ReloadHolds, LinkFacts DEF Structure, Building
      <4>4. CASE reload[r].at = "leaving"
        BY <2>2, <3>3, <4>1, <4>4 DEF Left
      <4> QED  BY <3>1, <4>2, <4>3, <4>4
    <3>4. ASSUME NEW g \in Gens PROVE Known(r, g)'
      <4>1. CASE g = reload[r].gen
        BY <2>1, <3>1, <4>1 DEF Known
      <4>2. CASE g # reload[r].gen
        BY <2>1, <3>1, <3>3, <4>2 DEF Known
      <4> QED  BY <4>1, <4>2
    <3> QED  BY <3>2, <3>4
  <2> QED  BY <2>3, <2>4, <2>5
<1>9. ASSUME NEW l \in Links, TransportDies(l) PROVE StaleKnown'
  <2> SUFFICES ASSUME ~hung', NEW r \in Servers \ missed'
               PROVE  Left(r)' /\ \A g \in Gens : Known(r, g)'
    BY DEF StaleKnown
  <2>1. /\ UNCHANGED <<found, current, offered, version, reload, lifecycle, hung, missed>>
        /\ notes' = notes \ {l} /\ conn'[l] = "dead" /\ conn[l] = "open"
        /\ \A k \in Links : k # l => conn'[k] = conn[k]
    BY <1>9, TransportDiesEffect DEF poolVars
  <2>2. Left(r) /\ \A g \in Gens : Known(r, g)
    BY <2>1 DEF StaleKnown
  <2>3. ASSUME NEW g \in Gens, Follows(r, g)' PROVE <<r, g>> # l
    <3>1. reload[r].at = "found" => conn[<<r, reload[r].gen>>] = "discovered"
      BY <2>1 DEF Structure, Building, New
    <3> QED  BY <2>1, <2>3, <3>1 DEF Follows
  <2>4. ASSUME NEW g \in Gens, Follows(r, g)' PROVE Follows(r, g)
    <3>1. conn'[<<r, g>>] = conn[<<r, g>>]
      BY <2>1, <2>3, <2>4, LinkFacts
    <3> QED  BY <2>1, <2>4, <3>1 DEF Follows
  <2> QED  BY <2>1, <2>2, <2>3, <2>4, StaleKept
<1>10. ASSUME NEW l \in Links, WorkerConnects(l) PROVE StaleKnown'
  <2> SUFFICES ASSUME ~hung', NEW r \in Servers \ missed'
               PROVE  Left(r)' /\ \A g \in Gens : Known(r, g)'
    BY DEF StaleKnown
  <2>1. /\ UNCHANGED <<found, current, offered, version, notes, reload, lifecycle, hung, missed>>
        /\ conn'[l] = "building" /\ \A k \in Links : k # l => conn'[k] = conn[k]
    BY <1>10, WorkerConnectsEffect DEF envVars, poolVars
  <2>2. Left(r) /\ \A g \in Gens : Known(r, g)
    BY <2>1 DEF StaleKnown
  <2>3. \A g \in Gens : conn'[<<r, g>>] \in {"building", conn[<<r, g>>]}
    BY <2>1, LinkFacts
  <2>4. \A g \in Gens : Follows(r, g)' => Follows(r, g)
    BY <2>1, <2>3 DEF Follows
  <2> QED  BY <2>1, <2>2, <2>4, StaleKept
<1>11. ASSUME WorkerReloads PROVE StaleKnown'
  <2> SUFFICES ASSUME ~hung', NEW r \in Servers \ missed'
               PROVE  Left(r)' /\ \A g \in Gens : Known(r, g)'
    BY DEF StaleKnown
  <2>1. /\ UNCHANGED <<conn, found, current, offered, version, notes, reload, hung, missed>>
        /\ lifecycle = None
    BY <1>11, WorkerReloadsEffect DEF envVars, linkVars, poolVars
  <2>2. Left(r) /\ \A g \in Gens : Known(r, g)
    BY <2>1 DEF StaleKnown
  <2>3. ASSUME NEW g \in Gens, Follows(r, g)' PROVE Follows(r, g)
    <3>1. CASE g = current[r] /\ conn[<<r, g>>] \in {"discovered", "open"}
      <4>1. <<r, g>> \in Links /\ <<r, g>>[1] = r /\ <<r, g>>[2] = g
        BY LinkFacts
      <4>2. g = offered[r]
        BY <2>1, <3>1, <4>1, LinkFacts DEF Structure, NothingLeaks
      <4>3. conn[<<r, g>>] = "open"
        <5>1. offered[r] # 0 /\ Current(r) = <<r, g>>
          BY <3>1, <4>2, LinkFacts DEF Current
        <5>2. conn[Current(r)] \in {"open", "dead"}
          BY <5>1 DEF Structure, Building
        <5> QED  BY <3>1, <5>1, <5>2
      <4> QED  BY <4>2, <4>3 DEF Follows
    <3> QED  BY <2>1, <2>3, <3>1 DEF Follows
  <2> QED  BY <2>1, <2>2, <2>3, StaleKept
<1>12. ASSUME WorkerDiscovers PROVE StaleKnown'
  <2> SUFFICES ASSUME ~hung', NEW r \in Servers \ missed'
               PROVE  Left(r)' /\ \A g \in Gens : Known(r, g)'
    BY DEF StaleKnown
  <2>1. /\ UNCHANGED <<current, offered, version, notes, reload, lifecycle, hung, missed>>
        /\ worker.at = "connecting" /\ worker.on # None /\ Discovers(worker.on)
    BY <1>12 DEF WorkerDiscovers, envVars, poolVars
  <2>2. /\ found'[worker.on] = version[worker.on[1]]
        /\ \A k \in Links : k # worker.on => conn'[k] = conn[k] /\ found'[k] = found[k]
    BY <2>1, WorkerOn, DiscoversEffect
  <2>3. Left(r) /\ \A g \in Gens : Known(r, g)
    BY <2>1 DEF StaleKnown
  <2>4. Left(r)'
    BY <2>1, <2>3 DEF Left
  <2>5. ~(version[r] < version[r])
    BY DEF Types, ServerTypes
  <2>6. ASSUME NEW g \in Gens PROVE Known(r, g)'
    <3>1. CASE <<r, g>> = worker.on
      <4>1. found'[<<r, g>>] = version[r]
        BY <2>2, <3>1, LinkFacts
      <4> QED  BY <2>1, <2>5, <4>1 DEF Known
    <3>2. CASE <<r, g>> # worker.on
      <4>1. conn'[<<r, g>>] = conn[<<r, g>>] /\ found'[<<r, g>>] = found[<<r, g>>]
        BY <2>2, <3>2, LinkFacts
      <4> QED  BY <2>1, <2>3, <4>1 DEF Known, Follows
    <3> QED  BY <3>1, <3>2
  <2> QED  BY <2>4, <2>6
<1>13. ASSUME WorkerConnected PROVE StaleKnown'
  <2> SUFFICES ASSUME ~hung', NEW r \in Servers \ missed'
               PROVE  Left(r)' /\ \A g \in Gens : Known(r, g)'
    BY DEF StaleKnown
  <2>1. /\ UNCHANGED <<found, current, offered, version, notes, reload, lifecycle, hung, missed>>
        /\ worker.at = "connecting" /\ worker.on # None /\ conn[worker.on] = "discovered"
        /\ conn'[worker.on] = "open" /\ \A k \in Links : k # worker.on => conn'[k] = conn[k]
    BY <1>13, WorkerConnectedEffect DEF envVars, poolVars
  <2>2. lifecycle = WorkerHolds /\ worker.on = Current(worker.on[1])
    BY <2>1, WorkerOn DEF Structure, Held
  <2>3. Left(r) /\ \A g \in Gens : Known(r, g)
    BY <2>1 DEF StaleKnown
  <2>4. ASSUME NEW g \in Gens, Follows(r, g)' PROVE Follows(r, g)
    <3>1. CASE <<r, g>> = worker.on
      <4>1. g = current[r]
        BY <2>2, <3>1 DEF Current
      <4> QED  BY <2>1, <2>2, <3>1, <4>1 DEF Follows
    <3>2. CASE <<r, g>> # worker.on
      <4>1. conn'[<<r, g>>] = conn[<<r, g>>]
        BY <2>1, <3>2, LinkFacts
      <4> QED  BY <2>1, <2>4, <4>1 DEF Follows
    <3> QED  BY <3>1, <3>2
  <2> QED  BY <2>1, <2>3, <2>4, StaleKept
<1>14. ASSUME WorkerRefused PROVE StaleKnown'
  <2> SUFFICES ASSUME ~hung', NEW r \in Servers \ missed'
               PROVE  Left(r)' /\ \A g \in Gens : Known(r, g)'
    BY DEF StaleKnown
  <2>1. /\ UNCHANGED <<found, current, offered, version, reload, lifecycle, hung, missed>>
        /\ worker.at = "connecting" /\ worker.on # None /\ notes' = notes \ {worker.on}
        /\ conn'[worker.on] = "none" /\ \A k \in Links : k # worker.on => conn'[k] = conn[k]
    BY <1>14, WorkerRefusedEffect DEF poolVars
  <2>2. lifecycle = WorkerHolds /\ reload[r].at # "found"
    BY <2>1, LinkFacts DEF Structure, Held
  <2>3. Left(r) /\ \A g \in Gens : Known(r, g)
    BY <2>1 DEF StaleKnown
  <2>4. ASSUME NEW g \in Gens, Follows(r, g)' PROVE Follows(r, g) /\ <<r, g>> # worker.on
    <3>1. <<r, g>> # worker.on
      BY <2>1, <2>2, <2>4 DEF Follows
    <3>2. conn'[<<r, g>>] = conn[<<r, g>>]
      BY <2>1, <3>1, LinkFacts
    <3> QED  BY <2>1, <2>4, <3>1, <3>2 DEF Follows
  <2> QED  BY <2>1, <2>3, <2>4, StaleKept
<1>15. ASSUME WorkerPublishes PROVE StaleKnown'
  <2> SUFFICES ASSUME ~hung', NEW r \in Servers \ missed'
               PROVE  Left(r)' /\ \A g \in Gens : Known(r, g)'
    BY DEF StaleKnown
  <2>1. /\ UNCHANGED <<conn, found, current, version, notes, reload, hung, missed>>
        /\ lifecycle = WorkerHolds /\ lifecycle' = None
        /\ offered'[r] = IF conn[Current(r)] \in {"open", "dead"} THEN current[r] ELSE 0
    BY <1>15, WorkerPublishesEffect DEF envVars
  <2>2. Left(r) /\ \A g \in Gens : Known(r, g)
    BY <2>1 DEF StaleKnown
  <2>3. reload[r].at \notin {"connecting", "found", "closing"}
    BY <2>1, LinkFacts DEF Structure, Held
  <2>4. Left(r)'
    BY <2>1, <2>2, LinkFacts DEF Left, Structure, Building, Types, ServerTypes
  <2>5. ASSUME NEW g \in Gens, Follows(r, g)' PROVE Follows(r, g)
    <3>1. g = current[r] /\ conn[<<r, g>>] = "open"
      BY <2>1, <2>3, <2>5, LinkFacts DEF Follows
    <3> QED  BY <2>1, <3>1 DEF Follows
  <2>6. ASSUME NEW g \in Gens PROVE Known(r, g)'
    BY <2>1, <2>2, <2>3, <2>5 DEF Known
  <2> QED  BY <2>4, <2>6
<1>16. ASSUME UNCHANGED <<conn, found, current, offered, version, notes, reload, lifecycle, hung, missed>> PROVE StaleKnown'
  BY <1>16 DEF StaleKnown, Left, Known, Follows
<1>30. ASSUME NEW s \in Servers, ReloadLate(s) PROVE StaleKnown'
  <2> SUFFICES ASSUME ~hung', NEW r \in Servers \ missed'
               PROVE  Left(r)' /\ \A g \in Gens : Known(r, g)'
    BY DEF StaleKnown
  <2>1. /\ UNCHANGED <<conn, found, current, offered, version, notes, lifecycle, hung, missed>>
        /\ reload'[s].at = "late" /\ \A q \in Servers : q # s => reload'[q] = reload[q]
    BY <1>30, ReloadLateEffect DEF envVars, linkVars, poolVars
  <2>2. CASE r = s
    BY <2>1, <2>2 DEF Left, Known
  <2>3. CASE r # s
    <3>1. Left(r) /\ \A g \in Gens : Known(r, g)
      BY <2>1 DEF StaleKnown
    <3> QED  BY <2>1, <2>3, <3>1, StaleKept DEF Follows
  <2> QED  BY <2>2, <2>3
<1>31. ASSUME NEW s \in Servers, ReloadExpires(s) PROVE StaleKnown'
  <2> SUFFICES ASSUME ~hung', NEW r \in Servers \ missed'
               PROVE  Left(r)' /\ \A g \in Gens : Known(r, g)'
    BY DEF StaleKnown
  <2>1. /\ UNCHANGED <<conn, found, current, offered, version, notes, lifecycle, hung>>
        /\ r # s /\ r \notin missed /\ reload'[r] = reload[r]
    BY <1>31, ReloadExpiresEffect DEF envVars, poolVars
  <2>2. Left(r) /\ \A g \in Gens : Known(r, g)
    BY <2>1 DEF StaleKnown
  <2> QED  BY <2>1, <2>2, StaleKept DEF Follows
<1> QED
  BY <1>1, <1>2, <1>3, <1>4, <1>5, <1>6, <1>7, <1>8, <1>9, <1>10, <1>11, <1>12, <1>13, <1>14, <1>15, <1>16, <1>30, <1>31
    DEF Next, Reload, Worker, Call, WorkerProbes, WorkerWakes, WorkerPinged, WorkerRests, Tick, RequestRetry, BeforeBusinessCall, CallPinged, CallReturns, CallCanceled, CallTool,
    envVars, linkVars, poolVars, wakeVars

-----------------------------------------------------------------------------
(* The initial states.                                                     *)
LEMMA PoolInit ==
  ASSUME Init
  PROVE  IInv
<1> USE LinkFacts
<1>1. /\ rivals \subseteq Servers /\ collided \subseteq rivals /\ 1 \in Gens
      /\ current = [s \in Servers |-> 1] /\ offered \in [Servers -> {0, 1}]
  BY PoolAssumption DEF Init, Conflicted, Gens
<1>2. LinkTypes
  <2>1. conn \in [Links -> Lives] /\ found \in [Links -> 0..MaxChanges] /\ notes \subseteq Links
    BY PoolAssumption DEF Init, Lives
  <2>2. health \in [Links -> Trackers]
    BY TrackerFacts DEF Init
  <2>3. \A s \in Servers : health[Current(s)].wait \in 0..Cooldown
    BY <1>1, <2>2 DEF Current, Trackers
  <2>4. timers \subseteq 0..Cooldown
    <3>1. \A w \in timers : \E s \in Servers : w = health[Current(s)].wait
      BY DEF Init
    <3> QED  BY <2>3, <3>1
  <2> QED  BY <2>1, <2>2, <2>4 DEF LinkTypes
<1>3. ServerTypes
  BY <1>1, PoolAssumption DEF Init, ServerTypes
<1>4. RoutineTypes
  <2>1. NoReload \in Reloads
    BY DEF NoReload, Reloads
  <2>2. Resting \in Workers
    BY DEF Resting, Workers
  <2> QED  BY <2>1, <2>2 DEF Init, RoutineTypes
<1>5. CallTypes
  <2>1. Idle \in CallType /\ Idle.at = "idle"
    BY DEF Idle, CallType
  <2> QED  BY <2>1, PoolAssumption DEF Init, CallTypes
<1>6. /\ \A s \in Servers : reload[s].at = "none"
      /\ worker.at = "idle" /\ worker.on = None /\ worker.todo = {} /\ lifecycle = None
  BY DEF Init, NoReload, Resting
<1>7. \A s \in Servers : Current(s) = <<s, 1>>
  BY <1>1 DEF Current
<1>8. \A l \in Links : conn[l] = IF l[2] = 1 /\ offered[l[1]] = 1 THEN "open" ELSE "none"
  BY DEF Init
<1>9. Structure
  <2>1. Held
    BY <1>6 DEF Held
  <2>2. Building
    BY <1>1, <1>6, <1>7, <1>8 DEF Building
  <2>3. Connecting
    BY <1>6 DEF Connecting
  <2>4. NothingLeaks
    BY <1>8 DEF NothingLeaks
  <2> QED  BY <2>1, <2>2, <2>3, <2>4 DEF Structure
<1>10. RetryDue
  <2>1. timers = {health[Current(s)].wait :
                    s \in {r \in Servers : health[Current(r)].state = "open"}}
    BY DEF Init
  <2>2. ASSUME NEW s \in Servers, health[Current(s)].state = "open"
        PROVE  health[Current(s)].wait \in timers
    BY <2>1, <2>2
  <2> QED  BY <2>2 DEF RetryDue, Awaited
<1>11. StaleKnown
  <2>1. \A s \in Servers, g \in Gens : ~(found[<<s, g>>] < version[s])
    <3>1. ASSUME NEW s \in Servers, NEW g \in Gens PROVE found[<<s, g>>] = 0 /\ version[s] = 0
      BY DEF Init
    <3>2. ~(0 < 0)
      OBVIOUS
    <3> QED  BY <3>1, <3>2, Zenon
  <2> QED  BY <1>6, <2>1 DEF StaleKnown, Left, Known
<1> QED  BY <1>2, <1>3, <1>4, <1>5, <1>9, <1>10, <1>11 DEF IInv, Types

(* The inductive invariant, for every number of servers and callers and    *)
(* any bounds: who holds Pool.lifecycle and what it builds, that an open   *)
(* tracker is awaited, and that an overtaken catalog is known.             *)
THEOREM PoolInvariance == PoolSpec => []IInv
<1>1. Init => IInv
  BY PoolInit
<1>2. IInv /\ [Next]_vars => IInv'
  <2> SUFFICES ASSUME IInv, [Next]_vars PROVE IInv'
    OBVIOUS
  <2>1. CASE Next
    <3>1. Types /\ Structure /\ RetryDue /\ StaleKnown
      BY DEF IInv
    <3>2. Types'
      BY <2>1, <3>1, TypesStep
    <3>3. Structure'
      BY <2>1, <3>1, <3>2, StructureStep
    <3>4. RetryDue' /\ StaleKnown'
      BY <2>1, <3>1, RetryDueStep, StaleKnownStep
    <3> QED  BY <3>2, <3>3, <3>4 DEF IInv
  <2>2. CASE UNCHANGED vars
    BY <2>2 DEF vars, IInv, Types, LinkTypes, ServerTypes, RoutineTypes, CallTypes, Link,
         Structure, Held, Building, Connecting, NothingLeaks, New, Current,
         RetryDue, Awaited, Pass, StaleKnown, Left, Known, Follows
  <2> QED  BY <2>1, <2>2
<1> QED  BY <1>1, <1>2, PTL DEF PoolSpec

(* Every variable keeps its type (the fields of Pool, healthTracker and    *)
(* Prewarm).                                                               *)
THEOREM PoolTypes == PoolSpec => []PoolTypeOK
<1>1. IInv => PoolTypeOK
  BY DEF IInv, Types, LinkTypes, ServerTypes, RoutineTypes, CallTypes, PoolTypeOK,
       Lives, Trackers, Reloads, Workers, CallType
<1> QED  BY <1>1, PoolInvariance, PTL

(* No connection leaks: one that is not closed is in the Pool, or the      *)
(* holder of Pool.lifecycle builds or closes it (Pool.Reload,              *)
(* ReloadServer, connectServer).                                           *)
THEOREM Unleaked == PoolSpec => []NothingLeaks
<1>1. IInv => NothingLeaks
  BY DEF IInv, Structure
<1> QED  BY <1>1, PoolInvariance, PTL

(* No retry is lost: an open breaker has its timer, its wake-up or the     *)
(* worker's pass (healthTracker, Prewarm.requestRetry, refreshIfDirty).    *)
THEOREM Retried == PoolSpec => []RetryPending
<1>1. IInv => RetryPending
  BY DEF IInv, RetryDue, RetryPending, Awaited, Pass
<1> QED  BY <1>1, PoolInvariance, PTL

(* A visible catalog that its server has replaced is being reloaded,       *)
(* unless the notification was dropped or the reload failed or expired     *)
(* (requestServerReload, ReloadServer).                                    *)
THEOREM Refreshed == PoolSpec => []StaleIsReloading
<1>1. ASSUME IInv PROVE StaleIsReloading
  <2> SUFFICES ASSUME NEW s \in Servers \ missed,
                      Visible(s), conn[<<s, offered[s]>>] = "open",
                      found[<<s, offered[s]>>] < version[s], ~hung
               PROVE  \/ <<s, offered[s]>> \in notes
                      \/ reload[s].at \in {"queued", "late", "connecting", "found"}
    BY DEF StaleIsReloading
  <2>1. offered[s] \in Gens
    BY <1>1, LinkFacts DEF IInv, Structure, Building, Types, ServerTypes, Visible
  <2>2. Known(s, offered[s]) /\ Follows(s, offered[s])
    BY <1>1, <2>1 DEF IInv, StaleKnown, Follows
  <2> QED  BY <2>2 DEF Known
<1> QED  BY <1>1, PoolInvariance, PTL
=============================================================================
