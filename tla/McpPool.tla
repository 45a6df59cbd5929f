------------------------------ MODULE McpPool ------------------------------
(***************************************************************************)
(* The MCP connections of a session: the Pool with one runtime per         *)
(* configured server, the circuit breaker of each connection, the reloads  *)
(* that list_changed notifications ask for, the Prewarm worker with its    *)
(* retry timers, and the tool calls that use the connections.              *)
(*                                                                         *)
(*   - The configuration is the one the session was built with; Init is    *)
(*     what the refresh of the session's construction leaves behind.       *)
(*   - A generation of a server is a connection with its healthTracker.    *)
(*     A server that was never reached keeps its generation, and with it   *)
(*     its tracker, until a connection is made.                            *)
(*   - Pool.lifecycle is held over several steps and is a variable;        *)
(*     Pool.mu is held within a step, or for ever.                         *)
(*   - RetryAt is kept as the time left until it.  A retry timer is known  *)
(*     by its time left alone: all it does is to wake the worker, so       *)
(*     timers due together are one.                                        *)
(*   - Every connection of a server sees the same catalog, told apart by   *)
(*     its version.                                                        *)
(***************************************************************************)
EXTENDS Naturals, FiniteSets

CONSTANTS
  Servers,    \* the configured servers: numbers, in the order of their names
  Rivals,     \* servers that may share the model name of a tool
  Movers,     \* servers whose catalog changes
  Callers,    \* the goroutines that call tools
  Threshold,  \* circuit_breaker.failure_threshold
  Cooldown,   \* circuit_breaker.cooldown
  MaxGens,    \* bound: connections of a server
  MaxChanges, \* bound: catalog changes of a server
  MaxFaults,  \* bound: refused connections, failed requests, dead transports
  None

ASSUME PoolAssumption ==
  /\ Servers \subseteq Nat \ {0} /\ Rivals \subseteq Servers
  /\ Movers \subseteq Servers
  /\ Threshold \in Nat \ {0} /\ Cooldown \in Nat \ {0}
  /\ MaxGens \in Nat \ {0} /\ MaxChanges \in Nat /\ MaxFaults \in Nat
  /\ None \notin Nat \cup (Servers \X Nat)

Gens == 1..MaxGens
Links == Servers \X Gens
WorkerHolds == 0

VARIABLES
  rivals,    \* the servers whose tools have one model name, in this session
  conn,      \* Links -> life of the connection
  health,    \* Links -> the healthTracker
  found,     \* Links -> the catalog version its discovery saw
  current,   \* Servers -> the generation in Pool.servers
  offered,   \* Servers -> the one whose catalog the Pool holds, 0 for none
  collided,  \* the servers with catalogCollision set
  version,   \* Servers -> the server's catalog
  notes,     \* the connections with a list_changed that was not handled yet
  reload,    \* Servers -> where the refresh goroutine of the server is
  lifecycle, \* who holds Pool.lifecycle
  hung,      \* Pool.mu is held by a goroutine that waits for it
  worker,    \* where the Prewarm worker is
  dirty,     \* Prewarm.dirty
  token,     \* the channel of capacity one holds a value
  timers,    \* the time left on the retry timers
  calls,     \* Callers -> the call and its connection
  faults,
  missed     \* history: servers with a catalog change no reload has followed

poolVars == <<current, offered, collided>>
linkVars == <<conn, health, found>>
wakeVars == <<dirty, token, timers>>
envVars == <<rivals, version, faults>>
vars == <<rivals, conn, health, found, current, offered, collided, version,
          notes, reload, lifecycle, hung, worker, dirty, token,
          timers, calls, faults, missed>>

-----------------------------------------------------------------------------
(* healthTracker.  Failures beyond the threshold are not told apart: Open  *)
(* and Failure count on, so each of them is a change and is emitted.       *)

Fresh == [state |-> "starting", failures |-> 0, wait |-> 0]
Well == [state |-> "healthy", failures |-> 0, wait |-> 0]
Opened == [state |-> "open", failures |-> Threshold, wait |-> Cooldown]

Failed(h) ==
  IF h.failures + 1 >= Threshold THEN Opened
  ELSE [state |-> "degraded", failures |-> h.failures + 1, wait |-> 0]

HalfOpen(h) == [h EXCEPT !.state = "half_open"]

Usable(h) == h.state \in {"healthy", "degraded"}
Due(h) == h.state = "open" /\ h.wait = 0

(* emitHealth takes Pool.mu to read its subscribers; the one subscriber,   *)
(* Prewarm, starts a timer for every change to open.                       *)
Emit(h) ==
  /\ ~hung
  /\ timers' = IF h.state = "open" THEN timers \cup {h.wait} ELSE timers

Becomes(l, h) ==
  /\ Emit(h)
  /\ health' = [health EXCEPT ![l] = h]

-----------------------------------------------------------------------------
Idle == [at |-> "idle", server |-> None, gen |-> 0]
NoReload == [at |-> "none", gen |-> 0, old |-> 0]
Resting == [at |-> "idle", on |-> None, todo |-> {}]

Link(c) == <<calls[c].server, calls[c].gen>>
Current(s) == <<s, current[s]>>
Visible(s) == offered[s] # 0 /\ Usable(health[Current(s)])

(* Requests that wait for an answer on a connection.                       *)
Pending(l) ==
  \/ \E c \in Callers : calls[c].at \in {"sent", "probing"} /\ Link(c) = l
  \/ worker.at = "pinging" /\ worker.on = l

Fault == faults < MaxFaults /\ faults' = faults + 1

(* A request fails for a reason of its own, or because its transport is    *)
(* gone.                                                                   *)
Breaks(l) ==
  \/ conn[l] = "open" /\ Fault
  \/ conn[l] \in {"dead", "closed"} /\ UNCHANGED faults

(* resolveCatalogCollisions: of the connected servers that share a name    *)
(* the first one keeps it.                                                 *)
Conflicted(connected) ==
  {s \in rivals \cap connected : \E r \in rivals \cap connected : r < s}

(* The trackers after it, for runtimes with these generations and flags.   *)
Resolved(h, gen, flags, conflicts) ==
  [l \in Links |->
     IF l[2] # gen[l[1]] THEN h[l]
     ELSE IF l[1] \in conflicts \ flags THEN Opened
     ELSE IF l[1] \in flags \ conflicts THEN Well
     ELSE h[l]]

Init ==
  /\ rivals \in {{}, Rivals}
  /\ current = [s \in Servers |-> 1]
  /\ offered \in [Servers -> {0, 1}]
  /\ conn = [l \in Links |-> IF l[2] = 1 /\ offered[l[1]] = 1
                               THEN "open" ELSE "none"]
  /\ collided = Conflicted({s \in Servers : offered[s] = 1})
  /\ health = [l \in Links |->
                 IF l[2] # 1 THEN Fresh
                 ELSE IF offered[l[1]] = 0 \/ l[1] \in collided THEN Opened
                 ELSE Well]
  /\ found = [l \in Links |-> 0]
  /\ version = [s \in Servers |-> 0]
  /\ notes = {} /\ missed = {}
  /\ reload = [s \in Servers |-> NoReload]
  /\ lifecycle = None /\ hung = FALSE
  /\ worker = Resting
  /\ dirty = FALSE /\ token = TRUE
  /\ timers = {health[Current(s)].wait :
                 s \in {r \in Servers : health[Current(r)].state = "open"}}
  /\ calls = [c \in Callers |-> Idle]
  /\ faults = 0

-----------------------------------------------------------------------------
(* Servers and their notifications *)

ListChanges(s) ==
  /\ s \in Movers /\ version[s] < MaxChanges
  /\ version' = [version EXCEPT ![s] = @ + 1]
  /\ notes' = notes \cup {l \in Links : /\ l[1] = s
                                        /\ conn[l] \in {"building", "discovered", "open"}}
  /\ UNCHANGED <<rivals, linkVars, poolVars, reload, lifecycle, hung, worker,
                 wakeVars, calls, faults, missed>>

Handled(l) == notes' = notes \ {l}

(* Mutant: the handler is never set.                                       *)
RequestServerReloadIgnored(l) ==
  /\ l \in notes /\ ~hung /\ Handled(l)
  /\ UNCHANGED <<envVars, linkVars, poolVars, lifecycle, hung, worker,
                 wakeVars, calls, reload, missed>>

(* requestServerReload: one refresh goroutine per server; a notification   *)
(* that finds one is dropped.                                              *)
RequestServerReload(l) ==
  LET s == l[1]
  IN /\ l \in notes /\ ~hung /\ Handled(l)
     /\ IF reload[s].at = "none"
          THEN /\ reload' = [reload EXCEPT ![s].at = "queued"]
               /\ UNCHANGED missed
          ELSE /\ missed' = IF reload[s].at \in {"found", "closing", "leaving"}
                                 /\ found[<<s, reload[s].gen>>] < version[s]
                              THEN missed \cup {s} ELSE missed
               /\ UNCHANGED reload
     /\ UNCHANGED <<envVars, linkVars, poolVars, lifecycle, hung, worker,
                    wakeVars, calls>>

(* The transport ends by itself.  Its failure handler runs unless a        *)
(* request waits that will report the failure, or the process ended well.  *)
TransportDies(l) ==
  /\ conn[l] = "open" /\ Fault
  /\ conn' = [conn EXCEPT ![l] = "dead"]
  /\ \/ UNCHANGED <<health, timers>>
     \/ ~Pending(l) /\ Becomes(l, Failed(health[l]))
  /\ notes' = notes \ {l}
  /\ UNCHANGED <<rivals, found, poolVars, version, reload, lifecycle, hung,
                 worker, dirty, token, calls, missed>>

-----------------------------------------------------------------------------
(* Pool.ReloadServer, in the goroutine of requestServerReload *)

ReloadGoes(s, at) == reload' = [reload EXCEPT ![s].at = at]
New(s) == <<s, reload[s].gen>>
Unused(s) == {g \in Gens \ {current[s]} : conn[<<s, g>>] = "none"}

(* The transport is made and its handlers are set; the tracker is new.     *)
ReloadConnects(s) ==
  /\ reload[s].at = "queued" /\ lifecycle = None /\ ~hung
  /\ \E g \in Unused(s) :
       /\ \A u \in Unused(s) : g <= u
       /\ lifecycle' = s
       /\ reload' = [reload EXCEPT ![s] = [at |-> "connecting", gen |-> g,
                                           old |-> offered[s]]]
       /\ conn' = [conn EXCEPT ![<<s, g>>] = "building"]
       /\ health' = [health EXCEPT ![<<s, g>>] = Fresh]
  /\ UNCHANGED <<envVars, found, poolVars, notes, hung, worker, wakeVars,
                 calls, missed>>

Discovers(l) ==
  /\ conn' = [conn EXCEPT ![l] = "discovered"]
  /\ found' = [found EXCEPT ![l] = version[l[1]]]

ReloadDiscovers(s) ==
  /\ reload[s].at = "connecting"
  /\ Discovers(New(s))
  /\ ReloadGoes(s, "found")
  /\ UNCHANGED <<envVars, health, poolVars, notes, lifecycle, hung, worker,
                 wakeVars, calls, missed>>

(* Mutant: a failed reload leaves its connection to the server alone.      *)
ReloadFailsOpen(s) ==
  /\ reload[s].at \in {"connecting", "found"} /\ Fault
  /\ conn' = [conn EXCEPT ![New(s)] = "open"]
  /\ Becomes(Current(s), Opened)
  /\ missed' = missed \cup {s}
  /\ lifecycle' = None
  /\ ReloadGoes(s, "leaving")
  /\ UNCHANGED <<rivals, found, poolVars, version, hung, worker, dirty,
                 token, calls, notes>>

(* The connection or the discovery fails, or something that is configured  *)
(* was not advertised: each path closes the new connection, and the old    *)
(* one stays, with its tracker open.                                       *)
ReloadFails(s) ==
  /\ reload[s].at \in {"connecting", "found"} /\ Fault
  /\ conn' = [conn EXCEPT ![New(s)] = "none"]
  /\ found' = [found EXCEPT ![New(s)] = 0]
  /\ Becomes(Current(s), Opened)
  /\ notes' = notes \ {New(s)}
  /\ missed' = missed \cup {s}
  /\ lifecycle' = None
  /\ ReloadGoes(s, "leaving")
  /\ UNCHANGED <<rivals, poolVars, version, hung, worker, dirty, token, calls>>

(* The deadline of the refresh runs while it waits for lifecycle.          *)
ReloadLate(s) ==
  /\ reload[s].at = "queued" /\ lifecycle # None
  /\ ReloadGoes(s, "late")
  /\ UNCHANGED <<envVars, linkVars, poolVars, notes, lifecycle, hung, worker,
                 wakeVars, calls, missed>>

(* Once it has the lock, such a refresh fails without a word to the server *)
(* and opens the breaker like a refusal.                                   *)
ReloadExpires(s) ==
  /\ reload[s].at = "late" /\ lifecycle = None
  /\ Becomes(Current(s), Opened)
  /\ missed' = missed \cup {s}
  /\ reload' = [reload EXCEPT ![s] = [at |-> "leaving", gen |-> current[s],
                                      old |-> 0]]
  /\ UNCHANGED <<envVars, conn, found, poolVars, notes, lifecycle, hung,
                 worker, dirty, token, calls>>

(* The new runtime is published under Pool.mu.  A collision that begins or *)
(* ends with it changes a tracker, and that emits: the goroutine waits for *)
(* the mutex it holds.                                                     *)
ReloadPublishes(s) ==
  LET gen == [current EXCEPT ![s] = reload[s].gen]
      next == [offered EXCEPT ![s] = reload[s].gen]
      flags == collided \ {s}
      conflicts == Conflicted({r \in Servers : next[r] # 0})
      well == [health EXCEPT ![New(s)] = Well]
      resolved == Resolved(well, gen, flags, conflicts)
  IN /\ reload[s].at = "found" /\ ~hung
     /\ conn' = [conn EXCEPT ![New(s)] = "open"]
     /\ health' = resolved
     /\ IF conflicts \ flags # {} \/ resolved # well
          THEN /\ hung' = TRUE
               /\ UNCHANGED <<poolVars, missed, reload>>
          ELSE /\ current' = gen /\ offered' = next /\ collided' = conflicts
               /\ missed' = IF found[New(s)] = version[s] THEN missed \ {s}
                            ELSE missed
               /\ ReloadGoes(s, "closing")
               /\ UNCHANGED hung
     /\ UNCHANGED <<envVars, found, notes, lifecycle, worker, wakeVars, calls>>

Referenced(l) ==
  \/ \E c \in Callers : calls[c] # Idle /\ Link(c) = l
  \/ worker.on = l \/ l \in worker.todo

(* The old connection is closed while lifecycle is still held; what nobody *)
(* refers to any more is garbage, and its generation free for another.     *)
ReloadCloses(s) ==
  LET old == <<s, reload[s].old>>
  IN /\ reload[s].at = "closing"
     /\ conn' = [l \in Links |-> IF l # old THEN conn[l]
                                ELSE IF Referenced(l) THEN "closed" ELSE "none"]
     /\ found' = [l \in Links |-> IF l = old THEN 0 ELSE found[l]]
     /\ health' = [l \in Links |-> IF l = old /\ ~Referenced(l) THEN Fresh
                                  ELSE health[l]]
     /\ notes' = notes \ {old}
     /\ lifecycle' = None
     /\ ReloadGoes(s, "leaving")
     /\ UNCHANGED <<envVars, poolVars, hung, worker, wakeVars, calls, missed>>

ReloadLeaves(s) ==
  /\ reload[s].at = "leaving" /\ ~hung
  /\ reload' = [reload EXCEPT ![s] = NoReload]
  /\ UNCHANGED <<envVars, linkVars, poolVars, notes, lifecycle, hung, worker,
                 wakeVars, calls, missed>>

-----------------------------------------------------------------------------
(* Prewarm: timers, and the worker's refreshIfDirty *)

Lower(n) == IF n = 0 THEN 0 ELSE n - 1

Tick ==
  /\ \/ \E l \in Links : health[l].wait > 0
     \/ \E n \in timers : n > 0
  /\ health' = [l \in Links |-> [health[l] EXCEPT !.wait = Lower(@)]]
  /\ timers' = {Lower(n) : n \in timers}
  /\ UNCHANGED <<envVars, conn, found, poolVars, notes, reload, lifecycle,
                 hung, worker, dirty, token, calls, missed>>

(* Mutant: a channel without a buffer: a busy worker is not woken.         *)
RequestRetryUnbuffered ==
  /\ 0 \in timers
  /\ timers' = timers \ {0}
  /\ dirty' = TRUE /\ token' = (token \/ worker = Resting)
  /\ UNCHANGED <<envVars, linkVars, poolVars, notes, reload, lifecycle, hung,
                 worker, calls, missed>>

(* requestRetry sets dirty before it sends: a worker that takes the flag   *)
(* in between has all the refresh ahead of it, so the two are one step.    *)
RequestRetry ==
  /\ 0 \in timers
  /\ timers' = timers \ {0}
  /\ dirty' = TRUE /\ token' = TRUE
  /\ UNCHANGED <<envVars, linkVars, poolVars, notes, reload, lifecycle, hung,
                 worker, calls, missed>>

WorkerWakes ==
  /\ worker = Resting /\ token
  /\ token' = FALSE /\ dirty' = FALSE
  /\ worker' = IF dirty THEN [worker EXCEPT !.at = "reload"] ELSE Resting
  /\ UNCHANGED <<envVars, linkVars, poolVars, notes, reload, lifecycle, hung,
                 timers, calls, missed>>

(* ProbeOpen takes the runtimes to look at under one read of Pool.mu.      *)
Probing(flags, offer) ==
  worker' = [Resting EXCEPT !.at = "probe",
               !.todo = {l \in Links : /\ l[2] = offer[l[1]]
                                       /\ l[1] \notin flags}]

NeedsRetry(s) == offered[s] = 0 /\ health[Current(s)].wait = 0

(* Pool.Reload with the configuration unchanged: it returns unless a       *)
(* server without a connection is due, and then tries all of those.        *)
WorkerReloads ==
  /\ worker.at = "reload" /\ lifecycle = None /\ ~hung
  /\ IF \E s \in Servers : NeedsRetry(s)
       THEN /\ lifecycle' = WorkerHolds
            /\ worker' = [worker EXCEPT !.at = "connecting",
                 !.todo = {Current(s) : s \in {r \in Servers : offered[r] = 0}}]
       ELSE /\ Probing(collided, offered)
            /\ UNCHANGED lifecycle
  /\ UNCHANGED <<envVars, linkVars, poolVars, notes, reload, hung, wakeVars,
                 calls, missed>>

WorkerConnects(l) ==
  /\ worker.at = "connecting" /\ worker.on = None /\ l \in worker.todo
  /\ \A k \in worker.todo : l[1] <= k[1]
  /\ conn' = [conn EXCEPT ![l] = "building"]
  /\ worker' = [worker EXCEPT !.on = l, !.todo = @ \ {l}]
  /\ UNCHANGED <<envVars, health, found, poolVars, notes, reload, lifecycle,
                 hung, wakeVars, calls, missed>>

WorkerDiscovers ==
  /\ worker.at = "connecting" /\ worker.on # None
  /\ conn[worker.on] = "building"
  /\ Discovers(worker.on)
  /\ UNCHANGED <<envVars, health, poolVars, notes, reload, lifecycle, hung,
                 worker, wakeVars, calls, missed>>

WorkerConnected ==
  /\ worker.at = "connecting" /\ worker.on # None
  /\ conn[worker.on] = "discovered"
  /\ conn' = [conn EXCEPT ![worker.on] = "open"]
  /\ Becomes(worker.on, Well)
  /\ worker' = [worker EXCEPT !.on = None]
  /\ UNCHANGED <<envVars, found, poolVars, notes, reload, lifecycle, hung,
                 dirty, token, calls, missed>>

(* The server keeps its tracker, now open, and no connection.              *)
WorkerRefused ==
  /\ worker.at = "connecting" /\ worker.on # None /\ Fault
  /\ conn[worker.on] \in {"building", "discovered"}
  /\ conn' = [conn EXCEPT ![worker.on] = "none"]
  /\ Becomes(worker.on, Opened)
  /\ notes' = notes \ {worker.on}
  /\ worker' = [worker EXCEPT !.on = None]
  /\ UNCHANGED <<rivals, version, found, poolVars, reload, lifecycle, hung,
                 dirty, token, calls, missed>>

(* Collisions are resolved before Pool.mu is taken.                        *)
WorkerPublishes ==
  LET next == [s \in Servers |-> IF conn[Current(s)] \in {"open", "dead"}
                                   THEN current[s] ELSE 0]
      conflicts == Conflicted({s \in Servers : next[s] # 0})
      resolved == Resolved(health, current, collided, conflicts)
  IN /\ worker.at = "connecting" /\ worker.on = None /\ worker.todo = {}
     /\ ~hung
     /\ health' = resolved
     /\ timers' = IF conflicts \subseteq collided THEN timers
                  ELSE timers \cup {Cooldown}
     /\ offered' = next /\ collided' = conflicts
     /\ lifecycle' = None
     /\ Probing(conflicts, next)
     /\ UNCHANGED <<envVars, conn, found, current, notes, reload, hung, dirty,
                    token, calls, missed>>

(* A tracker that is open and due is half-opened for one ping.             *)
WorkerProbes(l) ==
  /\ worker.at = "probe" /\ l \in worker.todo
  /\ IF Due(health[l])
       THEN /\ Becomes(l, HalfOpen(health[l]))
            /\ worker' = [worker EXCEPT !.at = "pinging", !.on = l,
                                        !.todo = @ \ {l}]
       ELSE /\ worker' = [worker EXCEPT !.todo = @ \ {l}]
            /\ UNCHANGED <<health, timers>>
  /\ UNCHANGED <<envVars, conn, found, poolVars, notes, reload, lifecycle,
                 hung, dirty, token, calls, missed>>

(* Mutant: a ping that was answered does not close the breaker.            *)
WorkerPingedInVain ==
  LET l == worker.on
  IN /\ worker.at = "pinging"
     /\ \/ conn[l] = "open" /\ UNCHANGED <<health, timers, dirty, faults>>
        \/ Breaks(l) /\ Becomes(l, Opened) /\ dirty' = TRUE
     /\ worker' = [worker EXCEPT !.at = "probe", !.on = None]
     /\ UNCHANGED <<rivals, version, conn, found, poolVars, notes, reload,
                    lifecycle, hung, token, calls, missed>>

(* A failed ping leaves the flag set for whoever wakes the worker next.    *)
WorkerPinged ==
  LET l == worker.on
  IN /\ worker.at = "pinging"
     /\ \/ conn[l] = "open" /\ Becomes(l, Well) /\ UNCHANGED <<dirty, faults>>
        \/ Breaks(l) /\ Becomes(l, Opened) /\ dirty' = TRUE
     /\ worker' = [worker EXCEPT !.at = "probe", !.on = None]
     /\ UNCHANGED <<rivals, version, conn, found, poolVars, notes, reload,
                    lifecycle, hung, token, calls, missed>>

(* The registry's Sync reads the catalog.                                  *)
WorkerRests ==
  /\ worker.at = "probe" /\ worker.todo = {} /\ ~hung
  /\ worker' = Resting
  /\ UNCHANGED <<envVars, linkVars, poolVars, notes, reload, lifecycle, hung,
                 wakeVars, calls, missed>>

-----------------------------------------------------------------------------
(* Tool calls: Connection.requestBusiness *)

CallGoes(c, at) == calls' = [calls EXCEPT ![c].at = at]
CallEnds(c) == calls' = [calls EXCEPT ![c] = Idle]

(* The model is offered the visible catalog before a sample, and calls a   *)
(* tool of it some time later, on the connection it was offered with.      *)
CallTool(c, s) ==
  /\ calls[c] = Idle /\ ~hung /\ Visible(s)
  /\ calls' = [calls EXCEPT ![c] = [at |-> "chosen", server |-> s,
                                    gen |-> offered[s]]]
  /\ UNCHANGED <<envVars, linkVars, poolVars, notes, reload, lifecycle, hung,
                 worker, wakeVars, missed>>

BeforeBusinessCall(c) ==
  LET l == Link(c)
  IN /\ calls[c].at = "chosen"
     /\ \/ Usable(health[l]) /\ CallGoes(c, "sent")
           /\ UNCHANGED <<health, timers>>
        \/ Due(health[l]) /\ CallGoes(c, "probing")
           /\ Becomes(l, HalfOpen(health[l]))
        \/ ~Usable(health[l]) /\ ~Due(health[l]) /\ CallEnds(c)
           /\ UNCHANGED <<health, timers>>
     /\ UNCHANGED <<envVars, conn, found, poolVars, notes, reload, lifecycle,
                    hung, worker, dirty, token, missed>>

(* A probe whose context ends fails like any other.                        *)
CallPinged(c) ==
  LET l == Link(c)
  IN /\ calls[c].at = "probing"
     /\ \/ conn[l] = "open" /\ Becomes(l, Well) /\ CallGoes(c, "sent")
           /\ UNCHANGED faults
        \/ Breaks(l) /\ Becomes(l, Opened) /\ CallEnds(c)
     /\ UNCHANGED <<rivals, version, conn, found, poolVars, notes, reload,
                    lifecycle, hung, worker, dirty, token, missed>>

CallReturns(c) ==
  LET l == Link(c)
  IN /\ calls[c].at = "sent"
     /\ \/ conn[l] = "open" /\ Becomes(l, Well) /\ UNCHANGED faults
        \/ Breaks(l) /\ Becomes(l, Failed(health[l]))
     /\ CallEnds(c)
     /\ UNCHANGED <<rivals, version, conn, found, poolVars, notes, reload,
                    lifecycle, hung, worker, dirty, token, missed>>

(* Cancellation of the turn is no failure of the server.                   *)
CallCanceled(c) ==
  /\ calls[c].at = "sent"
  /\ CallEnds(c)
  /\ UNCHANGED <<envVars, linkVars, poolVars, notes, reload, lifecycle, hung,
                 worker, wakeVars, missed>>

-----------------------------------------------------------------------------
Reload(s) ==
  \/ ReloadConnects(s) \/ ReloadDiscovers(s) \/ ReloadFails(s)
  \/ ReloadLate(s) \/ ReloadExpires(s)
  \/ ReloadPublishes(s) \/ ReloadCloses(s) \/ ReloadLeaves(s)

Worker ==
  \/ WorkerWakes \/ WorkerReloads \/ WorkerDiscovers \/ WorkerConnected
  \/ WorkerRefused \/ WorkerPublishes \/ WorkerPinged \/ WorkerRests
  \/ \E l \in Links : WorkerConnects(l) \/ WorkerProbes(l)

Call(c) ==
  \/ BeforeBusinessCall(c) \/ CallPinged(c) \/ CallReturns(c)

Next ==
  \/ \E s \in Servers : ListChanges(s) \/ Reload(s)
  \/ \E l \in Links : RequestServerReload(l) \/ TransportDies(l)
  \/ \E c \in Callers : Call(c) \/ CallCanceled(c) \/ \E s \in Servers : CallTool(c, s)
  \/ Worker
  \/ Tick \/ RequestRetry

PoolSpec == Init /\ [][Next]_vars

(* The worker waits for an answer to its ping, which has no deadline.      *)
Silent == worker.at = "pinging" /\ conn[worker.on] = "open"

(* Goroutines run on, time passes, timers fire, the worker is not kept     *)
(* from a mutex for ever, and what has a deadline, a connection attempt    *)
(* and the request of a call, is answered or fails.  The worker's ping has *)
(* none: it is sure to return from a transport that is gone only.          *)
Fairness ==
  /\ WF_vars(Tick) /\ WF_vars(RequestRetry)
  /\ SF_vars(WorkerReloads)
  /\ WF_vars(~Silent /\ Worker)
  /\ \A s \in Servers : WF_vars(Reload(s))
  /\ \A c \in Callers : WF_vars(Call(c))

FairPoolSpec == PoolSpec /\ Fairness

-----------------------------------------------------------------------------
(* Type invariant.                                                         *)
PoolTypeOK ==
  /\ rivals \subseteq Servers /\ collided \subseteq rivals
  /\ conn \in [Links -> {"none", "building", "discovered", "open", "dead",
                         "closed"}]
  /\ health \in [Links ->
       [state : {"starting", "healthy", "degraded", "open", "half_open"},
        failures : 0..Threshold, wait : 0..Cooldown]]
  /\ found \in [Links -> 0..MaxChanges]
  /\ current \in [Servers -> Gens]
  /\ offered \in [Servers -> 0..MaxGens]
  /\ version \in [Servers -> 0..MaxChanges]
  /\ notes \subseteq Links /\ missed \subseteq Servers
  /\ reload \in [Servers -> [at : {"none", "queued", "late", "connecting",
                                   "found", "closing", "leaving"},
                             gen : 0..MaxGens, old : 0..MaxGens]]
  /\ lifecycle \in Servers \cup {WorkerHolds, None}
  /\ worker \in [at : {"idle", "reload", "connecting", "probe", "pinging"},
                 on : Links \cup {None}, todo : SUBSET Links]
  /\ {hung, dirty, token} \subseteq BOOLEAN
  /\ timers \subseteq 0..Cooldown
  /\ calls \in [Callers -> [at : {"idle", "chosen", "probing", "sent"},
                            server : Servers \cup {None}, gen : 0..MaxGens]]
  /\ faults \in 0..MaxFaults

(* No connection leaks (Pool.Reload, ReloadServer, connectServer): one     *)
(* that is not closed is in the Pool, or the holder of lifecycle builds or *)
(* closes it.                                                              *)
NothingLeaks ==
  \A l \in Links :
    conn[l] \in {"building", "discovered", "open", "dead"} =>
      \/ l[2] = offered[l[1]]
      \/ lifecycle = l[1] /\ l[2] \in {reload[l[1]].gen, reload[l[1]].old}
      \/ lifecycle = WorkerHolds /\ l[2] = current[l[1]]

(* No retry is lost between healthTracker, timer, dirty flag, channel and  *)
(* worker: an open server without a collision is due to be looked at.      *)
RetryPending ==
  \A s \in Servers \ collided :
    LET h == health[Current(s)]
    IN h.state = "open" /\ ~hung =>
         \/ h.wait \in timers
         \/ /\ h.wait = 0
            /\ \/ dirty /\ token
               \/ worker.at \in {"reload", "connecting"}
               \/ Current(s) \in worker.todo

(* A visible catalog the server has replaced is being reloaded, unless its *)
(* notification found a refresh that was past its discovery, the refresh   *)
(* failed, or the transport died before it was read.                       *)
StaleIsReloading ==
  \A s \in Servers \ missed :
    LET l == <<s, offered[s]>>
    IN Visible(s) /\ conn[l] = "open" /\ found[l] < version[s] /\ ~hung =>
         \/ l \in notes
         \/ reload[s].at \in {"queued", "late", "connecting", "found"}

(* Unless one ping is never answered, which stops the retries of every     *)
(* server, a server is offered again and again: its breaker does not stay  *)
(* open for ever, whatever failed before (Prewarm, ProbeOpen,              *)
(* BeforeBusinessCall).  The Pool does not replace a connection whose      *)
(* transport died, and offers nothing of a server that lost its names.     *)
Recovers ==
  \/ <>[]Silent
  \/ \A s \in Servers :
       []<>(\/ Visible(s) \/ hung \/ s \in collided
            \/ conn[Current(s)] = "dead")
=============================================================================
