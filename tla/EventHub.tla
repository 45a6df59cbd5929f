------------------------------ MODULE EventHub ------------------------------
(***************************************************************************)
(* The event stream: from Hub.Publish through the event store and the      *)
(* subscriptions of internal/runtime/app/eventhub to the web client that   *)
(* keeps a cursor and resumes from it.                                     *)
(*                                                                         *)
(*   - publishMu is held by the publication in `pub`; a step of the model  *)
(*     is what happens under one hold of mu or one call of the store.      *)
(*   - The store numbers events 1, 2, ...; other Runtimes append to it too *)
(*     and a replay leaves their events out.                               *)
(*   - Reading the channel, writing the socket and applying the event in   *)
(*     the client are one step: a broken connection loses the channel.     *)
(*   - A stream that the server refuses gets a resync frame before its      *)
(*     hello; the client takes that for a broken protocol, forgets what it *)
(*     has and stops until the user opens it again ("desynchronized").     *)
(*   - Live-only deltas, which the store numbers and does not keep, and    *)
(*     the replay limit are left out.                                      *)
(***************************************************************************)
EXTENDS Naturals, Sequences, FiniteSets

CONSTANTS Stable,     \* events with an identity, published until it succeeds
          Plain,      \* events published once
          Clients,    \* web clients
          Buffer,     \* Config.Buffer
          Outages,    \* which calls of the store and the projection may fail
          None,       \* no event
          MaxForeign, \* bound: events of other Runtimes
          MaxFaults   \* bound: failures, broken connections and restarts

Fault == {"append", "unknown", "lookup", "project"}

ASSUME HubConstants ==
  /\ Stable \cap Plain = {} /\ None \notin Stable \cup Plain
  /\ Buffer \in Nat /\ Outages \subseteq Fault
  /\ MaxForeign \in Nat /\ MaxFaults \in Nat

VARIABLES
  log,        \* the event store; None stands for another Runtime's event
  last,       \* Hub.last
  pending,    \* Hub.pending: stored, but not yet projected and announced
  closed,     \* Hub.closed
  pub,        \* the publication that holds publishMu
  tried,      \* plain events already published
  sub,        \* Clients -> the subscription of the client's connection
  cursor,     \* Clients -> the client's cursor, which survives its connection
  faults,
  announced,  \* history: sequences fanned out to the subscribers
  failed,     \* history: sequences stored by an append or a publication that
              \* reported an error, but for a stable event found again
  seen        \* history: Clients -> sequences the client applied

vars == <<log, last, pending, closed, pub, tried, sub, cursor, faults,
          announced, failed, seen>>

hub == <<last, pending, closed>>
client == <<cursor, seen>>
history == <<announced, failed>>

Events == Stable \cup Plain
Own(n) == log[n] # None
Exists(id) == \E n \in DOMAIN log : log[n] = id
SequenceOf(id) == CHOOSE n \in DOMAIN log : log[n] = id
LastSequence == Len(log)
Larger(a, b) == IF a > b THEN a ELSE b

NoPub == [phase |-> "idle", id |-> None, seq |-> 0, last |-> 0, attempt |-> 0,
          announce |-> FALSE]

NoSub == [phase |-> "off", registered |-> FALSE, floor |-> 0, from |-> 0,
          events |-> <<>>, cap |-> 0]

Capacity == Larger(Buffer, 1)
Fails == faults < MaxFaults /\ faults' = faults + 1

Init ==
  /\ log = <<>> /\ last = 0 /\ pending = {} /\ closed = FALSE
  /\ pub = NoPub /\ tried = {}
  /\ sub = [c \in Clients |-> NoSub]
  /\ cursor = [c \in Clients |-> 0]
  /\ faults = 0 /\ announced = {} /\ failed = {}
  /\ seen = [c \in Clients |-> {}]

-----------------------------------------------------------------------------
(* Hub.publish *)

Appending(id) ==
  pub' = [NoPub EXCEPT !.phase = "append", !.id = id, !.last = last]

Projecting(id, n, announce) ==
  pub' = [NoPub EXCEPT !.phase = "project", !.id = id, !.seq = n,
                       !.announce = announce]

\* A stored stable event is projected again; it is announced only when an
\* earlier attempt left it pending.
PublishStable(id) ==
  /\ id \in Stable /\ pub = NoPub /\ ~closed
  /\ \/ /\ Exists(id)
        /\ last' = Larger(last, SequenceOf(id))
        /\ Projecting(id, SequenceOf(id), id \in pending)
     \/ /\ ~Exists(id)
        /\ Appending(id)
        /\ UNCHANGED last
  /\ UNCHANGED <<log, pending, closed, tried, sub, client, faults, history>>

Publish(id) ==
  /\ id \in Plain \ tried /\ pub = NoPub /\ ~closed
  /\ Appending(id)
  /\ tried' = tried \cup {id}
  /\ UNCHANGED <<log, hub, sub, client, faults, history>>

Taken == pub.last + 1 <= LastSequence

AppendSucceeds ==
  /\ pub.phase = "append" /\ ~Taken
  /\ log' = Append(log, pub.id)
  /\ last' = pub.last + 1
  /\ Projecting(pub.id, pub.last + 1, TRUE)
  /\ UNCHANGED <<pending, closed, tried, sub, client, faults, history>>

\* A failed append may have stored the event all the same.
Stored(L) == \E n \in DOMAIN L : L[n] = pub.id

AfterFailedAppend(L) ==
  IF pub.id \in Stable /\ Stored(L)
    THEN LET n == CHOOSE k \in DOMAIN L : L[k] = pub.id IN
         /\ last' = Larger(last, n)
         /\ Projecting(pub.id, n, TRUE)
    ELSE IF pub.attempt >= 3
    THEN pub' = NoPub /\ UNCHANGED last
    ELSE /\ pub' = [pub EXCEPT !.last = Larger(@, Len(L)), !.attempt = @ + 1]
         /\ last' = Larger(last, Len(L))

AppendFails ==
  /\ pub.phase = "append"
  /\ \/ Taken /\ UNCHANGED <<log, faults>>
     \/ "append" \in Outages /\ ~Taken /\ Fails /\ UNCHANGED log
     \/ "unknown" \in Outages /\ ~Taken /\ Fails /\ log' = Append(log, pub.id)
  /\ failed' = IF log' = log \/ pub.id \in Stable THEN failed
               ELSE failed \cup {Len(log')}
  /\ AfterFailedAppend(log')
  /\ UNCHANGED <<pending, closed, tried, sub, client, announced>>

\* The append fails, and so does the look-up that would tell whether it was
\* stored: a later PublishStable may find an event nobody announced.
LookupFails ==
  /\ pub.phase = "append" /\ "lookup" \in Outages /\ Fails
  /\ \/ UNCHANGED log
     \/ ~Taken /\ log' = Append(log, pub.id)
  /\ failed' = failed \cup (DOMAIN log' \ DOMAIN log)
  /\ pub' = NoPub
  /\ UNCHANGED <<hub, tried, sub, client, announced>>

Project ==
  /\ pub.phase = "project"
  /\ IF pub.announce
       THEN /\ pub' = [pub EXCEPT !.phase = "fanout"]
            /\ pending' = pending \ {pub.id}
       ELSE pub' = NoPub /\ UNCHANGED pending
  /\ UNCHANGED <<log, last, closed, tried, sub, client, faults, history>>

ProjectFails ==
  /\ pub.phase = "project" /\ "project" \in Outages /\ Fails
  /\ pending' = IF pub.announce /\ pub.id \in Stable
                  THEN pending \cup {pub.id} ELSE pending
  /\ failed' = failed \cup {pub.seq}
  /\ pub' = NoPub
  /\ UNCHANGED <<log, last, closed, tried, sub, client, announced>>

\* Mutant: a subscription is fanned out to only after its handoff.
FannedOutLive(s, n) ==
  IF s.phase # "live" \/ ~s.registered \/ n <= s.floor THEN s
  ELSE IF Len(s.events) < s.cap THEN [s EXCEPT !.events = Append(@, n)]
  ELSE [s EXCEPT !.registered = FALSE]

\* Mutant: the fence of the replay is not kept.
FannedOutUnfenced(s, n) ==
  IF ~s.registered THEN s
  ELSE IF Len(s.events) < s.cap THEN [s EXCEPT !.events = Append(@, n)]
  ELSE [s EXCEPT !.registered = FALSE]

\* A subscription whose buffer is full is dropped; its channel is closed.
FannedOut(s, n) ==
  IF ~s.registered \/ n <= s.floor THEN s
  ELSE IF Len(s.events) < s.cap THEN [s EXCEPT !.events = Append(@, n)]
  ELSE [s EXCEPT !.registered = FALSE]

Fanout ==
  /\ pub.phase = "fanout"
  /\ sub' = [c \in Clients |-> FannedOut(sub[c], pub.seq)]
  /\ announced' = announced \cup {pub.seq}
  /\ pub' = NoPub
  /\ UNCHANGED <<log, hub, tried, client, faults, failed>>

-----------------------------------------------------------------------------
(* Hub.Events, the server's stream and the client *)

\* The fence and the registration, under publishMu.
Subscribe(c) ==
  /\ sub[c].phase = "off" /\ pub = NoPub /\ ~closed
  /\ last' = Larger(last, LastSequence)
  /\ cursor[c] <= last'
  /\ sub' = [sub EXCEPT ![c] = [NoSub EXCEPT !.phase = "replaying",
               !.registered = TRUE, !.floor = last', !.from = cursor[c],
               !.cap = Capacity]]
  /\ UNCHANGED <<log, pending, closed, pub, tried, client, faults, history>>

\* A set of sequence numbers as the sequence the store lists it in.
InOrder(S) ==
  CHOOSE p \in [1..Cardinality(S) -> S] :
    /\ \A i, j \in DOMAIN p : i < j => p[i] < p[j]
    /\ \A n \in S : \E i \in DOMAIN p : p[i] = n

\* The frozen history of (from, through], without other Runtimes' events.
Page(s) == InOrder({n \in (s.from + 1)..s.floor : Own(n)})

\* resetProjection(): the client forgets what it applied and does not come back
\* by itself.
Desynchronizes(c) ==
  /\ sub' = [sub EXCEPT ![c] = [NoSub EXCEPT !.phase = "desynchronized"]]
  /\ cursor' = [cursor EXCEPT ![c] = 0]
  /\ seen' = [seen EXCEPT ![c] = {}]

\* Events() reports an error: the Hub is closed, or the store cannot be read.
Refused(c) ==
  /\ \/ sub[c].phase = "off" /\ pub = NoPub
     \/ sub[c].phase = "replaying"
  /\ \/ closed /\ UNCHANGED faults
     \/ "lookup" \in Outages /\ Fails
  /\ Desynchronizes(c)
  /\ UNCHANGED <<log, hub, pub, tried, history>>

\* start(): the user opens the client again.
Reopen(c) ==
  /\ sub[c].phase = "desynchronized"
  /\ sub' = [sub EXCEPT ![c] = NoSub]
  /\ UNCHANGED <<log, hub, pub, tried, client, faults, history>>

\* Mutant: the page and the live suffix share the configured buffer.
HandoffInPlace(c) ==
  /\ sub[c].phase = "replaying"
  /\ \/ /\ sub[c].registered
        /\ sub' = [sub EXCEPT ![c].phase = "live",
                              ![c].events = Page(sub[c]) \o @]
        /\ UNCHANGED client
     \/ ~sub[c].registered /\ Desynchronizes(c)
  /\ UNCHANGED <<log, hub, pub, tried, faults, history>>

\* The replayed page goes first into a channel with room for the live suffix;
\* a subscription that was dropped during the replay is refused.
Handoff(c) ==
  /\ sub[c].phase = "replaying"
  /\ \/ /\ sub[c].registered
        /\ LET page == Page(sub[c]) IN
           sub' = [sub EXCEPT ![c] =
                     [sub[c] EXCEPT !.phase = "live", !.events = page \o @,
                        !.cap = IF page = <<>> THEN Capacity
                                ELSE Len(page) + Capacity]]
        /\ UNCHANGED client
     \/ ~sub[c].registered /\ Desynchronizes(c)
  /\ UNCHANGED <<log, hub, pub, tried, faults, history>>

\* The client ignores what is not beyond its cursor.
Deliver(c) ==
  /\ sub[c].phase = "live" /\ sub[c].events # <<>>
  /\ LET n == Head(sub[c].events) IN
     /\ sub' = [sub EXCEPT ![c].events = Tail(@)]
     /\ IF n <= cursor[c] THEN UNCHANGED client
        ELSE /\ cursor' = [cursor EXCEPT ![c] = n]
             /\ seen' = [seen EXCEPT ![c] = @ \cup {n}]
  /\ UNCHANGED <<log, hub, pub, tried, faults, history>>

\* Mutant: only Close ends a stream, an overflow does not.
StreamEndsOnClose(c) ==
  /\ sub[c].phase = "live" /\ closed /\ sub[c].events = <<>>
  /\ sub' = [sub EXCEPT ![c] = NoSub]
  /\ UNCHANGED <<log, hub, pub, tried, client, faults, history>>

\* A dropped subscription ends once its channel is drained.
StreamEnds(c) ==
  /\ sub[c].phase = "live" /\ ~sub[c].registered /\ sub[c].events = <<>>
  /\ sub' = [sub EXCEPT ![c] = NoSub]
  /\ UNCHANGED <<log, hub, pub, tried, client, faults, history>>

\* Mutant: the cursor covers what was received but not yet applied.
DisconnectAhead(c) ==
  /\ sub[c].phase \in {"replaying", "live"} /\ Fails
  /\ sub[c].events # <<>>
  /\ cursor' = [cursor EXCEPT ![c] =
                  Larger(@, sub[c].events[Len(sub[c].events)])]
  /\ sub' = [sub EXCEPT ![c] = NoSub]
  /\ UNCHANGED <<log, hub, pub, tried, seen, history>>

Disconnect(c) ==
  /\ sub[c].phase \in {"replaying", "live"} /\ Fails
  /\ sub' = [sub EXCEPT ![c] = NoSub]
  /\ UNCHANGED <<log, hub, pub, tried, client, history>>

-----------------------------------------------------------------------------
(* Other Runtimes, shutdown and restart *)

ForeignAppend ==
  /\ Cardinality({n \in DOMAIN log : log[n] = None}) < MaxForeign
  /\ log' = Append(log, None)
  /\ UNCHANGED <<hub, pub, tried, sub, client, faults, history>>

Close ==
  /\ pub = NoPub /\ ~closed /\ Fails
  /\ closed' = TRUE
  /\ sub' = [c \in Clients |-> [sub[c] EXCEPT !.registered = FALSE]]
  /\ UNCHANGED <<log, last, pending, pub, tried, client, history>>

\* New(): only the store survives.
Restart ==
  /\ \/ closed /\ UNCHANGED faults
     \/ ~closed /\ Fails
  /\ last' = LastSequence /\ pending' = {} /\ closed' = FALSE
  /\ pub' = NoPub
  /\ sub' = [c \in Clients |->
               IF sub[c].phase = "desynchronized" THEN sub[c] ELSE NoSub]
  /\ UNCHANGED <<log, tried, client, history>>

Next ==
  \/ \E id \in Events : PublishStable(id) \/ Publish(id)
  \/ AppendSucceeds \/ AppendFails \/ LookupFails
  \/ Project \/ ProjectFails \/ Fanout
  \/ \E c \in Clients :
       \/ Subscribe(c) \/ Handoff(c) \/ Deliver(c) \/ StreamEnds(c)
       \/ Disconnect(c) \/ Refused(c) \/ Reopen(c)
  \/ ForeignAppend \/ Close \/ Restart

Spec == Init /\ [][Next]_vars

\* A publication runs to its end, a closed host is started again, and a client
\* reconnects, reads and applies: goroutines that nothing blocks for ever.
Fairness ==
  /\ WF_vars(AppendSucceeds \/ AppendFails \/ Project \/ Fanout)
  /\ WF_vars(closed /\ Restart)
  /\ \A c \in Clients :
       /\ SF_vars(Subscribe(c))
       /\ WF_vars(Handoff(c) \/ Deliver(c) \/ StreamEnds(c))

FairSpec == Spec /\ Fairness

-----------------------------------------------------------------------------
(* Properties *)

Numbers(s) == {s[i] : i \in DOMAIN s}

\* Types, and the channel never holds more than it was made for: neither the
\* handoff nor a fanout blocks while it holds mu.
HubTypeOK ==
  /\ log \in Seq(Events \cup {None})
  /\ last \in 0..Len(log) /\ pending \subseteq Stable /\ closed \in BOOLEAN
  /\ pub \in [phase : {"idle", "append", "project", "fanout"},
              id : Events \cup {None}, seq : Nat, last : Nat,
              attempt : 0..3, announce : BOOLEAN]
  /\ tried \subseteq Plain
  /\ \A c \in Clients :
       /\ sub[c].phase \in {"off", "replaying", "live", "desynchronized"}
       /\ Len(sub[c].events) <= sub[c].cap
       /\ cursor[c] \in 0..Len(log) /\ seen[c] \subseteq DOMAIN log
  /\ announced \cup failed \subseteq DOMAIN log /\ faults \in 0..MaxFaults

\* No gap between the frozen history and the live suffix: what a registered
\* subscription owes its client, of the history beyond the cursor it asked for
\* or of what was announced since, is applied or in the channel.
NoGap ==
  \A c \in Clients : sub[c].phase = "live" /\ sub[c].registered =>
    \A n \in DOMAIN log :
      (Own(n) /\ n > cursor[c] /\ (n <= sub[c].floor \/ n \in announced))
        => n \in Numbers(sub[c].events)

\* A stable event is stored once and reaches a channel once, however often its
\* publication fails, is retried, or is repeated by a restarted process.
NoDuplicate ==
  /\ \A id \in Stable :
       Cardinality({n \in DOMAIN log : log[n] = id}) <= 1
  /\ \A c \in Clients :
       Cardinality(Numbers(sub[c].events)) = Len(sub[c].events)

\* A client that resumes from its cursor sees no gap: everything its Runtime
\* stored up to the cursor was applied, but for events whose publication
\* reported an error and plain ones a failed append left in the store.
LosslessButFailed ==
  \A c \in Clients, n \in DOMAIN log :
    Own(n) /\ n <= cursor[c] => n \in seen[c] \cup failed

\* What is stored, and whose publication reported no error, reaches every
\* client that keeps coming back: no fence, dropped subscription or restart
\* loses it for ever.  A client whose stream was refused has stopped, and waits
\* for its user.
CatchesUp ==
  \A c \in Clients, k \in 1..(Cardinality(Events) + MaxForeign) :
    (k \in DOMAIN log /\ log[k] # None)
      ~> (k \in seen[c] \cup failed \/ sub[c].phase = "desynchronized")
=============================================================================
