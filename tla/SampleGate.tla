----------------------------- MODULE SampleGate -----------------------------
(***************************************************************************)
(* Who may send a request to the model provider, and when.                 *)
(*                                                                         *)
(* One session's engines (the turns of the parent and of its subagents,    *)
(* the guardian reviews and the session title, and the optional narrative  *)
(* summaries) share a SharedRateLimit: a channel of MaxConcurrent tokens,  *)
(* a count of the foreground work that is queued or active, and one        *)
(* cooldown fed by every 429.  Behind it the HTTP client's Controller      *)
(* paces the requests of the route and keeps the route's own cooldown.     *)
(*                                                                         *)
(* Every step between two acquisitions of a mutex or two channel           *)
(* operations is an action of its own, so the receive that one path makes  *)
(* under the mutex and another path makes without it can interleave.       *)
(* Deadlines are kept as the time that is left until them: Tick lets one   *)
(* unit pass, and a timer that has run down may fire late.                 *)
(***************************************************************************)
EXTENDS Integers, FiniteSets

CONSTANTS
  Turns,          \* engines that execute turns: their samples are foreground
  Reviews,        \* guardian reviews and titles: foreground, outside a turn
  Backgrounds,    \* post-turn narratives: yield to any foreground work
  MaxConcurrent,  \* execution.max_concurrent
  Interval,       \* the spacing execution.rate_limit asks for; 0 for none
  MaxDelay,       \* bound on every delay a provider or a backoff asks for
  None

ASSUME GateAssumption ==
  /\ MaxConcurrent \in Nat \ {0}
  /\ Interval \in Nat
  /\ MaxDelay \in Nat \ {0}
  /\ Interval <= MaxDelay
  /\ IsFiniteSet(Turns) /\ IsFiniteSet(Reviews) /\ IsFiniteSet(Backgrounds)
  /\ Turns \cap Reviews = {} /\ Turns \cap Backgrounds = {}
  /\ Reviews \cap Backgrounds = {}
  /\ None \notin Backgrounds

Foregrounds == Turns \cup Reviews
Samplers == Foregrounds \cup Backgrounds
Delays == 0..MaxDelay

VARIABLES
  pc,          \* where each sampler is
  timer,       \* the time left on the timer a sampler sleeps on
  delay,       \* the Retry-After a sampler has to report, then its retry's wait
  serving,     \* the engines inside Execute
  free,        \* tokens in the gate's channel
  foreground,  \* the gate's count of queued and active foreground work
  cooldown,    \* the time left until the gate's cooldownUntil
  canceled,    \* background samples whose context the gate has canceled
  mutex,       \* the background sampler that receives under the gate's mutex
  nextRequest, \* the time left until the route's nextRequest
  lastRequest, \* the time since the route's lastRequest
  penalty,     \* the route's penalty
  routed,      \* whether the Controller holds a state for the route
  owed         \* history: what is left of the Retry-After of a sampler's 429

gateVars == <<free, foreground, cooldown, canceled, mutex>>
routeVars == <<nextRequest, lastRequest, penalty, routed, owed>>
vars == <<pc, timer, delay, serving, gateVars, routeVars>>

(* A foreground sampler walks queued, cooling, ready ... giving, leaving;  *)
(* a background one polls, parks, receives, and is then registered.        *)
Waiting == {"out", "idle", "queued", "entering", "cooling"}
Calling == {"ready", "pacing", "paced", "flying", "streaming", "limited",
            "giving"}
PCs == Waiting \cup Calling \cup
       {"leaving", "resting", "polling", "parked", "receiving", "noting"}

Later(a, b) == IF a > b THEN a ELSE b
Earlier(a, b) == IF a < b THEN a ELSE b

(* The background samples in the gate's map, until their release deletes   *)
(* them.                                                                   *)
Registered == {b \in Backgrounds : pc[b] \in Calling}
InFlight == {s \in Samplers : pc[s] \in {"flying", "streaming"}}

Init ==
  /\ pc = [s \in Samplers |-> "out"]
  /\ timer = [s \in Samplers |-> 0]
  /\ delay = [s \in Samplers |-> 0]
  /\ serving = {}
  /\ free = MaxConcurrent
  /\ foreground = 0
  /\ cooldown = 0
  /\ canceled = {}
  /\ mutex = None
  /\ nextRequest = 0
  /\ lastRequest = 0
  /\ penalty = 0
  /\ routed = FALSE
  /\ owed = [s \in Samplers |-> 0]

Goes(s, at) == pc' = [pc EXCEPT ![s] = at]
Sleeps(s, d) == timer' = [timer EXCEPT ![s] = d]

(* A sampler that does not retry owes the provider no wait of its own.     *)
GivesUp(s) == owed' = [owed EXCEPT ![s] = 0]

-----------------------------------------------------------------------------
(* The gate's mutex is free for any critical section but the one of a      *)
(* background sampler that is in its receive.                              *)
Unlocked == mutex = None

(* notifyWaiters: closing `changed` wakes every sampler parked on it.      *)
Notified(p) ==
  [s \in Samplers |-> IF p[s] = "parked" THEN "polling" ELSE p[s]]

(* Mutant: the foreground is counted, and no background sample canceled.   *)
EnlistQuietly ==
  /\ Unlocked
  /\ foreground' = foreground + 1
  /\ UNCHANGED canceled

(* Acquire and BeginForegroundTurn: one more foreground, and every         *)
(* registered background sample is canceled.                               *)
Enlist ==
  /\ Unlocked
  /\ foreground' = foreground + 1
  /\ canceled' = canceled \cup Registered

(* Mutant: the count drops and no waiter is told.                          *)
DischargeQuietly(p) ==
  /\ Unlocked
  /\ foreground' = foreground - 1
  /\ pc' = p

(* finishForeground.                                                       *)
Discharge(p) ==
  /\ Unlocked
  /\ foreground' = foreground - 1
  /\ pc' = Notified(p)

(* Record: the delay lengthens the cooldown, never shortens it.            *)
Record(d) ==
  /\ Unlocked
  /\ cooldown' = Later(cooldown, d)

(* ObserveSuccess.                                                         *)
ObserveSuccess ==
  /\ Unlocked
  /\ cooldown' = 0

BeginTurn(t) ==
  /\ pc[t] = "out"
  /\ Enlist
  /\ serving' = serving \cup {t}
  /\ Goes(t, "idle")
  /\ UNCHANGED <<timer, delay, free, cooldown, mutex, routeVars>>

EndTurn(t) ==
  /\ pc[t] = "idle"
  /\ Discharge([pc EXCEPT ![t] = "out"])
  /\ serving' = serving \ {t}
  /\ UNCHANGED <<timer, delay, free, cooldown, canceled, mutex, routeVars>>

-----------------------------------------------------------------------------
(* Acquire.                                                                *)

AcquireBegins(s) ==
  /\ pc[s] = IF s \in Turns THEN "idle" ELSE "out"
  /\ Enlist
  /\ Goes(s, "queued")
  /\ UNCHANGED <<timer, delay, serving, free, cooldown, mutex, routeVars>>

(* The receive of Acquire's select: no mutex is held.                      *)
AcquireReceives(s) ==
  /\ pc[s] = "queued"
  /\ free > 0
  /\ free' = free - 1
  /\ Goes(s, "entering")
  /\ UNCHANGED <<timer, delay, serving, foreground, cooldown, canceled, mutex, routeVars>>

(* waitCooldown reads cooldownUntil once and sleeps that long.             *)
WaitCooldown(s) ==
  /\ pc[s] = "entering"
  /\ Unlocked
  /\ Sleeps(s, cooldown)
  /\ Goes(s, IF cooldown = 0 THEN "ready" ELSE "cooling")
  /\ UNCHANGED <<delay, serving, gateVars, routeVars>>

Cooled(s) ==
  /\ pc[s] = "cooling"
  /\ timer[s] = 0
  /\ Goes(s, "ready")
  /\ UNCHANGED <<timer, delay, serving, gateVars, routeVars>>

(* Mutant: a queued sampler gives back a token it never had.               *)
AbandonUnacquired(s) ==
  /\ \/ pc[s] \in {"queued", "ready", "pacing", "paced", "flying", "streaming"}
     \/ pc[s] = "cooling" /\ s \in Foregrounds
  /\ Goes(s, "giving")
  /\ Sleeps(s, 0)
  /\ UNCHANGED <<delay, serving, gateVars, routeVars>>

(* Mutant: a sampler whose cooldown wait is canceled keeps its token.      *)
AbandonLeaks(s) ==
  /\ pc[s] \in {"queued", "cooling"}
  /\ s \in Foregrounds
  /\ Goes(s, "leaving")
  /\ Sleeps(s, 0)
  /\ UNCHANGED <<delay, serving, gateVars, routeVars>>

(* The context is done, or a check before the request fails: while queued, *)
(* cooling, pacing, waiting for a connection, or under the request; a      *)
(* background sampler may also give up before it has a slot.               *)
Abandon(s) ==
  /\ \/ pc[s] = "queued" /\ Goes(s, "leaving")
     \/ /\ \/ pc[s] \in {"ready", "pacing", "paced", "flying", "streaming"}
           \/ pc[s] = "cooling" /\ s \in Foregrounds
        /\ Goes(s, "giving")
     \/ /\ s \in Backgrounds
        /\ pc[s] \in {"polling", "parked", "cooling", "resting"}
        /\ Goes(s, "out")
  /\ Sleeps(s, 0)
  /\ GivesUp(s)
  /\ UNCHANGED <<delay, serving, gateVars, nextRequest, lastRequest, penalty,
                 routed>>

-----------------------------------------------------------------------------
(* The release of a foreground sampler: the token first, then the count.   *)

GiveBack(s) ==
  /\ s \in Foregrounds
  /\ pc[s] = "giving"
  /\ free' = free + 1
  /\ Goes(s, "leaving")
  /\ UNCHANGED <<timer, delay, serving, foreground, cooldown, canceled, mutex, routeVars>>

Leave(s) ==
  /\ s \in Foregrounds
  /\ pc[s] = "leaving"
  /\ Discharge([pc EXCEPT ![s] = "resting"])
  /\ Sleeps(s, delay[s])
  /\ delay' = [delay EXCEPT ![s] = 0]
  /\ UNCHANGED <<serving, free, cooldown, canceled, mutex,
                 routeVars>>

(* waitRetryDelay after the attempt; it is zero unless a retry waits.      *)
Rested(s) ==
  /\ pc[s] = "resting"
  /\ timer[s] = 0
  /\ Goes(s, CASE s \in Turns -> "idle"
               [] s \in Reviews -> "out"
               [] s \in Backgrounds -> "polling")
  /\ UNCHANGED <<timer, delay, serving, gateVars, routeVars>>

(* A canceled turn does not sit out its retry delay: it ends.              *)
StopResting(t) ==
  /\ pc[t] = "resting"
  /\ timer[t] > 0
  /\ Discharge([pc EXCEPT ![t] = "out"])
  /\ Sleeps(t, 0)
  /\ serving' = serving \ {t}
  /\ GivesUp(t)
  /\ UNCHANGED <<delay, free, cooldown, canceled, mutex, nextRequest,
                 lastRequest, penalty, routed>>

-----------------------------------------------------------------------------
(* AcquireBackground.                                                      *)

BackgroundBegins(b) ==
  /\ pc[b] = "out"
  /\ Goes(b, "polling")
  /\ UNCHANGED <<timer, delay, serving, gateVars, routeVars>>

(* The critical section up to the receive, which keeps the mutex.          *)
Poll(b) ==
  /\ pc[b] = "polling"
  /\ Unlocked
  /\ IF foreground # 0 \/ free = 0
       THEN /\ Goes(b, "parked")
            /\ UNCHANGED <<timer, mutex>>
       ELSE IF cooldown > 0
              THEN /\ Goes(b, "cooling")
                   /\ Sleeps(b, cooldown)
                   /\ UNCHANGED mutex
              ELSE /\ Goes(b, "receiving")
                   /\ mutex' = b
                   /\ UNCHANGED timer
  /\ UNCHANGED <<delay, serving, free, foreground, cooldown, canceled,
                 routeVars>>

BackgroundCooled(b) ==
  /\ pc[b] = "cooling"
  /\ timer[b] = 0
  /\ Goes(b, "polling")
  /\ UNCHANGED <<timer, delay, serving, gateVars, routeVars>>

BackgroundReceives(b) ==
  /\ pc[b] = "receiving"
  /\ free > 0
  /\ free' = free - 1
  /\ mutex' = None
  /\ Goes(b, "ready")
  /\ UNCHANGED <<timer, delay, serving, foreground, cooldown, canceled,
                 routeVars>>

(* The release of a background sampler, all of it under the mutex.  A 429  *)
(* is recorded by the caller afterwards.                                   *)
BackgroundReleases(b) ==
  /\ pc[b] \in {"giving", "limited"}
  /\ Unlocked
  /\ free' = free + 1
  /\ canceled' = canceled \ {b}
  /\ pc' = Notified([pc EXCEPT ![b] = IF pc[b] = "limited" THEN "noting" ELSE "out"])
  /\ UNCHANGED <<timer, delay, serving, foreground, cooldown, mutex,
                 routeVars>>

-----------------------------------------------------------------------------
(* The Controller of the route.                                            *)

(* Controller.state: a route without state starts with lastRequest now.    *)
Elapsed == IF routed THEN lastRequest ELSE 0

(* Controller.Wait: one pass of its loop.                                  *)
Pace(s) ==
  /\ pc[s] = "ready"
  /\ routed' = TRUE
  /\ IF nextRequest = 0
       THEN /\ nextRequest' = Later(Interval, penalty)
            /\ lastRequest' = 0
            /\ Goes(s, "paced")
            /\ UNCHANGED timer
       ELSE /\ Sleeps(s, nextRequest)
            /\ lastRequest' = Elapsed
            /\ Goes(s, "pacing")
            /\ UNCHANGED nextRequest
  /\ UNCHANGED <<delay, serving, gateVars, penalty, owed>>

Paced(s) ==
  /\ pc[s] = "pacing"
  /\ timer[s] = 0
  /\ Goes(s, "ready")
  /\ UNCHANGED <<timer, delay, serving, gateVars, routeVars>>

(* Client.acquire, and the request goes out unless its context is done.    *)
Send(s) ==
  /\ pc[s] = "paced"
  /\ s \notin canceled
  /\ Cardinality(InFlight) < MaxConcurrent
  /\ Goes(s, "flying")
  /\ UNCHANGED <<timer, delay, serving, gateVars, routeVars>>

(* Controller.Observe of a 429: the delay the provider asks for, or one    *)
(* that grows from the time the request took and the last penalty.         *)
ObserveLimited(h) ==
  LET base == Later(1, Later(Elapsed, Interval))
      grown == Later(base, IF penalty > 0 THEN 2 * penalty ELSE 0)
      cool == IF h > 0 THEN h ELSE Earlier(grown, MaxDelay)
  IN  /\ penalty' = cool
      /\ nextRequest' = Later(nextRequest, cool)
      /\ lastRequest' = Elapsed
      /\ routed' = TRUE

(* Mutant: a success lets the next request go at once.                     *)
ObserveServedAtOnce(h) ==
  /\ penalty' = h
  /\ nextRequest' = h
  /\ lastRequest' = Elapsed
  /\ routed' = ~(h = 0 /\ Interval = 0)

(* Controller.Observe of a success, with or without a Retry-After; a route *)
(* that is not paced is forgotten.                                         *)
ObserveServed(h) ==
  /\ penalty' = h
  /\ nextRequest' = IF h > 0 THEN Later(nextRequest, h)
                             ELSE Earlier(nextRequest, Interval)
  /\ lastRequest' = Elapsed
  /\ routed' = ~(h = 0 /\ Interval = 0)

(* Observe of any other status only looks the route up.                    *)
ObserveFailed ==
  /\ lastRequest' = Elapsed
  /\ routed' = TRUE
  /\ UNCHANGED <<nextRequest, penalty>>

Respond(s) ==
  /\ pc[s] = "flying"
  /\ \/ \E h \in Delays :
          /\ ObserveLimited(h)
          /\ delay' = [delay EXCEPT ![s] = h]
          /\ owed' = [owed EXCEPT ![s] = h]
          /\ Goes(s, "limited")
     \/ /\ \E h \in Delays : ObserveServed(h)
        /\ Goes(s, "streaming")
        /\ UNCHANGED <<delay, owed>>
     \/ /\ ObserveFailed \/ UNCHANGED routeVars
        /\ Goes(s, "giving")
        /\ UNCHANGED <<delay, owed>>
  /\ UNCHANGED <<timer, serving, gateVars>>

(* The stream ends.  A turn's sample that succeeded, or that failed with   *)
(* user input pending, clears the gate's cooldown; a stream may still end  *)
(* in a rate limit of its own.                                             *)
StreamEnds(s) ==
  /\ pc[s] = "streaming"
  /\ \/ /\ s \in Turns
        /\ ObserveSuccess
        /\ Goes(s, "giving")
        /\ UNCHANGED delay
     \/ /\ Goes(s, "giving")
        /\ UNCHANGED <<delay, cooldown>>
     \/ /\ Goes(s, "limited")
        /\ delay' = [delay EXCEPT ![s] = 0]
        /\ UNCHANGED <<cooldown>>
  /\ UNCHANGED <<timer, serving, free, foreground, canceled, mutex, routeVars>>

(* Mutant: a retry waits out the window of the route, and no more.         *)
RetryDelayOfRoute(s, b) ==
  IF s \in Turns THEN Later(b, nextRequest)
                 ELSE IF delay[s] > 0 THEN delay[s] ELSE b

(* The delay a retry waits: the provider's, else a backoff, and for a turn *)
(* no less than the route's own cooldown.                                  *)
Backoffs == 1..MaxDelay
RetryDelay(s, b) ==
  LET asked == IF delay[s] > 0 THEN delay[s] ELSE b
  IN  IF s \in Turns THEN Later(asked, nextRequest) ELSE asked

(* A foreground sampler reports its 429 before it releases its slot: a     *)
(* turn that retries records the delay it will wait, one that gives up and *)
(* a review record the provider's; a turn that is canceled or refused by   *)
(* admission records nothing.                                              *)
NoteRateLimit(s) ==
  /\ s \in Foregrounds
  /\ pc[s] = "limited"
  /\ \/ \E b \in Backoffs :
          /\ s \in Turns
          /\ Record(RetryDelay(s, b))
          /\ delay' = [delay EXCEPT ![s] = RetryDelay(s, b)]
          /\ UNCHANGED owed
     \/ /\ Record(delay[s]) \/ (s \in Turns /\ UNCHANGED cooldown)
        /\ delay' = [delay EXCEPT ![s] = 0]
        /\ GivesUp(s)
  /\ Goes(s, "giving")
  /\ UNCHANGED <<timer, serving, free, foreground, canceled, mutex, nextRequest,
                 lastRequest, penalty, routed>>

(* A narrative that retries records the 429 after its slot is gone; one    *)
(* that gives up records nothing.                                          *)
BackgroundNotes(b) ==
  /\ pc[b] = "noting"
  /\ \/ \E d \in Backoffs :
          /\ Record(RetryDelay(b, d))
          /\ Sleeps(b, RetryDelay(b, d))
          /\ Goes(b, "resting")
          /\ UNCHANGED owed
     \/ Goes(b, "out") /\ GivesUp(b) /\ UNCHANGED <<timer, cooldown>>
  /\ delay' = [delay EXCEPT ![b] = 0]
  /\ UNCHANGED <<serving, free, foreground, canceled, mutex, nextRequest,
                 lastRequest, penalty, routed>>

-----------------------------------------------------------------------------
Sooner(d) == IF d > 0 THEN d - 1 ELSE 0

Tick ==
  /\ timer' = [s \in Samplers |-> Sooner(timer[s])]
  /\ cooldown' = Sooner(cooldown)
  /\ owed' = [s \in Samplers |-> Sooner(owed[s])]
  /\ nextRequest' = Sooner(nextRequest)
  /\ lastRequest' = IF routed THEN Earlier(lastRequest + 1, MaxDelay) ELSE 0
  /\ UNCHANGED <<pc, delay, serving, free, foreground, canceled, mutex, penalty,
                 routed>>

Progress(s) == Pace(s) \/ Paced(s) \/ Send(s) \/ Respond(s) \/ StreamEnds(s)

Call(s) == Abandon(s) \/ Progress(s) \/ Rested(s)

Acquire(s) ==
  \/ AcquireBegins(s) \/ AcquireReceives(s) \/ WaitCooldown(s) \/ Cooled(s)
  \/ NoteRateLimit(s) \/ GiveBack(s) \/ Leave(s)

AcquireBackground(b) ==
  \/ BackgroundBegins(b) \/ Poll(b) \/ BackgroundCooled(b) \/ BackgroundReceives(b)
  \/ BackgroundReleases(b) \/ BackgroundNotes(b)

Next ==
  \/ \E t \in Turns : BeginTurn(t) \/ EndTurn(t) \/ StopResting(t)
  \/ \E s \in Foregrounds : Acquire(s)
  \/ \E b \in Backgrounds : AcquireBackground(b)
  \/ \E s \in Samplers : Call(s)
  \/ Tick

GateSpec == Init /\ [][Next]_vars

(* The scheduler runs every goroutine that can run, a timer that has run   *)
(* down fires, a canceled request returns, a request ends (the client's    *)
(* header and idle timeouts see to that), and neither a channel nor a      *)
(* mutex lets the goroutine that waits on it be overtaken for ever.        *)
Fairness ==
  /\ WF_vars(Tick)
  /\ \A s \in Foregrounds :
       SF_vars(AcquireReceives(s) \/ WaitCooldown(s) \/ Cooled(s) \/ Progress(s)
                 \/ NoteRateLimit(s) \/ GiveBack(s) \/ Leave(s))
  /\ \A b \in Backgrounds :
       SF_vars(BackgroundReceives(b) \/ Progress(b) \/ (b \in canceled /\ Abandon(b))
                 \/ BackgroundReleases(b))

FairGateSpec == GateSpec /\ Fairness

-----------------------------------------------------------------------------
(* The values the program can hold; the channel never has more tokens than *)
(* its capacity, so a send to it never blocks, and a count of foreground   *)
(* work is never negative.                                                 *)
GateTypeOK ==
  /\ pc \in [Samplers -> PCs]
  /\ timer \in [Samplers -> Delays]
  /\ delay \in [Samplers -> Delays]
  /\ serving \subseteq Turns
  /\ free \in 0..MaxConcurrent
  /\ foreground \in Nat
  /\ cooldown \in Delays /\ owed \in [Samplers -> Delays]
  /\ canceled \subseteq Backgrounds
  /\ mutex \in Backgrounds \cup {None}
  /\ nextRequest \in Delays /\ lastRequest \in Delays /\ penalty \in Delays
  /\ routed \in BOOLEAN

(* "AcquireBackground yields to both queued and active foreground work":   *)
(* while any foreground work is counted, every background sample that      *)
(* holds a slot has been canceled, whichever of the two came first.        *)
BackgroundYields == foreground # 0 => Registered \subseteq canceled

(* A background sampler never hangs.  It receives a token while it holds   *)
(* the gate's mutex, and Acquire receives without the mutex: were the last *)
(* token taken in between, the mutex would never be released and the       *)
(* session would never sample again.  And it is parked only while what it  *)
(* waits for has not happened: a foreground sampler returns its token      *)
(* outside the mutex, before the notification.                             *)
BackgroundNeverHangs ==
  /\ mutex # None => free > 0
  /\ \A b \in Backgrounds : pc[b] = "parked" => foreground # 0 \/ free = 0

(* A reset of the pacing by the success of an older request, or by a       *)
(* cooldown that ends, never lets two requests of the route leave closer   *)
(* together than execution.rate_limit asks for.                            *)
PacedApart == routed => nextRequest + lastRequest >= Interval

(* A sampler that retries a 429 has waited out the Retry-After of that 429 *)
(* before it queues for a slot again, although a success of an older       *)
(* request, of a turn or of any sampler, ends the cooldown of the gate and *)
(* of the route in the meantime.                                           *)
RetryWaits ==
  \A s \in Samplers :
    owed[s] > 0 => pc[s] \in {"limited", "giving", "leaving", "resting", "noting"}

(* A foreground sampler that queues for a slot gets one or gives up.       *)
QueuedIsServed ==
  \A s \in Foregrounds : pc[s] = "queued" ~> pc[s] # "queued"

=============================================================================
