-------------------------- MODULE SampleGateProofs --------------------------
(***************************************************************************)
(* The safety of the sample gate and of the route's pacing, for any number *)
(* of samplers, slots and any delays.                                      *)
(*                                                                         *)
(* None of the gate's invariants is inductive alone.  A background sampler *)
(* that receives under the mutex is safe because every sampler that could  *)
(* take the token in between is counted in `foreground`, and it saw zero;  *)
(* so the count must be shown to be exact (Counted), and so must the       *)
(* tokens (Slots).                                                         *)
(***************************************************************************)
EXTENDS SampleGate, FiniteSetTheorems, TLAPS

EnlistedAt == {"queued", "entering", "cooling", "leaving"} \cup Calling
HeldAt == {"entering", "cooling"} \cup Calling

(* The foreground samplers between Enlist and Discharge, and the samplers  *)
(* that hold a token.                                                      *)
Enlisted == {s \in Foregrounds : pc[s] \in EnlistedAt}
Holders == {s \in Foregrounds : pc[s] \in HeldAt} \cup Registered

Types ==
  /\ pc \in [Samplers -> PCs]
  /\ timer \in [Samplers -> Delays]
  /\ delay \in [Samplers -> Delays]
  /\ serving \subseteq Turns
  /\ free \in Nat /\ foreground \in Nat
  /\ cooldown \in Delays /\ owed \in [Samplers -> Delays]
  /\ canceled \subseteq Backgrounds
  /\ mutex \in Backgrounds \cup {None}
  /\ nextRequest \in Delays /\ lastRequest \in Delays /\ penalty \in Delays
  /\ routed \in BOOLEAN

Counted == foreground = Cardinality(serving) + Cardinality(Enlisted)
Slots == free + Cardinality(Holders) = MaxConcurrent
Serving == \A t \in Turns : pc[t] = "out" <=> t \notin serving

Locked ==
  /\ mutex # None => foreground = 0 /\ free > 0
  /\ \A b \in Backgrounds : pc[b] = "receiving" => mutex = b

Parked == \A b \in Backgrounds : pc[b] = "parked" => foreground # 0 \/ free = 0

(* What the gate's part of the state satisfies.                            *)
Gate == Counted /\ Slots /\ Serving /\ Locked /\ Parked /\ BackgroundYields

(* A paced route has a state from its first request on.                    *)
Routed ==
  /\ ~routed => nextRequest = 0
  /\ Interval > 0 => \A s \in Samplers : pc[s] \in {"paced", "flying"} => routed

Route == Routed /\ PacedApart

(* What a sampler still owes it has yet to wait, with the delay it will    *)
(* sleep or on the timer it sleeps on.                                     *)
Owing ==
  \A s \in Samplers : owed[s] > 0 =>
    \/ /\ pc[s] \in {"limited", "giving", "leaving", "noting"}
       /\ s \in Backgrounds => pc[s] \in {"limited", "noting"}
       /\ owed[s] <= delay[s]
    \/ pc[s] = "resting" /\ owed[s] <= timer[s]

IInv == Types /\ Gate /\ Route /\ Owing
-----------------------------------------------------------------------------
(* Counting.                                                               *)

(* One more element.                                                       *)
LEMMA CardGrows ==
  ASSUME NEW S, IsFiniteSet(S), NEW x, x \notin S
  PROVE  IsFiniteSet(S \cup {x}) /\ Cardinality(S \cup {x}) = Cardinality(S) + 1
BY FS_AddElement

(* One element less.                                                       *)
LEMMA CardShrinks ==
  ASSUME NEW S, IsFiniteSet(S), NEW x \in S
  PROVE  /\ IsFiniteSet(S \ {x}) /\ Cardinality(S \ {x}) = Cardinality(S) - 1
         /\ Cardinality(S) > 0
<1>1. Cardinality(S \ {x}) = Cardinality(S) - 1 /\ IsFiniteSet(S \ {x})
  BY FS_RemoveElement
<1>2. Cardinality(S) \in Nat /\ Cardinality(S \ {x}) \in Nat
  BY <1>1, FS_CardinalityType
<1> QED  BY <1>1, <1>2

(* What is counted is finite, and its size a natural number.               *)
LEMMA Finite ==
  ASSUME Types
  PROVE  /\ IsFiniteSet(serving) /\ Cardinality(serving) \in Nat
         /\ IsFiniteSet(Enlisted) /\ Cardinality(Enlisted) \in Nat
         /\ IsFiniteSet(Holders) /\ Cardinality(Holders) \in Nat
<1>1. IsFiniteSet(Foregrounds) /\ IsFiniteSet(Samplers)
  BY GateAssumption, FS_Union DEF Foregrounds, Samplers
<1>2. serving \subseteq Turns /\ Enlisted \subseteq Foregrounds /\ Holders \subseteq Samplers
  BY DEF Types, Enlisted, Holders, Registered, Samplers
<1>3. IsFiniteSet(serving) /\ IsFiniteSet(Enlisted) /\ IsFiniteSet(Holders)
  BY <1>1, <1>2, GateAssumption, FS_Subset
<1> QED  BY <1>3, FS_CardinalityType

(* A sampler that is counted keeps the count from being zero.              *)
LEMMA SomeForeground ==
  ASSUME Types, Counted, NEW s, s \in Enlisted \/ s \in serving
  PROVE  foreground > 0
<1>1. s \in Enlisted => Cardinality(Enlisted) > 0
  BY Finite, CardShrinks
<1>2. s \in serving => Cardinality(serving) > 0
  BY Finite, CardShrinks
<1> QED  BY <1>1, <1>2, Finite DEF Counted

(* A move of one sampler that changes neither what is counted nor what is  *)
(* held, and neither parks nor locks.                                      *)
Harmless(s) ==
  /\ pc' = [pc EXCEPT ![s] = pc'[s]]
  /\ s \in Foregrounds => (pc[s] \in EnlistedAt <=> pc'[s] \in EnlistedAt)
  /\ s \in Foregrounds => (pc[s] \in HeldAt <=> pc'[s] \in HeldAt)
  /\ s \in Backgrounds => (pc[s] \in Calling <=> pc'[s] \in Calling)
  /\ s \in Turns => (pc[s] = "out" <=> pc'[s] = "out")
  /\ pc'[s] \notin {"parked", "receiving"}
  /\ UNCHANGED <<free, foreground, canceled, mutex, serving>>

(* Such a move keeps what is known of the gate.                            *)
LEMMA Move ==
  ASSUME Types, Gate, NEW s \in Samplers, Harmless(s)
  PROVE  Gate'
<1> USE DEF Harmless
<1>1. \A r \in Samplers : r # s => pc'[r] = pc[r]
  BY DEF Types
<1>2. Enlisted' = Enlisted
  BY <1>1 DEF Enlisted, Foregrounds, Samplers
<1>3. Registered' = Registered
  BY <1>1 DEF Registered, Samplers
<1>4. Holders' = Holders
  BY <1>1, <1>3 DEF Holders, Foregrounds, Samplers
<1>5. Counted' /\ Slots'
  BY <1>2, <1>4 DEF Gate, Counted, Slots
<1>6. Serving'
  BY <1>1 DEF Gate, Serving, Samplers, Foregrounds
<1>7. Locked' /\ Parked'
  BY <1>1 DEF Gate, Locked, Parked, Samplers
<1>8. BackgroundYields'
  BY <1>3 DEF Gate, BackgroundYields
<1> QED  BY <1>5, <1>6, <1>7, <1>8 DEF Gate

-----------------------------------------------------------------------------
(* Types.                                                                  *)

(* The arithmetic of delays stays within MaxDelay.                         *)
LEMMA DelayArithmetic ==
  /\ MaxDelay \in Nat /\ MaxDelay > 0 /\ Interval \in Delays
  /\ 0 \in Delays /\ 1 \in Delays /\ Backoffs \subseteq Delays
  /\ \A a, b \in Delays : Later(a, b) \in Delays /\ Earlier(a, b) \in Delays
  /\ \A a \in Delays : Sooner(a) \in Delays
BY GateAssumption DEF Delays, Later, Earlier, Sooner, Backoffs

(* The delays a retry waits and a 429 asks for.                            *)
LEMMA DelayTypes ==
  ASSUME Types
  PROVE  /\ \A s \in Samplers, b \in Backoffs : RetryDelay(s, b) \in Delays
         /\ Elapsed \in Delays
         /\ \A h \in Delays :
              (ObserveLimited(h) \/ ObserveServed(h)) =>
                /\ nextRequest' \in Delays /\ lastRequest' \in Delays
                /\ penalty' \in Delays /\ routed' \in BOOLEAN
<1> USE GateAssumption, DelayArithmetic
<1>1. \A s \in Samplers, b \in Backoffs : RetryDelay(s, b) \in Delays
  BY DEF RetryDelay, Types
<1>2. Elapsed \in Delays
  BY DEF Elapsed, Types
<1>3. ASSUME NEW h \in Delays, ObserveServed(h)
      PROVE  /\ nextRequest' \in Delays /\ lastRequest' \in Delays
             /\ penalty' \in Delays /\ routed' \in BOOLEAN
  BY <1>2, <1>3 DEF ObserveServed, Types
<1>4. ASSUME NEW h \in Delays, ObserveLimited(h)
      PROVE  /\ nextRequest' \in Delays /\ lastRequest' \in Delays
             /\ penalty' \in Delays /\ routed' \in BOOLEAN
  <2> DEFINE base == Later(1, Later(Elapsed, Interval))
             grown == Later(base, IF penalty > 0 THEN 2 * penalty ELSE 0)
             cool == IF h > 0 THEN h ELSE Earlier(grown, MaxDelay)
  <2>1. base \in Nat /\ grown \in Nat
    BY <1>2 DEF Later, Types, Delays
  <2>2. cool \in Delays
    BY <2>1 DEF Earlier, Delays
  <2> QED  BY <1>2, <1>4, <2>2 DEF ObserveLimited, Types
<1> QED  BY <1>1, <1>2, <1>3, <1>4

(* Types are kept; a count is lowered only while somebody is counted.       *)
LEMMA TypesStep ==
  ASSUME Types, Gate, Next
  PROVE  Types'
<1> USE DelayArithmetic, DelayTypes, GateAssumption
<1>1. ASSUME NEW t \in Turns, BeginTurn(t) PROVE Types'
  BY <1>1 DEF BeginTurn, Types, Goes, Sleeps, PCs, Waiting, Calling, gateVars, routeVars, Samplers, Foregrounds, Enlist, Registered
<1>2. ASSUME NEW t \in Turns, EndTurn(t) PROVE Types'
  <2>1. t \in Enlisted \/ t \in serving
    BY <1>2 DEF EndTurn, Enlisted, EnlistedAt, Gate, Serving, Foregrounds
  <2>2. foreground - 1 \in Nat
    BY <2>1, SomeForeground DEF Gate, Types
  <2> QED  BY <1>2, <2>2 DEF EndTurn, Types, Goes, Sleeps, PCs, Waiting, Calling, gateVars, routeVars, Samplers, Foregrounds, Discharge, Notified
<1>3. ASSUME NEW t \in Turns, StopResting(t) PROVE Types'
  <2>1. t \in Enlisted \/ t \in serving
    BY <1>3 DEF StopResting, Enlisted, EnlistedAt, Gate, Serving, Foregrounds
  <2>2. foreground - 1 \in Nat
    BY <2>1, SomeForeground DEF Gate, Types
  <2> QED  BY <1>3, <2>2 DEF StopResting, GivesUp, Types, Goes, Sleeps, PCs, Waiting, Calling, gateVars, routeVars, Samplers, Foregrounds, Discharge, Notified
<1>4. ASSUME NEW s \in Foregrounds, AcquireBegins(s) PROVE Types'
  BY <1>4 DEF AcquireBegins, Types, Goes, Sleeps, PCs, Waiting, Calling, gateVars, routeVars, Samplers, Foregrounds, Enlist, Registered
<1>5. ASSUME NEW s \in Foregrounds, AcquireReceives(s) PROVE Types'
  BY <1>5 DEF AcquireReceives, Types, Goes, Sleeps, PCs, Waiting, Calling, gateVars, routeVars, Samplers, Foregrounds
<1>6. ASSUME NEW s \in Foregrounds, WaitCooldown(s) PROVE Types'
  BY <1>6 DEF WaitCooldown, Types, Goes, Sleeps, PCs, Waiting, Calling, gateVars, routeVars, Samplers, Foregrounds
<1>7. ASSUME NEW s \in Foregrounds, Cooled(s) PROVE Types'
  BY <1>7 DEF Cooled, Types, Goes, Sleeps, PCs, Waiting, Calling, gateVars, routeVars, Samplers, Foregrounds
<1>8. ASSUME NEW s \in Foregrounds, NoteRateLimit(s) PROVE Types'
  <2>1. ASSUME NEW d \in Delays, Record(d) PROVE cooldown' \in Delays
    BY <2>1 DEF Record, Types
  <2>2. \A d \in Delays : [delay EXCEPT ![s] = d] \in [Samplers -> Delays]
    BY DEF Types
  <2>3. s \in Samplers /\ delay[s] \in Delays
    BY DEF Types, Samplers
  <2>4. delay' \in [Samplers -> Delays] /\ cooldown' \in Delays
    <3>1. CASE \E b \in Backoffs : /\ Record(RetryDelay(s, b))
                                  /\ delay' = [delay EXCEPT ![s] = RetryDelay(s, b)]
      BY <3>1, <2>1, <2>2, <2>3
    <3>2. CASE Record(delay[s]) /\ delay' = [delay EXCEPT ![s] = 0]
      BY <3>2, <2>1, <2>2, <2>3
    <3>3. CASE delay' = [delay EXCEPT ![s] = 0] /\ UNCHANGED cooldown
      BY <3>3, <2>2 DEF Types
    <3> QED  BY <1>8, <3>1, <3>2, <3>3 DEF NoteRateLimit
  <2> QED  BY <1>8, <2>4 DEF NoteRateLimit, GivesUp, Types, Goes, Sleeps, PCs, Waiting, Calling, gateVars, routeVars, Samplers, Foregrounds
<1>9. ASSUME NEW s \in Foregrounds, GiveBack(s) PROVE Types'
  BY <1>9 DEF GiveBack, Types, Goes, Sleeps, PCs, Waiting, Calling, gateVars, routeVars, Samplers, Foregrounds
<1>10. ASSUME NEW s \in Foregrounds, Leave(s) PROVE Types'
  <2>1. s \in Enlisted \/ s \in serving
    BY <1>10 DEF Leave, Enlisted, EnlistedAt, Gate, Serving, Foregrounds
  <2>2. foreground - 1 \in Nat
    BY <2>1, SomeForeground DEF Gate, Types
  <2> QED  BY <1>10, <2>2 DEF Leave, Types, Goes, Sleeps, PCs, Waiting, Calling, gateVars, routeVars, Samplers, Foregrounds, Discharge, Notified
<1>11. ASSUME NEW b \in Backgrounds, BackgroundBegins(b) PROVE Types'
  BY <1>11 DEF BackgroundBegins, Types, Goes, Sleeps, PCs, Waiting, Calling, gateVars, routeVars, Samplers, Foregrounds
<1>12. ASSUME NEW b \in Backgrounds, Poll(b) PROVE Types'
  BY <1>12 DEF Poll, Types, Goes, Sleeps, PCs, Waiting, Calling, gateVars, routeVars, Samplers, Foregrounds
<1>13. ASSUME NEW b \in Backgrounds, BackgroundCooled(b) PROVE Types'
  BY <1>13 DEF BackgroundCooled, Types, Goes, Sleeps, PCs, Waiting, Calling, gateVars, routeVars, Samplers, Foregrounds
<1>14. ASSUME NEW b \in Backgrounds, BackgroundReceives(b) PROVE Types'
  BY <1>14 DEF BackgroundReceives, Types, Goes, Sleeps, PCs, Waiting, Calling, gateVars, routeVars, Samplers, Foregrounds
<1>15. ASSUME NEW b \in Backgrounds, BackgroundReleases(b) PROVE Types'
  BY <1>15 DEF BackgroundReleases, Types, Goes, Sleeps, PCs, Waiting, Calling, gateVars, routeVars, Samplers, Foregrounds, Notified
<1>16. ASSUME NEW b \in Backgrounds, BackgroundNotes(b) PROVE Types'
  <2>1. ASSUME NEW d \in Delays, Record(d) PROVE cooldown' \in Delays
    BY <2>1 DEF Record, Types
  <2>2. b \in Samplers
    BY DEF Samplers
  <2>3. timer' \in [Samplers -> Delays] /\ cooldown' \in Delays
    <3>1. CASE \E d \in Backoffs : Record(RetryDelay(b, d)) /\ Sleeps(b, RetryDelay(b, d))
      <4>1. PICK d \in Delays : Record(d) /\ Sleeps(b, d)
        BY <3>1, <2>2
      <4> QED  BY <4>1, <2>1 DEF Sleeps, Types
    <3>2. CASE UNCHANGED <<timer, cooldown>>
      BY <3>2 DEF Types
    <3> QED  BY <1>16, <3>1, <3>2 DEF BackgroundNotes
  <2> QED  BY <1>16, <2>3 DEF BackgroundNotes, GivesUp, Types, Goes, Sleeps, PCs, Waiting, Calling, gateVars, routeVars, Samplers, Foregrounds
<1>17. ASSUME NEW s \in Samplers, Abandon(s) PROVE Types'
  BY <1>17 DEF Abandon, GivesUp, Types, Goes, Sleeps, PCs, Waiting, Calling, gateVars, routeVars, Samplers, Foregrounds
<1>18. ASSUME NEW s \in Samplers, Pace(s) PROVE Types'
  BY <1>18 DEF Pace, Types, Goes, Sleeps, PCs, Waiting, Calling, gateVars, routeVars, Samplers, Foregrounds
<1>19. ASSUME NEW s \in Samplers, Paced(s) PROVE Types'
  BY <1>19 DEF Paced, Types, Goes, Sleeps, PCs, Waiting, Calling, gateVars, routeVars, Samplers, Foregrounds
<1>20. ASSUME NEW s \in Samplers, Send(s) PROVE Types'
  BY <1>20 DEF Send, Types, Goes, Sleeps, PCs, Waiting, Calling, gateVars, routeVars, Samplers, Foregrounds
<1>21. ASSUME NEW s \in Samplers, Respond(s) PROVE Types'
  <2>1. /\ nextRequest' \in Delays /\ lastRequest' \in Delays
        /\ penalty' \in Delays /\ routed' \in BOOLEAN
    <3>1. CASE \E h \in Delays : ObserveLimited(h) \/ ObserveServed(h)
      BY <3>1
    <3>2. CASE ObserveFailed \/ UNCHANGED routeVars
      BY <3>2 DEF ObserveFailed, routeVars, Types
    <3> QED  BY <1>21, <3>1, <3>2 DEF Respond
  <2>2. /\ pc' \in [Samplers -> PCs] /\ delay' \in [Samplers -> Delays]
        /\ owed' \in [Samplers -> Delays]
    BY <1>21 DEF Respond, Goes, Types, PCs, Calling
  <2> QED  BY <1>21, <2>1, <2>2 DEF Respond, gateVars, Types
<1>22. ASSUME NEW s \in Samplers, StreamEnds(s) PROVE Types'
  BY <1>22 DEF StreamEnds, Types, Goes, Sleeps, PCs, Waiting, Calling, gateVars, routeVars, Samplers, Foregrounds, ObserveSuccess
<1>23. ASSUME NEW s \in Samplers, Rested(s) PROVE Types'
  BY <1>23 DEF Rested, Types, Goes, Sleeps, PCs, Waiting, Calling, gateVars, routeVars, Samplers, Foregrounds
<1>24. CASE Tick
  <2>1. timer' \in [Samplers -> Delays] /\ owed' \in [Samplers -> Delays]
    BY <1>24 DEF Tick, Types
  <2>2. lastRequest' \in Delays
    BY <1>24 DEF Tick, Types, Earlier, Delays
  <2> QED  BY <1>24, <2>1, <2>2 DEF Tick, Types
<1> QED
  BY <1>1, <1>2, <1>3, <1>4, <1>5, <1>6, <1>7, <1>8, <1>9, <1>10, <1>11, <1>12, <1>13, <1>14, <1>15, <1>16, <1>17, <1>18, <1>19, <1>20, <1>21, <1>22, <1>23, <1>24
     DEF Next, Acquire, AcquireBackground, Call, Progress

-----------------------------------------------------------------------------
(* The gate.                                                               *)

(* The steps of a sampler that only waits, calls or reports.               *)
LEMMA HarmlessSteps ==
  ASSUME Types
  PROVE  /\ \A s \in Foregrounds :
              WaitCooldown(s) \/ Cooled(s) \/ NoteRateLimit(s) => Harmless(s)
         /\ \A b \in Backgrounds :
              BackgroundBegins(b) \/ BackgroundCooled(b) \/ BackgroundNotes(b)
                => Harmless(b)
         /\ \A s \in Samplers : Call(s) => Harmless(s)
<1> USE GateAssumption
    DEF Harmless, Types, Goes, EnlistedAt, HeldAt, Calling, Samplers,
        Foregrounds, gateVars
<1>1. ASSUME NEW s \in Foregrounds, WaitCooldown(s) PROVE Harmless(s)
  BY <1>1 DEF WaitCooldown
<1>2. ASSUME NEW s \in Foregrounds, Cooled(s) PROVE Harmless(s)
  BY <1>2 DEF Cooled
<1>3. ASSUME NEW s \in Foregrounds, NoteRateLimit(s) PROVE Harmless(s)
  BY <1>3 DEF NoteRateLimit
<1>4. ASSUME NEW b \in Backgrounds, BackgroundBegins(b) PROVE Harmless(b)
  BY <1>4 DEF BackgroundBegins
<1>5. ASSUME NEW b \in Backgrounds, BackgroundCooled(b) PROVE Harmless(b)
  BY <1>5 DEF BackgroundCooled
<1>6. ASSUME NEW b \in Backgrounds, BackgroundNotes(b) PROVE Harmless(b)
  BY <1>6 DEF BackgroundNotes
<1>7. ASSUME NEW s \in Samplers, Abandon(s) PROVE Harmless(s)
  BY <1>7 DEF Abandon
<1>8. ASSUME NEW s \in Samplers, Pace(s) PROVE Harmless(s)
  BY <1>8 DEF Pace
<1>9. ASSUME NEW s \in Samplers, Paced(s) PROVE Harmless(s)
  BY <1>9 DEF Paced
<1>10. ASSUME NEW s \in Samplers, Send(s) PROVE Harmless(s)
  BY <1>10 DEF Send
<1>11. ASSUME NEW s \in Samplers, Respond(s) PROVE Harmless(s)
  BY <1>11 DEF Respond
<1>12. ASSUME NEW s \in Samplers, StreamEnds(s) PROVE Harmless(s)
  BY <1>12 DEF StreamEnds
<1>13. ASSUME NEW s \in Samplers, Rested(s) PROVE Harmless(s)
  BY <1>13 DEF Rested
<1> QED  BY <1>1, <1>2, <1>3, <1>4, <1>5, <1>6, <1>7, <1>8, <1>9, <1>10, <1>11, <1>12, <1>13 DEF Call, Progress

(* A sampler moves, and a notification may wake the parked ones.           *)
Moves(s, p) ==
  \/ pc' = [pc EXCEPT ![s] = p]
  \/ p # "parked" /\ pc' = Notified([pc EXCEPT ![s] = p])

Moved(s, p) ==
  /\ pc'[s] = p
  /\ \A r \in Samplers :
       r # s => \/ pc'[r] = pc[r]
                \/ pc[r] = "parked" /\ pc'[r] = "polling"

(* A notification moves nobody into or out of what is counted.             *)
LEMMA MovedSets ==
  ASSUME Types, NEW s \in Samplers, NEW p \in PCs, Moves(s, p)
  PROVE  /\ Moved(s, p)
         /\ Enlisted' = IF s \in Foregrounds /\ p \in EnlistedAt
                          THEN Enlisted \cup {s} ELSE Enlisted \ {s}
         /\ Registered' = IF s \in Backgrounds /\ p \in Calling
                            THEN Registered \cup {s} ELSE Registered \ {s}
         /\ Holders' = IF \/ s \in Foregrounds /\ p \in HeldAt
                          \/ s \in Backgrounds /\ p \in Calling
                         THEN Holders \cup {s} ELSE Holders \ {s}
<1>1. pc'[s] = p
  BY DEF Types, Notified, Moves
<1>2. \A r \in Samplers :
        r # s => \/ pc'[r] = pc[r]
                 \/ pc[r] = "parked" /\ pc'[r] = "polling"
  BY DEF Types, Notified, Moves
<1>3. /\ "parked" \notin EnlistedAt /\ "polling" \notin EnlistedAt
      /\ "parked" \notin HeldAt /\ "polling" \notin HeldAt
      /\ "parked" \notin Calling /\ "polling" \notin Calling
  BY DEF EnlistedAt, HeldAt, Calling
<1>4. \A r \in Samplers : r # s =>
        /\ pc'[r] \in EnlistedAt <=> pc[r] \in EnlistedAt
        /\ pc'[r] \in HeldAt <=> pc[r] \in HeldAt
        /\ pc'[r] \in Calling <=> pc[r] \in Calling
  BY <1>2, <1>3
<1>5. Enlisted' = IF s \in Foregrounds /\ p \in EnlistedAt
                   THEN Enlisted \cup {s} ELSE Enlisted \ {s}
  BY <1>1, <1>4 DEF Enlisted, Samplers
<1>6. Registered' = IF s \in Backgrounds /\ p \in Calling
                     THEN Registered \cup {s} ELSE Registered \ {s}
  BY <1>1, <1>4 DEF Registered, Samplers
<1>7. Holders' = IF \/ s \in Foregrounds /\ p \in HeldAt
                    \/ s \in Backgrounds /\ p \in Calling
                  THEN Holders \cup {s} ELSE Holders \ {s}
  <2>1. \A r : r \in Holders <=> \/ r \in Foregrounds /\ pc[r] \in HeldAt
                                 \/ r \in Backgrounds /\ pc[r] \in Calling
    BY DEF Holders, Registered
  <2>2. \A r : r \in Holders' <=> \/ r \in Foregrounds /\ pc'[r] \in HeldAt
                                  \/ r \in Backgrounds /\ pc'[r] \in Calling
    BY DEF Holders, Registered
  <2>3. \A r : r # s => (r \in Holders' <=> r \in Holders)
    BY <1>4, <2>1, <2>2 DEF Samplers
  <2>4. s \in Holders' <=> \/ s \in Foregrounds /\ p \in HeldAt
                           \/ s \in Backgrounds /\ p \in Calling
    BY <1>1, <2>2
  <2>5. s \in Holders' => Holders' = Holders \cup {s}
    BY <2>3
  <2>6. s \notin Holders' => Holders' = Holders \ {s}
    BY <2>3
  <2> QED  BY <2>4, <2>5, <2>6
<1> QED  BY <1>1, <1>2, <1>5, <1>6, <1>7 DEF Moved

(* A turn begins: it is counted as being served.                           *)
LEMMA BeginTurnGate ==
  ASSUME Types, Gate, NEW t \in Turns, BeginTurn(t)
  PROVE  Gate'
<1>1. t \in Samplers /\ t \in Foregrounds /\ t \notin Backgrounds /\ pc[t] \in PCs
  BY GateAssumption DEF Samplers, Foregrounds, Types
<1>2. pc[t] = "out" /\ Moves(t, "idle") /\ mutex = None
  BY DEF BeginTurn, Goes, Moves, Enlist, Unlocked
<1>3. t \notin Enlisted /\ t \notin Holders /\ t \notin Registered /\ t \notin serving
  BY <1>1, <1>2 DEF Enlisted, EnlistedAt, Holders, HeldAt, Registered, Calling, Serving, Gate
<1>4. /\ Moved(t, "idle")
      /\ Enlisted' = Enlisted /\ Registered' = Registered /\ Holders' = Holders
  <2>1. "idle" \in PCs /\ "idle" \notin EnlistedAt /\ "idle" \notin HeldAt
    BY DEF EnlistedAt, HeldAt, Calling, PCs, Waiting
  <2>2. /\ Moved(t, "idle")
        /\ Enlisted' = Enlisted \ {t} /\ Registered' = Registered \ {t}
        /\ Holders' = Holders \ {t}
    BY <1>1, <1>2, <2>1, MovedSets
  <2> QED  BY <1>3, <2>2
<1>5. Cardinality(serving') = Cardinality(serving) + 1
  BY <1>3, Finite, CardGrows DEF BeginTurn
<1>6. Counted' /\ Slots'
  BY <1>4, <1>5, Finite DEF Counted, Slots, Gate, BeginTurn, Enlist, Types
<1>7. Serving'
  BY <1>4 DEF Serving, Samplers, Foregrounds, Moved, Gate, BeginTurn
<1>8. Locked' /\ Parked' /\ BackgroundYields'
  BY <1>2, <1>4, GateAssumption
     DEF Locked, Parked, BackgroundYields, Samplers, Moved, Gate, BeginTurn, Enlist, Types
<1> QED  BY <1>6, <1>7, <1>8 DEF Gate

(* A turn ends: whoever is parked is told.                                 *)
LEMMA EndTurnGate ==
  ASSUME Types, Gate, NEW t \in Turns, EndTurn(t)
  PROVE  Gate'
<1>1. t \in Samplers /\ t \in Foregrounds /\ t \notin Backgrounds
  BY GateAssumption DEF Samplers, Foregrounds
<1>2. pc[t] = "idle" /\ Moves(t, "out") /\ mutex = None
  BY DEF EndTurn, Discharge, Moves, Unlocked
<1>3. t \notin Enlisted /\ t \notin Holders /\ t \notin Registered /\ t \in serving
  BY <1>1, <1>2 DEF Enlisted, EnlistedAt, Holders, HeldAt, Registered, Calling, Serving, Gate
<1>4. /\ Moved(t, "out")
      /\ Enlisted' = Enlisted /\ Registered' = Registered /\ Holders' = Holders
  <2>1. "out" \in PCs /\ "out" \notin EnlistedAt /\ "out" \notin HeldAt
    BY DEF EnlistedAt, HeldAt, Calling, PCs, Waiting
  <2>2. /\ Moved(t, "out")
        /\ Enlisted' = Enlisted \ {t} /\ Registered' = Registered \ {t}
        /\ Holders' = Holders \ {t}
    BY <1>1, <1>2, <2>1, MovedSets
  <2> QED  BY <1>3, <2>2
<1>5. Cardinality(serving') = Cardinality(serving) - 1
  BY <1>3, Finite, CardShrinks DEF EndTurn
<1>6. Counted' /\ Slots'
  BY <1>4, <1>5, Finite DEF Counted, Slots, Gate, EndTurn, Discharge, Types
<1>7. Serving'
  BY <1>4 DEF Serving, Samplers, Foregrounds, Moved, Gate, EndTurn
<1>8. \A b \in Backgrounds : pc'[b] # "parked"
  BY DEF EndTurn, Discharge, Notified, Samplers
<1>9. foreground > 0
  BY <1>3, SomeForeground DEF Gate
<1>10. Locked'
  <2>1. \A b \in Backgrounds : pc'[b] # "receiving"
    BY <1>2, <1>4, GateAssumption DEF Gate, Locked, Moved, Samplers
  <2> QED  BY <1>2, <2>1 DEF Locked, EndTurn
<1>11. BackgroundYields'
  BY <1>4, <1>9 DEF BackgroundYields, Gate, EndTurn, Types
<1> QED  BY <1>6, <1>7, <1>8, <1>10, <1>11 DEF Gate, Parked

(* A canceled turn ends in the same way.                                   *)
LEMMA StopRestingGate ==
  ASSUME Types, Gate, NEW t \in Turns, StopResting(t)
  PROVE  Gate'
<1>1. t \in Samplers /\ t \in Foregrounds /\ t \notin Backgrounds
  BY GateAssumption DEF Samplers, Foregrounds
<1>2. pc[t] = "resting" /\ Moves(t, "out") /\ mutex = None
  BY DEF StopResting, Discharge, Moves, Unlocked
<1>3. t \notin Enlisted /\ t \notin Holders /\ t \notin Registered /\ t \in serving
  BY <1>1, <1>2 DEF Enlisted, EnlistedAt, Holders, HeldAt, Registered, Calling, Serving, Gate
<1>4. /\ Moved(t, "out")
      /\ Enlisted' = Enlisted /\ Registered' = Registered /\ Holders' = Holders
  <2>1. "out" \in PCs /\ "out" \notin EnlistedAt /\ "out" \notin HeldAt
    BY DEF EnlistedAt, HeldAt, Calling, PCs, Waiting
  <2>2. /\ Moved(t, "out")
        /\ Enlisted' = Enlisted \ {t} /\ Registered' = Registered \ {t}
        /\ Holders' = Holders \ {t}
    BY <1>1, <1>2, <2>1, MovedSets
  <2> QED  BY <1>3, <2>2
<1>5. Cardinality(serving') = Cardinality(serving) - 1
  BY <1>3, Finite, CardShrinks DEF StopResting
<1>6. Counted' /\ Slots'
  BY <1>4, <1>5, Finite DEF Counted, Slots, Gate, StopResting, Discharge, Types
<1>7. Serving'
  BY <1>4 DEF Serving, Samplers, Foregrounds, Moved, Gate, StopResting
<1>8. \A b \in Backgrounds : pc'[b] # "parked"
  BY DEF StopResting, Discharge, Notified, Samplers
<1>9. foreground > 0
  BY <1>3, SomeForeground DEF Gate
<1>10. Locked'
  <2>1. \A b \in Backgrounds : pc'[b] # "receiving"
    BY <1>2, <1>4, GateAssumption DEF Gate, Locked, Moved, Samplers
  <2> QED  BY <1>2, <2>1 DEF Locked, StopResting
<1>11. BackgroundYields'
  BY <1>4, <1>9 DEF BackgroundYields, Gate, StopResting, Types
<1> QED  BY <1>6, <1>7, <1>8, <1>10, <1>11 DEF Gate, Parked

(* A foreground sampler queues: it is counted.                             *)
LEMMA AcquireBeginsGate ==
  ASSUME Types, Gate, NEW s \in Foregrounds, AcquireBegins(s)
  PROVE  Gate'
<1>1. s \in Samplers /\ s \notin Backgrounds
  BY GateAssumption DEF Samplers, Foregrounds
<1>2. pc[s] \in {"idle", "out"} /\ Moves(s, "queued") /\ mutex = None
  BY DEF AcquireBegins, Goes, Moves, Enlist, Unlocked
<1>3. s \notin Enlisted /\ s \notin Holders /\ s \notin Registered
  BY <1>1, <1>2 DEF Enlisted, EnlistedAt, Holders, HeldAt, Registered, Calling
<1>4. /\ Moved(s, "queued") /\ Enlisted' = Enlisted \cup {s}
      /\ Registered' = Registered /\ Holders' = Holders
  <2>1. "queued" \in PCs /\ "queued" \in EnlistedAt /\ "queued" \notin HeldAt
    BY DEF EnlistedAt, HeldAt, Calling, PCs, Waiting
  <2>2. /\ Moved(s, "queued") /\ Enlisted' = Enlisted \cup {s}
        /\ Registered' = Registered \ {s} /\ Holders' = Holders \ {s}
    BY <1>1, <1>2, <2>1, MovedSets
  <2> QED  BY <1>3, <2>2
<1>5. Cardinality(Enlisted') = Cardinality(Enlisted) + 1
  BY <1>3, <1>4, Finite, CardGrows
<1>6. Counted' /\ Slots'
  BY <1>4, <1>5, Finite DEF Counted, Slots, Gate, AcquireBegins, Enlist, Types
<1>7. Serving'
  BY <1>2, <1>4 DEF Serving, Samplers, Foregrounds, Moved, Gate, AcquireBegins
<1>8. Locked' /\ Parked' /\ BackgroundYields'
  BY <1>2, <1>4, GateAssumption
     DEF Locked, Parked, BackgroundYields, Samplers, Moved, Gate, AcquireBegins, Enlist, Types
<1> QED  BY <1>6, <1>7, <1>8 DEF Gate

(* It takes a token; being counted, no background sampler is in its receive. *)
LEMMA AcquireReceivesGate ==
  ASSUME Types, Gate, NEW s \in Foregrounds, AcquireReceives(s)
  PROVE  Gate'
<1>1. s \in Samplers /\ s \notin Backgrounds
  BY GateAssumption DEF Samplers, Foregrounds
<1>2. pc[s] = "queued" /\ Moves(s, "entering")
  BY DEF AcquireReceives, Goes, Moves
<1>3. s \in Enlisted /\ s \notin Holders /\ s \notin Registered
  BY <1>1, <1>2, GateAssumption
     DEF Enlisted, EnlistedAt, Holders, HeldAt, Registered, Calling
<1>4. /\ Moved(s, "entering") /\ Enlisted' = Enlisted
      /\ Registered' = Registered /\ Holders' = Holders \cup {s}
  <2>1. "entering" \in PCs /\ "entering" \in EnlistedAt /\ "entering" \in HeldAt
    BY DEF EnlistedAt, HeldAt, Calling, PCs, Waiting
  <2>2. /\ Moved(s, "entering") /\ Enlisted' = Enlisted \cup {s}
        /\ Registered' = Registered \ {s} /\ Holders' = Holders \cup {s}
    BY <1>1, <1>2, <2>1, MovedSets
  <2> QED  BY <1>3, <2>2
<1>5. Cardinality(Holders') = Cardinality(Holders) + 1
  BY <1>3, <1>4, Finite, CardGrows
<1>6. foreground > 0
  BY <1>3, SomeForeground DEF Gate
<1>7. Counted' /\ Slots'
  BY <1>4, <1>5, Finite DEF Counted, Slots, Gate, AcquireReceives, Types
<1>8. Serving'
  BY <1>2, <1>4 DEF Serving, Samplers, Foregrounds, Moved, Gate, AcquireReceives
<1>9. Locked' /\ Parked' /\ BackgroundYields'
  BY <1>4, <1>6, GateAssumption
     DEF Locked, Parked, BackgroundYields, Samplers, Moved, Gate, AcquireReceives, Types
<1> QED  BY <1>7, <1>8, <1>9 DEF Gate

(* It returns the token while it is still counted.                         *)
LEMMA GiveBackGate ==
  ASSUME Types, Gate, NEW s \in Foregrounds, GiveBack(s)
  PROVE  Gate'
<1>1. s \in Samplers /\ s \notin Backgrounds
  BY GateAssumption DEF Samplers, Foregrounds
<1>2. pc[s] = "giving" /\ Moves(s, "leaving")
  BY DEF GiveBack, Goes, Moves
<1>3. s \in Enlisted /\ s \in Holders /\ s \notin Registered
  BY <1>1, <1>2, GateAssumption
     DEF Enlisted, EnlistedAt, Holders, HeldAt, Registered, Calling
<1>4. /\ Moved(s, "leaving") /\ Enlisted' = Enlisted
      /\ Registered' = Registered /\ Holders' = Holders \ {s}
  <2>1. "leaving" \in PCs /\ "leaving" \in EnlistedAt /\ "leaving" \notin HeldAt
    BY DEF EnlistedAt, HeldAt, Calling, PCs, Waiting
  <2>2. /\ Moved(s, "leaving") /\ Enlisted' = Enlisted \cup {s}
        /\ Registered' = Registered \ {s} /\ Holders' = Holders \ {s}
    BY <1>1, <1>2, <2>1, MovedSets
  <2> QED  BY <1>3, <2>2
<1>5. Cardinality(Holders') = Cardinality(Holders) - 1
  BY <1>3, <1>4, Finite, CardShrinks
<1>6. foreground > 0
  BY <1>3, SomeForeground DEF Gate
<1>7. Counted' /\ Slots'
  BY <1>4, <1>5, Finite DEF Counted, Slots, Gate, GiveBack, Types
<1>8. Serving'
  BY <1>2, <1>4 DEF Serving, Samplers, Foregrounds, Moved, Gate, GiveBack
<1>9. Locked' /\ Parked' /\ BackgroundYields'
  BY <1>4, <1>6, GateAssumption
     DEF Locked, Parked, BackgroundYields, Samplers, Moved, Gate, GiveBack, Types
<1> QED  BY <1>7, <1>8, <1>9 DEF Gate

(* It leaves: the count drops, and whoever is parked is told.              *)
LEMMA LeaveGate ==
  ASSUME Types, Gate, NEW s \in Foregrounds, Leave(s)
  PROVE  Gate'
<1>1. s \in Samplers /\ s \notin Backgrounds
  BY GateAssumption DEF Samplers, Foregrounds
<1>2. pc[s] = "leaving" /\ Moves(s, "resting") /\ mutex = None
  BY DEF Leave, Discharge, Moves, Unlocked
<1>3. s \in Enlisted /\ s \notin Holders /\ s \notin Registered
  BY <1>1, <1>2 DEF Enlisted, EnlistedAt, Holders, HeldAt, Registered, Calling
<1>4. /\ Moved(s, "resting") /\ Enlisted' = Enlisted \ {s}
      /\ Registered' = Registered /\ Holders' = Holders
  <2>1. "resting" \in PCs /\ "resting" \notin EnlistedAt /\ "resting" \notin HeldAt
    BY DEF EnlistedAt, HeldAt, Calling, PCs, Waiting
  <2>2. /\ Moved(s, "resting") /\ Enlisted' = Enlisted \ {s}
        /\ Registered' = Registered \ {s} /\ Holders' = Holders \ {s}
    BY <1>1, <1>2, <2>1, MovedSets
  <2> QED  BY <1>3, <2>2
<1>5. Cardinality(Enlisted') = Cardinality(Enlisted) - 1
  BY <1>3, <1>4, Finite, CardShrinks
<1>6. Counted' /\ Slots'
  BY <1>4, <1>5, Finite DEF Counted, Slots, Gate, Leave, Discharge, Types
<1>7. Serving'
  BY <1>2, <1>4 DEF Serving, Samplers, Foregrounds, Moved, Gate, Leave
<1>8. \A b \in Backgrounds : pc'[b] # "parked"
  BY <1>1 DEF Leave, Discharge, Notified, Samplers
<1>9. foreground > 0
  BY <1>3, SomeForeground DEF Gate
<1>10. Locked'
  <2>1. \A b \in Backgrounds : pc'[b] # "receiving"
    BY <1>2, <1>4, GateAssumption DEF Gate, Locked, Moved, Samplers
  <2> QED  BY <1>2, <2>1 DEF Locked, Leave
<1>11. BackgroundYields'
  BY <1>4, <1>9 DEF BackgroundYields, Gate, Leave, Types
<1> QED  BY <1>6, <1>7, <1>8, <1>10, <1>11 DEF Gate, Parked

(* A background sampler parks, cools down, or locks the mutex and receives. *)
LEMMA PollGate ==
  ASSUME Types, Gate, NEW b \in Backgrounds, Poll(b)
  PROVE  Gate'
<1>1. b \in Samplers /\ b \notin Foregrounds /\ b \notin Turns
  BY GateAssumption DEF Samplers, Foregrounds
<1>2. PICK p \in {"parked", "cooling", "receiving"} : pc' = [pc EXCEPT ![b] = p]
  BY DEF Poll, Goes
<1>3. pc[b] = "polling" /\ mutex = None
  BY DEF Poll, Unlocked
<1>4. /\ Moved(b, p) /\ Enlisted' = Enlisted
      /\ Registered' = Registered /\ Holders' = Holders
  <2>1. p \in PCs /\ p \notin Calling
    BY DEF Calling, PCs, Waiting
  <2>2. b \notin Enlisted /\ b \notin Registered /\ b \notin Holders
    BY <1>1, <1>3 DEF Enlisted, Registered, Holders, Calling
  <2>3. /\ Moved(b, p) /\ Enlisted' = Enlisted \ {b}
        /\ Registered' = Registered \ {b} /\ Holders' = Holders \ {b}
    BY <1>1, <1>2, <2>1, MovedSets DEF Moves
  <2> QED  BY <2>2, <2>3
<1>5. Counted' /\ Slots' /\ BackgroundYields'
  BY <1>4 DEF Counted, Slots, BackgroundYields, Gate, Poll
<1>6. Serving'
  BY <1>1, <1>4, GateAssumption DEF Serving, Samplers, Foregrounds, Moved, Gate, Poll
<1>7. \A r \in Backgrounds : pc[r] # "receiving"
  BY <1>3, GateAssumption DEF Gate, Locked
<1>8. \A r \in Backgrounds : r # b => pc'[r] = pc[r]
  BY <1>2 DEF Samplers, Types
<1>9. pc'[b] = p
  BY <1>4 DEF Moved
<1>10. Parked'
  BY <1>8, <1>9 DEF Parked, Gate, Poll, Goes, Types, Samplers
<1>11. Locked'
  <2>1. CASE foreground # 0 \/ free = 0 \/ cooldown > 0
    <3>1. UNCHANGED <<mutex, foreground, free>> /\ pc' # [pc EXCEPT ![b] = "receiving"]
      BY <1>1, <2>1 DEF Poll, Goes, Types
    <3> QED  BY <1>2, <1>3, <1>7, <1>8, <1>9, <3>1, GateAssumption DEF Locked
  <2>2. CASE ~(foreground # 0 \/ free = 0 \/ cooldown > 0)
    BY <1>7, <1>8, <2>2 DEF Poll, Locked, Types
  <2> QED  BY <2>1, <2>2
<1> QED  BY <1>5, <1>6, <1>10, <1>11 DEF Gate

(* The receive under the mutex finds the token the check saw.              *)
LEMMA BackgroundReceivesGate ==
  ASSUME Types, Gate, NEW b \in Backgrounds, BackgroundReceives(b)
  PROVE  Gate'
<1>1. b \in Samplers /\ b \notin Foregrounds /\ b \notin Turns
  BY GateAssumption DEF Samplers, Foregrounds
<1>2. pc[b] = "receiving" /\ Moves(b, "ready")
  BY DEF BackgroundReceives, Goes, Moves
<1>3. mutex = b /\ foreground = 0 /\ free > 0
  BY <1>2, GateAssumption DEF Gate, Locked
<1>4. /\ Moved(b, "ready") /\ Enlisted' = Enlisted
      /\ b \notin Holders /\ Holders' = Holders \cup {b}
  <2>1. "ready" \in PCs /\ "ready" \in Calling
    BY DEF Calling, PCs, Waiting
  <2>2. b \notin Enlisted /\ b \notin Holders
    BY <1>1, <1>2 DEF Enlisted, Registered, Holders, Calling
  <2>3. /\ Moved(b, "ready") /\ Enlisted' = Enlisted \ {b}
        /\ Holders' = Holders \cup {b}
    BY <1>1, <1>2, <2>1, MovedSets
  <2> QED  BY <2>2, <2>3
<1>5. Cardinality(Holders') = Cardinality(Holders) + 1
  BY <1>4, Finite, CardGrows
<1>6. Counted' /\ Slots'
  BY <1>4, <1>5, Finite DEF Counted, Slots, Gate, BackgroundReceives, Types
<1>7. Serving'
  BY <1>1, <1>4, GateAssumption
     DEF Serving, Samplers, Foregrounds, Moved, Gate, BackgroundReceives
<1>8. \A r \in Backgrounds : pc[r] # "parked" /\ (pc[r] = "receiving" => r = b)
  BY <1>3 DEF Gate, Parked, Locked
<1>9. \A r \in Backgrounds : pc'[r] # "parked" /\ pc'[r] # "receiving"
  BY <1>4, <1>8 DEF Moved, Samplers
<1>10. Locked' /\ Parked' /\ BackgroundYields'
  BY <1>3, <1>9 DEF Locked, Parked, BackgroundYields, BackgroundReceives
<1> QED  BY <1>6, <1>7, <1>10 DEF Gate

(* A background sampler returns its token and tells whoever is parked.     *)
LEMMA BackgroundReleasesGate ==
  ASSUME Types, Gate, NEW b \in Backgrounds, BackgroundReleases(b)
  PROVE  Gate'
<1>1. b \in Samplers /\ b \notin Foregrounds /\ b \notin Turns
  BY GateAssumption DEF Samplers, Foregrounds
<1>2. PICK p \in {"noting", "out"} : Moves(b, p)
  BY DEF BackgroundReleases, Moves
<1>3. pc[b] \in {"giving", "limited"} /\ mutex = None
  BY DEF BackgroundReleases, Unlocked
<1>4. /\ Moved(b, p) /\ Enlisted' = Enlisted
      /\ Registered' = Registered \ {b}
      /\ b \in Holders /\ Holders' = Holders \ {b}
  <2>1. p \in PCs /\ p \notin Calling
    BY DEF Calling, PCs, Waiting
  <2>2. b \notin Enlisted /\ b \in Holders
    BY <1>1, <1>3 DEF Enlisted, Registered, Holders, Calling
  <2>3. /\ Moved(b, p) /\ Enlisted' = Enlisted \ {b}
        /\ Registered' = Registered \ {b} /\ Holders' = Holders \ {b}
    BY <1>1, <1>2, <2>1, MovedSets
  <2> QED  BY <2>2, <2>3
<1>5. Cardinality(Holders') = Cardinality(Holders) - 1
  BY <1>4, Finite, CardShrinks
<1>6. Counted' /\ Slots'
  <2>1. free' = free + 1 /\ UNCHANGED <<serving, foreground>>
    BY DEF BackgroundReleases
  <2> QED  BY <1>4, <1>5, <2>1, Finite DEF Counted, Slots, Gate, Types
<1>7. Serving'
  BY <1>1, <1>4, GateAssumption
     DEF Serving, Samplers, Foregrounds, Moved, Gate, BackgroundReleases
<1>8. \A r \in Backgrounds : pc'[r] # "parked"
  BY <1>1 DEF BackgroundReleases, Notified, Samplers
<1>9. \A r \in Backgrounds : pc'[r] # "receiving"
  BY <1>3, <1>4, GateAssumption DEF Gate, Locked, Moved, Samplers
<1>10. Locked' /\ Parked' /\ BackgroundYields'
  BY <1>3, <1>4, <1>8, <1>9
     DEF Locked, Parked, BackgroundYields, BackgroundReleases, Gate
<1> QED  BY <1>6, <1>7, <1>10 DEF Gate

(* Every step keeps the gate.                                              *)
LEMMA GateStep ==
  ASSUME Types, Gate, Next
  PROVE  Gate'
<1>1. \A t \in Turns : BeginTurn(t) \/ EndTurn(t) \/ StopResting(t) => Gate'
  BY BeginTurnGate, EndTurnGate, StopRestingGate
<1>2. \A s \in Foregrounds : Acquire(s) => Gate'
  <2>1. \A s \in Foregrounds : WaitCooldown(s) \/ Cooled(s) \/ NoteRateLimit(s) => Gate'
    BY HarmlessSteps, Move DEF Samplers
  <2> QED
    BY <2>1, AcquireBeginsGate, AcquireReceivesGate, GiveBackGate, LeaveGate DEF Acquire
<1>3. \A b \in Backgrounds : AcquireBackground(b) => Gate'
  <2>1. \A b \in Backgrounds :
          BackgroundBegins(b) \/ BackgroundCooled(b) \/ BackgroundNotes(b) => Gate'
    BY HarmlessSteps, Move DEF Samplers
  <2> QED
    BY <2>1, PollGate, BackgroundReceivesGate, BackgroundReleasesGate
       DEF AcquireBackground
<1>4. \A s \in Samplers : Call(s) => Gate'
  BY HarmlessSteps, Move
<1>5. Tick => Gate'
  BY DEF Tick, Gate, Counted, Slots, Serving, Locked, Parked, BackgroundYields,
         Enlisted, Holders, Registered
<1> QED  BY <1>1, <1>2, <1>3, <1>4, <1>5 DEF Next

-----------------------------------------------------------------------------
(* The route.                                                              *)

(* A sampler reaches "paced" by Pace and "flying" from there.              *)
Unpaced ==
  \A s \in Samplers :
    pc'[s] \in {"paced", "flying"} => pc[s] \in {"paced", "flying"}

Unrouted == UNCHANGED <<nextRequest, lastRequest, penalty, routed>>

(* What leaves the route's state alone and paces nobody keeps the route.   *)
LEMMA Aside ==
  ASSUME Route, Unrouted, Unpaced
  PROVE  Route'
BY DEF Route, Routed, PacedApart, Unpaced, Unrouted

(* The steps that do so.                                                   *)
LEMMA AsideSteps ==
  ASSUME Types
  PROVE  /\ \A t \in Turns : BeginTurn(t) \/ EndTurn(t) \/ StopResting(t)
              => Unrouted /\ Unpaced
         /\ \A s \in Foregrounds : Acquire(s) => Unrouted /\ Unpaced
         /\ \A b \in Backgrounds : AcquireBackground(b) => Unrouted /\ Unpaced
         /\ \A s \in Samplers :
              Abandon(s) \/ Paced(s) \/ Send(s) \/ StreamEnds(s) \/ Rested(s)
                => Unrouted /\ Unpaced
<1> USE DEF Types, Unpaced, Unrouted, routeVars, Goes, Discharge, Notified, Samplers, Foregrounds
<1>1. \A t \in Turns : BeginTurn(t) => Unrouted /\ Unpaced
  BY DEF BeginTurn
<1>2. \A t \in Turns : EndTurn(t) => Unrouted /\ Unpaced
  BY DEF EndTurn
<1>3. \A t \in Turns : StopResting(t) => Unrouted /\ Unpaced
  BY DEF StopResting
<1>4. \A s \in Foregrounds :
        AcquireBegins(s) \/ AcquireReceives(s) \/ WaitCooldown(s) \/ Cooled(s)
          => Unrouted /\ Unpaced
  BY DEF AcquireBegins, AcquireReceives, WaitCooldown, Cooled
<1>5. \A s \in Foregrounds :
        NoteRateLimit(s) \/ GiveBack(s) \/ Leave(s) => Unrouted /\ Unpaced
  BY DEF NoteRateLimit, GiveBack, Leave
<1>6. \A b \in Backgrounds :
        BackgroundBegins(b) \/ Poll(b) \/ BackgroundCooled(b)
          => Unrouted /\ Unpaced
  BY DEF BackgroundBegins, Poll, BackgroundCooled
<1>7. \A b \in Backgrounds :
        BackgroundReceives(b) \/ BackgroundReleases(b) \/ BackgroundNotes(b)
          => Unrouted /\ Unpaced
  BY DEF BackgroundReceives, BackgroundReleases, BackgroundNotes
<1>8. \A s \in Samplers :
        Abandon(s) \/ Paced(s) \/ Send(s) \/ StreamEnds(s) \/ Rested(s)
          => Unrouted /\ Unpaced
  BY DEF Abandon, Paced, Send, StreamEnds, Rested
<1> QED
  BY <1>1, <1>2, <1>3, <1>4, <1>5, <1>6, <1>7, <1>8 DEF Acquire, AcquireBackground

(* A pass of Controller.Wait either takes the next slot of the route or    *)
(* sleeps until it.                                                        *)
LEMMA PaceRoute ==
  ASSUME Types, Route, NEW s \in Samplers, Pace(s)
  PROVE  Route'
<1> USE GateAssumption DEF Route, Routed, PacedApart, Types, Delays, Pace
<1>1. CASE nextRequest = 0
  <2>1. nextRequest' \in Nat /\ nextRequest' >= Interval
    BY <1>1 DEF Later
  <2> QED  BY <1>1, <2>1
<1>2. CASE nextRequest # 0
  BY <1>2 DEF Elapsed
<1> QED  BY <1>1, <1>2

(* A response that limits the route only lengthens its cooldown, and one   *)
(* that is served never goes below the spacing.                            *)
LEMMA RespondRoute ==
  ASSUME Types, Route, NEW s \in Samplers, Respond(s)
  PROVE  Route'
<1> USE GateAssumption
<1>1. /\ pc[s] = "flying" /\ Unpaced
      /\ Interval > 0 => routed
  BY DEF Respond, Goes, Types, Unpaced, Route, Routed
<1>2. Elapsed \in Nat /\ nextRequest + Elapsed >= Interval
  BY <1>1 DEF Elapsed, Route, PacedApart, Types, Delays
<1>3. ASSUME NEW h \in Delays, ObserveLimited(h) PROVE Route'
  <2> DEFINE base == Later(1, Later(Elapsed, Interval))
             grown == Later(base, IF penalty > 0 THEN 2 * penalty ELSE 0)
             cool == IF h > 0 THEN h ELSE Earlier(grown, MaxDelay)
  <2>1. cool \in Nat
    BY <1>2 DEF Later, Earlier, Types, Delays
  <2> HIDE DEF cool
  <2>2. /\ nextRequest' = Later(nextRequest, cool)
        /\ lastRequest' = Elapsed /\ routed' = TRUE
    BY <1>3 DEF ObserveLimited, cool
  <2> QED
    BY <1>2, <2>1, <2>2 DEF Route, Routed, PacedApart, Later, Types, Delays
<1>4. ASSUME NEW h \in Delays, ObserveServed(h) PROVE Route'
  <2>1. PacedApart'
    BY <1>2, <1>4
       DEF ObserveServed, Route, PacedApart, Later, Earlier, Types, Delays
  <2>2. (~routed => nextRequest = 0)' /\ (Interval > 0 => routed')
    <3>1. routed' <=> ~(h = 0 /\ Interval = 0)
      BY <1>4, Zenon DEF ObserveServed
    <3>2. h = 0 /\ Interval = 0 => nextRequest' = 0
      BY <1>4 DEF ObserveServed, Earlier, Types, Delays
    <3> QED  BY <3>1, <3>2
  <2> QED  BY <2>1, <2>2 DEF Route, Routed
<1>5. ASSUME ObserveFailed PROVE Route'
  BY <1>1, <1>2, <1>5
     DEF ObserveFailed, Route, Routed, PacedApart, Unpaced
<1>6. ASSUME UNCHANGED routeVars PROVE Route'
  BY <1>1, <1>6, Aside DEF Unrouted, routeVars
<1> QED  BY <1>3, <1>4, <1>5, <1>6 DEF Respond

(* Every step keeps the route.                                             *)
LEMMA RouteStep ==
  ASSUME Types, Route, Next
  PROVE  Route'
<1>1. CASE Tick
  BY <1>1, GateAssumption
     DEF Tick, Route, Routed, PacedApart, Types, Delays, Sooner, Earlier
<1>2. \A s \in Samplers : Call(s) => Route'
  BY AsideSteps, Aside, PaceRoute, RespondRoute DEF Call, Progress
<1> QED  BY <1>1, <1>2, AsideSteps, Aside DEF Next

-----------------------------------------------------------------------------
(* What a sampler owes.                                                    *)

(* One sampler moves, and the parked ones may be woken.                    *)
Alone(s) ==
  \A r \in Samplers : r # s =>
    /\ owed'[r] = owed[r] /\ delay'[r] = delay[r] /\ timer'[r] = timer[r]
    /\ pc'[r] = pc[r] \/ pc[r] = "parked"

(* What it owes afterwards is all there is to show.                        *)
LEMMA OwingAlone ==
  ASSUME Owing, NEW s \in Samplers, Alone(s),
         owed'[s] > 0 =>
           \/ /\ pc'[s] \in {"limited", "giving", "leaving", "noting"}
              /\ s \in Backgrounds => pc'[s] \in {"limited", "noting"}
              /\ owed'[s] <= delay'[s]
           \/ pc'[s] = "resting" /\ owed'[s] <= timer'[s]
  PROVE  Owing'
BY DEF Owing, Alone

(* A sampler that owes nothing, or gives up, owes nothing.                 *)
LEMMA OwingNothing ==
  ASSUME Types, Owing, NEW s \in Samplers, Alone(s),
         \/ owed'[s] = 0
         \/ /\ owed'[s] = owed[s]
            /\ pc[s] \notin {"limited", "giving", "leaving", "noting", "resting"}
  PROVE  Owing'
<1>1. owed[s] \in Nat
  BY GateAssumption DEF Types, Delays
<1>2. ~(owed'[s] > 0)
  BY <1>1 DEF Owing
<1> QED  BY <1>2, OwingAlone

(* Every step keeps what is owed.                                          *)
LEMMA OwingStep ==
  ASSUME Types, Owing, Next
  PROVE  Owing'
<1> USE GateAssumption
<1>1. ASSUME NEW t \in Turns, BeginTurn(t) \/ EndTurn(t) \/ StopResting(t) PROVE Owing'
  <2>1. t \in Samplers
    BY DEF Samplers, Foregrounds
  <2>2. Alone(t)
    BY <1>1, <2>1 DEF BeginTurn, EndTurn, StopResting, Alone, GivesUp, Discharge, Notified,
         Goes, Sleeps, Types, routeVars
  <2>3. \/ owed'[t] = 0
        \/ owed'[t] = owed[t] /\ pc[t] \in {"out", "idle"}
    BY <1>1, <2>1 DEF BeginTurn, EndTurn, StopResting, GivesUp, Types, routeVars
  <2> QED  BY <2>1, <2>2, <2>3, OwingNothing
<1>2. ASSUME NEW s \in Foregrounds,
             AcquireBegins(s) \/ AcquireReceives(s) \/ WaitCooldown(s) \/ Cooled(s)
      PROVE  Owing'
  <2>1. s \in Samplers
    BY DEF Samplers
  <2>2. Alone(s)
    BY <1>2, <2>1 DEF AcquireBegins, AcquireReceives, WaitCooldown, Cooled, Alone,
         Goes, Sleeps, Types, routeVars
  <2>3. owed'[s] = owed[s] /\ pc[s] \in {"out", "idle", "queued", "entering", "cooling"}
    BY <1>2 DEF AcquireBegins, AcquireReceives, WaitCooldown, Cooled, routeVars
  <2> QED  BY <2>1, <2>2, <2>3, OwingNothing
<1>3. ASSUME NEW s \in Foregrounds, NoteRateLimit(s) PROVE Owing'
  <2>1. s \in Samplers /\ s \notin Backgrounds /\ owed[s] \in Nat /\ delay[s] \in Nat
    BY DEF Samplers, Foregrounds, Types, Delays
  <2>2. Alone(s)
    BY <1>3, <2>1 DEF NoteRateLimit, Alone, GivesUp, Goes, Types
  <2>3. CASE owed'[s] = 0
    BY <2>1, <2>2, <2>3, OwingNothing
  <2>4. CASE \E b \in Backoffs : delay' = [delay EXCEPT ![s] = RetryDelay(s, b)] /\ UNCHANGED owed
    <3>1. PICK b \in Backoffs : delay' = [delay EXCEPT ![s] = RetryDelay(s, b)] /\ UNCHANGED owed
      BY <2>4
    <3>2. owed[s] > 0 => owed[s] <= delay[s]
      BY <1>3 DEF Owing, NoteRateLimit, Samplers
    <3>3. owed[s] > 0 => owed[s] <= RetryDelay(s, b)
      BY <2>1, <3>2 DEF RetryDelay, Later, Types, Delays
    <3>4. delay'[s] = RetryDelay(s, b) /\ pc'[s] = "giving"
      BY <1>3, <2>1, <3>1 DEF NoteRateLimit, Goes, Types
    <3> QED  BY <2>1, <2>2, <3>1, <3>3, <3>4, OwingAlone
  <2> QED  BY <1>3, <2>1, <2>3, <2>4 DEF NoteRateLimit, GivesUp, Types
<1>4. ASSUME NEW s \in Foregrounds, GiveBack(s) PROVE Owing'
  <2>1. s \in Samplers /\ s \notin Backgrounds
    BY DEF Samplers, Foregrounds
  <2>2. Alone(s) /\ UNCHANGED <<owed, delay>> /\ pc[s] = "giving" /\ pc'[s] = "leaving"
    BY <1>4, <2>1 DEF GiveBack, Alone, Goes, Types, routeVars
  <2>3. owed[s] > 0 => owed[s] <= delay[s]
    BY <2>1, <2>2 DEF Owing
  <2> QED  BY <2>1, <2>2, <2>3, OwingAlone
<1>5. ASSUME NEW s \in Foregrounds, Leave(s) PROVE Owing'
  <2>1. s \in Samplers /\ s \notin Backgrounds
    BY DEF Samplers, Foregrounds
  <2>2. /\ Alone(s) /\ UNCHANGED owed /\ pc[s] = "leaving" /\ pc'[s] = "resting"
        /\ timer'[s] = delay[s]
    BY <1>5, <2>1 DEF Leave, Alone, Discharge, Notified, Sleeps, Types, routeVars
  <2>3. owed[s] > 0 => owed[s] <= delay[s]
    BY <2>1, <2>2 DEF Owing
  <2> QED  BY <2>1, <2>2, <2>3, OwingAlone
<1>6. ASSUME NEW b \in Backgrounds,
             BackgroundBegins(b) \/ Poll(b) \/ BackgroundCooled(b) \/ BackgroundReceives(b)
      PROVE  Owing'
  <2>1. b \in Samplers
    BY DEF Samplers
  <2>2. Alone(b)
    BY <1>6, <2>1 DEF BackgroundBegins, Poll, BackgroundCooled, BackgroundReceives, Alone,
         Goes, Sleeps, Types, routeVars
  <2>3. owed'[b] = owed[b] /\ pc[b] \in {"out", "polling", "cooling", "receiving"}
    BY <1>6 DEF BackgroundBegins, Poll, BackgroundCooled, BackgroundReceives, routeVars
  <2> QED  BY <2>1, <2>2, <2>3, OwingNothing
<1>7. ASSUME NEW b \in Backgrounds, BackgroundReleases(b) PROVE Owing'
  <2>1. b \in Samplers
    BY DEF Samplers
  <2>2. /\ Alone(b) /\ UNCHANGED <<owed, delay>> /\ pc[b] \in {"giving", "limited"}
        /\ pc'[b] = IF pc[b] = "limited" THEN "noting" ELSE "out"
    BY <1>7, <2>1 DEF BackgroundReleases, Alone, Notified, Types, routeVars
  <2>3. owed[b] > 0 => pc[b] = "limited" /\ owed[b] <= delay[b]
    BY <2>1, <2>2 DEF Owing
  <2> QED  BY <2>1, <2>2, <2>3, OwingAlone
<1>8. ASSUME NEW b \in Backgrounds, BackgroundNotes(b) PROVE Owing'
  <2>1. /\ b \in Samplers /\ b \notin Turns
        /\ owed[b] \in Nat /\ delay[b] \in Nat
    BY DEF Samplers, Types, Delays
  <2>2. Alone(b)
    BY <1>8, <2>1 DEF BackgroundNotes, Alone, GivesUp, Goes, Sleeps, Types
  <2>3. CASE owed'[b] = 0
    BY <2>1, <2>2, <2>3, OwingNothing
  <2>4. CASE \E d \in Backoffs : Sleeps(b, RetryDelay(b, d)) /\ Goes(b, "resting") /\ UNCHANGED owed
    <3>1. PICK d \in Backoffs : Sleeps(b, RetryDelay(b, d)) /\ Goes(b, "resting") /\ UNCHANGED owed
      BY <2>4
    <3>2. owed[b] > 0 => owed[b] <= delay[b]
      BY <1>8, <2>1 DEF Owing, BackgroundNotes
    <3>3. owed[b] > 0 => owed[b] <= RetryDelay(b, d)
      BY <2>1, <3>2 DEF RetryDelay
    <3>4. timer'[b] = RetryDelay(b, d) /\ pc'[b] = "resting"
      BY <2>1, <3>1 DEF Goes, Sleeps, Types
    <3> QED  BY <2>1, <2>2, <3>1, <3>3, <3>4, OwingAlone
  <2> QED  BY <1>8, <2>1, <2>3, <2>4 DEF BackgroundNotes, GivesUp, Types
<1>9. ASSUME NEW s \in Samplers, Abandon(s) PROVE Owing'
  <2>1. Alone(s) /\ owed'[s] = 0
    BY <1>9 DEF Abandon, Alone, GivesUp, Goes, Sleeps, Types
  <2> QED  BY <2>1, OwingNothing
<1>10. ASSUME NEW s \in Samplers, Pace(s) \/ Paced(s) \/ Send(s) PROVE Owing'
  <2>1. Alone(s) /\ owed'[s] = owed[s] /\ pc[s] \in {"ready", "pacing", "paced"}
    BY <1>10 DEF Pace, Paced, Send, Alone, Goes, Sleeps, Types, routeVars
  <2> QED  BY <2>1, OwingNothing
<1>11. ASSUME NEW s \in Samplers, Respond(s) PROVE Owing'
  <2>1. Alone(s) /\ pc[s] = "flying"
    BY <1>11 DEF Respond, Alone, Goes, Types
  <2>2. CASE owed'[s] = owed[s]
    BY <2>1, <2>2, OwingNothing
  <2>3. CASE \E h \in Delays : /\ delay' = [delay EXCEPT ![s] = h] /\ owed' = [owed EXCEPT ![s] = h]
                              /\ Goes(s, "limited")
    <3>1. owed'[s] = delay'[s] /\ owed'[s] \in Nat /\ pc'[s] = "limited"
      BY <2>3 DEF Goes, Types, Delays
    <3> QED  BY <2>1, <3>1, OwingAlone
  <2> QED  BY <1>11, <2>2, <2>3 DEF Respond
<1>12. ASSUME NEW s \in Samplers, StreamEnds(s) PROVE Owing'
  <2>1. Alone(s) /\ owed'[s] = owed[s] /\ pc[s] = "streaming"
    BY <1>12 DEF StreamEnds, Alone, Goes, Types, routeVars
  <2> QED  BY <2>1, OwingNothing
<1>13. ASSUME NEW s \in Samplers, Rested(s) PROVE Owing'
  <2>1. Alone(s) /\ UNCHANGED <<owed, timer>> /\ pc[s] = "resting" /\ timer[s] = 0
    BY <1>13 DEF Rested, Alone, Goes, Types, routeVars
  <2>2. owed[s] = 0
    BY <2>1 DEF Owing, Types, Delays
  <2> QED  BY <2>1, <2>2, OwingNothing
<1>14. CASE Tick
  <2> SUFFICES ASSUME NEW s \in Samplers, owed'[s] > 0
               PROVE  \/ /\ pc'[s] \in {"limited", "giving", "leaving", "noting"}
                         /\ s \in Backgrounds => pc'[s] \in {"limited", "noting"}
                         /\ owed'[s] <= delay'[s]
                      \/ pc'[s] = "resting" /\ owed'[s] <= timer'[s]
    BY DEF Owing
  <2>1. /\ UNCHANGED <<pc, delay>> /\ owed'[s] = Sooner(owed[s]) /\ timer'[s] = Sooner(timer[s])
    BY <1>14 DEF Tick
  <2>2. owed[s] \in Nat /\ delay[s] \in Nat /\ timer[s] \in Nat
    BY DEF Types, Delays
  <2> QED  BY <2>1, <2>2 DEF Owing, Sooner
<1> QED
  BY <1>1, <1>2, <1>3, <1>4, <1>5, <1>6, <1>7, <1>8, <1>9, <1>10, <1>11, <1>12, <1>13, <1>14
     DEF Next, Acquire, AcquireBackground, Call, Progress

-----------------------------------------------------------------------------
(* IInv is an invariant of the specification: it holds in the initial      *)
(* state of a session and is kept by every step of Acquire,                *)
(* AcquireBackground, the Controller and the turns.                        *)
THEOREM GateInvariance == GateSpec => []IInv
<1>1. Init => IInv
  <2> SUFFICES ASSUME Init PROVE IInv
    OBVIOUS
  <2>1. Types
    BY GateAssumption, DelayArithmetic DEF Init, Types, PCs, Waiting
  <2>2. Enlisted = {} /\ Holders = {} /\ Registered = {}
    BY DEF Init, Enlisted, Holders, Registered, EnlistedAt, HeldAt, Calling,
           Samplers, Foregrounds
  <2>3. Cardinality({}) = 0
    BY FS_EmptySet
  <2>4. Gate
    BY <2>2, <2>3, GateAssumption
       DEF Init, Gate, Counted, Slots, Serving, Locked, Parked, BackgroundYields,
           Samplers, Foregrounds
  <2>5. Route
    BY GateAssumption DEF Init, Route, Routed, PacedApart
  <2>6. Owing
    BY DEF Init, Owing
  <2> QED  BY <2>1, <2>4, <2>5, <2>6 DEF IInv
<1>2. IInv /\ [Next]_vars => IInv'
  <2>1. IInv /\ Next => IInv'
    BY TypesStep, GateStep, RouteStep, OwingStep DEF IInv
  <2>2. IInv /\ UNCHANGED vars => IInv'
    BY DEF IInv, Types, Gate, Counted, Slots, Serving, Locked, Parked,
           BackgroundYields, Route, Routed, PacedApart, Owing,
           Enlisted, Holders, Registered, vars, gateVars, routeVars
  <2> QED  BY <2>1, <2>2
<1> QED  BY <1>1, <1>2, PTL DEF GateSpec

(* The gate's channel never overflows and its count is never negative: a   *)
(* release never blocks on `slots <- struct{}{}`.                          *)
THEOREM GateTypes == GateSpec => []GateTypeOK
<1>1. IInv => GateTypeOK
  <2> SUFFICES ASSUME IInv PROVE GateTypeOK
    OBVIOUS
  <2>1. free \in 0..MaxConcurrent
    BY Finite, GateAssumption DEF IInv, Types, Gate, Slots
  <2> QED  BY <2>1 DEF IInv, Types, GateTypeOK
<1> QED  BY <1>1, GateInvariance, PTL

(* Background samples yield to queued and active foreground work, as the   *)
(* comment of AcquireBackground promises.                                  *)
THEOREM Yielding == GateSpec => []BackgroundYields
<1>1. IInv => BackgroundYields
  BY DEF IInv, Gate
<1> QED  BY <1>1, GateInvariance, PTL

(* The receive that AcquireBackground makes under the mutex never blocks,  *)
(* and no background sampler misses the notification it is parked for.     *)
THEOREM NeverHangs == GateSpec => []BackgroundNeverHangs
<1>1. IInv => BackgroundNeverHangs
  BY DEF IInv, Gate, Locked, Parked, BackgroundNeverHangs
<1> QED  BY <1>1, GateInvariance, PTL

(* The Controller spaces the requests of a route as configured.            *)
THEOREM Pacing == GateSpec => []PacedApart
<1>1. IInv => PacedApart
  BY DEF IInv, Route
<1> QED  BY <1>1, GateInvariance, PTL

(* A sampler that retries has waited out the Retry-After of its own 429    *)
(* before it queues again (waitRetryDelay, generateNarrative), whatever a  *)
(* success of another request does to the cooldown of the gate or of the   *)
(* route in the meantime.                                                  *)
THEOREM Waited == GateSpec => []RetryWaits
<1>1. IInv => RetryWaits
  BY DEF IInv, Owing, RetryWaits
<1> QED  BY <1>1, GateInvariance, PTL
=============================================================================
