--------------------------- MODULE EventHubProofs ---------------------------
(***************************************************************************)
(* The safety of the event stream, for any number of events, clients and   *)
(* failures and any buffer.                                                *)
(*                                                                         *)
(* That a client which resumes from its cursor sees no gap is a fact about *)
(* the order of its channel (Ordered): between the cursor and an entry of  *)
(* the channel everything is queued before it.  The fanout keeps it only   *)
(* because nothing is stored beyond the fence without being announced, and *)
(* so queued, before the next publication (Covered, Queued).               *)
(***************************************************************************)
EXTENDS EventHub, FiniteSetTheorems, SequenceTheorems, WellFoundedInduction, TLAPS

Subscription ==
  [phase : {"off", "replaying", "live", "desynchronized"},
   registered : BOOLEAN, floor : Nat, from : Nat, events : Seq(Nat), cap : Nat]

Lost == [NoSub EXCEPT !.phase = "desynchronized"]

PubType ==
  [phase : {"idle", "append", "project", "fanout"}, id : Events \cup {None},
   seq : Nat, last : Nat, attempt : 0..3, announce : BOOLEAN]

Types ==
  /\ log \in Seq(Events \cup {None})
  /\ last \in 0..Len(log) /\ pending \subseteq Stable /\ closed \in BOOLEAN
  /\ pub \in PubType
  /\ tried \subseteq Plain /\ faults \in 0..MaxFaults
  /\ sub \in [Clients -> Subscription]
  /\ cursor \in [Clients -> 0..Len(log)]
  /\ seen \in [Clients -> SUBSET DOMAIN log]
  /\ announced \subseteq DOMAIN log /\ failed \subseteq DOMAIN log

(* The store holds a stable event once.                                    *)
StoredOnce ==
  \A m, n \in DOMAIN log : log[m] \in Stable /\ log[m] = log[n] => m = n

(* The publication stores, projects or announces the event numbered m.     *)
InFlight(m) ==
  pub.phase \in {"project", "fanout"} /\ pub.announce /\ pub.seq = m

(* What the holder of publishMu knows, and that what is pending was not    *)
(* announced.                                                              *)
Publication ==
  /\ pub.phase = "idle" => pub = NoPub
  /\ pub.phase # "idle" => pub.id \in Events
  /\ pub.phase = "append" =>
       pub.last <= Len(log) /\ (pub.id \in Stable => ~Exists(pub.id))
  /\ pub.phase \in {"project", "fanout"} =>
       /\ pub.seq \in DOMAIN log /\ log[pub.seq] = pub.id
       /\ pub.announce => pub.seq \notin announced
  /\ pub.phase = "fanout" => pub.announce /\ pub.id \notin pending
  /\ \A n \in announced : log[n] \notin pending

(* A subscription's channel: within its room, without repetition, and the  *)
(* live suffix was announced.                                              *)
Channel(c) ==
  LET s == sub[c] IN
  /\ s.phase \in {"off", "desynchronized"} => s.events = <<>> /\ ~s.registered
  /\ s.floor <= Len(log)
  /\ Len(s.events) <= s.cap
  /\ s.phase = "replaying" =>
       /\ s.from = cursor[c] /\ s.from <= s.floor /\ s.cap = Capacity
       /\ \A i \in DOMAIN s.events : s.events[i] > s.floor
  /\ \A i \in DOMAIN s.events :
       /\ s.events[i] \in DOMAIN log
       /\ s.events[i] > s.floor => s.events[i] \in announced
  /\ \A i, j \in DOMAIN s.events : s.events[i] = s.events[j] => i = j

(* What a registered subscription owes its client is in the channel.       *)
Queued(c) ==
  LET s == sub[c] IN
  s.registered =>
    /\ \A n \in announced :
         n > s.floor /\ n > cursor[c] => n \in Numbers(s.events)
    /\ s.phase = "live" =>
         \A n \in 1..s.floor :
           Own(n) /\ n > cursor[c] => n \in Numbers(s.events)

(* Beyond the fence, what is stored was announced, failed, or is being     *)
(* published.                                                              *)
Covered(c) ==
  sub[c].registered =>
    \A m \in DOMAIN log : Own(m) /\ m > sub[c].floor =>
      m \in failed \/ m \in announced \/ InFlight(m)

Base(c) == IF sub[c].phase = "replaying" THEN sub[c].floor ELSE cursor[c]

(* What precedes an entry of the channel failed, or is queued before it.   *)
Ordered(c) ==
  LET s == sub[c] IN
  \A i \in DOMAIN s.events, m \in DOMAIN log :
    Own(m) /\ Base(c) < m /\ m < s.events[i] =>
      m \in failed \/ \E j \in DOMAIN s.events : j < i /\ s.events[j] = m

Stream(c) == Channel(c) /\ Queued(c) /\ Covered(c) /\ Ordered(c)

IInv ==
  /\ Types /\ StoredOnce /\ Publication /\ LosslessButFailed
  /\ \A c \in Clients : Stream(c)

-----------------------------------------------------------------------------
(* Induction over the natural numbers, from their well-foundedness.        *)

(* A set of natural numbers has a least element.                           *)
LEMMA LeastNumber ==
  ASSUME NEW T, T \subseteq Nat, T # {}
  PROVE  \E n \in T : \A m \in T : n <= m
<1> DEFINE Below == {p \in Nat \X Nat : p[1] < p[2]}
<1>1. IsWellFoundedOn(Below, Nat)
  BY NatLessThanWellFounded, Zenon DEF OpToRel
<1>2. PICK n \in T : \A m \in T : ~(<<m, n>> \in Below)
  BY <1>1, WFMin
<1>3. ASSUME NEW m \in T PROVE n <= m
  <2>1. n \in Nat /\ m \in Nat
    OBVIOUS
  <2>2. m < n => <<m, n>> \in Below
    BY <2>1
  <2> QED  BY <1>2, <2>1, <2>2
<1> QED  BY <1>3

(* A set that holds 0 and the successor of each of its elements is Nat.    *)
LEMMA Induction ==
  ASSUME NEW S \in SUBSET Nat, 0 \in S, \A n \in S : n + 1 \in S
  PROVE  S = Nat
<1> SUFFICES ASSUME Nat \ S # {} PROVE FALSE
  OBVIOUS
<1>1. PICK n \in Nat \ S : \A m \in Nat \ S : n <= m
  BY LeastNumber
<1>2. n - 1 \in S /\ (n - 1) + 1 = n
  BY <1>1
<1> QED  BY <1>1, <1>2

(* The replayed page.                                                      *)
Lists(p, S) ==
  /\ p \in [1..Cardinality(S) -> S]
  /\ \A i, j \in DOMAIN p : i < j => p[i] < p[j]
  /\ \A n \in S : \E i \in DOMAIN p : p[i] = n

(* Every bounded set of sequence numbers can be listed in order.           *)
LEMMA Listable ==
  \A b \in Nat : \A S \in SUBSET (1..b) : \E p : Lists(p, S)
<1> DEFINE Good == {b \in Nat : \A S \in SUBSET (1..b) : \E p : Lists(p, S)}
<1>1. 0 \in Good
  <2>1. ASSUME NEW S \in SUBSET (1..0) PROVE \E p : Lists(p, S)
    <3>0. 1..0 = {}
      OBVIOUS
    <3>1. S = {} /\ Cardinality(S) = 0
      BY <3>0, FS_EmptySet
    <3>2. Lists([i \in 1..0 |-> i], S)
      BY <3>1 DEF Lists
    <3> QED  BY <3>2
  <2> QED  BY <2>1
<1>2. ASSUME NEW b \in Good PROVE b + 1 \in Good
  <2>1. ASSUME NEW S \in SUBSET (1..(b + 1)) PROVE \E p : Lists(p, S)
    <3> DEFINE T == S \ {b + 1}
    <3>0. b \in Nat /\ T \in SUBSET (1..b)
      OBVIOUS
    <3>1. PICK q : Lists(q, T)
      BY <3>0
    <3>2. CASE b + 1 \notin S
      BY <3>1, <3>2
    <3>3. CASE b + 1 \in S
      <4>1. IsFiniteSet(T) /\ IsFiniteSet(S)
        BY <3>0, FS_Interval, FS_Subset, b + 1 \in Int, b \in Int, 1 \in Int
      <4>2. Cardinality(T) \in Nat /\ Cardinality(S) = Cardinality(T) + 1
        <5>1. S = T \cup {b + 1} /\ b + 1 \notin T
          BY <3>3
        <5> QED  BY <4>1, <5>1, FS_AddElement, FS_CardinalityType
      <4> DEFINE k == Cardinality(T)
                 p == [i \in 1..(k + 1) |-> IF i = k + 1 THEN b + 1 ELSE q[i]]
      <4> HIDE DEF T, k
      <4>3. /\ k \in Nat /\ Cardinality(S) = k + 1
            /\ q \in [1..k -> T] /\ T \in SUBSET (1..b)
            /\ \A i, j \in 1..k : i < j => q[i] < q[j]
            /\ \A n \in T : \E i \in 1..k : q[i] = n
        BY <3>0, <3>1, <4>2 DEF Lists, k
      <4>4. T \subseteq S /\ \A n \in S : n = b + 1 \/ n \in T
        BY DEF T
      <4>5. p \in [1..(k + 1) -> S]
        <5>1. ASSUME NEW i \in 1..(k + 1), i # k + 1 PROVE q[i] \in S
          <6>1. i \in 1..k
            BY <4>3, <5>1
          <6> QED  BY <4>3, <4>4, <6>1
        <5> QED  BY <3>3, <5>1
      <4>6. ASSUME NEW i \in 1..(k + 1), NEW j \in 1..(k + 1), i < j
            PROVE  p[i] < p[j]
        <5>0. i \in 1..k /\ i # k + 1
          BY <4>3, <4>6
        <5>1. i \in 1..k /\ p[i] = q[i] /\ q[i] \in 1..b
          BY <4>3, <5>0
        <5>2. CASE j = k + 1
          BY <5>1, <5>2, <3>0
        <5>3. CASE j \in 1..k
          BY <4>3, <4>6, <5>1, <5>3
        <5> QED  BY <4>3, <5>2, <5>3
      <4>7. ASSUME NEW n \in S PROVE \E i \in 1..(k + 1) : p[i] = n
        <5>1. CASE n = b + 1
          BY <5>1, <4>3
        <5>2. CASE n \in T
          <6>1. PICK i \in 1..k : q[i] = n
            BY <4>3, <5>2
          <6>2. i \in 1..(k + 1) /\ p[i] = n
            BY <4>3, <6>1
          <6> QED  BY <6>2
        <5> QED  BY <4>4, <5>1, <5>2
      <4>8. DOMAIN p = 1..Cardinality(S)
        BY <4>3
      <4> HIDE DEF p
      <4>9. Lists(p, S)
        BY <4>3, <4>5, <4>6, <4>7, <4>8 DEF Lists
      <4> QED  BY <4>9
    <3> QED  BY <3>2, <3>3
  <2> QED  BY <2>1
<1>3. Good \in SUBSET Nat
  OBVIOUS
<1> HIDE DEF Good
<1>4. Good = Nat
  BY <1>1, <1>2, <1>3, Induction
<1> QED  BY <1>4 DEF Good

(* The page lists the own numbers of (from, floor] in order.               *)
LEMMA PageListed ==
  ASSUME Types, NEW c \in Clients
  PROVE  LET s == sub[c] page == Page(s) IN
         /\ page \in Seq(Nat) /\ Len(page) \in Nat /\ DOMAIN page = 1..Len(page)
         /\ \A i, j \in DOMAIN page : i < j => page[i] < page[j]
         /\ \A i \in DOMAIN page :
              page[i] \in Nat /\ s.from < page[i] /\ page[i] <= s.floor
         /\ \A n \in 1..s.floor :
              s.from < n /\ Own(n) => \E i \in DOMAIN page : page[i] = n
<1> DEFINE s == sub[c]
           S == {n \in (s.from + 1)..s.floor : Own(n)}
           page == Page(s)
<1>1. s.from \in Nat /\ s.floor \in Nat
  BY DEF Types, Subscription
<1> HIDE DEF s
<1>2. S \in SUBSET (1..s.floor)
  BY <1>1
<1>3. Lists(page, S)
  <2>1. \E p : Lists(p, S)
    BY <1>1, <1>2, Listable
  <2> HIDE DEF S
  <2>2. Lists(InOrder(S), S)
    BY <2>1 DEF Lists, InOrder
  <2>3. page = InOrder(S)
    BY DEF Page, S
  <2> QED  BY <2>2, <2>3
<1>4. Cardinality(S) \in Nat
  BY <1>1, <1>2, FS_Interval, FS_Subset, FS_CardinalityType, 1 \in Int, s.floor \in Int
<1> HIDE DEF page
<1>5. /\ page \in Seq(Nat) /\ Len(page) \in Nat /\ DOMAIN page = 1..Len(page)
      /\ \A i \in DOMAIN page : page[i] \in S
  <2>1. page \in [1..Cardinality(S) -> S] /\ S \subseteq Nat
    BY <1>1, <1>3 DEF Lists
  <2> HIDE DEF S
  <2>2. page \in [1..Cardinality(S) -> Nat] /\ \A i \in DOMAIN page : page[i] \in S
    BY <2>1
  <2>3. page \in Seq(Nat)
    BY <1>4, <2>2, SeqDef
  <2> QED  BY <2>2, <2>3, LenProperties
<1>6. \A i \in DOMAIN page : page[i] \in Nat /\ s.from < page[i] /\ page[i] <= s.floor
  BY <1>1, <1>5
<1>7. ASSUME NEW n \in 1..s.floor, s.from < n, Own(n)
      PROVE  \E i \in DOMAIN page : page[i] = n
  <2>1. n \in S
    BY <1>1, <1>7
  <2> QED  BY <1>3, <2>1 DEF Lists
<1>8. \A i, j \in DOMAIN page : i < j => page[i] < page[j]
  BY <1>3 DEF Lists
<1> QED  BY <1>5, <1>6, <1>7, <1>8 DEF page, s

-----------------------------------------------------------------------------
(* The store only grows, at its end.                                       *)
LogKept ==
  /\ DOMAIN log = 1..Len(log) /\ DOMAIN log' = 1..Len(log')
  /\ Len(log) \in Nat /\ Len(log') \in Nat /\ Len(log) <= Len(log')
  /\ \A n \in DOMAIN log : log'[n] = log[n]

LEMMA LogGrows ==
  ASSUME Types, NEW x \in Events \cup {None}, log' = Append(log, x)
  PROVE  /\ LogKept /\ log' \in Seq(Events \cup {None})
         /\ Len(log') = Len(log) + 1 /\ log'[Len(log) + 1] = x
<1>1. log \in Seq(Events \cup {None})
  BY DEF Types
<1> QED  BY <1>1 DEF LogKept

LEMMA LogSame ==
  ASSUME Types, log' = log
  PROVE  LogKept
<1>1. log \in Seq(Events \cup {None})
  BY DEF Types
<1> QED  BY <1>1 DEF LogKept

(* A step that leaves a subscription alone keeps what is known of it when  *)
(* it accounts for what it stores.                                         *)
Accounted ==
  \A m \in DOMAIN log' : log'[m] # None =>
    \/ m \in failed' \/ InFlight(m)'
    \/ m \in DOMAIN log /\ ~InFlight(m)

LEMMA StreamFrame ==
  ASSUME Types, NEW c \in Clients, Stream(c), LogKept, Accounted,
         sub'[c] = sub[c], cursor'[c] = cursor[c],
         announced' = announced, failed \subseteq failed'
  PROVE  Stream(c)'
<1>1. /\ sub[c].floor \in Nat /\ cursor[c] \in Nat /\ sub[c].from \in Nat
      /\ sub[c].floor <= Len(log)
      /\ \A i \in DOMAIN sub[c].events : sub[c].events[i] \in 1..Len(log)
  BY DEF Types, Subscription, Stream, Channel, LogKept
<1>2. Channel(c)'
  BY <1>1 DEF Stream, Channel, LogKept, Capacity
<1>3. Queued(c)'
  <2>1. \A n \in 1..sub[c].floor : n \in DOMAIN log /\ log'[n] = log[n]
    BY <1>1 DEF LogKept
  <2> QED  BY <2>1 DEF Stream, Queued, Own
<1>4. Covered(c)'
  BY DEF Stream, Covered, Accounted, Own, LogKept
<1>5. Ordered(c)'
  <2>1. Base(c)' = Base(c)
    BY DEF Base
  <2>2. ASSUME NEW i \in DOMAIN sub[c].events, NEW m \in DOMAIN log',
               log'[m] # None, Base(c) < m, m < sub[c].events[i]
        PROVE  m \in failed' \/ \E j \in DOMAIN sub[c].events : j < i /\ sub[c].events[j] = m
    <3>1. m \in DOMAIN log
      BY <1>1, <2>2 DEF LogKept
    <3> QED  BY <2>2, <3>1 DEF Stream, Ordered, Own, LogKept
  <2> QED  BY <2>1, <2>2 DEF Ordered, Own
<1> QED  BY <1>2, <1>3, <1>4, <1>5 DEF Stream

(* A connection that ended owes nothing.                                   *)
LEMMA StreamOff ==
  ASSUME NEW c \in Clients, Len(log') \in Nat,
         sub'[c].events = <<>>, ~sub'[c].registered, sub'[c].floor <= Len(log'),
         sub'[c].cap \in Nat, sub'[c].phase # "replaying"
  PROVE  Stream(c)'
<1>1. Len(<<>>) = 0 /\ DOMAIN <<>> = {}
  OBVIOUS
<1> QED  BY <1>1 DEF Stream, Channel, Queued, Covered, Ordered

(* The subscription of a client without a connection.                      *)
LEMMA NoSubs ==
  ASSUME NEW s \in {NoSub, Lost}
  PROVE  /\ s \in Subscription /\ s.events = <<>> /\ ~s.registered
         /\ s.floor = 0 /\ s.cap = 0 /\ s.phase # "replaying"
<1>1. /\ NoSub \in Subscription /\ NoSub.events = <<>> /\ ~NoSub.registered
      /\ NoSub.floor = 0 /\ NoSub.cap = 0 /\ NoSub.phase = "off"
  BY DEF NoSub, Subscription
<1> QED  BY <1>1 DEF Lost, Subscription

(* A step that moves no cursor keeps LosslessButFailed.                    *)
LEMMA LosslessFrame ==
  ASSUME Types, LosslessButFailed, LogKept, failed \subseteq failed',
         UNCHANGED client
  PROVE  LosslessButFailed'
<1>1. \A c \in Clients : cursor[c] \in 0..Len(log)
  BY DEF Types
<1>2. \A c \in Clients, n \in DOMAIN log' : n <= cursor[c] => n \in DOMAIN log
  BY <1>1 DEF LogKept
<1> QED  BY <1>2 DEF LosslessButFailed, LogKept, Own, client

-----------------------------------------------------------------------------
(* The publisher's steps touch no subscription.                            *)
PublisherStep ==
  /\ Types' /\ StoredOnce' /\ Publication' /\ LogKept /\ Accounted
  /\ failed \subseteq failed' /\ UNCHANGED <<sub, cursor, seen, announced>>

LEMMA Publisher ==
  ASSUME IInv, PublisherStep
  PROVE  IInv'
<1>1. \A c \in Clients : Stream(c)'
  BY StreamFrame DEF IInv, PublisherStep
<1>2. LosslessButFailed'
  BY LosslessFrame DEF IInv, PublisherStep, client
<1> QED  BY <1>1, <1>2 DEF IInv, PublisherStep

(* A publication in progress has an event of its own.                      *)
LEMMA Busy ==
  ASSUME Types, Publication
  PROVE  /\ DOMAIN log = 1..Len(log) /\ Len(log) \in Nat
         /\ pub.phase # "idle" => pub.id \in Events /\ pub.id # None
         /\ pub = NoPub => pub.phase = "idle"
BY HubConstants DEF Types, Publication, NoPub, Events

LEMMA AppendingPub ==
  ASSUME NEW id \in Events, last \in Nat, Appending(id)
  PROVE  /\ pub' \in PubType /\ pub'.phase = "append" /\ pub'.id = id
         /\ pub'.last = last
<1>1. pub' = [phase |-> "append", id |-> id, seq |-> 0, last |-> last,
              attempt |-> 0, announce |-> FALSE]
  BY DEF Appending, NoPub
<1> QED  BY <1>1 DEF PubType

LEMMA ProjectingPub ==
  ASSUME NEW id \in Events, NEW n \in Nat, NEW a \in BOOLEAN,
         Projecting(id, n, a)
  PROVE  /\ pub' \in PubType /\ pub'.phase = "project" /\ pub'.id = id
         /\ pub'.seq = n /\ pub'.announce = a
<1>1. pub' = [phase |-> "project", id |-> id, seq |-> n, last |-> 0,
              attempt |-> 0, announce |-> a]
  BY Zenon DEF Projecting, NoPub
<1>2. 0 \in Nat /\ 0 \in 0..3
  OBVIOUS
<1> QED  BY <1>1, <1>2, Zenon DEF PubType

LEMMA PublishStableKeeps ==
  ASSUME IInv, NEW id \in Events, PublishStable(id)
  PROVE  PublisherStep
<1> USE DEF IInv
<1>1. /\ id \in Stable /\ pub = NoPub /\ pub.phase = "idle"
      /\ UNCHANGED <<log, pending, closed, tried, sub, cursor, seen, faults, announced, failed>>
  BY DEF PublishStable, client, history, NoPub
<1>2. LogKept /\ DOMAIN log = 1..Len(log) /\ Len(log) \in Nat
  BY <1>1, LogSame, Busy
<1>3. StoredOnce'
  BY <1>1 DEF StoredOnce
<1>4. CASE Exists(id)
  <2> DEFINE n == SequenceOf(id)
  <2>1. n \in DOMAIN log /\ log[n] = id
    BY <1>4 DEF Exists, SequenceOf
  <2>2. last' = Larger(last, n) /\ Projecting(id, n, id \in pending)
    BY <1>4 DEF PublishStable
  <2> HIDE DEF n
  <2>3. /\ pub'.phase = "project" /\ pub'.id = id /\ pub'.seq = n
        /\ (pub'.announce <=> id \in pending)
        /\ pub' \in PubType
    <3>1. n \in Nat /\ (id \in pending) \in BOOLEAN
      BY <1>2, <2>1
    <3> QED  BY <2>2, <3>1, ProjectingPub, Zenon
  <2>4. last' \in 0..Len(log)
    BY <1>2, <2>1, <2>2 DEF Larger, Types
  <2>5. Types'
    BY <1>1, <2>3, <2>4 DEF Types
  <2>6. Publication'
    BY <1>1, <2>1, <2>3, Zenon DEF Publication
  <2>7. Accounted
    BY <1>1 DEF Accounted, InFlight
  <2> QED  BY <1>1, <1>2, <1>3, <2>5, <2>6, <2>7 DEF PublisherStep
<1>5. CASE ~Exists(id)
  <2>1. Appending(id) /\ UNCHANGED last
    BY <1>5 DEF PublishStable
  <2>2. /\ pub'.phase = "append" /\ pub'.id = id /\ pub'.last = last
        /\ pub' \in PubType
    BY <1>2, <2>1, AppendingPub DEF Types
  <2>3. Types'
    BY <1>1, <2>1, <2>2 DEF Types
  <2>4. Publication'
    BY <1>1, <1>2, <1>5, <2>1, <2>2 DEF Publication, Types, Exists
  <2>5. Accounted
    BY <1>1 DEF Accounted, InFlight
  <2> QED  BY <1>1, <1>2, <1>3, <2>3, <2>4, <2>5 DEF PublisherStep
<1> QED  BY <1>4, <1>5

LEMMA PublishKeeps ==
  ASSUME IInv, NEW id \in Events, Publish(id)
  PROVE  PublisherStep
<1> USE DEF IInv
<1>1. /\ id \in Plain /\ pub = NoPub /\ pub.phase = "idle" /\ Appending(id)
      /\ tried' = tried \cup {id}
      /\ UNCHANGED <<log, last, pending, closed, sub, cursor, seen, faults, announced, failed>>
  BY DEF Publish, client, history, hub, NoPub
<1>2. LogKept /\ DOMAIN log = 1..Len(log) /\ Len(log) \in Nat
  BY <1>1, LogSame, Busy
<1>3. /\ pub'.phase = "append" /\ pub'.id = id /\ pub'.last = last
      /\ pub' \in PubType
  BY <1>1, <1>2, AppendingPub DEF Types
<1>4. Types'
  BY <1>1, <1>3 DEF Types
<1>5. Publication'
  BY <1>1, <1>2, <1>3, HubConstants DEF Publication, Types
<1>6. Accounted /\ StoredOnce'
  BY <1>1 DEF Accounted, InFlight, StoredOnce
<1> QED  BY <1>1, <1>2, <1>4, <1>5, <1>6 DEF PublisherStep

(* What a step that stores x keeps of the types and of Publication.        *)
LEMMA StoreGrows ==
  ASSUME IInv, NEW x \in Events \cup {None}, log' = Append(log, x),
         x \in Stable => ~Exists(x),
         UNCHANGED <<pending, cursor, seen, announced>>
  PROVE  /\ LogKept /\ log' \in Seq(Events \cup {None})
         /\ Len(log') = Len(log) + 1 /\ log'[Len(log) + 1] = x
         /\ StoredOnce'
         /\ cursor' \in [Clients -> 0..Len(log')]
         /\ seen' \in [Clients -> SUBSET DOMAIN log']
         /\ announced' \subseteq DOMAIN log'
         /\ Len(log) + 1 \notin announced
         /\ \A n \in announced' : log'[n] \notin pending'
         /\ \A m \in DOMAIN log' : m \in DOMAIN log \/ m = Len(log) + 1
<1> USE DEF IInv
<1>1. /\ LogKept /\ log' \in Seq(Events \cup {None})
      /\ Len(log') = Len(log) + 1 /\ log'[Len(log) + 1] = x
  BY LogGrows
<1>2. \A m \in DOMAIN log' : m \in DOMAIN log \/ m = Len(log) + 1
  BY <1>1 DEF LogKept
<1>3. StoredOnce'
  BY <1>1, <1>2 DEF StoredOnce, LogKept, Exists
<1>4. DOMAIN log \subseteq DOMAIN log' /\ 0..Len(log) \subseteq 0..Len(log')
  BY <1>1 DEF LogKept
<1>5. /\ cursor' \in [Clients -> 0..Len(log')]
      /\ seen' \in [Clients -> SUBSET DOMAIN log']
      /\ announced' \subseteq DOMAIN log'
  BY <1>4 DEF Types
<1>6. Len(log) + 1 \notin announced
  BY <1>1 DEF Types, LogKept
<1>7. \A n \in announced' : log'[n] \notin pending'
  BY <1>1 DEF Types, Publication, LogKept
<1> QED  BY <1>1, <1>2, <1>3, <1>5, <1>6, <1>7

LEMMA AppendSucceedsKeeps ==
  ASSUME IInv, AppendSucceeds
  PROVE  PublisherStep
<1> USE DEF IInv
<1>1. /\ pub.phase = "append" /\ ~Taken /\ log' = Append(log, pub.id)
      /\ last' = pub.last + 1 /\ Projecting(pub.id, pub.last + 1, TRUE)
      /\ UNCHANGED <<pending, closed, tried, sub, cursor, seen, faults, announced, failed>>
  BY DEF AppendSucceeds, client, history
<1>2. /\ pub.id \in Events /\ (pub.id \in Stable => ~Exists(pub.id))
      /\ pub.last = Len(log) /\ Len(log) \in Nat
  BY <1>1, Busy DEF Publication, Taken, LastSequence, Types, PubType
<1>3. /\ LogKept /\ log' \in Seq(Events \cup {None})
      /\ Len(log') = Len(log) + 1 /\ log'[Len(log) + 1] = pub.id
      /\ StoredOnce'
      /\ cursor' \in [Clients -> 0..Len(log')]
      /\ seen' \in [Clients -> SUBSET DOMAIN log']
      /\ announced' \subseteq DOMAIN log'
      /\ Len(log) + 1 \notin announced
      /\ \A n \in announced' : log'[n] \notin pending'
      /\ \A m \in DOMAIN log' : m \in DOMAIN log \/ m = Len(log) + 1
  BY <1>1, <1>2, StoreGrows
<1>4. /\ pub' \in PubType /\ pub'.phase = "project" /\ pub'.id = pub.id
      /\ pub'.seq = Len(log) + 1 /\ pub'.announce
  <2>1. Len(log) + 1 \in Nat /\ pub.last + 1 = Len(log) + 1 /\ TRUE \in BOOLEAN
    BY <1>2
  <2> QED  BY <1>1, <1>2, <2>1, ProjectingPub, Zenon
<1>5. failed \subseteq DOMAIN log'
  BY <1>3 DEF Types, LogKept
<1>6. Types'
  BY <1>1, <1>2, <1>3, <1>4, <1>5 DEF Types
<1>7. Publication'
  BY <1>1, <1>2, <1>3, <1>4 DEF Publication, LogKept
<1>8. Accounted
  BY <1>1, <1>3, <1>4 DEF Accounted, InFlight
<1> QED  BY <1>1, <1>3, <1>6, <1>7, <1>8 DEF PublisherStep

(* A failed append that stored nothing, or the event of the publication.   *)
LEMMA AppendFailsKeeps ==
  ASSUME IInv, AppendFails
  PROVE  PublisherStep
<1> USE DEF IInv
<1> DEFINE Found == CHOOSE k \in DOMAIN log' : log'[k] = pub.id
<1>1. /\ pub.phase = "append" /\ AfterFailedAppend(log')
      /\ log' = log \/ (log' = Append(log, pub.id) /\ ~Taken)
      /\ failed' = IF log' = log \/ pub.id \in Stable THEN failed
                   ELSE failed \cup {Len(log')}
      /\ UNCHANGED <<pending, closed, tried, sub, cursor, seen, announced>>
  <2>1. log' = log \/ (log' = Append(log, pub.id) /\ ~Taken)
    BY DEF AppendFails
  <2> QED  BY <2>1 DEF AppendFails, client
<1>2. faults' \in 0..MaxFaults
  BY HubConstants DEF AppendFails, Fails, Types
<1>3. /\ pub.id \in Events /\ (pub.id \in Stable => ~Exists(pub.id))
      /\ pub.last <= Len(log) /\ Len(log) \in Nat /\ pub.last \in Nat
      /\ pub.id # None /\ last \in 0..Len(log) /\ pub.attempt \in 0..3
  BY <1>1, Busy DEF Publication, Types, PubType
<1>4. /\ LogKept /\ log' \in Seq(Events \cup {None})
      /\ StoredOnce'
      /\ cursor' \in [Clients -> 0..Len(log')]
      /\ seen' \in [Clients -> SUBSET DOMAIN log']
      /\ announced' \subseteq DOMAIN log'
      /\ \A n \in announced' : log'[n] \notin pending'
      /\ log' = log \/ /\ Len(log') = Len(log) + 1 /\ log'[Len(log) + 1] = pub.id
                       /\ Len(log) + 1 \notin announced
                       /\ \A m \in DOMAIN log' : m \in DOMAIN log \/ m = Len(log) + 1
  <2>1. CASE log' = log
    BY <1>1, <2>1, LogSame DEF Types, StoredOnce, Publication
  <2>2. CASE log' = Append(log, pub.id)
    BY <1>1, <1>3, <2>2, StoreGrows
  <2> QED  BY <1>1, <2>1, <2>2
<1>0. /\ Len(log) <= Len(log') /\ Len(log') \in Nat /\ Len(log) \in Nat
       /\ DOMAIN log = 1..Len(log) /\ DOMAIN log' = 1..Len(log')
  BY <1>4 DEF LogKept
<1>5. failed \subseteq failed' /\ failed' \subseteq DOMAIN log'
  <2>1. failed \subseteq DOMAIN log'
    BY <1>0 DEF Types
  <2>2. log' # log => Len(log') \in DOMAIN log'
    <3>1. log' # log => Len(log') = Len(log) + 1
      BY <1>4, Zenon
    <3> QED  BY <1>0, <3>1
  <2> QED  BY <1>1, <2>1, <2>2
<1>6. CASE pub.id \in Stable /\ Stored(log')
  <2>1. last' = Larger(last, Found) /\ Projecting(pub.id, Found, TRUE)
    BY <1>1, <1>6 DEF AfterFailedAppend
  <2>2. Found \in DOMAIN log' /\ log'[Found] = pub.id
    BY <1>6 DEF Stored
  <2> HIDE DEF Found
  <2>3. log' # log /\ Found = Len(log) + 1 /\ Len(log') = Len(log) + 1
    BY <1>3, <1>4, <1>6, <2>2 DEF Exists, LogKept
  <2>4. /\ pub' \in PubType /\ pub'.phase = "project" /\ pub'.id = pub.id
        /\ pub'.seq = Found /\ pub'.announce
    <3>1. Found \in Nat /\ TRUE \in BOOLEAN
      BY <1>3, <2>3
    <3> QED  BY <1>3, <2>1, <3>1, ProjectingPub, Zenon
  <2>5. last' \in 0..Len(log')
    BY <1>3, <2>1, <2>3 DEF Larger
  <2>6. Types'
    BY <1>1, <1>2, <1>4, <1>5, <2>4, <2>5 DEF Types
  <2>7. Publication'
    BY <1>1, <1>3, <1>4, <2>2, <2>3, <2>4 DEF Publication
  <2>8. Accounted
    BY <1>1, <1>4, <2>3, <2>4 DEF Accounted, InFlight
  <2> QED  BY <1>1, <1>4, <1>5, <2>6, <2>7, <2>8 DEF PublisherStep
<1>7. CASE ~(pub.id \in Stable /\ Stored(log'))
  <2>1. Accounted
    BY <1>1, <1>4, <1>7, <1>3 DEF Accounted, InFlight, Stored, LogKept
  <2>2. pub.id \in Stable => \A n \in DOMAIN log' : log'[n] # pub.id
    BY <1>7 DEF Stored
  <2>3. CASE pub.attempt >= 3
    <3>1. pub' = NoPub /\ UNCHANGED last
      BY <1>1, <1>7, <2>3 DEF AfterFailedAppend
    <3>2. NoPub \in PubType /\ NoPub.phase = "idle"
      BY DEF NoPub, PubType
    <3>3. last' \in 0..Len(log')
      BY <1>3, <1>0, <3>1
    <3>4. Types' /\ Publication'
      BY <1>1, <1>2, <1>4, <1>5, <3>1, <3>2, <3>3 DEF Types, Publication
    <3> QED  BY <1>1, <1>4, <1>5, <2>1, <3>4 DEF PublisherStep
  <2>4. CASE ~(pub.attempt >= 3)
    <3>1. /\ pub' = [pub EXCEPT !.last = Larger(@, Len(log')), !.attempt = @ + 1]
          /\ last' = Larger(last, Len(log'))
      BY <1>1, <1>7, <2>4 DEF AfterFailedAppend
    <3>2. Larger(pub.last, Len(log')) = Len(log') /\ last' \in 0..Len(log')
      BY <1>3, <1>0, <3>1 DEF Larger
    <3>3. Len(log') \in Nat /\ pub.attempt + 1 \in 0..3
      BY <1>3, <1>0, <2>4
    <3>4. /\ pub' \in PubType /\ pub'.phase = "append" /\ pub'.id = pub.id
          /\ pub'.last = Len(log')
      BY <1>1, <3>1, <3>2, <3>3 DEF Types, PubType
    <3>5. Types' /\ Publication'
      BY <1>1, <1>2, <1>3, <1>4, <1>5, <2>2, <3>2, <3>3, <3>4
         DEF Types, Publication, Exists
    <3> QED  BY <1>1, <1>4, <1>5, <2>1, <3>5 DEF PublisherStep
  <2> QED  BY <2>3, <2>4
<1> QED  BY <1>6, <1>7

LEMMA LookupFailsKeeps ==
  ASSUME IInv, LookupFails
  PROVE  PublisherStep
<1> USE DEF IInv
<1>1. /\ pub.phase = "append" /\ pub' = NoPub
      /\ log' = log \/ (log' = Append(log, pub.id) /\ ~Taken)
      /\ failed' = failed \cup (DOMAIN log' \ DOMAIN log)
      /\ UNCHANGED <<last, pending, closed, tried, sub, cursor, seen, announced>>
  <2>1. log' = log \/ (log' = Append(log, pub.id) /\ ~Taken)
    BY DEF LookupFails
  <2> QED  BY <2>1 DEF LookupFails, client, hub
<1>2. faults' \in 0..MaxFaults
  BY HubConstants DEF LookupFails, Fails, Types
<1>3. /\ pub.id \in Events /\ (pub.id \in Stable => ~Exists(pub.id))
      /\ Len(log) \in Nat
  BY <1>1, Busy DEF Publication
<1>4. /\ LogKept /\ log' \in Seq(Events \cup {None})
      /\ StoredOnce'
      /\ cursor' \in [Clients -> 0..Len(log')]
      /\ seen' \in [Clients -> SUBSET DOMAIN log']
      /\ announced' \subseteq DOMAIN log'
      /\ \A n \in announced' : log'[n] \notin pending'
  <2>1. CASE log' = log
    BY <1>1, <2>1, LogSame DEF Types, StoredOnce, Publication
  <2>2. CASE log' = Append(log, pub.id)
    BY <1>1, <1>3, <2>2, StoreGrows
  <2> QED  BY <1>1, <2>1, <2>2
<1>0. /\ Len(log) <= Len(log') /\ Len(log') \in Nat /\ Len(log) \in Nat
       /\ DOMAIN log = 1..Len(log) /\ DOMAIN log' = 1..Len(log')
  BY <1>4 DEF LogKept
<1>5. failed \subseteq failed' /\ failed' \subseteq DOMAIN log'
  <2>1. failed' = failed \cup (DOMAIN log' \ DOMAIN log) /\ failed \subseteq DOMAIN log
    BY <1>1 DEF Types
  <2> HIDE DEF IInv
  <2> QED  BY <1>0, <2>1
<1>6. NoPub \in PubType /\ NoPub.phase = "idle"
  BY DEF NoPub, PubType
<1>7. last' \in 0..Len(log')
  <2>1. last' = last /\ last \in 0..Len(log)
    BY <1>1, Zenon DEF Types
  <2> QED  BY <1>0, <2>1
<1>8. Types' /\ Publication'
  BY <1>1, <1>2, <1>4, <1>5, <1>6, <1>7 DEF Types, Publication
<1>9. Accounted
  BY <1>1 DEF Accounted, InFlight
<1> QED  BY <1>1, <1>4, <1>5, <1>8, <1>9 DEF PublisherStep

LEMMA ProjectKeeps ==
  ASSUME IInv, Project
  PROVE  PublisherStep
<1> USE DEF IInv
<1>1. /\ pub.phase = "project"
      /\ UNCHANGED <<log, last, closed, tried, sub, cursor, seen, faults, announced, failed>>
  BY DEF Project, client, history
<1>2. LogKept /\ StoredOnce'
  BY <1>1, LogSame DEF StoredOnce
<1>3. CASE pub.announce
  <2>1. pub' = [pub EXCEPT !.phase = "fanout"] /\ pending' = pending \ {pub.id}
    BY <1>3 DEF Project
  <2>2. /\ pub' \in PubType /\ pub'.phase = "fanout" /\ pub'.id = pub.id
        /\ pub'.seq = pub.seq /\ pub'.announce
    BY <1>3, <2>1 DEF Types, PubType
  <2>3. Types'
    BY <1>1, <2>1, <2>2 DEF Types
  <2>4. Publication'
    BY <1>1, <1>3, <2>1, <2>2 DEF Publication
  <2>5. Accounted
    BY <1>1, <2>2 DEF Accounted, InFlight
  <2> QED  BY <1>1, <1>2, <2>3, <2>4, <2>5 DEF PublisherStep
<1>4. CASE ~pub.announce
  <2>1. pub' = NoPub /\ UNCHANGED pending
    BY <1>4 DEF Project
  <2>2. NoPub \in PubType /\ NoPub.phase = "idle"
    BY DEF NoPub, PubType
  <2>3. Types' /\ Publication'
    BY <1>1, <2>1, <2>2 DEF Types, Publication
  <2>4. Accounted
    BY <1>1, <1>4 DEF Accounted, InFlight
  <2> QED  BY <1>1, <1>2, <2>3, <2>4 DEF PublisherStep
<1> QED  BY <1>3, <1>4

LEMMA ProjectFailsKeeps ==
  ASSUME IInv, ProjectFails
  PROVE  PublisherStep
<1> USE DEF IInv
<1>1. /\ pub.phase = "project" /\ pub' = NoPub /\ failed' = failed \cup {pub.seq}
      /\ pending' = IF pub.announce /\ pub.id \in Stable
                      THEN pending \cup {pub.id} ELSE pending
      /\ UNCHANGED <<log, last, closed, tried, sub, cursor, seen, announced>>
  BY DEF ProjectFails, client
<1>2. faults' \in 0..MaxFaults
  BY HubConstants DEF ProjectFails, Fails, Types
<1>3. LogKept /\ StoredOnce'
  BY <1>1, LogSame DEF StoredOnce
<1>4. /\ pub.seq \in DOMAIN log /\ log[pub.seq] = pub.id
      /\ pub.announce => pub.seq \notin announced
  BY <1>1 DEF Publication
<1>5. NoPub \in PubType /\ NoPub.phase = "idle"
  BY DEF NoPub, PubType
<1>6. Types'
  BY <1>1, <1>2, <1>4, <1>5 DEF Types
<1>7. \A n \in announced : log[n] \notin pending'
  BY <1>1, <1>4 DEF Publication, StoredOnce, Types
<1>8. Publication'
  BY <1>1, <1>5, <1>7 DEF Publication
<1>9. Accounted
  BY <1>1 DEF Accounted, InFlight
<1> QED  BY <1>1, <1>3, <1>6, <1>8, <1>9 DEF PublisherStep

LEMMA ForeignAppendKeeps ==
  ASSUME IInv, ForeignAppend
  PROVE  PublisherStep
<1> USE DEF IInv
<1>1. /\ log' = Append(log, None)
      /\ UNCHANGED <<last, pending, closed, pub, tried, sub, cursor, seen, faults,
                     announced, failed>>
  BY DEF ForeignAppend, client, history, hub
<1>2. /\ LogKept /\ log' \in Seq(Events \cup {None})
      /\ Len(log') = Len(log) + 1 /\ log'[Len(log) + 1] = None
      /\ StoredOnce'
      /\ cursor' \in [Clients -> 0..Len(log')]
      /\ seen' \in [Clients -> SUBSET DOMAIN log']
      /\ announced' \subseteq DOMAIN log'
      /\ \A n \in announced' : log'[n] \notin pending'
      /\ \A m \in DOMAIN log' : m \in DOMAIN log \/ m = Len(log) + 1
  <2>1. None \notin Stable /\ None \in Events \cup {None}
    BY HubConstants
  <2> QED  BY <1>1, <2>1, StoreGrows
<1>3. /\ Len(log) <= Len(log') /\ Len(log') \in Nat /\ Len(log) \in Nat
      /\ DOMAIN log = 1..Len(log) /\ DOMAIN log' = 1..Len(log')
      /\ \A n \in DOMAIN log : log'[n] = log[n]
  BY <1>2 DEF LogKept
<1>4. last' \in 0..Len(log') /\ failed' \subseteq DOMAIN log'
  BY <1>1, <1>3 DEF Types
<1>5. Types'
  BY <1>1, <1>2, <1>4 DEF Types
<1>6. Publication'
  <2>1. pub.phase = "append" /\ pub.id \in Stable => \A n \in DOMAIN log' : log'[n] # pub.id
    BY <1>2, <1>3, HubConstants DEF Publication, Exists
  <2>2. pub.phase = "append" => pub.last <= Len(log')
    BY <1>3 DEF Publication, Types, PubType
  <2>3. pub.phase \in {"project", "fanout"} =>
          pub.seq \in DOMAIN log' /\ log'[pub.seq] = pub.id
    BY <1>3 DEF Publication
  <2> QED  BY <1>1, <1>2, <2>1, <2>2, <2>3 DEF Publication, Exists
<1>7. Accounted
  <2>1. \A m \in DOMAIN log' : log'[m] # None => m \in DOMAIN log
    BY <1>2
  <2> QED  BY <1>1, <2>1 DEF Accounted, InFlight
<1> QED  BY <1>1, <1>2, <1>5, <1>6, <1>7 DEF PublisherStep

(* An announced number or a page replaces what is queued, nothing else.    *)
LEMMA EventsReplaced ==
  ASSUME NEW s \in Subscription, NEW f \in Seq(Nat)
  PROVE  LET x == [s EXCEPT !.events = f] IN
         /\ x \in Subscription /\ x.events = f /\ x.phase = s.phase
         /\ x.floor = s.floor /\ x.from = s.from /\ x.cap = s.cap
         /\ x.registered = s.registered
BY DEF Subscription

-----------------------------------------------------------------------------
(* The channel of a subscription is a sequence of numbers with its length. *)
LEMMA Subscribed ==
  ASSUME Types, NEW c \in Clients
  PROVE  /\ sub[c] \in Subscription /\ sub[c].events \in Seq(Nat)
         /\ sub[c].floor \in Nat /\ sub[c].from \in Nat /\ sub[c].cap \in Nat
         /\ sub[c].registered \in BOOLEAN
         /\ Len(sub[c].events) \in Nat
         /\ DOMAIN sub[c].events = 1..Len(sub[c].events)
         /\ \A i \in DOMAIN sub[c].events : sub[c].events[i] \in Nat
         /\ cursor[c] \in Nat /\ cursor[c] <= Len(log) /\ Len(log) \in Nat
         /\ DOMAIN log = 1..Len(log)
<1>1. sub[c] \in Subscription /\ cursor[c] \in 0..Len(log)
  BY DEF Types
<1>2. sub[c].events \in Seq(Nat) /\ log \in Seq(Events \cup {None})
  BY <1>1 DEF Types, Subscription
<1>3. /\ Len(sub[c].events) \in Nat
      /\ DOMAIN sub[c].events = 1..Len(sub[c].events)
      /\ \A i \in DOMAIN sub[c].events : sub[c].events[i] \in Nat
      /\ Len(log) \in Nat /\ DOMAIN log = 1..Len(log)
  BY <1>2, LenProperties, ElementOfSeq
<1> QED  BY <1>1, <1>2, <1>3 DEF Subscription

(* The fanout appends the number to the channel of a registered client     *)
(* with room, behind everything the client is owed before it.              *)
LEMMA FanoutStream ==
  ASSUME IInv, Fanout, NEW c \in Clients
  PROVE  Stream(c)' /\ sub'[c] \in Subscription
<1> DEFINE s == sub[c]
           n == pub.seq
<1>1. /\ pub.phase = "fanout" /\ announced' = announced \cup {n} /\ pub' = NoPub
      /\ sub'[c] = FannedOut(s, n)
      /\ UNCHANGED <<log, cursor, failed>>
  BY DEF Fanout, client
<1>2. /\ n \in DOMAIN log /\ n \notin announced /\ log[n] # None /\ n \in Nat
  BY <1>1, Busy DEF IInv, Publication, Types, PubType
<1>3. /\ Channel(c) /\ Queued(c) /\ Covered(c) /\ Ordered(c)
  BY DEF IInv, Stream
<1>4. /\ s \in Subscription /\ s.events \in Seq(Nat)
      /\ s.floor \in Nat /\ s.from \in Nat /\ s.cap \in Nat
      /\ s.registered \in BOOLEAN
      /\ Len(s.events) \in Nat /\ DOMAIN s.events = 1..Len(s.events)
      /\ \A i \in DOMAIN s.events : s.events[i] \in Nat
      /\ cursor[c] \in Nat /\ cursor[c] <= Len(log) /\ Len(log) \in Nat
      /\ DOMAIN log = 1..Len(log)
  BY Subscribed DEF IInv
<1>5. ~InFlight(n)' /\ \A m : InFlight(m) => m = n
  BY <1>1 DEF InFlight, NoPub
<1>6. CASE ~s.registered \/ n <= s.floor
  <2>1. sub'[c] = s
    BY <1>1, <1>6 DEF FannedOut
  <2>2. Channel(c)'
    BY <1>1, <1>3, <2>1 DEF Channel, Capacity
  <2>3. Queued(c)'
    BY <1>1, <1>3, <1>6, <1>2, <1>4, <2>1 DEF Queued, Own
  <2>4. Covered(c)'
    BY <1>1, <1>3, <1>6, <1>2, <1>4, <1>5, <2>1 DEF Covered, Own
  <2>5. Ordered(c)'
    BY <1>1, <1>3, <2>1 DEF Ordered, Own, Base
  <2> QED  BY <1>4, <2>1, <2>2, <2>3, <2>4, <2>5 DEF Stream
<1>7. CASE s.registered /\ n > s.floor /\ ~(Len(s.events) < s.cap)
  <2>1. sub'[c] = [s EXCEPT !.registered = FALSE]
    BY <1>1, <1>2, <1>4, <1>7 DEF FannedOut
  <2>2. /\ sub'[c] \in Subscription /\ sub'[c].phase = s.phase /\ sub'[c].events = s.events
        /\ sub'[c].floor = s.floor /\ sub'[c].from = s.from /\ sub'[c].cap = s.cap
        /\ ~sub'[c].registered
    BY <1>4, <2>1 DEF Subscription
  <2>3. Channel(c)' /\ Queued(c)' /\ Covered(c)' /\ Ordered(c)'
    BY <1>1, <1>3, <2>2 DEF Channel, Capacity, Queued, Covered, Ordered, Own, Base
  <2> QED  BY <2>2, <2>3 DEF Stream
<1>8. CASE s.registered /\ n > s.floor /\ Len(s.events) < s.cap
  <2> DEFINE e == s.events
             k == Len(s.events)
             f == Append(s.events, n)
  <2>1. sub'[c] = [s EXCEPT !.events = f]
    BY <1>1, <1>2, <1>4, <1>8 DEF FannedOut
  <2>2. /\ f \in Seq(Nat) /\ Len(f) = k + 1 /\ DOMAIN f = 1..(k + 1)
        /\ f[k + 1] = n /\ \A i \in 1..k : f[i] = e[i]
    BY <1>2, <1>4, AppendProperties, LenProperties
  <2>3. /\ sub'[c] \in Subscription /\ sub'[c].phase = s.phase /\ sub'[c].events = f
        /\ sub'[c].floor = s.floor /\ sub'[c].from = s.from /\ sub'[c].cap = s.cap
        /\ sub'[c].registered
    <3> HIDE DEF f, n, s
    <3>1. s \in Subscription /\ f \in Seq(Nat)
      BY <1>4, <2>2
    <3> QED  BY <1>8, <2>1, <3>1, EventsReplaced
  <2> HIDE DEF f, n, s
  <2>4. \A i \in DOMAIN f : i = k + 1 \/ i \in DOMAIN e
    BY <1>4, <2>2
  <2>5. DOMAIN e \subseteq DOMAIN f /\ k + 1 \in DOMAIN f /\ k + 1 \notin DOMAIN e
        /\ \A i \in DOMAIN e : i < k + 1
    BY <1>4, <2>2
  <2>6. \A i \in DOMAIN e : e[i] # n
    BY <1>2, <1>3, <1>8 DEF Channel, s
  <2>7. Numbers(e) \subseteq Numbers(f) /\ n \in Numbers(f)
    BY <1>4, <2>2, <2>5 DEF Numbers
  <2>8. Channel(c)'
    <3>1. s.phase \notin {"off", "desynchronized"}
      BY <1>3, <1>8 DEF Channel, s
    <3>2. Len(f) <= s.cap
      BY <1>4, <1>8, <2>2
    <3>3. \A i \in DOMAIN f :
            /\ f[i] \in DOMAIN log
            /\ f[i] > s.floor => f[i] \in announced'
            /\ s.phase = "replaying" => f[i] > s.floor
      BY <1>1, <1>2, <1>3, <1>4, <1>8, <2>2, <2>4 DEF Channel, s
    <3>4. \A i, j \in DOMAIN f : f[i] = f[j] => i = j
      <4>1. \A i \in DOMAIN e : f[i] = e[i] /\ f[i] # n
        BY <1>4, <2>2, <2>6
      <4>2. \A i, j \in DOMAIN e : e[i] = e[j] => i = j
        BY <1>3 DEF Channel, s
      <4> QED  BY <2>2, <2>4, <4>1, <4>2
    <3>5. s.floor <= Len(log) /\ (s.phase = "replaying" =>
            s.from = cursor[c] /\ s.from <= s.floor /\ s.cap = Capacity)
      BY <1>3 DEF Channel, s
    <3> QED  BY <1>1, <2>3, <3>1, <3>2, <3>3, <3>4, <3>5 DEF Channel, Capacity
  <2>9. Queued(c)'
    BY <1>1, <1>3, <1>8, <2>3, <2>7 DEF Queued, Own, s
  <2>10. Covered(c)'
    BY <1>1, <1>3, <1>8, <1>5, <2>3 DEF Covered, Own, s
  <2>11. Ordered(c)'
    <3>1. Base(c)' = Base(c)
      BY <1>1, <2>3 DEF Base, s
    <3>2. ASSUME NEW m \in DOMAIN log, log[m] # None, Base(c) < m, m < n
          PROVE  m \in failed \/ \E j \in DOMAIN e : e[j] = m
      <4>1. m > cursor[c]
        BY <1>3, <1>4, <3>2 DEF Channel, Base, s
      <4>2. CASE m <= s.floor
        <5>1. s.phase = "live" /\ m \in 1..s.floor
          <6>1. s.phase # "replaying"
            BY <1>4, <3>2, <4>2 DEF Base, s
          <6>2. s.phase \notin {"off", "desynchronized"}
            BY <1>3, <1>8 DEF Channel, s
          <6> QED  BY <1>4, <4>2, <6>1, <6>2 DEF Subscription
        <5> QED  BY <1>3, <1>8, <3>2, <4>1, <5>1 DEF Queued, Own, Numbers, s
      <4>3. CASE m > s.floor
        <5>1. m \in failed \/ m \in announced
          <6>1. m # n
            BY <1>2, <1>4, <3>2
          <6> QED  BY <1>3, <1>5, <1>8, <3>2, <4>3, <6>1 DEF Covered, Own, s
        <5> QED  BY <1>3, <1>8, <4>1, <4>3, <5>1 DEF Queued, Numbers, s
      <4> QED  BY <1>4, <4>2, <4>3
    <3>3. ASSUME NEW i \in DOMAIN f, NEW m \in DOMAIN log,
                 log[m] # None, Base(c) < m, m < f[i]
          PROVE  m \in failed \/ \E j \in DOMAIN f : j < i /\ f[j] = m
      <4>1. CASE i = k + 1
        <5>1. f[i] = n
          BY <2>2, <4>1
        <5>3. \A j \in DOMAIN e : f[j] = e[j]
          BY <1>4, <2>2
        <5>2. m \in failed \/ \E j \in DOMAIN e : f[j] = m
          BY <3>2, <3>3, <5>1, <5>3
        <5> QED  BY <2>5, <4>1, <5>2
      <4>2. CASE i \in DOMAIN e
        <5>1. m \in failed \/ \E j \in DOMAIN e : j < i /\ e[j] = m
          <6>1. f[i] = e[i]
            BY <1>4, <2>2, <4>2
          <6> QED  BY <1>3, <3>3, <4>2, <6>1 DEF Ordered, Own, s
        <5> QED  BY <1>4, <2>2, <2>5, <5>1
      <4> QED  BY <2>4, <4>1, <4>2
    <3> QED  BY <1>1, <2>3, <3>1, <3>3 DEF Ordered, Own
  <2> QED  BY <2>3, <2>8, <2>9, <2>10, <2>11 DEF Stream
<1> QED  BY <1>2, <1>4, <1>6, <1>7, <1>8

LEMMA FanoutKeeps ==
  ASSUME IInv, Fanout
  PROVE  IInv'
<1> USE DEF IInv
<1>1. /\ pub.phase = "fanout" /\ announced' = announced \cup {pub.seq} /\ pub' = NoPub
      /\ sub' = [c \in Clients |-> FannedOut(sub[c], pub.seq)]
      /\ UNCHANGED <<log, last, pending, closed, tried, cursor, seen, faults, failed>>
  BY DEF Fanout, client, hub
<1>2. /\ pub.seq \in DOMAIN log /\ log[pub.seq] = pub.id /\ pub.id \notin pending
  BY <1>1 DEF Publication
<1>3. NoPub \in PubType /\ NoPub.phase = "idle"
  BY DEF NoPub, PubType
<1>4. \A c \in Clients : Stream(c)' /\ sub'[c] \in Subscription
  BY FanoutStream
<1>5. sub' \in [Clients -> Subscription]
  BY <1>1, <1>4
<1>6. Types'
  BY <1>1, <1>2, <1>3, <1>5 DEF Types
<1>7. Publication'
  BY <1>1, <1>2, <1>3 DEF Publication
<1>8. StoredOnce' /\ LosslessButFailed'
  BY <1>1 DEF StoredOnce, LosslessButFailed, Own
<1> QED  BY <1>4, <1>6, <1>7, <1>8

-----------------------------------------------------------------------------
(* A step of one client's connection.                                      *)
ConnectionStep(c) ==
  /\ sub' = [sub EXCEPT ![c] = sub'[c]] /\ sub'[c] \in Subscription
  /\ last' \in 0..Len(log) /\ faults' \in 0..MaxFaults
  /\ UNCHANGED <<log, pending, closed, pub, tried, announced, failed>>

LEMMA Connection ==
  ASSUME IInv, NEW c \in Clients, ConnectionStep(c), Stream(c)', UNCHANGED client
  PROVE  IInv'
<1> USE DEF IInv
<1>1. UNCHANGED <<log, pending, closed, pub, tried, announced, failed, cursor, seen>>
  BY DEF ConnectionStep, client
<1>2. Types'
  BY <1>1 DEF Types, ConnectionStep
<1>3. LogKept
  BY <1>1, LogSame
<1>4. Accounted
  BY <1>1 DEF Accounted, InFlight
<1>5. ASSUME NEW d \in Clients PROVE Stream(d)'
  <2>1. CASE d = c
    BY <2>1
  <2>2. CASE d # c
    <3>1. sub'[d] = sub[d]
      BY <2>2 DEF ConnectionStep, Types
    <3> QED  BY <1>1, <1>3, <1>4, <3>1, StreamFrame
  <2> QED  BY <2>1, <2>2
<1>6. LosslessButFailed'
  BY <1>1, <1>3, LosslessFrame
<1>7. StoredOnce' /\ Publication'
  BY <1>1 DEF StoredOnce, Publication, Exists
<1> QED  BY <1>2, <1>5, <1>6, <1>7

(* A client whose stream was refused starts from nothing.                  *)
LEMMA LostKeeps ==
  ASSUME IInv, NEW c \in Clients, Desynchronizes(c), faults' \in 0..MaxFaults,
         UNCHANGED <<log, hub, pub, tried, history>>
  PROVE  IInv'
<1> USE DEF IInv
<1>1. /\ sub' = [sub EXCEPT ![c] = Lost] /\ cursor' = [cursor EXCEPT ![c] = 0]
      /\ seen' = [seen EXCEPT ![c] = {}]
      /\ UNCHANGED <<log, last, pending, closed, pub, tried, announced, failed>>
  BY DEF Desynchronizes, Lost, hub, history
<1>2. Lost \in Subscription /\ Len(log) \in Nat /\ DOMAIN log = 1..Len(log)
  BY NoSubs DEF Types
<1>3. Types'
  BY <1>1, <1>2 DEF Types
<1>4. LogKept
  BY <1>1, LogSame
<1>5. Accounted
  BY <1>1 DEF Accounted, InFlight
<1>6. ASSUME NEW d \in Clients PROVE Stream(d)'
  <2>1. CASE d = c
    <3>1. sub'[c] = Lost
      BY <1>1 DEF Types
    <3> QED  BY <1>1, <1>2, <2>1, <3>1, NoSubs, StreamOff
  <2>2. CASE d # c
    <3>1. sub'[d] = sub[d] /\ cursor'[d] = cursor[d]
      BY <1>1, <2>2 DEF Types
    <3> QED  BY <1>1, <1>4, <1>5, <3>1, StreamFrame
  <2> QED  BY <2>1, <2>2
<1>7. LosslessButFailed'
  <2> SUFFICES ASSUME NEW d \in Clients, NEW n \in DOMAIN log, Own(n), n <= cursor'[d]
               PROVE  n \in seen'[d] \cup failed
    BY <1>1 DEF LosslessButFailed, Own
  <2>1. CASE d = c
    <3>1. cursor'[d] = 0 /\ n \in 1..Len(log)
      BY <1>1, <1>2, <2>1 DEF Types
    <3> QED  BY <1>2, <3>1
  <2>2. CASE d # c
    <3>1. cursor'[d] = cursor[d] /\ seen'[d] = seen[d]
      BY <1>1, <2>2 DEF Types
    <3> QED  BY <3>1 DEF LosslessButFailed
  <2> QED  BY <2>1, <2>2
<1>8. StoredOnce' /\ Publication'
  BY <1>1 DEF StoredOnce, Publication, Exists
<1> QED  BY <1>3, <1>6, <1>7, <1>8

(* Events() refuses a client, and the client starts again.                 *)
LEMMA RefusedKeeps ==
  ASSUME IInv, NEW c \in Clients, Refused(c)
  PROVE  IInv'
<1>1. faults' \in 0..MaxFaults
  BY HubConstants DEF Refused, Fails, IInv, Types
<1> QED  BY <1>1, LostKeeps DEF Refused

(* The fence is the end of the store: nothing beyond it is owed yet.       *)
LEMMA SubscribeKeeps ==
  ASSUME IInv, NEW c \in Clients, Subscribe(c)
  PROVE  IInv'
<1> DEFINE s == [NoSub EXCEPT !.phase = "replaying", !.registered = TRUE,
                   !.floor = last', !.from = cursor[c], !.cap = Capacity]
<1>1. /\ last' = Larger(last, LastSequence) /\ cursor[c] <= last' /\ pub = NoPub
      /\ sub' = [sub EXCEPT ![c] = s]
      /\ UNCHANGED <<log, pending, closed, pub, tried, cursor, seen, faults, announced, failed>>
  BY DEF Subscribe, client, history
<1>2. last' = Len(log) /\ Len(log) \in Nat /\ DOMAIN log = 1..Len(log) /\ cursor[c] \in Nat
  BY <1>1, Subscribed DEF IInv, Types, Larger, LastSequence
<1>3. Capacity \in Nat
  BY HubConstants DEF Capacity, Larger
<1>4. /\ s.phase = "replaying" /\ s.floor = Len(log) /\ s.from = cursor[c]
      /\ s.events = <<>> /\ s.cap = Capacity
  BY <1>2 DEF NoSub
<1>5. s \in Subscription
  <2>1. NoSub \in Subscription
    BY DEF NoSub, Subscription
  <2> QED  BY <1>2, <1>3, <2>1 DEF Subscription
<1> HIDE DEF s
<1>6. sub'[c] = s
  BY <1>1 DEF IInv, Types
<1>7. ConnectionStep(c)
  BY <1>1, <1>2, <1>5, <1>6 DEF ConnectionStep, IInv, Types
<1>8. /\ sub'[c].phase = "replaying" /\ sub'[c].floor = Len(log)
      /\ sub'[c].from = cursor[c] /\ sub'[c].events = <<>> /\ sub'[c].cap = Capacity
  BY <1>4, <1>6
<1>9. DOMAIN <<>> = {} /\ Len(<<>>) = 0 /\ announced \subseteq DOMAIN log
  BY DEF IInv, Types
<1>10. Channel(c)'
  BY <1>1, <1>2, <1>3, <1>8, <1>9 DEF Channel, Capacity
<1>11. Queued(c)' /\ Covered(c)' /\ Ordered(c)'
  BY <1>1, <1>2, <1>8, <1>9 DEF Queued, Covered, Ordered, Own
<1> QED  BY <1>1, <1>7, <1>10, <1>11, Connection DEF Stream, client

(* The page goes before the live suffix.                                   *)
LEMMA HandoffKeeps ==
  ASSUME IInv, NEW c \in Clients, Handoff(c)
  PROVE  IInv'
<1> DEFINE s == sub[c]
           page == Page(s)
           cap == IF page = <<>> THEN Capacity ELSE Len(page) + Capacity
<1>1. /\ s.phase = "replaying"
      /\ \/ /\ s.registered /\ UNCHANGED <<cursor, seen>>
            /\ sub' = [sub EXCEPT ![c] =
                  [s EXCEPT !.phase = "live", !.events = page \o @, !.cap = cap]]
         \/ ~s.registered /\ Desynchronizes(c)
      /\ UNCHANGED <<log, last, pending, closed, pub, tried, faults,
                     announced, failed>>
  BY DEF Handoff, client, history, hub
<1>2. /\ page \in Seq(Nat) /\ Len(page) \in Nat /\ DOMAIN page = 1..Len(page)
      /\ \A i, j \in DOMAIN page : i < j => page[i] < page[j]
      /\ \A i \in DOMAIN page :
           page[i] \in Nat /\ s.from < page[i] /\ page[i] <= s.floor
      /\ \A n \in 1..s.floor :
           s.from < n /\ Own(n) => \E i \in DOMAIN page : page[i] = n
  BY PageListed DEF IInv
<1>3. /\ Channel(c) /\ Queued(c) /\ Covered(c) /\ Ordered(c)
  BY DEF IInv, Stream
<1>4. /\ s \in Subscription /\ s.events \in Seq(Nat)
      /\ s.floor \in Nat /\ s.from \in Nat /\ s.cap \in Nat
      /\ s.registered \in BOOLEAN
      /\ Len(s.events) \in Nat /\ DOMAIN s.events = 1..Len(s.events)
      /\ \A i \in DOMAIN s.events : s.events[i] \in Nat
      /\ cursor[c] \in Nat /\ cursor[c] <= Len(log) /\ Len(log) \in Nat
      /\ DOMAIN log = 1..Len(log)
  BY Subscribed DEF IInv
<1> HIDE DEF page
<1>5. CASE ~s.registered
  <2>1. Desynchronizes(c) /\ faults' \in 0..MaxFaults
    BY <1>1, <1>5 DEF IInv, Types
  <2> QED  BY <1>1, <2>1, LostKeeps DEF hub, history
<1>6. s.registered => UNCHANGED <<cursor, seen>>
  BY <1>1
<1>7. CASE s.registered
  <2> DEFINE e == s.events
             p == Len(page)
             f == page \o s.events
  <2>1. /\ f \in Seq(Nat) /\ Len(f) = p + Len(e) /\ DOMAIN f = 1..(p + Len(e))
        /\ \A i \in 1..(p + Len(e)) : f[i] = IF i <= p THEN page[i] ELSE e[i - p]
    BY <1>2, <1>4, ConcatProperties, LenProperties
  <2>2. Capacity \in Nat /\ cap \in Nat /\ cap >= p + Capacity
    <3>1. Capacity \in Nat
      BY HubConstants DEF Capacity, Larger
    <3>2. page = <<>> => p = 0
      OBVIOUS
    <3> QED  BY <1>2, <3>1, <3>2
  <2> HIDE DEF cap, f
  <2>3. /\ sub'[c] = [s EXCEPT !.phase = "live", !.events = f, !.cap = cap]
        /\ sub' = [sub EXCEPT ![c] = sub'[c]]
    BY <1>1, <1>7 DEF IInv, Types, f
  <2>4. /\ sub'[c] \in Subscription /\ sub'[c].phase = "live" /\ sub'[c].events = f
        /\ sub'[c].floor = s.floor /\ sub'[c].cap = cap /\ sub'[c].registered
    <3> HIDE DEF s
    <3>1. f \in Seq(Nat) /\ cap \in Nat
      BY <2>1, <2>2
    <3>2. DOMAIN s = {"phase", "registered", "floor", "from", "events", "cap"}
      BY <1>4, Zenon DEF Subscription
    <3>3. /\ sub'[c].phase = "live" /\ sub'[c].events = f /\ sub'[c].floor = s.floor
          /\ sub'[c].cap = cap /\ sub'[c].registered = s.registered
          /\ sub'[c].from = s.from
      BY <2>3, <3>2
    <3>4. sub'[c] \in Subscription
      BY <1>4, <2>3, <3>1 DEF Subscription
    <3> QED  BY <1>7, <3>3, <3>4
  <2> HIDE DEF s
  <2>5. /\ s.from = cursor[c] /\ s.from <= s.floor /\ s.cap = Capacity
        /\ Len(e) <= s.cap /\ s.floor <= Len(log)
        /\ \A i \in DOMAIN e : e[i] > s.floor /\ e[i] \in DOMAIN log /\ e[i] \in announced
        /\ \A i, j \in DOMAIN e : e[i] = e[j] => i = j
    BY <1>1, <1>3 DEF Channel, s
  <2>6. \A i \in 1..p : i \in DOMAIN f /\ f[i] = page[i]
    BY <1>2, <1>4, <2>1
  <2>7. ASSUME NEW i \in DOMAIN e PROVE p + i \in DOMAIN f /\ f[p + i] = e[i]
    <3>1. p + i \in 1..(p + Len(e)) /\ ~(p + i <= p) /\ (p + i) - p = i
      BY <1>2, <1>4
    <3> QED  BY <2>1, <3>1
  <2>8. \A i \in DOMAIN f : i \in 1..p \/ (i - p \in DOMAIN e /\ f[i] = e[i - p])
    <3>1. ASSUME NEW i \in 1..(p + Len(e)), ~(i <= p) PROVE i - p \in 1..Len(e)
      BY <1>2, <1>4, <3>1
    <3>2. ASSUME NEW i \in 1..(p + Len(e)), i <= p PROVE i \in 1..p
      BY <1>2, <3>2
    <3> QED  BY <1>4, <2>1, <3>1, <3>2
  <2>9. Channel(c)'
    <3>1. Len(f) <= cap
      BY <1>2, <1>4, <2>1, <2>2, <2>5
    <3>2. \A i \in DOMAIN f : f[i] \in DOMAIN log /\ (f[i] > s.floor => f[i] \in announced)
      <4>1. ASSUME NEW i \in 1..p PROVE f[i] \in DOMAIN log /\ ~(f[i] > s.floor)
        <5>1. f[i] = page[i] /\ page[i] \in Nat /\ s.from < page[i] /\ page[i] <= s.floor
          BY <1>2, <2>6
        <5> QED  BY <1>4, <2>5, <5>1
      <4> QED  BY <2>5, <2>8, <4>1
    <3>3. ASSUME NEW i \in DOMAIN f, NEW j \in DOMAIN f, f[i] = f[j] PROVE i = j
      <4>1. \A k \in 1..p : f[k] = page[k] /\ page[k] <= s.floor /\ page[k] \in Nat
        BY <1>2, <2>6
      <4>2. CASE i \in 1..p /\ j \in 1..p
        BY <1>2, <3>3, <4>1, <4>2
      <4>3. CASE i - p \in DOMAIN e /\ f[i] = e[i - p] /\ j - p \in DOMAIN e /\ f[j] = e[j - p]
        <5>1. i - p = j - p
          BY <2>5, <3>3, <4>3
        <5> QED  BY <1>2, <1>4, <2>1, <5>1
      <4>4. CASE i \in 1..p /\ j - p \in DOMAIN e /\ f[j] = e[j - p]
        <5>1. e[j - p] > s.floor /\ e[j - p] \in Nat
          BY <1>4, <2>5, <4>4
        <5> QED  BY <1>4, <3>3, <4>1, <4>4, <5>1
      <4>5. CASE j \in 1..p /\ i - p \in DOMAIN e /\ f[i] = e[i - p]
        <5>1. e[i - p] > s.floor /\ e[i - p] \in Nat
          BY <1>4, <2>5, <4>5
        <5>2. f[j] <= s.floor /\ f[j] = e[i - p]
          BY <3>3, <4>1, <4>5
        <5> QED  BY <1>4, <5>1, <5>2
      <4> QED  BY <2>8, <4>2, <4>3, <4>4, <4>5
    <3>4. s.floor <= Len(log') /\ log' = log /\ announced' = announced
      BY <1>1, <2>5
    <3> HIDE DEF e, p
    <3> QED  BY <2>4, <3>1, <3>2, <3>3, <3>4 DEF Channel
  <2>10. Queued(c)'
    <3>1. Numbers(e) \subseteq Numbers(f)
      BY <2>7 DEF Numbers
    <3>2. ASSUME NEW n \in 1..s.floor, Own(n), n > cursor[c] PROVE n \in Numbers(f)
      <4>1. PICK i \in DOMAIN page : page[i] = n
        BY <1>2, <1>4, <2>5, <3>2
      <4> QED  BY <1>2, <2>6, <4>1 DEF Numbers
    <3>3. \A n \in announced : n > s.floor /\ n > cursor[c] => n \in Numbers(f)
      BY <1>3, <1>7, <3>1 DEF Queued, s
    <3> QED  BY <1>1, <1>7, <1>6, <2>4, <3>2, <3>3 DEF Queued, Own
  <2>11. Covered(c)'
    BY <1>1, <1>3, <1>7, <2>4 DEF Covered, Own, InFlight, s
  <2>12. Ordered(c)'
    <3>1. Base(c)' = cursor[c]
      BY <1>7, <1>6, <2>4 DEF Base
    <3>2. ASSUME NEW m \in DOMAIN log, log[m] # None, cursor[c] < m, m <= s.floor
          PROVE  \E j \in 1..p : j \in DOMAIN f /\ f[j] = m /\ page[j] = m
      <4>1. m \in 1..s.floor /\ s.from < m
        BY <1>4, <2>5, <3>2
      <4>2. PICK j \in DOMAIN page : page[j] = m
        BY <1>2, <3>2, <4>1 DEF Own
      <4> QED  BY <1>2, <2>6, <4>2
    <3>3. ASSUME NEW i \in DOMAIN f, NEW m \in DOMAIN log,
                 log[m] # None, cursor[c] < m, m < f[i]
          PROVE  m \in failed \/ \E j \in DOMAIN f : j < i /\ f[j] = m
      <4>1. CASE i \in 1..p
        <5>1. f[i] = page[i] /\ page[i] <= s.floor /\ page[i] \in Nat /\ m \in Nat
          BY <1>2, <1>4, <2>6, <4>1
        <5>0. s.floor \in Nat
          BY <1>4
        <5>4. m <= s.floor
          BY <3>3, <5>0, <5>1
        <5>2. PICK j \in 1..p : j \in DOMAIN f /\ f[j] = m /\ page[j] = m
          BY <3>2, <3>3, <5>4
        <5>3. j < i
          <6>1. /\ i \in DOMAIN page /\ j \in DOMAIN page /\ i \in Nat /\ j \in Nat
                /\ page[j] < page[i] /\ page[j] \in Nat
            BY <1>2, <3>3, <4>1, <5>1, <5>2
          <6>2. i < j => page[i] < page[j]
            BY <1>2, <6>1
          <6> QED  BY <5>1, <6>1, <6>2
        <5> QED  BY <5>2, <5>3
      <4>2. CASE i - p \in DOMAIN e /\ f[i] = e[i - p]
        <5>1. CASE m <= s.floor
          <6>1. PICK j \in 1..p : j \in DOMAIN f /\ f[j] = m
            BY <3>2, <3>3, <5>1
          <6>2. j < i
            BY <1>2, <1>4, <2>1, <4>2, <6>1
          <6> QED  BY <6>1, <6>2
        <5>2. CASE m > s.floor
          <6>1. Base(c) = s.floor
            BY <1>1 DEF Base, s
          <6>2. m \in failed \/ \E j \in DOMAIN e : j < i - p /\ e[j] = m
            BY <1>3, <3>3, <4>2, <5>2, <6>1 DEF Ordered, Own, s
          <6>3. ASSUME NEW j \in DOMAIN e, j < i - p, e[j] = m
                PROVE  p + j \in DOMAIN f /\ p + j < i /\ f[p + j] = m
            <7>1. p \in Nat /\ i \in Nat /\ j \in Nat
              <8>1. p \in Nat /\ Len(e) \in Nat
                BY <1>2, <1>4
              <8>2. i \in 1..(p + Len(e)) /\ j \in 1..Len(e)
                BY <1>4, <2>1
              <8> HIDE DEF e, p
              <8>3. p + Len(e) \in Nat
                BY <8>1
              <8> QED  BY <8>1, <8>2, <8>3
            <7> QED  BY <2>7, <6>3, <7>1
          <6> QED  BY <6>2, <6>3
        <5> QED  BY <1>4, <5>1, <5>2
      <4> QED  BY <2>8, <4>1, <4>2
    <3>4. log' = log /\ failed' = failed
      BY <1>1
    <3> HIDE DEF e, p
    <3> QED  BY <2>4, <3>1, <3>3, <3>4 DEF Ordered, Own
  <2>13. ConnectionStep(c)
    BY <1>1, <2>3, <2>4 DEF ConnectionStep, IInv, Types
  <2> QED  BY <1>7, <1>6, <2>9, <2>10, <2>11, <2>12, <2>13, Connection DEF Stream, client
<1> QED  BY <1>5, <1>7

(* A delivered number is the next of the channel: whatever its cursor      *)
(* jumps over failed.                                                      *)
LEMMA DeliverKeeps ==
  ASSUME IInv, NEW c \in Clients, Deliver(c)
  PROVE  IInv'
<1> DEFINE s == sub[c]
           e == s.events
           n == Head(e)
           f == Tail(e)
<1>1. /\ s.phase = "live" /\ e # <<>>
      /\ sub' = [sub EXCEPT ![c].events = f]
      /\ IF n <= cursor[c] THEN UNCHANGED <<cursor, seen>>
         ELSE /\ cursor' = [cursor EXCEPT ![c] = n]
              /\ seen' = [seen EXCEPT ![c] = @ \cup {n}]
      /\ UNCHANGED <<log, last, pending, closed, pub, tried, faults, announced, failed>>
  BY DEF Deliver, client, hub, history
<1>2. /\ s \in Subscription /\ e \in Seq(Nat)
      /\ s.floor \in Nat /\ s.cap \in Nat
      /\ Len(e) \in Nat /\ DOMAIN e = 1..Len(e)
      /\ \A i \in DOMAIN e : e[i] \in Nat
      /\ cursor[c] \in Nat /\ cursor[c] <= Len(log) /\ Len(log) \in Nat
      /\ DOMAIN log = 1..Len(log)
  BY Subscribed DEF IInv
<1>3. /\ Channel(c) /\ Queued(c) /\ Covered(c) /\ Ordered(c)
  BY DEF IInv, Stream
<1>4. /\ f \in Seq(Nat) /\ Len(f) = Len(e) - 1 /\ DOMAIN f = 1..(Len(e) - 1)
      /\ \A i \in DOMAIN f : f[i] = e[i + 1] /\ i + 1 \in DOMAIN e
      /\ n = e[1] /\ 1 \in DOMAIN e /\ n \in Nat
  <2>1. f \in Seq(Nat) /\ Len(f) = Len(e) - 1 /\ \A i \in 1..Len(f) : f[i] = e[i + 1]
    BY <1>1, <1>2, HeadTailProperties
  <2>2. Len(e) > 0 /\ DOMAIN f = 1..Len(f)
    BY <1>1, <1>2, <2>1, EmptySeq, LenProperties
  <2>3. n = e[1]
    BY <1>1, <1>2
  <2>4. 1 \in DOMAIN e /\ e[1] \in Nat
    BY <1>2, <2>2
  <2>5. DOMAIN f = 1..(Len(e) - 1)
    BY <2>1, <2>2
  <2>6. ASSUME NEW i \in DOMAIN f PROVE f[i] = e[i + 1] /\ i + 1 \in DOMAIN e
    <3>1. i \in 1..(Len(e) - 1) /\ Len(e) \in Nat
      BY <1>2, <2>5
    <3>2. i + 1 \in 1..Len(e)
      BY <3>1
    <3> QED  BY <1>2, <2>1, <2>2, <3>2
  <2> QED  BY <2>1, <2>3, <2>4, <2>5, <2>6
<1>5. /\ sub'[c] \in Subscription /\ sub'[c].phase = "live" /\ sub'[c].events = f
      /\ sub'[c].floor = s.floor /\ sub'[c].cap = s.cap
      /\ sub'[c].registered = s.registered
      /\ \A d \in Clients : d # c => sub'[d] = sub[d]
      /\ sub' \in [Clients -> Subscription]
  <2>1. sub'[c] = [s EXCEPT !.events = f] /\ \A d \in Clients : d # c => sub'[d] = sub[d]
    BY <1>1 DEF IInv, Types
  <2>2. f \in Seq(Nat)
    BY <1>4
  <2> HIDE DEF s, f
  <2>3. /\ sub'[c] \in Subscription /\ sub'[c].phase = s.phase /\ sub'[c].events = f
        /\ sub'[c].floor = s.floor /\ sub'[c].cap = s.cap
        /\ sub'[c].registered = s.registered
    BY <1>2, <2>1, <2>2 DEF Subscription
  <2>4. sub' \in [Clients -> Subscription]
    BY <1>1, <2>1, <2>3 DEF IInv, Types
  <2> QED  BY <1>1, <2>1, <2>3, <2>4
<1> HIDE DEF s, f, n
<1>0. /\ \A i \in DOMAIN f : i \in Nat /\ i + 1 # 1 /\ i + 1 \in DOMAIN e /\ f[i] = e[i + 1]
      /\ \A i \in DOMAIN e : i # 1 => i - 1 \in DOMAIN f /\ f[i - 1] = e[i]
  <2>0. PICK k \in Nat : DOMAIN e = 1..k /\ DOMAIN f = 1..(k - 1)
    BY <1>2, <1>4
  <2>1. \A i \in 1..(k - 1) : i \in Nat /\ i + 1 # 1
    OBVIOUS
  <2>2. \A i \in 1..k : i # 1 => i - 1 \in 1..(k - 1) /\ (i - 1) + 1 = i
    OBVIOUS
  <2> QED  BY <1>4, <2>0, <2>1, <2>2
<1>6. n \in DOMAIN log /\ \A i \in DOMAIN f : f[i] # n
  <2>1. /\ \A i \in DOMAIN e : e[i] \in DOMAIN log
        /\ \A i, j \in DOMAIN e : e[i] = e[j] => i = j
    BY <1>3 DEF Channel, s
  <2>2. n = e[1] /\ 1 \in DOMAIN e
    BY <1>4
  <2> QED  BY <1>0, <2>1, <2>2
<1>7. /\ cursor'[c] \in Nat /\ cursor[c] <= cursor'[c] /\ n <= cursor'[c]
      /\ cursor'[c] \in {n, cursor[c]}
      /\ \A d \in Clients : d # c => cursor'[d] = cursor[d] /\ seen'[d] = seen[d]
      /\ seen[c] \subseteq seen'[c] /\ (n > cursor[c] => n \in seen'[c])
      /\ cursor' \in [Clients -> 0..Len(log)] /\ seen' \in [Clients -> SUBSET DOMAIN log]
  <2>1. cursor \in [Clients -> 0..Len(log)] /\ seen \in [Clients -> SUBSET DOMAIN log]
    BY DEF IInv, Types
  <2>2. CASE n <= cursor[c]
    BY <1>1, <1>2, <1>4, <2>1, <2>2
  <2>3. CASE ~(n <= cursor[c])
    <3>1. n \in 0..Len(log) /\ n \in Nat /\ n > cursor[c]
      BY <1>2, <1>4, <1>6, <2>3
    <3>2. /\ cursor' = [cursor EXCEPT ![c] = n]
          /\ seen' = [seen EXCEPT ![c] = @ \cup {n}]
      BY <1>1, <2>3
    <3>3. seen' \in [Clients -> SUBSET DOMAIN log]
      BY <1>6, <2>1, <3>2
    <3> QED  BY <1>2, <2>1, <3>1, <3>2, <3>3
  <2> QED  BY <2>2, <2>3
<1>8. Types'
  BY <1>1, <1>5, <1>7 DEF IInv, Types
<1>9. StoredOnce' /\ Publication'
  BY <1>1 DEF IInv, StoredOnce, Publication, Exists
<1>10. LosslessButFailed'
  <2>1. ASSUME NEW m \in DOMAIN log, log[m] # None, m <= cursor'[c]
        PROVE  m \in seen'[c] \cup failed
    <3>1. CASE m <= cursor[c]
      BY <1>7, <2>1, <3>1 DEF IInv, LosslessButFailed, Own
    <3>2. CASE m = n /\ m > cursor[c]
      BY <1>7, <3>2
    <3>3. CASE m > cursor[c] /\ m # n
      <4>1. m < n
        BY <1>2, <1>4, <1>7, <2>1, <3>3
      <4>2. m \in failed \/ \E j \in DOMAIN e : j < 1 /\ e[j] = m
        BY <1>1, <1>3, <1>4, <2>1, <3>3, <4>1 DEF Ordered, Own, Base, s
      <4> QED  BY <1>2, <4>2
    <3> QED  BY <1>2, <3>1, <3>2, <3>3
  <2> QED  BY <1>1, <1>7, <2>1 DEF IInv, LosslessButFailed, Own
<1>11. ASSUME NEW d \in Clients, d # c PROVE Stream(d)'
  <2>1. LogKept /\ Accounted
    BY <1>1, LogSame DEF IInv, Accounted, InFlight
  <2> QED  BY <1>1, <1>5, <1>7, <1>11, <2>1, StreamFrame DEF IInv
<1>12. Channel(c)'
  <2>1. /\ Len(f) <= s.cap /\ s.floor <= Len(log)
        /\ \A i \in DOMAIN e : /\ e[i] \in DOMAIN log
                               /\ e[i] > s.floor => e[i] \in announced
        /\ \A i, j \in DOMAIN e : e[i] = e[j] => i = j
    BY <1>2, <1>3, <1>4 DEF Channel, s
  <2>2. /\ \A i \in DOMAIN f : /\ f[i] \in DOMAIN log
                               /\ f[i] > s.floor => f[i] \in announced
        /\ \A i, j \in DOMAIN f : f[i] = f[j] => i = j
    <3>1. ASSUME NEW i \in DOMAIN f, NEW j \in DOMAIN f, f[i] = f[j] PROVE i = j
      <4>1. i + 1 = j + 1
        BY <1>0, <2>1, <3>1
      <4> QED  BY <1>0, <4>1
    <3> QED  BY <1>0, <2>1, <3>1
  <2> QED  BY <1>1, <1>5, <2>1, <2>2 DEF Channel
<1>13. ASSUME NEW m \in Nat, m > cursor'[c], NEW i \in DOMAIN e, e[i] = m
       PROVE  i - 1 \in DOMAIN f /\ f[i - 1] = m
  <2>1. i # 1
    BY <1>2, <1>4, <1>7, <1>13
  <2> QED  BY <1>0, <1>13, <2>1
<1>14. Queued(c)'
  <2>1. ASSUME NEW m \in Nat, m > cursor'[c], m \in Numbers(e) PROVE m \in Numbers(f)
    BY <1>13, <2>1 DEF Numbers
  <2>2. announced \subseteq Nat /\ 1..s.floor \subseteq Nat
    BY <1>2 DEF IInv, Types
  <2>3. \A m \in Nat : m > cursor'[c] => m > cursor[c]
    BY <1>2, <1>7
  <2>4. s.registered => \A m \in announced :
          m > s.floor /\ m > cursor'[c] => m \in Numbers(f)
    BY <1>3, <2>1, <2>2, <2>3 DEF Queued, s
  <2>5. s.registered => \A m \in 1..s.floor :
          Own(m) /\ m > cursor'[c] => m \in Numbers(f)
    BY <1>1, <1>3, <2>1, <2>2, <2>3 DEF Queued, s
  <2> QED  BY <1>1, <1>5, <2>4, <2>5 DEF Queued, Own
<1>15. Covered(c)'
  BY <1>1, <1>3, <1>5 DEF Covered, Own, InFlight, s
<1>16. Ordered(c)'
  <2>1. Base(c)' = cursor'[c] /\ Base(c) = cursor[c]
    BY <1>1, <1>5 DEF Base, s
  <2>2. ASSUME NEW i \in DOMAIN f, NEW m \in DOMAIN log,
               log[m] # None, cursor'[c] < m, m < f[i]
        PROVE  m \in failed \/ \E j \in DOMAIN f : j < i /\ f[j] = m
    <3>1. i + 1 \in DOMAIN e /\ f[i] = e[i + 1] /\ cursor[c] < m
      <4>1. i + 1 \in DOMAIN e /\ f[i] = e[i + 1]
        BY <1>0
      <4>2. cursor[c] < m
        BY <1>2, <1>7, <2>2
      <4> QED  BY <4>1, <4>2
    <3>2. m \in failed \/ \E j \in DOMAIN e : j < i + 1 /\ e[j] = m
      BY <1>3, <2>1, <2>2, <3>1 DEF Ordered, Own, s
    <3>3. ASSUME NEW j \in DOMAIN e, j < i + 1, e[j] = m
          PROVE  j - 1 \in DOMAIN f /\ j - 1 < i /\ f[j - 1] = m
      <4>1. m \in Nat /\ m > cursor'[c] /\ i \in Nat /\ j \in Nat
        BY <1>0, <1>2, <1>7, <2>2
      <4> QED  BY <1>13, <3>3, <4>1
    <3> QED  BY <3>2, <3>3
  <2> QED  BY <1>1, <1>5, <2>1, <2>2 DEF Ordered, Own
<1>17. Stream(c)'
  BY <1>12, <1>14, <1>15, <1>16 DEF Stream
<1> QED  BY <1>8, <1>9, <1>10, <1>11, <1>17 DEF IInv

(* A connection ends.                                                      *)
LEMMA EndKeeps ==
  ASSUME IInv, NEW c \in Clients, StreamEnds(c) \/ Disconnect(c) \/ Reopen(c)
  PROVE  IInv'
<1>1. /\ sub' = [sub EXCEPT ![c] = NoSub] /\ faults' \in 0..MaxFaults
      /\ UNCHANGED <<log, last, pending, closed, pub, tried, cursor, seen, announced, failed>>
  BY HubConstants DEF StreamEnds, Disconnect, Reopen, client, hub, history, Fails,
     IInv, Types
<1>2. sub'[c] = NoSub /\ NoSub \in Subscription /\ Len(log) \in Nat
  BY <1>1, NoSubs DEF IInv, Types
<1>3. Stream(c)' /\ ConnectionStep(c)
  BY <1>1, <1>2, NoSubs, StreamOff DEF IInv, Types, ConnectionStep
<1> QED  BY <1>1, <1>3, Connection DEF client

(* Close drops every subscription; what it queued is still delivered.      *)
LEMMA CloseKeeps ==
  ASSUME IInv, Close
  PROVE  IInv'
<1> USE DEF IInv
<1>1. /\ sub' = [c \in Clients |-> [sub[c] EXCEPT !.registered = FALSE]]
      /\ closed' = TRUE /\ faults' \in 0..MaxFaults
      /\ UNCHANGED <<log, last, pending, pub, tried, cursor, seen, announced, failed>>
  BY HubConstants DEF Close, client, history, Fails, Types
<1>2. ASSUME NEW c \in Clients
      PROVE  /\ sub'[c] \in Subscription /\ sub'[c].phase = sub[c].phase
             /\ sub'[c].events = sub[c].events /\ sub'[c].floor = sub[c].floor
             /\ sub'[c].from = sub[c].from /\ sub'[c].cap = sub[c].cap
             /\ ~sub'[c].registered
  BY <1>1, Subscribed DEF Subscription
<1>3. Types'
  BY <1>1, <1>2 DEF Types
<1>4. ASSUME NEW c \in Clients PROVE Stream(c)'
  BY <1>1, <1>2 DEF Stream, Channel, Capacity, Queued, Covered, Ordered, Own, Base
<1>5. StoredOnce' /\ Publication' /\ LosslessButFailed'
  BY <1>1 DEF StoredOnce, Publication, Exists, LosslessButFailed, Own
<1> QED  BY <1>3, <1>4, <1>5

(* A restarted host keeps the store; a publication it interrupted leaves   *)
(* an event that every later fence covers.                                 *)
LEMMA RestartKeeps ==
  ASSUME IInv, Restart
  PROVE  IInv'
<1> USE DEF IInv
<1>1. /\ sub' = [c \in Clients |->
                  IF sub[c].phase = "desynchronized" THEN sub[c] ELSE NoSub]
      /\ last' = Len(log) /\ pending' = {}
      /\ closed' = FALSE /\ pub' = NoPub /\ faults' \in 0..MaxFaults
      /\ UNCHANGED <<log, tried, cursor, seen, announced, failed>>
  BY HubConstants DEF Restart, client, history, Fails, Types, LastSequence
<1>2. NoPub \in PubType /\ NoPub.phase = "idle" /\ NoSub \in Subscription
  BY NoSubs DEF NoPub, PubType
<1>3. Len(log) \in Nat
  BY DEF Types
<1>4. Types'
  <2>1. sub' \in [Clients -> Subscription] /\ last' \in 0..Len(log')
    BY <1>1, <1>2, <1>3 DEF Types
  <2> QED  BY <1>1, <1>2, <2>1 DEF Types
<1>5. ASSUME NEW c \in Clients PROVE Stream(c)'
  <2>1. CASE sub[c].phase = "desynchronized"
    <3>1. sub'[c] = sub[c] /\ Channel(c) /\ sub[c].cap \in Nat
      BY <1>1, <2>1 DEF Types, Stream, Subscription
    <3> QED  BY <1>1, <1>3, <2>1, <3>1, StreamOff DEF Channel
  <2>2. CASE sub[c].phase # "desynchronized"
    <3>1. sub'[c] = NoSub
      BY <1>1, <2>2
    <3> QED  BY <1>1, <1>3, <3>1, NoSubs, StreamOff
  <2> QED  BY <2>1, <2>2
<1>6. StoredOnce' /\ Publication' /\ LosslessButFailed'
  BY <1>1, <1>2 DEF StoredOnce, Publication, LosslessButFailed, Own
<1> QED  BY <1>4, <1>5, <1>6

-----------------------------------------------------------------------------
(* IInv is an invariant of the specification: it holds of a Hub over an    *)
(* empty store and is kept by every step of Publish, PublishStable, the    *)
(* subscriptions and the clients, by failures, Close and restarts.         *)
THEOREM HubInvariance == Spec => []IInv
<1>1. Init => IInv
  <2> SUFFICES ASSUME Init PROVE IInv
    OBVIOUS
  <2>1. /\ log = <<>> /\ pub = NoPub /\ DOMAIN log = {} /\ Len(log) = 0
        /\ announced = {} /\ failed = {} /\ faults = 0 /\ last = 0
        /\ sub = [c \in Clients |-> NoSub]
    BY DEF Init
  <2>2. NoPub \in PubType /\ NoPub.phase = "idle" /\ NoSub \in Subscription
    BY DEF NoPub, PubType, NoSub, Subscription
  <2>3. log \in Seq(Events \cup {None}) /\ faults \in 0..MaxFaults
    BY <2>1, HubConstants
  <2>4. Types
    <3>1. sub \in [Clients -> Subscription] /\ last \in 0..Len(log)
      BY <2>1, <2>2
    <3>2. cursor \in [Clients -> 0..Len(log)] /\ seen \in [Clients -> SUBSET DOMAIN log]
      BY <2>1 DEF Init
    <3> QED  BY <2>1, <2>2, <2>3, <3>1, <3>2 DEF Init, Types
  <2>5. ASSUME NEW c \in Clients PROVE Stream(c)
    <3>1. sub[c].events = <<>> /\ ~sub[c].registered /\ sub[c].floor = 0
          /\ sub[c].phase = "off" /\ sub[c].cap = 0 /\ Len(<<>>) = 0 /\ DOMAIN <<>> = {}
      BY <2>1 DEF NoSub
    <3> QED  BY <2>1, <3>1 DEF Stream, Channel, Queued, Covered, Ordered
  <2>6. StoredOnce /\ Publication /\ LosslessButFailed
    BY <2>1, <2>2 DEF StoredOnce, Publication, LosslessButFailed
  <2> QED  BY <2>4, <2>5, <2>6 DEF IInv
<1>2. IInv /\ [Next]_vars => IInv'
  <2>1. IInv /\ Next => IInv'
    <3> SUFFICES ASSUME IInv, Next PROVE IInv'
      OBVIOUS
    <3>1. ASSUME NEW id \in Events, PublishStable(id) \/ Publish(id) PROVE IInv'
      BY <3>1, PublishStableKeeps, PublishKeeps, Publisher
    <3>2. ASSUME \/ AppendSucceeds \/ AppendFails \/ LookupFails \/ Project
                 \/ ProjectFails \/ ForeignAppend
          PROVE  IInv'
      BY <3>2, AppendSucceedsKeeps, AppendFailsKeeps, LookupFailsKeeps, ProjectKeeps,
         ProjectFailsKeeps, ForeignAppendKeeps, Publisher
    <3>3. ASSUME NEW c \in Clients,
                 \/ Subscribe(c) \/ Handoff(c) \/ Deliver(c) \/ StreamEnds(c)
                 \/ Disconnect(c) \/ Refused(c) \/ Reopen(c)
          PROVE  IInv'
      BY <3>3, SubscribeKeeps, HandoffKeeps, DeliverKeeps, EndKeeps, RefusedKeeps
    <3> QED  BY <3>1, <3>2, <3>3, FanoutKeeps, CloseKeeps, RestartKeeps DEF Next
  <2>2. IInv /\ UNCHANGED vars => IInv'
    BY DEF IInv, Types, StoredOnce, Publication, Exists, LosslessButFailed, Own, Stream,
           Channel, Capacity, Queued, Covered, InFlight, Ordered, Base, vars
  <2> QED  BY <2>1, <2>2
<1> QED  BY <1>1, <1>2, PTL DEF Spec

(* The types, and that neither a handoff nor a fanout blocks while it      *)
(* holds Hub.mu: a channel never holds more than it was made for.          *)
THEOREM HubTypes == Spec => []HubTypeOK
<1>1. IInv => HubTypeOK
  BY DEF IInv, Types, PubType, Subscription, Stream, Channel, HubTypeOK
<1> QED  BY <1>1, HubInvariance, PTL

(* No gap between the replayed page of Hub.Events and the live suffix.     *)
THEOREM Gapless == Spec => []NoGap
<1>1. IInv => NoGap
  <2> SUFFICES ASSUME IInv, NEW c \in Clients, sub[c].phase = "live", sub[c].registered,
                      NEW n \in DOMAIN log, Own(n), n > cursor[c],
                      n <= sub[c].floor \/ n \in announced
               PROVE  n \in Numbers(sub[c].events)
    BY DEF NoGap
  <2>1. n \in Nat /\ sub[c].floor \in Nat /\ n >= 1
    BY Subscribed DEF IInv
  <2>2. CASE n <= sub[c].floor
    BY <2>1, <2>2 DEF IInv, Stream, Queued
  <2>3. CASE n > sub[c].floor
    BY <2>1, <2>3 DEF IInv, Stream, Queued
  <2> QED  BY <2>1, <2>2, <2>3
<1> QED  BY <1>1, HubInvariance, PTL

(* A stable event is stored once and no channel holds a number twice,      *)
(* however its publication failed and was retried.                         *)
THEOREM Deduplicated == Spec => []NoDuplicate
<1>1. IInv => NoDuplicate
  <2> SUFFICES ASSUME IInv PROVE NoDuplicate
    OBVIOUS
  <2>1. ASSUME NEW id \in Stable
        PROVE  Cardinality({n \in DOMAIN log : log[n] = id}) <= 1
    <3> DEFINE S == {n \in DOMAIN log : log[n] = id}
    <3>1. CASE S = {}
      BY <3>1, FS_EmptySet
    <3>2. CASE S # {}
      <4>1. PICK m : m \in S
        BY <3>2
      <4>2. S = {m}
        BY <4>1 DEF IInv, StoredOnce
      <4>3. Cardinality({m}) = 1
        BY FS_Singleton
      <4> QED  BY <4>2, <4>3
    <3> QED  BY <3>1, <3>2
  <2>2. ASSUME NEW c \in Clients
        PROVE  Cardinality(Numbers(sub[c].events)) = Len(sub[c].events)
    <3> DEFINE e == sub[c].events
               k == Len(e)
    <3>1. /\ e \in Seq(Nat) /\ k \in Nat /\ DOMAIN e = 1..k
          /\ \A i, j \in DOMAIN e : e[i] = e[j] => i = j
      BY Subscribed DEF IInv, Stream, Channel
    <3> HIDE DEF e, k
    <3>2. e = [i \in 1..k |-> e[i]]
      BY <3>1, LenProperties
    <3>3. e \in [1..k -> Numbers(e)]
      BY <3>1, <3>2 DEF Numbers
    <3>4. e \in Bijection(1..k, Numbers(e))
      BY <3>1, <3>3 DEF Bijection, Injection, Surjection, IsInjective, Numbers
    <3>5. ExistsBijection(1..k, Numbers(e))
      BY <3>4 DEF ExistsBijection
    <3>6. Cardinality(Numbers(e)) = k
      BY <3>1, <3>5, FS_CountingElements
    <3> QED  BY <3>6 DEF e, k
  <2> QED  BY <2>1, <2>2 DEF NoDuplicate
<1> QED  BY <1>1, HubInvariance, PTL

(* A client that resumes from its cursor missed nothing but what failed.   *)
THEOREM Lossless == Spec => []LosslessButFailed
<1>1. IInv => LosslessButFailed
  BY DEF IInv
<1> QED  BY <1>1, HubInvariance, PTL
=============================================================================
