------------------------- MODULE WorkspaceJournalProofs -------------------------
(***************************************************************************)
(* Proofs about the edit-transaction journal, for any number of processes, *)
(* turns, files and contents.  The invariant has four layers:              *)
(*                                                                         *)
(*   Shape     types, and which path an order lists; proves the type       *)
(*             invariant whatever the constants are                        *)
(*   Life      with one process at a time: who is at work, and that nobody *)
(*             else has memory                                             *)
(*   Standing  a turn is in one place at a time, and an unaccepted one is  *)
(*             in the ledger                                               *)
(*   Truth     what the records say about the files: a turn's content in a *)
(*             file is undone by its record, and what a record would undo  *)
(*             is the turn's                                               *)
(*                                                                         *)
(* Most steps are calm for most turns: a history may end and a file may    *)
(* get content with a fresh identity, but nothing is added to what the     *)
(* turn did.  Calm steps preserve every copy of the turn's records (in the *)
(* ledger, in a Manager, in a restore, in a recovery); what is left for    *)
(* each action is the one turn it works on.                                *)
(***************************************************************************)
EXTENDS WorkspaceJournal, TLAPS, FiniteSetTheorems, SequenceTheorems,
        WellFoundedInduction

-----------------------------------------------------------------------------
(* Induction over the naturals, in a form the provers can instantiate *)

\* A set that holds 0 and, with a number, its successor holds every number.
LEMMA InductiveSet ==
  ASSUME NEW T, 0 \in T, \A n \in Nat : n \in T => n + 1 \in T
  PROVE  Nat \subseteq T
<1> SUFFICES ASSUME Nat \ T # {} PROVE FALSE
  OBVIOUS
<1> DEFINE R == OpToRel(<, Nat)
<1>1. IsWellFoundedOn(R, Nat)
  BY NatLessThanWellFounded
<1>2. \A k \in Nat : <<k, k + 1>> \in R
  <2> TAKE k \in Nat
  <2>1. k < k + 1 /\ k + 1 \in Nat
    OBVIOUS
  <2> QED BY <2>1 DEF OpToRel
<1> HIDE DEF R
<1>3. PICK x \in Nat \ T : \A y \in Nat \ T : ~ (<<y, x>> \in R)
  BY <1>1, WFMin
<1>4. x # 0 /\ x \in Nat /\ x - 1 \in Nat /\ x - 1 + 1 = x
  BY <1>3
<1>5. x - 1 \in Nat \ T
  BY <1>3, <1>4
<1> QED BY <1>2, <1>3, <1>4, <1>5

-----------------------------------------------------------------------------
(* What Picked computes *)

Pick(g, s, I, n) ==
  IF n = 0 THEN <<>>
  ELSE IF n \in I THEN Append(g[n - 1], s[n]) ELSE g[n - 1]

\* The recursive function of Picked exists.
LEMMA PickExists ==
  ASSUME NEW S, NEW s \in Seq(S), NEW I
  PROVE  \E g : g = [n \in 0..Len(s) |-> Pick(g, s, I, n)]
<1> DEFINE T == {n \in Nat : \E g : g = [k \in 0..n |-> Pick(g, s, I, k)]}
<1>1. 0 \in T
  <2> DEFINE g == [k \in 0..0 |-> <<>>]
  <2>1. g = [k \in 0..0 |-> Pick(g, s, I, k)]
    BY DEF Pick
  <2> QED BY <2>1
<1>2. \A n \in Nat : n \in T => n + 1 \in T
  <2> SUFFICES ASSUME NEW n \in Nat,
                      NEW g, g = [k \in 0..n |-> Pick(g, s, I, k)]
               PROVE  \E h : h = [k \in 0..(n + 1) |-> Pick(h, s, I, k)]
    OBVIOUS
  <2> DEFINE h == [k \in 0..(n + 1) |->
                     IF k = n + 1 THEN Pick(g, s, I, n + 1) ELSE g[k]]
  <2>1. \A k \in 0..(n + 1) : h[k] = Pick(h, s, I, k)
    <3> TAKE k \in 0..(n + 1)
    <3>1. CASE k = n + 1
      BY <3>1 DEF Pick
    <3>2. CASE k # n + 1
      <4>1. k \in 0..n /\ (k # 0 => k - 1 \in 0..n /\ k - 1 # n + 1)
        BY <3>2
      <4>2. h[k] = Pick(g, s, I, k)
        BY <4>1
      <4>3. k # 0 => h[k - 1] = g[k - 1]
        BY <4>1
      <4> QED BY <4>2, <4>3 DEF Pick
    <3> QED BY <3>1, <3>2
  <2> HIDE DEF h
  <2>2. h = [k \in 0..(n + 1) |-> Pick(h, s, I, k)]
    BY <2>1 DEF h
  <2> QED BY <2>2
<1> HIDE DEF T
<1>3. Len(s) \in T
  BY <1>1, <1>2, InductiveSet, LenProperties
<1> QED BY <1>3 DEF T

\* Picked is a fixed point of its recursion.
LEMMA PickedEquation ==
  ASSUME NEW S, NEW s \in Seq(S), NEW I
  PROVE  \E g : /\ g = [n \in 0..Len(s) |-> Pick(g, s, I, n)]
                /\ Picked(s, I) = g[Len(s)]
<1> DEFINE P(g) == g = [n \in 0..Len(s) |-> Pick(g, s, I, n)]
           f == CHOOSE g : P(g)
<1>1. Picked(s, I) = f[Len(s)]
  BY DEF Picked, Pick
<1>2. \E g : P(g)
  BY PickExists
<1> HIDE DEF P
<1>3. P(f)
  BY <1>2, Zenon
<1> QED BY <1>1, <1>3 DEF P

\* q holds what the first n places of s hold at the places in I, once each: e
\* says where each element of q comes from.
ComesFrom(q, e, s, I, n) ==
  /\ e \in [1..Len(q) -> 1..n]
  /\ \A k \in 1..Len(q) : q[k] = s[e[k]] /\ e[k] \in I
  /\ \A k, l \in 1..Len(q) : e[k] = e[l] => k = l
  /\ \A i \in 1..n : i \in I => \E k \in 1..Len(q) : e[k] = i

\* One more place that is picked.
LEMMA ComesFromAppend ==
  ASSUME NEW S, NEW s \in Seq(S), NEW I, NEW n \in Nat, NEW q \in Seq(S),
         NEW e, ComesFrom(q, e, s, I, n),
         n + 1 \in 1..Len(s), n + 1 \in I
  PROVE  \E h : ComesFrom(Append(q, s[n + 1]), h, s, I, n + 1)
<1> DEFINE N == Len(q)
           w == Append(q, s[n + 1])
           h == [k \in 1..(N + 1) |-> IF k = N + 1 THEN n + 1 ELSE e[k]]
<1>1. N \in Nat /\ s[n + 1] \in S
  BY LenProperties
<1>2. /\ w \in Seq(S) /\ Len(w) = N + 1 /\ w[N + 1] = s[n + 1]
      /\ \A k \in 1..N : w[k] = q[k]
  BY <1>1
<1>3. /\ e \in [1..N -> 1..n]
      /\ \A k \in 1..N : q[k] = s[e[k]] /\ e[k] \in I
      /\ \A k, l \in 1..N : e[k] = e[l] => k = l
      /\ \A i \in 1..n : i \in I => \E k \in 1..N : e[k] = i
  BY DEF ComesFrom
<1>4. /\ h[N + 1] = n + 1
      /\ \A k \in 1..N : h[k] = e[k] /\ h[k] \in 1..n
  BY <1>1, <1>3
<1>5. h \in [1..(N + 1) -> 1..(n + 1)]
  BY <1>1, <1>3
<1>6. /\ \A k \in 1..(N + 1) : k \in 1..N \/ k = N + 1
      /\ N + 1 \in 1..(N + 1) /\ \A k \in 1..N : k \in 1..(N + 1)
      /\ n + 1 \notin 1..n
      /\ \A i \in 1..(n + 1) : i \in 1..n \/ i = n + 1
  BY <1>1
<1> HIDE DEF N, w, h
<1>7. \A k \in 1..(N + 1) : w[k] = s[h[k]] /\ h[k] \in I
  BY <1>2, <1>3, <1>4, <1>6
<1>8. ASSUME NEW k \in 1..(N + 1), NEW l \in 1..(N + 1), h[k] = h[l] PROVE k = l
  <2>1. CASE k \in 1..N /\ l \in 1..N
    BY <1>3, <1>4, <1>8, <2>1
  <2>2. CASE k = N + 1 \/ l = N + 1
    BY <1>4, <1>6, <1>8, <2>2
  <2> QED BY <1>6, <2>1, <2>2
<1>9. \A i \in 1..(n + 1) : i \in I => \E k \in 1..(N + 1) : h[k] = i
  BY <1>3, <1>4, <1>6
<1>10. ComesFrom(w, h, s, I, n + 1)
  BY <1>2, <1>5, <1>7, <1>8, <1>9 DEF ComesFrom
<1> QED BY <1>10 DEF w

\* Picked keeps exactly the chosen places, each once.
LEMMA PickedComes ==
  ASSUME NEW S, NEW s \in Seq(S), NEW I
  PROVE  /\ Picked(s, I) \in Seq(S)
         /\ \E e : ComesFrom(Picked(s, I), e, s, I, Len(s))
<1>0. PICK f : /\ f = [n \in 0..Len(s) |-> Pick(f, s, I, n)]
               /\ Picked(s, I) = f[Len(s)]
  BY PickedEquation
<1>a. \A n \in 0..Len(s) : f[n] = Pick(f, s, I, n)
  BY <1>0, Zenon
<1> DEFINE Good(n) == /\ f[n] \in Seq(S)
                      /\ \E e : ComesFrom(f[n], e, s, I, n)
           T == {n \in Nat : n <= Len(s) => Good(n)}
<1>1. Len(s) \in Nat
  BY LenProperties
<1>2. 0 \in T
  <2>1. f[0] = <<>>
    BY <1>1, <1>a DEF Pick
  <2>2. <<>> \in Seq(S) /\ Len(<<>>) = 0 /\ 1..0 = {}
    OBVIOUS
  <2> DEFINE e == [k \in {} |-> 1]
  <2>3. e \in [1..0 -> 1..0]
    BY <2>2
  <2>4. ComesFrom(<<>>, e, s, I, 0)
    BY <2>2, <2>3 DEF ComesFrom
  <2> QED BY <2>1, <2>2, <2>4
<1>3. \A n \in Nat : n \in T => n + 1 \in T
  <2> SUFFICES ASSUME NEW n \in Nat, n + 1 <= Len(s), Good(n)
               PROVE  Good(n + 1)
    <3>1. \A n \in Nat : n + 1 <= Len(s) => n <= Len(s)
      BY <1>1
    <3> HIDE DEF Good
    <3> QED BY <3>1
  <2>1. /\ n + 1 \in 1..Len(s) /\ n + 1 \in 0..Len(s)
        /\ n + 1 # 0 /\ n + 1 - 1 = n
    BY <1>1
  <2>2. f[n + 1] = IF n + 1 \in I THEN Append(f[n], s[n + 1]) ELSE f[n]
    BY <1>a, <2>1 DEF Pick
  <2>3. PICK e : ComesFrom(f[n], e, s, I, n)
    OBVIOUS
  <2>4. CASE n + 1 \in I
    <3>1. \E h : ComesFrom(Append(f[n], s[n + 1]), h, s, I, n + 1)
      BY <2>1, <2>3, <2>4, ComesFromAppend
    <3>2. Append(f[n], s[n + 1]) \in Seq(S)
      BY <2>1
    <3> QED BY <2>2, <2>4, <3>1, <3>2
  <2>5. CASE n + 1 \notin I
    <3> DEFINE q == f[n]
    <3>1. q \in Seq(S)
      OBVIOUS
    <3> HIDE DEF q
    <3>2. ComesFrom(q, e, s, I, n)
      BY <2>3 DEF q
    <3>3. \A i \in 1..(n + 1) : i \in I => i \in 1..n
      BY <2>5
    <3>4. e \in [1..Len(q) -> 1..(n + 1)]
      BY <3>2 DEF ComesFrom
    <3>5. ComesFrom(q, e, s, I, n + 1)
      BY <3>2, <3>3, <3>4 DEF ComesFrom
    <3> QED BY <2>2, <2>5, <3>1, <3>5 DEF q
  <2> QED BY <2>4, <2>5
<1> HIDE DEF T, Good
<1>4. Len(s) \in T
  BY <1>1, <1>2, <1>3, InductiveSet
<1>5. Good(Len(s))
  BY <1>4, <1>1 DEF T
<1> QED BY <1>0, <1>5 DEF Good

\* The facts about Picked that the journal needs: its elements are those
\* at the chosen places, it has them all, and it repeats none
\* (nor an id, when none is repeated in s).
LEMMA PickedFacts ==
  ASSUME NEW S, NEW s \in Seq(S), NEW I
  PROVE  /\ Picked(s, I) \in Seq(S)
         /\ \A k \in DOMAIN Picked(s, I) :
              \E i \in DOMAIN s : i \in I /\ Picked(s, I)[k] = s[i]
         /\ \A i \in DOMAIN s : i \in I =>
              \E k \in DOMAIN Picked(s, I) : Picked(s, I)[k] = s[i]
         /\ (\A i, j \in DOMAIN s : s[i] = s[j] => i = j) =>
              \A k, l \in DOMAIN Picked(s, I) :
                Picked(s, I)[k] = Picked(s, I)[l] => k = l
         /\ (\A i, j \in DOMAIN s : s[i].id = s[j].id => i = j) =>
              \A k, l \in DOMAIN Picked(s, I) :
                Picked(s, I)[k].id = Picked(s, I)[l].id => k = l
<1> DEFINE q == Picked(s, I)
<1>1. q \in Seq(S)
  BY PickedComes
<1>2. PICK e : ComesFrom(q, e, s, I, Len(s))
  BY PickedComes
<1>3. DOMAIN s = 1..Len(s) /\ DOMAIN q = 1..Len(q)
  BY <1>1
<1> HIDE DEF q
<1>4. /\ \A k \in DOMAIN q : e[k] \in DOMAIN s /\ e[k] \in I /\ q[k] = s[e[k]]
      /\ \A k, l \in DOMAIN q : e[k] = e[l] => k = l
      /\ \A i \in DOMAIN s : i \in I => \E k \in DOMAIN q : e[k] = i
  BY <1>2, <1>3 DEF ComesFrom
<1>5. \A i \in DOMAIN s : i \in I => \E k \in DOMAIN q : q[k] = s[i]
  BY <1>4
<1>6. ASSUME \A i, j \in DOMAIN s : s[i] = s[j] => i = j,
             NEW k \in DOMAIN q, NEW l \in DOMAIN q, q[k] = q[l]
      PROVE  k = l
  BY <1>4, <1>6
<1>7. ASSUME \A i, j \in DOMAIN s : s[i].id = s[j].id => i = j,
             NEW k \in DOMAIN q, NEW l \in DOMAIN q, q[k].id = q[l].id
      PROVE  k = l
  BY <1>4, <1>7
<1> QED BY <1>1, <1>4, <1>5, <1>6, <1>7 DEF q

-----------------------------------------------------------------------------
(* A fresh identity always exists *)

\* The image of a finite set is finite.
LEMMA FiniteImage ==
  ASSUME NEW S, NEW f, IsFiniteSet(S)
  PROVE  IsFiniteSet({f[x] : x \in S})
<1> DEFINE T == {f[x] : x \in S}
           g == [x \in S |-> f[x]]
<1>1. g \in Surjection(S, T)
  BY DEF Surjection
<1> QED BY <1>1, FS_Surjection

\* A union of finitely many finite sets is finite.
LEMMA FiniteUnion ==
  ASSUME NEW S, NEW f, IsFiniteSet(S), \A x \in S : IsFiniteSet(f[x])
  PROVE  IsFiniteSet(UNION {f[x] : x \in S})
BY FiniteImage, FS_UNION

\* The records of one journal use finitely many identities.
LEMMA FiniteIds ==
  ASSUME NEW recs \in [Paths -> Record]
  PROVE  IsFiniteSet(IdsOf(recs))
<1> DEFINE Q == {q \in Paths : recs[q] # NoRecord}
           f == [p \in Paths |-> {recs[p].before.id, recs[p].after.id}]
<1>1. IsFiniteSet(Q)
  BY FS_Subset, JournalConstants
<1>2. \A x, y : IsFiniteSet({x, y})
  <2> TAKE x, y
  <2>1. {x, y} = {x} \cup {y}
    OBVIOUS
  <2>2. IsFiniteSet({x})
    BY FS_Singleton
  <2> QED BY <2>1, <2>2, FS_AddElement
<1>3. \A p \in Q : IsFiniteSet(f[p])
  BY <1>2
<1>4. IsFiniteSet(UNION {f[p] : p \in Q})
  <2> HIDE DEF Q, f
  <2> QED BY <1>1, <1>3, FiniteUnion
<1>5. IdsOf(recs) \subseteq UNION {f[p] : p \in Q}
  BY DEF IdsOf, Recorded
<1> QED BY <1>4, <1>5, FS_Subset

\* The identities a list of pending turns mentions are finitely many.
LEMMA FiniteListIds ==
  ASSUME NEW L \in Seq(PendingTurn)
  PROVE  IsFiniteSet(ListIds(L))
<1> DEFINE f == [i \in DOMAIN L |-> IdsOf(L[i].recs)]
<1>1. DOMAIN L = 1..Len(L) /\ Len(L) \in Nat
  BY LenProperties
<1>2. IsFiniteSet(DOMAIN L)
  BY <1>1, FS_Interval
<1>3. \A i \in DOMAIN L : L[i].recs \in [Paths -> Record]
  <2>1. \A i \in DOMAIN L : L[i] \in PendingTurn
    BY <1>1
  <2> QED BY <2>1 DEF PendingTurn
<1>4. \A i \in DOMAIN L : IsFiniteSet(f[i])
  BY <1>3, FiniteIds
<1>5. IsFiniteSet(UNION {f[i] : i \in DOMAIN L})
  <2> HIDE DEF f
  <2> QED BY <1>2, <1>4, FiniteUnion
<1> QED BY <1>5 DEF ListIds

\* So does the memory of one process.
LEMMA FiniteMemoryIds ==
  ASSUME JournalTypeOK, NEW m \in Managers
  PROVE  IsFiniteSet(MemoryIds(m))
<1>1. /\ active[m].recs \in [Paths -> Record] /\ task[m].recs \in [Paths -> Record]
      /\ task[m].todo \in Seq(PendingTurn) /\ task[m].keep \in Seq(PendingTurn)
  BY DEF JournalTypeOK, Journal, Task
<1> DEFINE a == IdsOf(active[m].recs)
           b == IdsOf(task[m].recs)
           c == ListIds(task[m].todo)
           d == ListIds(task[m].keep)
           h == [w \in Places |-> UNION {IdsOf(kept[m][w][t].recs) : t \in Turns}]
           e == UNION {h[w] : w \in Places}
<1>2. IsFiniteSet(a) /\ IsFiniteSet(b) /\ IsFiniteSet(c) /\ IsFiniteSet(d)
  BY <1>1, FiniteIds, FiniteListIds
<1>3. ASSUME NEW w \in Places
      PROVE  IsFiniteSet(h[w])
  <2> DEFINE f == [t \in Turns |-> IdsOf(kept[m][w][t].recs)]
  <2>1. \A t \in Turns : kept[m][w][t].recs \in [Paths -> Record]
    BY <1>3 DEF JournalTypeOK, Journal
  <2>2. \A t \in Turns : IsFiniteSet(f[t])
    BY <2>1, FiniteIds
  <2>3. IsFiniteSet(UNION {f[t] : t \in Turns})
    <3> HIDE DEF f
    <3> QED BY <2>2, FiniteUnion, JournalConstants
  <2> QED BY <1>3, <2>3
<1>4. IsFiniteSet(e)
  <2>1. Places = {"committed"} \cup ({"draft"} \cup {"unresolved"})
    BY DEF Places
  <2>2. IsFiniteSet(Places)
    BY <2>1, FS_Singleton, FS_Union
  <2> HIDE DEF h
  <2> QED BY <1>3, <2>2, FiniteUnion
<1>5. MemoryIds(m) = a \cup b \cup c \cup d \cup e
  <2>1. e = UNION {UNION {IdsOf(kept[m][w][t].recs) : t \in Turns} : w \in Places}
    OBVIOUS
  <2> HIDE DEF e
  <2> QED BY <2>1 DEF MemoryIds
<1> HIDE DEF a, b, c, d, e
<1>6. IsFiniteSet(a \cup b \cup c \cup d \cup e)
  <2>1. IsFiniteSet(a \cup b)
    BY <1>2, FS_Union
  <2>2. IsFiniteSet(a \cup b \cup c)
    BY <1>2, <2>1, FS_Union
  <2>3. IsFiniteSet(a \cup b \cup c \cup d)
    BY <1>2, <2>2, FS_Union
  <2> QED BY <1>4, <2>3, FS_Union
<1> QED BY <1>5, <1>6

\* Finitely many identities are in use, so that a fresh one exists.
LEMMA FiniteUsedIds ==
  ASSUME JournalTypeOK
  PROVE  IsFiniteSet(UsedIds)
<1> DEFINE f == [p \in Paths |-> files[p].id]
           g == [m \in Managers |-> MemoryIds(m)]
           a == {f[p] : p \in Paths}
           b == ListIds(ledger)
           c == UNION {g[m] : m \in Managers}
<1>1. IsFiniteSet(a)
  <2> HIDE DEF f
  <2> QED BY FiniteImage, JournalConstants
<1>2. IsFiniteSet(b)
  BY FiniteListIds DEF JournalTypeOK
<1>3. IsFiniteSet(c)
  <2>1. \A m \in Managers : IsFiniteSet(g[m])
    BY FiniteMemoryIds
  <2> HIDE DEF g
  <2> QED BY <2>1, FiniteUnion, JournalConstants
<1>4. UsedIds = a \cup b \cup c
  BY DEF UsedIds
<1> HIDE DEF a, b, c
<1>5. IsFiniteSet(a \cup b)
  BY <1>1, <1>2, FS_Union
<1> QED BY <1>3, <1>4, <1>5, FS_Union

\* FreshId is a natural number that no file and no record uses.
LEMMA Fresh ==
  ASSUME JournalTypeOK
  PROVE  FreshId \in Nat /\ FreshId \notin UsedIds
<1> DEFINE N == Cardinality(UsedIds)
<1>1. IsFiniteSet(UsedIds) /\ N \in Nat
  BY FiniteUsedIds, FS_CardinalityType
<1>2. \E n \in 0..N : n \notin UsedIds
  <2> SUFFICES ASSUME 0..N \subseteq UsedIds PROVE FALSE
    OBVIOUS
  <2>1. Cardinality(0..N) <= N
    BY <1>1, FS_Subset
  <2>2. Cardinality(0..N) = N + 1
    BY <1>1, FS_Interval
  <2> QED BY <1>1, <2>1, <2>2
<1>3. FreshId \in 0..N /\ FreshId \notin UsedIds
  BY <1>2 DEF FreshId
<1> QED BY <1>1, <1>3

-----------------------------------------------------------------------------
(* Shape: journals, pending turns and tasks are well formed *)

Injective(s) == \A k, l \in DOMAIN s : s[k] = s[l] => k = l
Occurs(p, s) == \E k \in DOMAIN s : s[k] = p

\* order names every path that has a record, once.
Lists(order, recs) ==
  /\ Injective(order)
  /\ \A p \in Paths : recs[p] # NoRecord <=> Occurs(p, order)

JournalOK(j) == j \in Journal /\ Lists(j.order, j.recs)
EntryOK(e) == e \in PendingTurn /\ Lists(e.order, e.recs)
ListOK(L) == L \in Seq(PendingTurn) /\ \A i \in DOMAIN L : EntryOK(L[i])

\* No two turns of a list have the same id.
Distinct(L) == \A i, j \in DOMAIN L : L[i].id = L[j].id => i = j

Restores == {"rollback", "revert", "recover"}

TaskOK(k) ==
  /\ k \in Task
  /\ ListOK(k.todo) /\ ListOK(k.keep)
  /\ k.kind \in Restores =>
       /\ k.turn \in Turns
       /\ Injective(k.order)
       /\ \A p \in Paths : Occurs(p, k.order) => k.recs[p] # NoRecord
  /\ k.kind \in {"rollback", "revert"} =>
       /\ Injective(k.all)
       /\ \A p \in Paths : k.recs[p] # NoRecord => Occurs(p, k.all)
  /\ k.kind = "revert" => k.place \in {"committed", "draft"}
  /\ k.kind = "recover" =>
       /\ k.todo # <<>>
       /\ k.turn = Head(k.todo).id
       /\ \A p \in Paths :
            k.recs[p] # NoRecord <=> Head(k.todo).recs[p] # NoRecord

Plain ==
  /\ files \in [Paths -> Fingerprint]
  /\ refs \in [Contents -> Nat]
  /\ status \in [Managers -> {"unborn", "recovering", "open", "closed", "dead"}]
  /\ fd \in [Managers -> BOOLEAN]
  /\ checked \in [Managers -> Fingerprint \cup {None}]
  /\ mishaps \in 0..MaxMishaps
  /\ dirty \in [Turns -> [Paths -> Contents \cup {Absent, None}]]
  /\ ended \subseteq Turns
  /\ torn \subseteq Turns \X Paths

ActiveOK ==
  /\ active \in [Managers -> Journal]
  /\ tools \in [Managers -> [Paths -> {"idle", "prepared", "written"}]]
  /\ \A m \in Managers :
       /\ JournalOK(active[m])
       /\ active[m].id = None => active[m] = NoJournal
       /\ \A p \in Paths : tools[m][p] # "idle" => active[m].recs[p] # NoRecord

KeptOK ==
  /\ kept \in [Managers -> [Places -> [Turns -> Journal]]]
  /\ \A m \in Managers, w \in Places, t \in Turns :
       /\ JournalOK(kept[m][w][t])
       /\ kept[m][w][t] # NoJournal => kept[m][w][t].id = t

TasksOK == task \in [Managers -> Task] /\ \A m \in Managers : TaskOK(task[m])

\* The inductive strengthening of the type invariant.
Shape == Plain /\ ListOK(ledger) /\ ActiveOK /\ KeptOK /\ TasksOK

\* The inductive invariant implies the type invariant.
LEMMA ShapeTypes ==
  ASSUME Shape PROVE JournalTypeOK
BY DEF Shape, Plain, ListOK, ActiveOK, KeptOK, TasksOK, JournalTypeOK

\* A record is NoRecord or has all of its fields.
LEMMA NoRecordTypes ==
  /\ NoRecord \in Record /\ NoRecords \in [Paths -> Record]
  /\ \A r \in Record : r # NoRecord =>
       /\ r.before \in Fingerprint /\ r.after \in Fingerprint
       /\ r.handle \in Contents \cup {None}
       /\ r = [before |-> r.before, after |-> r.after, handle |-> r.handle]
  /\ \A b, a \in Fingerprint, h \in Contents \cup {None} :
       /\ [before |-> b, after |-> a, handle |-> h] \in Record
       /\ [before |-> b, after |-> a, handle |-> h] # NoRecord
<1>1. NoRecord \in Record /\ NoRecords \in [Paths -> Record]
  BY DEF Record, NoRecords
<1>2. ASSUME NEW r \in Record, r # NoRecord
      PROVE  r \in [before : Fingerprint, after : Fingerprint,
                    handle : Contents \cup {None}]
  BY <1>2 DEF Record
<1>3. \A x \in Fingerprint : x # None
  BY JournalConstants DEF Fingerprint
<1> QED BY <1>1, <1>2, <1>3 DEF Record, NoRecord

\* The empty journal, list and task are well formed.
LEMMA EmptyShape ==
  /\ JournalOK(NoJournal) /\ ListOK(<<>>) /\ TaskOK(NoTask)
  /\ Lists(<<>>, NoRecords)
<1>1. Lists(<<>>, NoRecords)
  BY DEF Lists, NoRecords, Injective, Occurs
<1>2. JournalOK(NoJournal)
  BY <1>1, NoRecordTypes DEF JournalOK, Journal, NoJournal
<1>3. ListOK(<<>>)
  BY DEF ListOK
<1>4. NoTask \in Task
  BY NoRecordTypes DEF Task, NoTask
<1>5. TaskOK(NoTask)
  BY <1>3, <1>4 DEF TaskOK, NoTask, Restores
<1> QED BY <1>1, <1>2, <1>3, <1>5

\* A sequence made place by place from another one.
LEMMA SeqMade ==
  ASSUME NEW S, NEW T, NEW L \in Seq(S), NEW g,
         g = [i \in DOMAIN L |-> g[i]], \A i \in DOMAIN L : g[i] \in T
  PROVE  g \in Seq(T) /\ DOMAIN g = DOMAIN L
<1>1. DOMAIN L = 1..Len(L) /\ Len(L) \in Nat
  BY LenProperties
<1>2. DOMAIN g = 1..Len(L) /\ \A i \in 1..Len(L) : g[i] \in T
  BY <1>1
<1> QED BY <1>1, <1>2

\* A new or a replaced record keeps the order and the records together.
LEMMA ListsWithRecord ==
  ASSUME NEW order \in Seq(Paths), NEW recs \in [Paths -> Record],
         Lists(order, recs), NEW p \in Paths, NEW r \in Record, r # NoRecord
  PROVE  LET o == IF recs[p] = NoRecord THEN Append(order, p) ELSE order
             n == [recs EXCEPT ![p] = r]
         IN  o \in Seq(Paths) /\ n \in [Paths -> Record] /\ Lists(o, n)
<1> DEFINE n == [recs EXCEPT ![p] = r]
           o == Append(order, p)
<1>1. n \in [Paths -> Record] /\ n[p] = r /\ \A q \in Paths : q # p => n[q] = recs[q]
  OBVIOUS
<1> HIDE DEF n
<1>2. CASE recs[p] # NoRecord
  BY <1>1, <1>2 DEF Lists, n
<1>3. CASE recs[p] = NoRecord
  <2>1. /\ o \in Seq(Paths) /\ Len(order) \in Nat
        /\ DOMAIN order = 1..Len(order) /\ DOMAIN o = 1..(Len(order) + 1)
        /\ o[Len(order) + 1] = p /\ \A k \in DOMAIN order : o[k] = order[k]
    BY LenProperties
  <2>2. /\ \A k \in DOMAIN o : k \in DOMAIN order \/ k = Len(order) + 1
        /\ \A k \in DOMAIN order : k \in DOMAIN o
        /\ Len(order) + 1 \in DOMAIN o
    BY <2>1
  <2> HIDE DEF o
  <2>3. \A k \in DOMAIN order : order[k] # p
    BY <1>3 DEF Lists, Occurs
  <2>4. Injective(o)
    BY <2>1, <2>2, <2>3 DEF Lists, Injective
  <2>5. \A q \in Paths : Occurs(q, o) <=> q = p \/ Occurs(q, order)
    BY <2>1, <2>2 DEF Occurs
  <2>6. Lists(o, n)
    BY <1>1, <2>4, <2>5 DEF Lists
  <2> QED BY <1>1, <1>3, <2>1, <2>6 DEF n, o
<1> QED BY <1>2, <1>3

\* Adding or replacing a record keeps a journal well formed.
LEMMA JournalWithRecord ==
  ASSUME NEW j, JournalOK(j), NEW p \in Paths, NEW r \in Record, r # NoRecord
  PROVE  /\ JournalOK(WithRecord(j, p, r))
         /\ WithRecord(j, p, r).id = j.id
         /\ WithRecord(j, p, r).recs = [j.recs EXCEPT ![p] = r]
<1>1. j.order \in Seq(Paths) /\ j.recs \in [Paths -> Record] /\ Lists(j.order, j.recs)
  BY DEF JournalOK, Journal
<1> DEFINE o == IF j.recs[p] = NoRecord THEN Append(j.order, p) ELSE j.order
           n == [j.recs EXCEPT ![p] = r]
<1>2. o \in Seq(Paths) /\ n \in [Paths -> Record] /\ Lists(o, n)
  BY <1>1, ListsWithRecord
<1>3. WithRecord(j, p, r) = [j EXCEPT !.recs = n, !.order = o]
  BY DEF WithRecord
<1> HIDE DEF n, o
<1>4. /\ WithRecord(j, p, r) \in Journal /\ WithRecord(j, p, r).id = j.id
      /\ WithRecord(j, p, r).recs = n /\ WithRecord(j, p, r).order = o
  BY <1>2, <1>3 DEF JournalOK, Journal
<1> QED BY <1>2, <1>4 DEF JournalOK, n

\* Adding or replacing a record keeps a pending turn well formed.
LEMMA EntryWithRecord ==
  ASSUME NEW j, EntryOK(j), NEW p \in Paths, NEW r \in Record, r # NoRecord
  PROVE  /\ EntryOK(WithRecord(j, p, r))
         /\ WithRecord(j, p, r).id = j.id
         /\ WithRecord(j, p, r).owner = j.owner
         /\ WithRecord(j, p, r).committed = j.committed
         /\ WithRecord(j, p, r).draft = j.draft
         /\ WithRecord(j, p, r).recs = [j.recs EXCEPT ![p] = r]
<1>1. j.order \in Seq(Paths) /\ j.recs \in [Paths -> Record] /\ Lists(j.order, j.recs)
  BY DEF EntryOK, PendingTurn
<1> DEFINE o == IF j.recs[p] = NoRecord THEN Append(j.order, p) ELSE j.order
           n == [j.recs EXCEPT ![p] = r]
<1>2. o \in Seq(Paths) /\ n \in [Paths -> Record] /\ Lists(o, n)
  BY <1>1, ListsWithRecord
<1>3. WithRecord(j, p, r) = [j EXCEPT !.recs = n, !.order = o]
  BY DEF WithRecord
<1> HIDE DEF n, o
<1>4. /\ WithRecord(j, p, r) \in PendingTurn
      /\ WithRecord(j, p, r).recs = n /\ WithRecord(j, p, r).order = o
      /\ WithRecord(j, p, r).id = j.id /\ WithRecord(j, p, r).owner = j.owner
      /\ WithRecord(j, p, r).committed = j.committed
      /\ WithRecord(j, p, r).draft = j.draft
  BY <1>2, <1>3 DEF EntryOK, PendingTurn
<1> QED BY <1>2, <1>4 DEF EntryOK, n

\* What Picked does to the order of a journal, and to a list of turns.
LEMMA PickedOrder ==
  ASSUME NEW o \in Seq(Paths), Injective(o), NEW recs,
         \A p \in Paths : recs[p] # NoRecord => Occurs(p, o)
  PROVE  LET q == Picked(o, {i \in DOMAIN o : recs[o[i]] # NoRecord})
         IN  q \in Seq(Paths) /\ Lists(q, recs)
<1> DEFINE I == {i \in DOMAIN o : recs[o[i]] # NoRecord}
           q == Picked(o, I)
<1>1. /\ q \in Seq(Paths)
      /\ \A k \in DOMAIN q : \E i \in DOMAIN o : i \in I /\ q[k] = o[i]
      /\ \A i \in DOMAIN o : i \in I => \E k \in DOMAIN q : q[k] = o[i]
      /\ Injective(o) => Injective(q)
  <2> HIDE DEF I
  <2> QED BY PickedFacts DEF Injective
<1> HIDE DEF q
<1>2. \A p \in Paths : recs[p] # NoRecord <=> Occurs(p, q)
  BY <1>1 DEF Occurs
<1>3. q \in Seq(Paths) /\ Lists(q, recs)
  BY <1>1, <1>2 DEF Lists
<1> QED BY <1>3 DEF q

\* A filtered list of pending turns keeps its turns and their order.
LEMMA PickedList ==
  ASSUME NEW L, ListOK(L), NEW I
  PROVE  /\ ListOK(Picked(L, I))
         /\ \A k \in DOMAIN Picked(L, I) :
              \E i \in DOMAIN L : i \in I /\ Picked(L, I)[k] = L[i]
         /\ \A i \in DOMAIN L : i \in I =>
              \E k \in DOMAIN Picked(L, I) : Picked(L, I)[k] = L[i]
         /\ Distinct(L) => Distinct(Picked(L, I))
<1> DEFINE q == Picked(L, I)
<1>1. /\ q \in Seq(PendingTurn)
      /\ \A k \in DOMAIN q : \E i \in DOMAIN L : i \in I /\ q[k] = L[i]
      /\ \A i \in DOMAIN L : i \in I => \E k \in DOMAIN q : q[k] = L[i]
      /\ Distinct(L) => Distinct(q)
  BY PickedFacts DEF ListOK, Distinct
<1> HIDE DEF q
<1>2. ListOK(q)
  BY <1>1 DEF ListOK
<1> QED BY <1>1, <1>2 DEF q

\* A list made entry by entry is well formed.
LEMMA ListMade ==
  ASSUME NEW L, ListOK(L), NEW g, g = [i \in DOMAIN L |-> g[i]],
         \A i \in DOMAIN L : EntryOK(g[i])
  PROVE  ListOK(g) /\ DOMAIN g = DOMAIN L
<1>1. L \in Seq(PendingTurn) /\ \A i \in DOMAIN L : g[i] \in PendingTurn
  BY DEF ListOK, EntryOK
<1>2. g \in Seq(PendingTurn) /\ DOMAIN g = DOMAIN L
  BY <1>1, SeqMade
<1> QED BY <1>2 DEF ListOK

\* A pending turn appended to a list comes last.
LEMMA ListAppend ==
  ASSUME NEW L, ListOK(L), NEW e, EntryOK(e)
  PROVE  /\ ListOK(Append(L, e))
         /\ \A k \in DOMAIN Append(L, e) :
              \/ k \in DOMAIN L /\ Append(L, e)[k] = L[k]
              \/ k = Len(L) + 1 /\ Append(L, e)[k] = e
         /\ \A k \in DOMAIN L : k \in DOMAIN Append(L, e) /\ Append(L, e)[k] = L[k]
         /\ Len(L) + 1 \in DOMAIN Append(L, e) /\ Append(L, e)[Len(L) + 1] = e
         /\ Len(L) + 1 \notin DOMAIN L
<1> DEFINE q == Append(L, e)
<1>1. /\ L \in Seq(PendingTurn) /\ e \in PendingTurn /\ Len(L) \in Nat
      /\ DOMAIN L = 1..Len(L)
  BY LenProperties DEF ListOK, EntryOK
<1>2. /\ q \in Seq(PendingTurn) /\ DOMAIN q = 1..(Len(L) + 1)
      /\ q[Len(L) + 1] = e /\ \A k \in DOMAIN L : q[k] = L[k]
  BY <1>1
<1>3. /\ \A k \in DOMAIN q : k \in DOMAIN L \/ k = Len(L) + 1
      /\ \A k \in DOMAIN L : k \in DOMAIN q
      /\ Len(L) + 1 \in DOMAIN q /\ Len(L) + 1 \notin DOMAIN L
  BY <1>1, <1>2
<1> HIDE DEF q
<1>4. ListOK(q)
  BY <1>1, <1>2, <1>3 DEF ListOK
<1> QED BY <1>1, <1>2, <1>3, <1>4 DEF q

\* The tail of a list drops its first turn.
LEMMA ListTail ==
  ASSUME NEW L, ListOK(L), L # <<>>
  PROVE  /\ EntryOK(Head(L)) /\ ListOK(Tail(L))
         /\ 1 \in DOMAIN L /\ Head(L) = L[1]
         /\ \A k \in DOMAIN Tail(L) : k + 1 \in DOMAIN L /\ Tail(L)[k] = L[k + 1]
         /\ \A k \in DOMAIN L : k = 1 \/ (k - 1 \in DOMAIN Tail(L) /\ Tail(L)[k - 1] = L[k])
<1> DEFINE q == Tail(L)
<1>1. L \in Seq(PendingTurn) /\ Len(L) \in Nat /\ Len(L) # 0 /\ DOMAIN L = 1..Len(L)
  BY LenProperties, EmptySeq DEF ListOK
<1>2. /\ q \in Seq(PendingTurn) /\ Len(q) = Len(L) - 1 /\ DOMAIN q = 1..(Len(L) - 1)
      /\ \A k \in 1..(Len(L) - 1) : q[k] = L[k + 1]
      /\ Head(L) = L[1]
  BY <1>1
<1>3. /\ \A k \in DOMAIN q : k + 1 \in DOMAIN L /\ q[k] = L[k + 1]
      /\ \A k \in DOMAIN L : k = 1 \/ (k - 1 \in DOMAIN q /\ q[k - 1] = L[k])
      /\ 1 \in DOMAIN L
  BY <1>1, <1>2
<1> HIDE DEF q
<1>4. ListOK(q) /\ EntryOK(Head(L))
  BY <1>1, <1>2, <1>3 DEF ListOK
<1> QED BY <1>2, <1>3, <1>4 DEF q

\* What each phase of applyEntry does to the ledger.
LEMMA SettleList ==
  ASSUME NEW L, ListOK(L), NEW t
  PROVE  /\ ListOK(Settle(L, t))
         /\ \A k \in DOMAIN Settle(L, t) :
              \E i \in DOMAIN L : L[i].id # t /\ Settle(L, t)[k] = L[i]
         /\ \A i \in DOMAIN L : L[i].id # t =>
              \E k \in DOMAIN Settle(L, t) : Settle(L, t)[k] = L[i]
         /\ Distinct(L) => Distinct(Settle(L, t))
<1> DEFINE I == {i \in DOMAIN L : L[i].id # t}
<1>1. \A i \in DOMAIN L : i \in I <=> L[i].id # t
  OBVIOUS
<1>2. Settle(L, t) = Picked(L, I)
  BY DEF Settle
<1> HIDE DEF I
<1>3. /\ ListOK(Picked(L, I))
      /\ \A k \in DOMAIN Picked(L, I) :
           \E i \in DOMAIN L : i \in I /\ Picked(L, I)[k] = L[i]
      /\ \A i \in DOMAIN L : i \in I =>
           \E k \in DOMAIN Picked(L, I) : Picked(L, I)[k] = L[i]
      /\ Distinct(L) => Distinct(Picked(L, I))
  BY PickedList
<1> QED BY <1>1, <1>2, <1>3

NewEntry(t, m) == [id |-> t, owner |-> m, committed |-> FALSE,
                   draft |-> FALSE, order |-> <<>>, recs |-> NoRecords]

\* The begin entry puts a new turn at the end of the list.
LEMMA BegunList ==
  ASSUME NEW L, ListOK(L), NEW t \in Turns, NEW m \in Managers
  PROVE  /\ EntryOK(NewEntry(t, m))
         /\ Begun(L, t, m) = Append(Settle(L, t), NewEntry(t, m))
         /\ ListOK(Begun(L, t, m))
<1>1. EntryOK(NewEntry(t, m))
  BY EmptyShape, NoRecordTypes DEF EntryOK, PendingTurn, NewEntry
<1>2. Begun(L, t, m) = Append(Settle(L, t), NewEntry(t, m))
  BY DEF Begun, NewEntry
<1> QED BY <1>1, <1>2, SettleList, ListAppend

\* q has the turns of L, each with the records it had, but for what A says.
SamePlaces(q, L) == ListOK(q) /\ DOMAIN q = DOMAIN L

\* The phases of applyEntry, place by place.
IsCommitted(q, L, t) ==
  \A i \in DOMAIN L :
    /\ q[i].id = L[i].id /\ q[i].recs = L[i].recs
    /\ L[i].id # t => q[i] = L[i]
    /\ L[i].id = t => q[i].committed

IsDrafted(q, L, t) ==
  \A i \in DOMAIN L :
    /\ q[i].id = L[i].id /\ q[i].recs = L[i].recs
    /\ q[i].committed = L[i].committed
    /\ L[i].id # t => q[i] = L[i]

IsResumed(q, L, s, t) ==
  \A i \in DOMAIN L :
    /\ L[i].id # s => q[i] = L[i]
    /\ L[i].id = s => /\ q[i].id = t /\ q[i].recs = L[i].recs
                      /\ q[i].committed = L[i].committed

IsRecorded(q, L, t, p, r) ==
  \A i \in DOMAIN L :
    /\ q[i].id = L[i].id
    /\ q[i].committed = L[i].committed /\ q[i].draft = L[i].draft
    /\ L[i].id # t => q[i] = L[i]
    /\ L[i].id = t => q[i].recs = [L[i].recs EXCEPT ![p] = r]

\* The commit entry marks the turn and touches no other.
LEMMA CommittedList ==
  ASSUME NEW L, ListOK(L), NEW t
  PROVE  SamePlaces(Committed(L, t), L) /\ IsCommitted(Committed(L, t), L, t)
<1> DEFINE g == Committed(L, t)
<1>1. g = [i \in DOMAIN L |->
             IF L[i].id = t
               THEN [L[i] EXCEPT !.committed = TRUE, !.draft = FALSE] ELSE L[i]]
  BY DEF Committed
<1> HIDE DEF g
<1>2. g = [i \in DOMAIN L |-> g[i]]
  BY <1>1
<1>3. ASSUME NEW i \in DOMAIN L
      PROVE  /\ EntryOK(g[i])
             /\ g[i].id = L[i].id /\ g[i].recs = L[i].recs
             /\ L[i].id # t => g[i] = L[i]
             /\ L[i].id = t => g[i].committed
  <2>1. EntryOK(L[i])
    BY <1>3 DEF ListOK
  <2> QED BY <1>1, <1>3, <2>1 DEF EntryOK, PendingTurn
<1> QED BY <1>2, <1>3, ListMade DEF SamePlaces, g, IsCommitted

\* The draft entry marks the turn and touches no other.
LEMMA DraftedList ==
  ASSUME NEW L, ListOK(L), NEW t
  PROVE  SamePlaces(Drafted(L, t), L) /\ IsDrafted(Drafted(L, t), L, t)
<1> DEFINE g == Drafted(L, t)
<1>1. g = [i \in DOMAIN L |->
             IF L[i].id = t THEN [L[i] EXCEPT !.draft = TRUE] ELSE L[i]]
  BY DEF Drafted
<1> HIDE DEF g
<1>2. g = [i \in DOMAIN L |-> g[i]]
  BY <1>1
<1>3. ASSUME NEW i \in DOMAIN L
      PROVE  /\ EntryOK(g[i])
             /\ g[i].id = L[i].id /\ g[i].recs = L[i].recs
             /\ g[i].committed = L[i].committed
             /\ L[i].id # t => g[i] = L[i]
  <2>1. EntryOK(L[i])
    BY <1>3 DEF ListOK
  <2> QED BY <1>1, <1>3, <2>1 DEF EntryOK, PendingTurn
<1> QED BY <1>2, <1>3, ListMade DEF SamePlaces, g, IsDrafted

\* The resume entry renames the draft and touches no other turn.
LEMMA ResumedList ==
  ASSUME NEW L, ListOK(L), NEW s, NEW t \in Turns, NEW m \in Managers
  PROVE  /\ SamePlaces(Resumed(L, s, t, m), L)
         /\ (~Pending(L, s) \/ Pending(L, t)) => Resumed(L, s, t, m) = L
         /\ (Pending(L, s) /\ ~Pending(L, t)) => IsResumed(Resumed(L, s, t, m), L, s, t)
<1> DEFINE g == Resumed(L, s, t, m)
<1>1. CASE ~Pending(L, s) \/ Pending(L, t)
  BY <1>1 DEF Resumed, SamePlaces
<1>2. CASE ~(~Pending(L, s) \/ Pending(L, t))
  <2>1. g = [i \in DOMAIN L |->
               IF L[i].id = s
                 THEN [L[i] EXCEPT !.id = t, !.owner = m, !.draft = TRUE]
                 ELSE L[i]]
    BY <1>2 DEF Resumed
  <2> HIDE DEF g
  <2>2. g = [i \in DOMAIN L |-> g[i]]
    BY <2>1
  <2>3. ASSUME NEW i \in DOMAIN L
        PROVE  /\ EntryOK(g[i])
               /\ L[i].id # s => g[i] = L[i]
               /\ L[i].id = s => /\ g[i].id = t /\ g[i].recs = L[i].recs
                                 /\ g[i].committed = L[i].committed
    <3>1. EntryOK(L[i])
      BY <2>3 DEF ListOK
    <3> QED BY <2>1, <2>3, <3>1 DEF EntryOK, PendingTurn
  <2> QED BY <1>2, <2>2, <2>3, ListMade DEF SamePlaces, g, IsResumed
<1> QED BY <1>1, <1>2

\* The record entry sets one record of one turn.
LEMMA RecordedInList ==
  ASSUME NEW L, ListOK(L), NEW t, NEW p \in Paths, NEW r \in Record, r # NoRecord
  PROVE  /\ SamePlaces(RecordedIn(L, t, p, r), L)
         /\ IsRecorded(RecordedIn(L, t, p, r), L, t, p, r)
<1> DEFINE g == RecordedIn(L, t, p, r)
<1>1. g = [i \in DOMAIN L |->
             IF L[i].id = t THEN WithRecord(L[i], p, r) ELSE L[i]]
  BY DEF RecordedIn
<1> HIDE DEF g
<1>2. g = [i \in DOMAIN L |-> g[i]]
  BY <1>1
<1>3. ASSUME NEW i \in DOMAIN L
      PROVE  /\ EntryOK(g[i])
             /\ g[i].id = L[i].id
             /\ g[i].committed = L[i].committed /\ g[i].draft = L[i].draft
             /\ L[i].id # t => g[i] = L[i]
             /\ L[i].id = t => g[i].recs = [L[i].recs EXCEPT ![p] = r]
  <2>1. EntryOK(L[i])
    BY <1>3 DEF ListOK
  <2> QED BY <1>1, <1>3, <2>1, EntryWithRecord
<1> QED BY <1>2, <1>3, ListMade DEF SamePlaces, g, IsRecorded

\* Paths come out of the journal in the reverse of the order they went in.
LEMMA ReversedOrder ==
  ASSUME NEW s \in Seq(Paths)
  PROVE  /\ Reversed(s) \in Seq(Paths)
         /\ Injective(s) => Injective(Reversed(s))
         /\ \A p : Occurs(p, Reversed(s)) <=> Occurs(p, s)
<1> DEFINE q == Reversed(s)
           N == Len(s)
<1>1. N \in Nat /\ DOMAIN s = 1..N
  BY LenProperties
<1>2. q = [i \in 1..N |-> s[N + 1 - i]]
  BY DEF Reversed
<1>3. \A i \in 1..N : N + 1 - i \in 1..N /\ N + 1 - (N + 1 - i) = i
  BY <1>1
<1> HIDE DEF q, N
<1>4. DOMAIN q = 1..N /\ \A i \in 1..N : q[i] = s[N + 1 - i] /\ q[i] \in Paths
  BY <1>1, <1>2, <1>3
<1>5. q \in Seq(Paths)
  BY <1>1, <1>2, <1>4
<1>6. \A p : Occurs(p, q) <=> Occurs(p, s)
  <2> TAKE p
  <2>1. ASSUME Occurs(p, q) PROVE Occurs(p, s)
    BY <1>1, <1>3, <1>4, <2>1 DEF Occurs
  <2>2. ASSUME NEW k \in DOMAIN s, s[k] = p PROVE Occurs(p, q)
    <3>1. N + 1 - k \in DOMAIN q /\ q[N + 1 - k] = s[N + 1 - (N + 1 - k)]
      BY <1>1, <1>3, <1>4, <2>2
    <3> QED BY <1>1, <1>3, <2>2, <3>1 DEF Occurs
  <2> QED BY <2>1, <2>2 DEF Occurs
<1>7. ASSUME Injective(s), NEW k \in DOMAIN q, NEW l \in DOMAIN q, q[k] = q[l]
      PROVE  k = l
  <2>1. N + 1 - k = N + 1 - l
    BY <1>1, <1>3, <1>4, <1>7 DEF Injective
  <2> QED BY <1>1, <1>3, <1>4, <2>1
<1> QED BY <1>5, <1>6, <1>7 DEF q, Injective

\* Removing the head of an order without repetitions.
LEMMA TailOrder ==
  ASSUME NEW s \in Seq(Paths), s # <<>>, Injective(s)
  PROVE  /\ Head(s) \in Paths /\ Occurs(Head(s), s)
         /\ Tail(s) \in Seq(Paths) /\ Injective(Tail(s))
         /\ \A p : Occurs(p, Tail(s)) <=> (Occurs(p, s) /\ p # Head(s))
<1> DEFINE q == Tail(s)
<1>1. Len(s) \in Nat /\ Len(s) # 0 /\ DOMAIN s = 1..Len(s)
  BY LenProperties, EmptySeq
<1>2. /\ q \in Seq(Paths) /\ DOMAIN q = 1..(Len(s) - 1) /\ Head(s) = s[1]
      /\ \A k \in 1..(Len(s) - 1) : q[k] = s[k + 1]
  BY <1>1
<1>3. /\ \A k \in DOMAIN q : k + 1 \in DOMAIN s /\ k + 1 # 1 /\ q[k] = s[k + 1]
      /\ \A k \in DOMAIN s : k = 1 \/ (k - 1 \in DOMAIN q /\ q[k - 1] = s[k])
      /\ 1 \in DOMAIN s /\ Head(s) = s[1] /\ s[1] \in Paths
      /\ \A k, l \in DOMAIN q : k + 1 = l + 1 => k = l
  BY <1>1, <1>2
<1> HIDE DEF q
<1>4. Injective(q)
  BY <1>3 DEF Injective
<1>5. \A p : Occurs(p, q) <=> (Occurs(p, s) /\ p # Head(s))
  BY <1>3 DEF Occurs, Injective
<1>6. Occurs(Head(s), s)
  BY <1>3 DEF Occurs
<1> QED BY <1>2, <1>3, <1>4, <1>5, <1>6 DEF q

-----------------------------------------------------------------------------
(* Types of what the actions assign *)

\* New content has an identity nothing else has.
LEMMA PutType ==
  ASSUME Shape, NEW c \in Contents \cup {Absent}
  PROVE  Put(c) \in Fingerprint /\ Put(c).sha = c /\ Put(c).id \notin UsedIds
<1>1. FreshId \in Nat /\ FreshId \notin UsedIds
  BY ShapeTypes, Fresh
<1> QED BY <1>1 DEF Put, Fingerprint

\* Reference counts stay natural numbers.
LEMMA RefTypes ==
  ASSUME refs \in [Contents -> Nat]
  PROVE  /\ \A c : Retained(c) \in [Contents -> Nat]
         /\ \A h : Released(h) \in [Contents -> Nat]
<1>1. ASSUME NEW h, NEW c
      PROVE  Dropped(h, c) \in Nat
  <2> DEFINE P == {p \in Paths : h[p] = c}
  <2>1. IsFiniteSet(P)
    BY FS_Subset, JournalConstants
  <2> QED BY <2>1, FS_CardinalityType DEF Dropped
<1>2. ASSUME NEW h
      PROVE  Released(h) \in [Contents -> Nat]
  BY <1>1 DEF Released
<1> QED BY <1>2 DEF Retained

\* The histories stay well typed.
LEMMA HistoryTypes ==
  ASSUME Plain
  PROVE  /\ \A p \in Paths :
              Clean(p) \in [Turns -> [Paths -> Contents \cup {Absent, None}]]
         /\ \A t \in Turns :
              Undone(t) \in [Turns -> [Paths -> Contents \cup {Absent, None}]]
BY DEF Plain, Clean, Undone

\* What an append leaves in the ledger file is well formed.
LEMMA WrittenList ==
  ASSUME ListOK(ledger), NEW m, NEW L, ListOK(L)
  PROVE  ListOK(Written(m, L))
BY DEF Written

\* finishActiveLocked leaves a well-formed journal.
LEMMA FinishedJournal ==
  ASSUME NEW j, JournalOK(j)
  PROVE  JournalOK(Finished(j)) /\ Finished(j).id = j.id
<1> DEFINE n == [p \in Paths |-> IF Unchanged(j.recs[p]) THEN NoRecord
                                 ELSE j.recs[p]]
           I == {i \in DOMAIN j.order : ~Unchanged(j.recs[j.order[i]])}
           J == {i \in DOMAIN j.order : n[j.order[i]] # NoRecord}
           q == Picked(j.order, I)
<1>1. /\ j.order \in Seq(Paths) /\ j.recs \in [Paths -> Record]
      /\ Lists(j.order, j.recs) /\ j \in Journal
  BY DEF JournalOK, Journal
<1>2. \A i \in DOMAIN j.order : j.order[i] \in Paths
  BY <1>1
<1>3. n \in [Paths -> Record]
  BY <1>1, NoRecordTypes
<1>4. \A p \in Paths : n[p] # NoRecord <=> j.recs[p] # NoRecord /\ ~Unchanged(j.recs[p])
  OBVIOUS
<1>5. \A i \in DOMAIN j.order : j.recs[j.order[i]] # NoRecord
  BY <1>1, <1>2 DEF Lists, Occurs
<1> HIDE DEF n
<1>6. I = J
  BY <1>2, <1>4, <1>5
<1>7. \A p \in Paths : n[p] # NoRecord => Occurs(p, j.order)
  BY <1>1, <1>4 DEF Lists
<1>8. q \in Seq(Paths) /\ Lists(q, n)
  <2>1. LET z == Picked(j.order, J) IN z \in Seq(Paths) /\ Lists(z, n)
    BY <1>1, <1>7, PickedOrder DEF Lists
  <2> QED BY <1>6, <2>1
<1>9. Finished(j) = [j EXCEPT !.order = q, !.recs = n]
  BY DEF Finished, n
<1> HIDE DEF q
<1>10. /\ Finished(j) \in Journal /\ Finished(j).order = q /\ Finished(j).recs = n
       /\ Finished(j).id = j.id
  BY <1>1, <1>3, <1>8, <1>9 DEF Journal
<1> QED BY <1>8, <1>10 DEF JournalOK

\* What a conflict leaves of a journal is well formed.
LEMMA RemainingJournal ==
  ASSUME NEW m, TaskOK(task[m]), task[m].kind \in {"rollback", "revert"}
  PROVE  /\ JournalOK(Remaining(m)) /\ Remaining(m).id = task[m].turn
         /\ Remaining(m).recs = task[m].recs
<1>1. /\ task[m].all \in Seq(Paths) /\ task[m].recs \in [Paths -> Record]
      /\ task[m].turn \in Turns /\ Injective(task[m].all)
      /\ \A p \in Paths : task[m].recs[p] # NoRecord => Occurs(p, task[m].all)
  BY DEF TaskOK, Task, Restores
<1> DEFINE a == task[m].all  r == task[m].recs
           q == Picked(a, {i \in DOMAIN a : r[a[i]] # NoRecord})
<1>2. q \in Seq(Paths) /\ Lists(q, r)
  <2> HIDE DEF a, r
  <2> QED BY <1>1, PickedOrder DEF a, r
<1>3. Remaining(m) = [id |-> task[m].turn, recs |-> r, order |-> q]
  BY DEF Remaining
<1> HIDE DEF q, r
<1>4. /\ Remaining(m).id = task[m].turn /\ Remaining(m).recs = r
      /\ Remaining(m).order = q /\ Remaining(m) \in Journal
  BY <1>1, <1>2, <1>3 DEF Journal, r
<1> QED BY <1>2, <1>4 DEF JournalOK, r

-----------------------------------------------------------------------------
(* Shape is inductive, action by action *)

\* The initial state is well formed.
LEMMA InitShape == Init => Shape
<1> SUFFICES ASSUME Init PROVE Shape
  OBVIOUS
<1>1. files \in [Paths -> Fingerprint]
  BY DEF Init, Fingerprint
<1>2. Plain
  BY <1>1, JournalConstants DEF Init, Plain
<1>3. ListOK(ledger)
  BY EmptyShape DEF Init
<1>4. ActiveOK
  BY EmptyShape DEF Init, ActiveOK, Idle, NoJournal, JournalOK
<1>5. KeptOK
  BY EmptyShape DEF Init, KeptOK, NothingKept, JournalOK
<1>6. TasksOK
  BY EmptyShape DEF Init, TasksOK, TaskOK
<1> QED BY <1>2, <1>3, <1>4, <1>5, <1>6 DEF Shape

\* Manager m's journal becomes j, its tools being idle or unchanged.
LEMMA ActiveBecomes ==
  ASSUME ActiveOK, NEW m \in Managers, NEW j, JournalOK(j),
         j.id = None => j = NoJournal,
         active' = [active EXCEPT ![m] = j],
         tools' \in [Managers -> [Paths -> {"idle", "prepared", "written"}]],
         \A n \in Managers : n # m => tools'[n] = tools[n],
         \A p \in Paths : tools'[m][p] # "idle" => j.recs[p] # NoRecord
  PROVE  ActiveOK'
<1>1. /\ active' \in [Managers -> Journal] /\ active'[m] = j
      /\ \A n \in Managers : n # m => active'[n] = active[n]
  BY DEF ActiveOK, JournalOK
<1> QED BY <1>1 DEF ActiveOK

\* Storing a journal in a map of the Manager keeps the maps well formed.
LEMMA KeptBecomes ==
  ASSUME KeptOK, NEW m \in Managers, NEW w \in Places, NEW t \in Turns,
         NEW j, JournalOK(j), j.id = t \/ j = NoJournal, Keep(m, w, t, j)
  PROVE  KeptOK'
<1>1. /\ kept' \in [Managers -> [Places -> [Turns -> Journal]]]
      /\ \A n \in Managers, v \in Places, u \in Turns :
           kept'[n][v][u] = IF n = m /\ v = w /\ u = t THEN j ELSE kept[n][v][u]
  BY DEF KeptOK, Keep, JournalOK
<1> QED BY <1>1 DEF KeptOK

\* A well-formed task keeps the tasks well formed.
LEMMA TaskBecomes ==
  ASSUME TasksOK, NEW m \in Managers, NEW k, TaskOK(k),
         task' = [task EXCEPT ![m] = k]
  PROVE  TasksOK'
<1>1. /\ task' \in [Managers -> Task] /\ task'[m] = k
      /\ \A n \in Managers : n # m => task'[n] = task[n]
  BY DEF TasksOK, TaskOK
<1> QED BY <1>1 DEF TasksOK

\* With no journal no tool is at work.
LEMMA NoJournalIdle ==
  ASSUME ActiveOK, NEW m \in Managers, active[m] = NoJournal
  PROVE  tools[m] = Idle
BY DEF ActiveOK, NoJournal, NoRecords, Idle

\* Manager.Begin keeps the state well formed.
LEMMA BeginShape ==
  ASSUME Shape, NEW m \in Managers, NEW t \in Turns, Begin(m, t)
  PROVE  Shape'
<1> DEFINE j == [NoJournal EXCEPT !.id = t]
<1>1. JournalOK(j) /\ j.id = t
  BY EmptyShape, NoRecordTypes DEF JournalOK, Journal, NoJournal
<1>2. t # None
  BY JournalConstants
<1>3. \A p \in Paths : tools[m][p] = "idle"
  BY NoJournalIdle DEF Begin, Shape, Idle
<1>4. active' = [active EXCEPT ![m] = j] /\ tools' = tools
  BY DEF Begin
<1> HIDE DEF j
<1>5. ActiveOK'
  BY <1>1, <1>2, <1>3, <1>4, ActiveBecomes DEF Shape, ActiveOK
<1>6. ListOK(ledger)'
  BY BegunList, WrittenList DEF Shape, Begin
<1>7. Plain'
  BY DEF Begin, Shape, Plain
<1>8. KeptOK' /\ TasksOK'
  BY DEF Begin, Shape, KeptOK, TasksOK
<1> QED BY <1>5, <1>6, <1>7, <1>8 DEF Shape

\* The tool's Before, with its durable record, keeps the state well formed.
LEMMA BeforeShape ==
  ASSUME Shape, NEW m \in Managers, NEW t \in Turns, NEW p \in Paths,
         Before(m, t, p)
  PROVE  Shape'
<1>0. KeptOK' /\ TasksOK'
  BY DEF Before, Shape, KeptOK, TasksOK
<1>1. /\ active[m] \in Journal /\ JournalOK(active[m])
      /\ active[m].id = t /\ t # None
      /\ tools' = [tools EXCEPT ![m][p] = "prepared"]
  BY JournalConstants DEF Before, Active, Shape, ActiveOK
<1>2. /\ tools' \in [Managers -> [Paths -> {"idle", "prepared", "written"}]]
      /\ \A n \in Managers : n # m => tools'[n] = tools[n]
      /\ \A q \in Paths : q # p => tools'[m][q] = tools[m][q]
  BY <1>1 DEF Shape, ActiveOK
<1>3. CASE active[m].recs[p] # NoRecord
  <2>1. UNCHANGED <<files, ledger, refs, status, fd, active, mishaps, dirty, ended, torn, checked>>
    BY <1>3 DEF Before
  <2>2. ActiveOK'
    BY <1>2, <1>3, <2>1 DEF Shape, ActiveOK
  <2>3. Plain' /\ ListOK(ledger)'
    BY <2>1 DEF Shape, Plain
  <2> QED BY <1>0, <2>2, <2>3 DEF Shape
<1>4. CASE active[m].recs[p] = NoRecord
  <2> DEFINE r == [before |-> files[p], after |-> files[p],
                   handle |-> IF files[p].sha = Absent THEN None ELSE files[p].sha]
  <2>1. /\ refs' = Retained(files[p].sha)
        /\ ledger' = Written(m, RecordedIn(ledger, t, p, r))
        /\ active' = [active EXCEPT ![m] = WithRecord(active[m], p, r)]
        /\ UNCHANGED <<files, status, fd, mishaps, dirty, ended, torn, checked>>
    BY <1>4 DEF Before
  <2>2. files[p] \in Fingerprint /\ files[p].sha \in Contents \cup {Absent}
    BY DEF Shape, Plain, Fingerprint
  <2>3. r \in Record /\ r # NoRecord
    BY <2>2, NoRecordTypes
  <2> HIDE DEF r
  <2> DEFINE j == WithRecord(active[m], p, r)
  <2>4. JournalOK(j) /\ j.id = t /\ j.recs = [active[m].recs EXCEPT ![p] = r]
    BY <1>1, <2>3, JournalWithRecord
  <2> HIDE DEF j
  <2>5. \A q \in Paths : j.recs[q] = IF q = p THEN r ELSE active[m].recs[q]
    BY <1>1, <2>4 DEF Journal
  <2>6. \A q \in Paths : tools'[m][q] # "idle" => j.recs[q] # NoRecord
    BY <1>2, <2>3, <2>5 DEF Shape, ActiveOK
  <2>7. ActiveOK'
    BY <1>1, <1>2, <2>1, <2>4, <2>6, ActiveBecomes DEF Shape, j
  <2>8. ListOK(ledger)'
    BY <2>1, <2>3, RecordedInList, WrittenList DEF Shape, SamePlaces
  <2>9. Plain'
    BY <2>1, RefTypes DEF Shape, Plain
  <2> QED BY <1>0, <2>7, <2>8, <2>9 DEF Shape
<1> QED BY <1>3, <1>4

\* Taking over a file leaves a history of contents.
LEMMA TakenTypes ==
  ASSUME NEW D \in [Turns -> [Paths -> Contents \cup {Absent, None}]],
         NEW t \in Turns, NEW p \in Paths, NEW r \in Record, r # NoRecord
  PROVE  Taken(D, t, p, r) \in [Turns -> [Paths -> Contents \cup {Absent, None}]]
<1>1. r.before.sha \in Contents \cup {Absent}
  BY NoRecordTypes DEF Fingerprint
<1> QED BY <1>1 DEF Taken

\* A tool's write to its file keeps the state well formed.
LEMMA ToolWriteShape ==
  ASSUME Shape, NEW m \in Managers, NEW t \in Turns, NEW p \in Paths,
         NEW c \in Contents \cup {Absent}, ToolWrite(m, t, p, c)
  PROVE  Shape'
<1>1. Put(c) \in Fingerprint
  BY PutType
<1>2. files' = [files EXCEPT ![p] = Put(c)]
  BY DEF ToolWrite
<1>3. files' \in [Paths -> Fingerprint]
  BY <1>1, <1>2 DEF Shape, Plain
<1>4. dirty' \in [Turns -> [Paths -> Contents \cup {Absent, None}]]
  <2>1. Clean(p) \in [Turns -> [Paths -> Contents \cup {Absent, None}]]
    BY HistoryTypes DEF Shape
  <2>2. files[p].sha \in Contents \cup {Absent}
    BY DEF Shape, Plain, Fingerprint
  <2> DEFINE D == Taken(Clean(p), t, p, active[m].recs[p])
  <2>3. dirty' = [D EXCEPT ![t][p] = IF @ = None THEN files[p].sha ELSE @]
    BY DEF ToolWrite
  <2>4. active[m].recs[p] \in Record /\ active[m].recs[p] # NoRecord
    BY DEF ToolWrite, Shape, ActiveOK, Journal
  <2>5. D \in [Turns -> [Paths -> Contents \cup {Absent, None}]]
    BY <2>1, <2>4, TakenTypes
  <2> HIDE DEF D
  <2> QED BY <2>2, <2>3, <2>5
<1>5. Plain'
  BY <1>3, <1>4 DEF Shape, Plain, ToolWrite
<1>6. ActiveOK'
  BY DEF ToolWrite, memory, Shape, ActiveOK
<1>7. ListOK(ledger)' /\ KeptOK' /\ TasksOK'
  BY DEF ToolWrite, memory, Shape, KeptOK, TasksOK
<1> QED BY <1>5, <1>6, <1>7 DEF Shape

\* AfterFingerprint, whose append may fail, keeps the state well formed.
LEMMA AfterShape ==
  ASSUME Shape, NEW m \in Managers, NEW t \in Turns, NEW p \in Paths,
         After(m, t, p)
  PROVE  Shape'
<1> DEFINE r == [active[m].recs[p] EXCEPT !.after = files[p]]
           j == WithRecord(active[m], p, r)
<1>1. /\ active[m] \in Journal /\ JournalOK(active[m])
      /\ active[m].id = t /\ t # None /\ active[m].recs[p] # NoRecord
      /\ active[m].recs \in [Paths -> Record]
  BY JournalConstants DEF After, Active, Shape, ActiveOK, Journal
<1>2. /\ active' = [active EXCEPT ![m] = j] \/ active' = active
      /\ dirty' = Taken(dirty, t, p, active[m].recs[p]) \/ dirty' = dirty
      /\ ledger' = Written(m, RecordedIn(ledger, t, p, r)) \/ ledger' = ledger
      /\ tools' = [tools EXCEPT ![m][p] = "idle"]
      /\ torn' \subseteq torn \cup {<<t, p>>}
      /\ mishaps' = mishaps \/ Mishap
      /\ UNCHANGED <<files, refs, status, fd, kept, task, checked, ended>>
  BY DEF After
<1>3. files[p] \in Fingerprint
  BY DEF Shape, Plain
<1>4. r \in Record /\ r # NoRecord
  BY <1>1, <1>3, NoRecordTypes
<1> HIDE DEF r
<1>5. JournalOK(j) /\ j.id = t /\ j.recs = [active[m].recs EXCEPT ![p] = r]
  BY <1>1, <1>4, JournalWithRecord
<1> HIDE DEF j
<1>6. /\ tools' \in [Managers -> [Paths -> {"idle", "prepared", "written"}]]
      /\ \A n \in Managers : n # m => tools'[n] = tools[n]
      /\ \A q \in Paths : q # p => tools'[m][q] = tools[m][q]
      /\ tools'[m][p] = "idle"
  BY <1>2 DEF Shape, ActiveOK
<1>7. \A q \in Paths : tools'[m][q] # "idle" => j.recs[q] # NoRecord
  BY <1>1, <1>5, <1>6 DEF Shape, ActiveOK
<1>8. ActiveOK'
  <2>1. CASE active' = [active EXCEPT ![m] = j]
    BY <1>1, <1>5, <1>6, <1>7, <2>1, ActiveBecomes DEF Shape
  <2>2. CASE active' = active
    BY <1>6, <2>2 DEF Shape, ActiveOK
  <2> QED BY <1>2, <2>1, <2>2
<1>9. ListOK(ledger)'
  BY <1>2, <1>4, RecordedInList, WrittenList DEF Shape, SamePlaces
<1>10. mishaps' \in 0..MaxMishaps
  BY <1>2, JournalConstants DEF Mishap, Shape, Plain
<1>11. Plain'
  <2>1. dirty' \in [Turns -> [Paths -> Contents \cup {Absent, None}]]
    BY <1>1, <1>2, TakenTypes DEF Shape, Plain
  <2> QED BY <1>2, <1>10, <2>1 DEF Shape, Plain
<1>12. KeptOK' /\ TasksOK'
  BY <1>2 DEF Shape, KeptOK, TasksOK
<1> QED BY <1>8, <1>9, <1>11, <1>12 DEF Shape

\* Manager.Commit keeps the state well formed.
LEMMA CommitShape ==
  ASSUME Shape, NEW m \in Managers, NEW t \in Turns, Commit(m, t)
  PROVE  Shape'
<1>1. /\ JournalOK(active[m]) /\ active[m].id = t
      /\ \A p \in Paths : tools[m][p] = "idle"
      /\ UNCHANGED <<files, status, fd, tools, task, mishaps, torn, checked>>
      /\ ended' = ended \cup {t}
      /\ dirty' = [dirty EXCEPT ![t] = [p \in Paths |-> None]]
  BY DEF Commit, Active, Shape, ActiveOK, Quiet, Idle, Accept, End
<1>2. refs' = refs \/ \E h : refs' = Released(h)
  BY DEF Commit
<1>3. Plain'
  <2>1. refs' \in [Contents -> Nat]
    BY <1>2, RefTypes DEF Shape, Plain
  <2>2. dirty' \in [Turns -> [Paths -> Contents \cup {Absent, None}]]
    BY <1>1 DEF Shape, Plain
  <2> QED BY <1>1, <2>1, <2>2 DEF Shape, Plain
<1>4. TasksOK'
  BY <1>1 DEF Shape, TasksOK
<1>5. CASE t \in In(m, "committed")
  <2>1. UNCHANGED <<ledger, active, kept>>
    BY <1>5 DEF Commit, memory
  <2> QED BY <1>1, <1>3, <1>4, <2>1 DEF Shape, ActiveOK, KeptOK
<1>6. CASE t \notin In(m, "committed")
  <2>1. /\ ledger' = Written(m, Committed(ledger, t))
        /\ Keep(m, "committed", t, Finished(active[m]))
        /\ active' = [active EXCEPT ![m] = NoJournal]
    BY <1>6 DEF Commit
  <2>2. ListOK(ledger)'
    BY <2>1, CommittedList, WrittenList DEF Shape, SamePlaces
  <2>3. ActiveOK'
    BY <1>1, <2>1, EmptyShape, ActiveBecomes DEF Shape, ActiveOK
  <2>4. JournalOK(Finished(active[m])) /\ Finished(active[m]).id = t
    BY <1>1, FinishedJournal
  <2>5. KeptOK'
    BY <2>1, <2>4, KeptBecomes DEF Shape, Places
  <2> QED BY <1>3, <1>4, <2>2, <2>3, <2>5 DEF Shape
<1> QED BY <1>5, <1>6

\* Manager.Suspend keeps the state well formed.
LEMMA SuspendShape ==
  ASSUME Shape, NEW m \in Managers, NEW t \in Turns, Suspend(m, t)
  PROVE  Shape'
<1>1. /\ JournalOK(active[m]) /\ active[m].id = t
      /\ \A p \in Paths : tools[m][p] = "idle"
      /\ UNCHANGED <<files, status, fd, tools, task, mishaps, torn, checked>>
      /\ ended' = ended \cup {t}
      /\ active' = [active EXCEPT ![m] = NoJournal]
  BY DEF Suspend, Active, Shape, ActiveOK, Quiet, Idle, End
<1>2. /\ refs' = refs \/ \E h : refs' = Released(h)
      /\ dirty' = dirty \/ dirty' = Undone(t)
      /\ \/ ledger' = Written(m, Drafted(ledger, t))
         \/ ledger' = Written(m, Settle(ledger, t))
      /\ Keep(m, "draft", t, active[m]) \/ kept' = kept
  BY DEF Suspend
<1>3. Plain'
  <2>1. refs' \in [Contents -> Nat]
    BY <1>2, RefTypes DEF Shape, Plain
  <2>2. dirty' \in [Turns -> [Paths -> Contents \cup {Absent, None}]]
    BY <1>2, HistoryTypes DEF Shape, Plain
  <2> QED BY <1>1, <2>1, <2>2 DEF Shape, Plain
<1>4. TasksOK'
  BY <1>1 DEF Shape, TasksOK
<1>5. ListOK(ledger)'
  BY <1>2, DraftedList, SettleList, WrittenList DEF Shape, SamePlaces
<1>6. ActiveOK'
  BY <1>1, EmptyShape, ActiveBecomes DEF Shape, ActiveOK
<1>7. KeptOK'
  <2>1. CASE kept' = kept
    BY <2>1 DEF Shape, KeptOK
  <2>2. CASE Keep(m, "draft", t, active[m])
    BY <1>1, <2>2, KeptBecomes DEF Shape, Places
  <2> QED BY <1>2, <2>1, <2>2
<1> QED BY <1>3, <1>4, <1>5, <1>6, <1>7 DEF Shape

\* Manager.KeepDraft keeps the state well formed.
LEMMA KeepDraftShape ==
  ASSUME Shape, NEW m \in Managers, NEW t \in Turns, KeepDraft(m, t)
  PROVE  Shape'
<1>1. /\ UNCHANGED <<files, refs, status, fd, active, tools, task, mishaps, torn, checked>>
      /\ ended' = ended \cup {t}
      /\ dirty' = [dirty EXCEPT ![t] = [p \in Paths |-> None]]
      /\ ledger' = Written(m, Committed(ledger, t))
      /\ kept' = [kept EXCEPT ![m]["draft"][t] = NoJournal,
                              ![m]["committed"][t] = kept[m]["draft"][t]]
  BY DEF KeepDraft, Accept, End
<1>2. Plain'
  <2>1. dirty' \in [Turns -> [Paths -> Contents \cup {Absent, None}]]
    BY <1>1 DEF Shape, Plain
  <2> QED BY <1>1, <2>1 DEF Shape, Plain
<1>3. TasksOK' /\ ActiveOK'
  BY <1>1 DEF Shape, TasksOK, ActiveOK
<1>4. ListOK(ledger)'
  BY <1>1, CommittedList, WrittenList DEF Shape, SamePlaces
<1>5. KeptOK'
  <2> DEFINE j == kept[m]["draft"][t]
  <2>1. JournalOK(j) /\ j \in Journal /\ (j # NoJournal => j.id = t)
    BY DEF Shape, KeptOK, Places
  <2>2. NoJournal \in Journal /\ JournalOK(NoJournal)
    BY EmptyShape DEF JournalOK
  <2> DEFINE K == [kept EXCEPT ![m]["draft"][t] = NoJournal]
  <2>3. kept' = [K EXCEPT ![m]["committed"][t] = j]
    BY <1>1
  <2> HIDE DEF j
  <2>5. /\ K \in [Managers -> [Places -> [Turns -> Journal]]]
        /\ \A n \in Managers, w \in Places, u \in Turns :
             K[n][w][u] = IF n = m /\ w = "draft" /\ u = t THEN NoJournal
                          ELSE kept[n][w][u]
    BY <2>2 DEF Shape, KeptOK, Places
  <2> HIDE DEF K
  <2>4. /\ kept' \in [Managers -> [Places -> [Turns -> Journal]]]
        /\ \A n \in Managers, w \in Places, u \in Turns :
             kept'[n][w][u] = IF n = m /\ w = "committed" /\ u = t THEN j
                              ELSE K[n][w][u]
    BY <2>1, <2>3, <2>5 DEF Places
  <2> QED BY <2>1, <2>2, <2>4, <2>5 DEF Shape, KeptOK
<1> QED BY <1>2, <1>3, <1>4, <1>5 DEF Shape

\* Manager.ResumeDraft keeps the state well formed.
LEMMA ResumeDraftShape ==
  ASSUME Shape, NEW m \in Managers, NEW s \in Turns, NEW t \in Turns,
         ResumeDraft(m, s, t)
  PROVE  Shape'
<1> DEFINE j == [kept[m]["draft"][s] EXCEPT !.id = t]
<1>1. /\ UNCHANGED <<files, refs, status, fd, tools, task, mishaps, checked>>
      /\ ended' = ended \ {t}
      /\ active' = [active EXCEPT ![m] = j]
      /\ \A p \in Paths : tools[m][p] = "idle"
      /\ Keep(m, "draft", s, NoJournal)
      /\ ledger' = ledger \/ ledger' = Written(m, Resumed(ledger, s, t, m))
      /\ torn' = {<<IF e[1] = s THEN t ELSE e[1], e[2]>> : e \in torn}
      /\ dirty' = [u \in Turns |-> IF u = t THEN dirty[s]
                                   ELSE IF u = s THEN [p \in Paths |-> None]
                                   ELSE dirty[u]]
  BY NoJournalIdle DEF ResumeDraft, Shape, Idle
<1>2. JournalOK(j) /\ j.id = t /\ t # None
  <2> DEFINE k == kept[m]["draft"][s]
  <2>1. JournalOK(k)
    BY DEF Shape, KeptOK, Places
  <2> HIDE DEF k
  <2>2. [k EXCEPT !.id = t] \in Journal /\ [k EXCEPT !.id = t].id = t
        /\ [k EXCEPT !.id = t].order = k.order /\ [k EXCEPT !.id = t].recs = k.recs
    BY <2>1 DEF JournalOK, Journal
  <2> QED BY <2>1, <2>2, JournalConstants DEF JournalOK, k
<1>3. Plain'
  <2>1. dirty' \in [Turns -> [Paths -> Contents \cup {Absent, None}]]
    BY <1>1 DEF Shape, Plain
  <2>2. torn' \subseteq Turns \X Paths
    BY <1>1 DEF Shape, Plain
  <2> QED BY <1>1, <2>1, <2>2 DEF Shape, Plain
<1>4. TasksOK'
  BY <1>1 DEF Shape, TasksOK
<1>5. ListOK(ledger)'
  BY <1>1, ResumedList, WrittenList DEF Shape, SamePlaces
<1> HIDE DEF j
<1>6. ActiveOK'
  BY <1>1, <1>2, ActiveBecomes DEF Shape, ActiveOK
<1>7. KeptOK'
  BY <1>1, EmptyShape, KeptBecomes DEF Shape, Places
<1> QED BY <1>3, <1>4, <1>5, <1>6, <1>7 DEF Shape

\* The task of undoing journal j.
RestoreOf(kind, place, j) ==
  [NoTask EXCEPT !.kind = kind, !.place = place, !.turn = j.id,
                 !.all = j.order, !.order = Reversed(j.order), !.recs = j.recs]

IsRestoreOf(k, kind, place, j) ==
  /\ k.kind = kind /\ k.place = place /\ k.turn = j.id /\ k.recs = j.recs
  /\ k.order = Reversed(j.order) /\ k.conflict = FALSE
  /\ k.todo = <<>> /\ k.keep = <<>>

\* The task of a restore lists every path of its journal, last first.
LEMMA RestoreOfTask ==
  ASSUME NEW kind \in {"rollback", "revert"}, NEW place \in Places,
         kind = "revert" => place \in {"committed", "draft"},
         NEW j, JournalOK(j), j.id \in Turns
  PROVE  /\ TaskOK(RestoreOf(kind, place, j))
         /\ IsRestoreOf(RestoreOf(kind, place, j), kind, place, j)
<1> DEFINE k == RestoreOf(kind, place, j)
<1>1. /\ j.order \in Seq(Paths) /\ j.recs \in [Paths -> Record]
      /\ Lists(j.order, j.recs)
  BY DEF JournalOK, Journal
<1>2. /\ Reversed(j.order) \in Seq(Paths) /\ Injective(Reversed(j.order))
      /\ \A p : Occurs(p, Reversed(j.order)) <=> Occurs(p, j.order)
  BY <1>1, ReversedOrder DEF Lists
<1>3. /\ NoTask \in Task /\ NoTask.conflict = FALSE
      /\ NoTask.todo = <<>> /\ NoTask.keep = <<>>
  BY EmptyShape DEF TaskOK, NoTask
<1>4. /\ k.kind = kind /\ k.place = place /\ k.turn = j.id /\ k.all = j.order
      /\ k.order = Reversed(j.order) /\ k.recs = j.recs /\ k.conflict = FALSE
      /\ k.todo = <<>> /\ k.keep = <<>>
  BY <1>3 DEF RestoreOf, Task
<1>5. k \in Task
  BY <1>1, <1>2, <1>3 DEF RestoreOf, Task
<1> HIDE DEF k
<1>6. TaskOK(k)
  BY <1>1, <1>2, <1>4, <1>5, EmptyShape DEF TaskOK, Lists, Restores
<1> QED BY <1>4, <1>6 DEF k, IsRestoreOf

\* The start of a Rollback keeps the state well formed.
LEMMA RollbackShape ==
  ASSUME Shape, NEW m \in Managers, NEW t \in Turns, Rollback(m, t)
  PROVE  Shape'
<1>1. /\ UNCHANGED <<files, ledger, refs, status, fd, kept, tools, mishaps,
                     dirty, torn, checked>>
      /\ ended' = ended \cup {t}
      /\ \A p \in Paths : tools[m][p] = "idle"
  BY DEF Rollback, Quiet, Idle, End
<1>2. Plain' /\ ListOK(ledger)' /\ KeptOK'
  BY <1>1 DEF Shape, Plain, KeptOK
<1>3. \E j : /\ JournalOK(j) /\ j.id = t
             /\ task' = [task EXCEPT ![m] = RestoreOf("rollback", "unresolved", j)]
  <2>1. CASE active[m].id = t /\ StartRestore(m, "rollback", "unresolved", active[m])
    BY <2>1 DEF StartRestore, RestoreOf, Shape, ActiveOK
  <2>2. CASE /\ t \in In(m, "unresolved")
             /\ StartRestore(m, "rollback", "unresolved", kept[m]["unresolved"][t])
    BY <2>2 DEF StartRestore, RestoreOf, Shape, KeptOK, Places, In
  <2> QED BY <2>1, <2>2 DEF Rollback
<1>4. TasksOK'
  <2>1. PICK j : /\ JournalOK(j) /\ j.id = t
                 /\ task' = [task EXCEPT ![m] = RestoreOf("rollback", "unresolved", j)]
    BY <1>3
  <2>2. TaskOK(RestoreOf("rollback", "unresolved", j))
    BY <2>1, RestoreOfTask DEF Places
  <2> QED BY <2>1, <2>2, TaskBecomes DEF Shape
<1>5. active' = active \/ active' = [active EXCEPT ![m] = NoJournal]
  BY DEF Rollback
<1>6. ActiveOK'
  <2>1. CASE active' = active
    BY <1>1, <2>1 DEF Shape, ActiveOK
  <2>2. CASE active' = [active EXCEPT ![m] = NoJournal]
    BY <1>1, <2>2, EmptyShape, ActiveBecomes DEF Shape, ActiveOK
  <2> QED BY <1>5, <2>1, <2>2
<1> QED BY <1>2, <1>4, <1>6 DEF Shape

\* The start of a Revert keeps the state well formed.
LEMMA RevertShape ==
  ASSUME Shape, NEW m \in Managers, NEW t \in Turns, Revert(m, t)
  PROVE  Shape'
<1>1. UNCHANGED <<files, ledger, refs, status, fd, active, kept, tools, mishaps,
                  dirty, ended, torn, checked>>
  BY DEF Revert, memory
<1>2. Plain' /\ ListOK(ledger)' /\ KeptOK' /\ ActiveOK'
  BY <1>1 DEF Shape, Plain, KeptOK, ActiveOK
<1>3. \E w \in {"committed", "draft"} :
        /\ t \in In(m, w)
        /\ StartRestore(m, "revert", w, kept[m][w][t])
  BY DEF Revert
<1>4. PICK w \in {"committed", "draft"} :
        /\ t \in In(m, w)
        /\ StartRestore(m, "revert", w, kept[m][w][t])
  BY <1>3
<1> DEFINE j == kept[m][w][t]
<1>5. TasksOK'
  <2>1. JournalOK(j) /\ j.id = t
    BY <1>4 DEF Shape, KeptOK, Places, In
  <2>2. task' = [task EXCEPT ![m] = RestoreOf("revert", w, j)]
    BY <1>4 DEF StartRestore, RestoreOf
  <2> HIDE DEF j
  <2>3. TaskOK(RestoreOf("revert", w, j))
    BY <2>1, RestoreOfTask DEF Places
  <2> QED BY <2>2, <2>3, TaskBecomes DEF Shape
<1> QED BY <1>2, <1>5 DEF Shape

\* The task after the first path in its order: restored, or left alone.
Restored(k, n) ==
  LET p == Head(k.order) IN
  /\ n.kind = k.kind /\ n.turn = k.turn /\ n.place = k.place
  /\ n.todo = k.todo /\ n.keep = k.keep
  /\ p \in Paths /\ k.recs[p] \in Record /\ k.recs[p] # NoRecord
  /\ n.order = Tail(k.order)
  /\ \A q \in Paths : Occurs(q, n.order) <=> (Occurs(q, k.order) /\ q # p)

\* A record that was restored, and one that could not be, leave a good task.
LEMMA RestoreStepTask ==
  ASSUME NEW k, TaskOK(k), k.kind \in Restores, k.order # <<>>
  PROVE  LET p == Head(k.order)
             done == [k EXCEPT !.order = Tail(@),
                               !.recs[p] = Forgotten(k.kind, k.recs[p])]
             left == [k EXCEPT !.order = Tail(@), !.conflict = TRUE]
         IN  /\ p \in Paths /\ k.recs[p] \in Record /\ k.recs[p] # NoRecord
             /\ TaskOK(done) /\ TaskOK(left)
             /\ Restored(k, done) /\ Restored(k, left)
             /\ done.conflict = k.conflict /\ left.conflict = TRUE
             /\ done.recs = [k.recs EXCEPT ![p] = Forgotten(k.kind, k.recs[p])]
             /\ left.recs = k.recs
<1> DEFINE p == Head(k.order)
           r == k.recs[p]
           f == Forgotten(k.kind, r)
           n == [k.recs EXCEPT ![p] = f]
           done == [k EXCEPT !.order = Tail(k.order), !.recs = n]
           left == [k EXCEPT !.order = Tail(k.order), !.conflict = TRUE]
<1>1. /\ k \in Task /\ k.order \in Seq(Paths) /\ Injective(k.order)
      /\ k.recs \in [Paths -> Record] /\ k.turn \in Turns
      /\ \A q \in Paths : Occurs(q, k.order) => k.recs[q] # NoRecord
      /\ ListOK(k.todo) /\ ListOK(k.keep)
  BY DEF TaskOK, Task
<1>2. /\ p \in Paths /\ Occurs(p, k.order)
      /\ Tail(k.order) \in Seq(Paths) /\ Injective(Tail(k.order))
      /\ \A q : Occurs(q, Tail(k.order)) <=> (Occurs(q, k.order) /\ q # p)
  BY <1>1, TailOrder
<1>3. r \in Record /\ r # NoRecord
  BY <1>1, <1>2
<1>4. f \in Record /\ (k.kind = "recover" => f # NoRecord)
                   /\ (k.kind # "recover" => f = NoRecord)
  BY <1>3, NoRecordTypes DEF Forgotten
<1> HIDE DEF p, r, f
<1>5. /\ n \in [Paths -> Record] /\ n[p] = f
      /\ \A q \in Paths : q # p => n[q] = k.recs[q]
  BY <1>1, <1>2, <1>4
<1> HIDE DEF n
<1>6. /\ done \in Task /\ done.order = Tail(k.order) /\ done.recs = n
      /\ done.kind = k.kind /\ done.turn = k.turn /\ done.all = k.all
      /\ done.place = k.place /\ done.todo = k.todo /\ done.keep = k.keep
      /\ done.conflict = k.conflict
  BY <1>1, <1>2, <1>5 DEF Task
<1>7. /\ left \in Task /\ left.order = Tail(k.order) /\ left.recs = k.recs
      /\ left.kind = k.kind /\ left.turn = k.turn /\ left.all = k.all
      /\ left.place = k.place /\ left.todo = k.todo /\ left.keep = k.keep
      /\ left.conflict = TRUE
  BY <1>1, <1>2 DEF Task
<1> HIDE DEF done, left
<1>8. TaskOK(left)
  BY <1>2, <1>7 DEF TaskOK
<1>9. TaskOK(done)
  <2>1. /\ done.kind \in Restores => \A q \in Paths :
             Occurs(q, done.order) => done.recs[q] # NoRecord
        /\ done.kind \in {"rollback", "revert"} =>
             \A q \in Paths : done.recs[q] # NoRecord => Occurs(q, done.all)
        /\ done.kind = "recover" => \A q \in Paths :
             done.recs[q] # NoRecord <=> Head(done.todo).recs[q] # NoRecord
    BY <1>1, <1>2, <1>3, <1>4, <1>5, <1>6 DEF TaskOK, r
  <2> QED BY <1>1, <1>2, <1>6, <2>1 DEF TaskOK
<1>10. done = [k EXCEPT !.order = Tail(@), !.recs[p] = f]
  BY <1>1 DEF done, n, Task
<1>11. Restored(k, done) /\ Restored(k, left)
  BY <1>2, <1>3, <1>6, <1>7 DEF Restored, p, r
<1> QED BY <1>2, <1>3, <1>6, <1>7, <1>8, <1>9, <1>10, <1>11 DEF p, r, f, n, left

\* The two halves of restore() on one path.
RestoreRecord(m) == RestoreCheck(m) \/ RestoreWrite(m)

\* What they do: look, leave the path alone, or put it back.
LEMMA RestoreRecordIs ==
  ASSUME NEW m, RestoreRecord(m)
  PROVE  LET t == task[m].turn
             p == Head(task[m].order)
             r == task[m].recs[p]
         IN  /\ task[m].kind \in Restores /\ task[m].order # <<>>
             /\ UNCHANGED <<ledger, status, fd, active, kept, tools, mishaps, ended, torn>>
             /\ \/ /\ UNCHANGED <<task, files, refs, dirty>>
                   /\ StillOwn(r, p) /\ checked' = [checked EXCEPT ![m] = files[p]]
                \/ /\ task' = [task EXCEPT ![m].order = Tail(@), ![m].conflict = TRUE]
                   /\ UNCHANGED <<files, refs, dirty>>
                   /\ \/ checked[m] = None /\ checked' = checked
                      \/ checked' = [checked EXCEPT ![m] = None]
                \/ /\ files' = [files EXCEPT ![p] = Put(r.before.sha)]
                   /\ refs' = Released(OneHandle(p, r.handle))
                   /\ dirty' = [Clean(p) EXCEPT ![t][p] = IF @ = r.before.sha THEN None ELSE @]
                   /\ task' = [task EXCEPT ![m].order = Tail(@),
                                           ![m].recs[p] = Forgotten(task[m].kind, r)]
                   /\ checked[m] # None /\ checked' = [checked EXCEPT ![m] = None]
<1>1. CASE RestoreCheck(m)
  BY <1>1 DEF RestoreCheck, RestoreAt, Restores, Skips, memory
<1>2. CASE RestoreWrite(m)
  BY <1>2 DEF RestoreWrite, RestoreAt, Restores, Skips, memory
<1> QED BY <1>1, <1>2 DEF RestoreRecord

\* It goes on with the same restore, and nobody else's.
LEMMA RestoreRecordStays ==
  ASSUME Shape, NEW m \in Managers, RestoreRecord(m)
  PROVE  /\ task'[m].kind = task[m].kind
         /\ \A n \in Managers : n # m => task'[n] = task[n]
<1> DEFINE p == Head(task[m].order)
           f == Forgotten(task[m].kind, task[m].recs[p])
<1>1. task \in [Managers -> Task]
  BY DEF Shape, TasksOK
<1>2. \/ task' = task
      \/ task' = [task EXCEPT ![m].order = Tail(@), ![m].conflict = TRUE]
      \/ task' = [task EXCEPT ![m].order = Tail(@), ![m].recs[p] = f]
  BY RestoreRecordIs
<1> HIDE DEF p, f
<1> QED BY <1>1, <1>2 DEF Task

\* A failure ends the work on one path, or on all of them.
LEMMA RestoreFailsIs ==
  ASSUME Shape, NEW m \in Managers, RestoreFails(m)
  PROVE  /\ UNCHANGED <<files, ledger, refs, status, fd, active, kept, tools, dirty,
                        ended, torn>>
         /\ task[m].kind \in Restores /\ task[m].order # <<>>
         /\ task'[m].kind = task[m].kind /\ task'[m].turn = task[m].turn
         /\ task'[m].place = task[m].place /\ task'[m].recs = task[m].recs
         /\ task'[m].todo = task[m].todo /\ task'[m].keep = task[m].keep
         /\ task'[m].conflict = TRUE
         /\ \A n \in Managers : n # m => task'[n] = task[n]
<1> DEFINE z == <<>>
<1>1. task \in [Managers -> Task]
  BY DEF Shape, TasksOK
<1>2. /\ UNCHANGED <<files, ledger, refs, status, fd, active, kept, tools, dirty,
                     ended, torn>>
      /\ task[m].kind \in Restores /\ task[m].order # <<>>
      /\ \/ task' = [task EXCEPT ![m].order = z, ![m].conflict = TRUE]
         \/ task' = [task EXCEPT ![m].order = Tail(@), ![m].conflict = TRUE]
  BY DEF RestoreFails, RestoreAt, Skips, memory, Restores
<1> HIDE DEF z
<1> QED BY <1>1, <1>2 DEF Task

\* restore() on one path keeps the state well formed.
LEMMA RestoreRecordShape ==
  ASSUME Shape, NEW m \in Managers, RestoreRecord(m)
  PROVE  Shape'
<1> DEFINE k == task[m]
           t == k.turn
           p == Head(k.order)
           r == k.recs[p]
           done == [k EXCEPT !.order = Tail(@), !.recs[p] = Forgotten(k.kind, r)]
           left == [k EXCEPT !.order = Tail(@), !.conflict = TRUE]
<1>1. TaskOK(k) /\ k.kind \in Restores /\ k.order # <<>> /\ k \in Task /\ t \in Turns
  BY RestoreRecordIs DEF Shape, TasksOK, Restores, TaskOK
<1>2. /\ p \in Paths /\ r \in Record /\ r # NoRecord
      /\ TaskOK(done) /\ TaskOK(left)
  BY <1>1, RestoreStepTask
<1>3. r.before.sha \in Contents \cup {Absent}
  BY <1>2, NoRecordTypes DEF Fingerprint
<1>4. UNCHANGED <<ledger, status, fd, active, kept, tools, mishaps, ended, torn>>
  BY RestoreRecordIs
<1>5. \/ /\ files' = [files EXCEPT ![p] = Put(r.before.sha)]
         /\ refs' = Released(OneHandle(p, r.handle))
         /\ dirty' = [Clean(p) EXCEPT ![t][p] = IF @ = r.before.sha THEN None ELSE @]
         /\ task' = [task EXCEPT ![m].order = Tail(@), ![m].recs[p] = Forgotten(k.kind, r)]
      \/ /\ task' = [task EXCEPT ![m].order = Tail(@), ![m].conflict = TRUE] \/ task' = task
         /\ UNCHANGED <<files, refs, dirty>>
  BY RestoreRecordIs
<1>6. task' = [task EXCEPT ![m] = done] \/ task' = [task EXCEPT ![m] = left] \/ task' = task
  BY <1>5 DEF Shape, TasksOK, Task
<1>7. TasksOK'
  <2> HIDE DEF done, left, r, p
  <2>1. CASE task' = task
    BY <2>1 DEF Shape, TasksOK
  <2>2. CASE task' = [task EXCEPT ![m] = done] \/ task' = [task EXCEPT ![m] = left]
    BY <1>2, <2>2, TaskBecomes DEF Shape
  <2> QED BY <1>6, <2>1, <2>2
<1>10. checked' \in [Managers -> Fingerprint \cup {None}]
  <2>1. /\ files[p] \in Fingerprint
        /\ checked \in [Managers -> Fingerprint \cup {None}]
    BY <1>2 DEF Shape, Plain
  <2>2. \/ checked' = checked \/ checked' = [checked EXCEPT ![m] = None]
        \/ checked' = [checked EXCEPT ![m] = files[p]]
    BY RestoreRecordIs
  <2> HIDE DEF p
  <2> QED BY <2>1, <2>2
<1>8. Plain'
  <2>1. CASE UNCHANGED <<files, refs, dirty>>
    BY <1>4, <1>10, <2>1 DEF Shape, Plain
  <2>2. CASE /\ files' = [files EXCEPT ![p] = Put(r.before.sha)]
             /\ refs' = Released(OneHandle(p, r.handle))
             /\ dirty' = [Clean(p) EXCEPT ![t][p] =
                            IF @ = r.before.sha THEN None ELSE @]
    <3> HIDE DEF r, p, t
    <3>1. Put(r.before.sha) \in Fingerprint
      BY <1>3, PutType
    <3>2. files' \in [Paths -> Fingerprint]
      BY <1>2, <2>2, <3>1 DEF Shape, Plain
    <3>3. refs' \in [Contents -> Nat]
      BY <2>2, RefTypes DEF Shape, Plain
    <3>4. Clean(p) \in [Turns -> [Paths -> Contents \cup {Absent, None}]]
      BY <1>2, HistoryTypes DEF Shape
    <3>5. dirty' \in [Turns -> [Paths -> Contents \cup {Absent, None}]]
      BY <1>1, <1>2, <2>2, <3>4
    <3> QED BY <1>4, <1>10, <3>2, <3>3, <3>5 DEF Shape, Plain
  <2> QED BY <1>5, <2>1, <2>2
<1>9. ListOK(ledger)' /\ KeptOK' /\ ActiveOK'
  BY <1>4 DEF Shape, KeptOK, ActiveOK
<1> QED BY <1>7, <1>8, <1>9 DEF Shape

\* A restore that stops on an error keeps the state well formed.
LEMMA RestoreFailsShape ==
  ASSUME Shape, NEW m \in Managers, RestoreFails(m)
  PROVE  Shape'
<1> DEFINE k == task[m]
           z == <<>>
           left == [k EXCEPT !.order = z, !.conflict = TRUE]
           skip == [k EXCEPT !.order = Tail(@), !.conflict = TRUE]
<1>1. /\ TaskOK(k) /\ k \in Task /\ z \in Seq(Paths)
      /\ k.kind \in Restores /\ k.order # <<>>
  BY DEF Shape, TasksOK, TaskOK, RestoreFails, RestoreAt, Restores
<1> HIDE DEF z
<1>2. /\ left \in Task /\ left.order = z /\ left.recs = k.recs
      /\ left.kind = k.kind /\ left.turn = k.turn /\ left.all = k.all
      /\ left.place = k.place /\ left.todo = k.todo /\ left.keep = k.keep
  BY <1>1 DEF Task
<1>3. task' = [task EXCEPT ![m] = left] \/ task' = [task EXCEPT ![m] = skip]
  BY DEF RestoreFails, Skips, Shape, TasksOK, Task, z
<1>4. Injective(<<>>) /\ \A p : ~Occurs(p, <<>>)
  BY DEF Injective, Occurs
<1> HIDE DEF left
<1>5. TaskOK(left)
  BY <1>1, <1>2, <1>4 DEF TaskOK, z
<1>6. TaskOK(skip)
  <2> HIDE DEF k
  <2> QED BY <1>1, RestoreStepTask
<1> HIDE DEF skip
<1>7. TasksOK'
  BY <1>3, <1>5, <1>6, TaskBecomes DEF Shape
<1>8. mishaps' \in 0..MaxMishaps
  BY JournalConstants DEF RestoreFails, Mishap, Shape, Plain
<1>9. Plain' /\ ListOK(ledger)' /\ KeptOK' /\ ActiveOK'
  BY <1>8 DEF RestoreFails, memory, Shape, Plain, KeptOK, ActiveOK
<1> QED BY <1>7, <1>9 DEF Shape

\* The end of a Rollback, settled or in conflict, keeps the state well formed.
LEMMA RollbackEndsShape ==
  ASSUME Shape, NEW m \in Managers, RollbackEnds(m)
  PROVE  Shape'
<1> DEFINE t == task[m].turn
<1>1. /\ TaskOK(task[m]) /\ task[m].kind = "rollback" /\ t \in Turns
      /\ UNCHANGED <<files, refs, status, fd, active, tools, dirty, ended, torn, checked>>
      /\ task' = [task EXCEPT ![m] = NoTask]
  BY DEF RollbackEnds, Done, Shape, TasksOK, TaskOK, Restores
<1>2. /\ Keep(m, "unresolved", t, Remaining(m)) \/ Keep(m, "unresolved", t, NoJournal)
      /\ ledger' = ledger \/ ledger' = Written(m, Settle(ledger, t))
      /\ mishaps' = mishaps \/ Mishap
  BY DEF RollbackEnds
<1>3. mishaps' \in 0..MaxMishaps
  BY <1>2, JournalConstants DEF Mishap, Shape, Plain
<1>4. Plain' /\ ActiveOK'
  BY <1>1, <1>3 DEF Shape, Plain, ActiveOK
<1>5. ListOK(ledger)'
  BY <1>2, SettleList, WrittenList DEF Shape
<1>6. KeptOK'
  BY <1>1, <1>2, RemainingJournal, EmptyShape, KeptBecomes DEF Shape, Places
<1>7. TasksOK'
  BY <1>1, EmptyShape, TaskBecomes DEF Shape
<1> QED BY <1>4, <1>5, <1>6, <1>7 DEF Shape

\* The end of a Revert, settled or in conflict, keeps the state well formed.
LEMMA RevertEndsShape ==
  ASSUME Shape, NEW m \in Managers, RevertEnds(m)
  PROVE  Shape'
<1> DEFINE t == task[m].turn  w == task[m].place
<1>1. /\ TaskOK(task[m]) /\ task[m].kind = "revert" /\ t \in Turns /\ w \in Places
      /\ UNCHANGED <<files, refs, status, fd, active, tools, dirty, ended, torn, checked>>
      /\ task' = [task EXCEPT ![m] = NoTask]
  BY DEF RevertEnds, Done, Shape, TasksOK, TaskOK, Restores, Places
<1>2. /\ Keep(m, w, t, Remaining(m)) \/ Keep(m, w, t, NoJournal)
      /\ ledger' = ledger \/ ledger' = Written(m, Settle(ledger, t))
      /\ mishaps' = mishaps \/ Mishap
  BY DEF RevertEnds
<1>3. mishaps' \in 0..MaxMishaps
  BY <1>2, JournalConstants DEF Mishap, Shape, Plain
<1>4. Plain' /\ ActiveOK'
  BY <1>1, <1>3 DEF Shape, Plain, ActiveOK
<1>5. ListOK(ledger)'
  BY <1>2, SettleList, WrittenList DEF Shape
<1>6. KeptOK'
  BY <1>1, <1>2, RemainingJournal, EmptyShape, KeptBecomes DEF Shape
<1>7. TasksOK'
  BY <1>1, EmptyShape, TaskBecomes DEF Shape
<1> QED BY <1>4, <1>5, <1>6, <1>7 DEF Shape

\* A scan with todo still to look at and keep decided.
ScanOf(todo, keep) == [NoTask EXCEPT !.kind = "scan", !.todo = todo, !.keep = keep]

\* The task of a recovery between two turns is well formed.
LEMMA ScanOfTask ==
  ASSUME NEW todo, ListOK(todo), NEW keep, ListOK(keep)
  PROVE  /\ TaskOK(ScanOf(todo, keep)) /\ ScanOf(todo, keep).kind = "scan"
         /\ ScanOf(todo, keep).todo = todo /\ ScanOf(todo, keep).keep = keep
         /\ ScanOf(todo, keep).recs = NoRecords /\ ScanOf(todo, keep).order = <<>>
         /\ ScanOf(todo, keep).turn = None
<1> DEFINE k == ScanOf(todo, keep)
<1>1. /\ NoTask \in Task /\ NoTask.recs = NoRecords /\ NoTask.order = <<>>
      /\ NoTask.turn = None
  BY EmptyShape DEF TaskOK, NoTask
<1>2. /\ k.kind = "scan" /\ k.todo = todo /\ k.keep = keep
      /\ k.recs = NoRecords /\ k.order = <<>> /\ k.turn = None
  BY <1>1 DEF ScanOf, Task
<1>3. k \in Task
  BY <1>1 DEF ScanOf, Task, ListOK
<1> HIDE DEF k
<1>4. TaskOK(k)
  BY <1>2, <1>3 DEF TaskOK, Restores
<1> QED BY <1>2, <1>4 DEF k

\* Open, which reads the ledger, keeps the state well formed.
LEMMA OpenManagerShape ==
  ASSUME Shape, NEW m \in Managers, OpenManager(m)
  PROVE  Shape'
<1>1. /\ status' = [status EXCEPT ![m] = "recovering"]
      /\ fd' = [fd EXCEPT ![m] = TRUE]
      /\ task' = [task EXCEPT ![m] = [NoTask EXCEPT !.kind = "scan", !.todo = ledger]]
      /\ ended' = ended \cup {ledger[i].id : i \in DOMAIN ledger}
      /\ UNCHANGED <<files, ledger, refs, active, kept, tools, mishaps, dirty, torn, checked>>
  BY DEF OpenManager, memory
<1> DEFINE k == [NoTask EXCEPT !.kind = "scan", !.todo = ledger]
<1>2. NoTask \in Task /\ NoTask.keep = <<>>
  BY EmptyShape DEF TaskOK, NoTask
<1>3. /\ k \in Task /\ k.kind = "scan" /\ k.todo = ledger /\ k.keep = NoTask.keep
  BY <1>2 DEF Task, Shape, ListOK
<1>4. TasksOK'
  <2> HIDE DEF k
  <2>1. TaskOK(k)
    BY <1>2, <1>3, EmptyShape DEF TaskOK, Restores, Shape
  <2> QED BY <1>1, <2>1, TaskBecomes DEF Shape, k
<1>5. ended' \subseteq Turns
  <2>1. \A i \in DOMAIN ledger : ledger[i].id \in Turns
    BY DEF Shape, ListOK, EntryOK, PendingTurn
  <2> QED BY <1>1, <2>1 DEF Shape, Plain
<1>6. Plain'
  BY <1>1, <1>5 DEF Shape, Plain
<1>7. ListOK(ledger)' /\ ActiveOK' /\ KeptOK'
  BY <1>1 DEF Shape, ActiveOK, KeptOK
<1> QED BY <1>4, <1>6, <1>7 DEF Shape

\* The scan without its first turn, and the undoing of that turn.
LEMMA ScannedTask ==
  ASSUME NEW k, TaskOK(k), k.kind = "scan", k.todo # <<>>,
         NEW keep, ListOK(keep)
  PROVE  LET e == Head(k.todo)
             next == [k EXCEPT !.todo = Tail(@), !.keep = keep]
             undo == [k EXCEPT !.kind = "recover", !.turn = e.id,
                               !.order = Reversed(e.order), !.recs = e.recs]
         IN  /\ TaskOK(next) /\ next.todo = Tail(k.todo) /\ next.keep = keep
             /\ next.kind = "scan"
             /\ TaskOK(undo) /\ undo.kind = "recover" /\ undo.turn = e.id
             /\ undo.order = Reversed(e.order) /\ undo.recs = e.recs
             /\ undo.todo = k.todo /\ undo.keep = k.keep /\ undo.conflict = k.conflict
<1> DEFINE e == Head(k.todo)
           next == [k EXCEPT !.todo = Tail(k.todo), !.keep = keep]
           undo == [k EXCEPT !.kind = "recover", !.turn = e.id,
                             !.order = Reversed(e.order), !.recs = e.recs]
<1>1. EntryOK(e) /\ ListOK(Tail(k.todo)) /\ k \in Task
  BY ListTail DEF TaskOK
<1>2. /\ e.order \in Seq(Paths) /\ e.recs \in [Paths -> Record] /\ e.id \in Turns
      /\ Lists(e.order, e.recs)
  BY <1>1 DEF EntryOK, PendingTurn
<1>3. /\ Reversed(e.order) \in Seq(Paths) /\ Injective(Reversed(e.order))
      /\ \A p : Occurs(p, Reversed(e.order)) <=> Occurs(p, e.order)
  BY <1>2, ReversedOrder DEF Lists
<1>4. /\ next \in Task /\ next.kind = "scan"
      /\ next.todo = Tail(k.todo) /\ next.keep = keep
  BY <1>1 DEF Task, ListOK
<1>5. TaskOK(next)
  <2> HIDE DEF next
  <2> QED BY <1>1, <1>4 DEF TaskOK, Restores
<1> HIDE DEF e
<1>6. /\ undo \in Task /\ undo.kind = "recover" /\ undo.turn = e.id
      /\ undo.order = Reversed(e.order) /\ undo.recs = e.recs
      /\ undo.todo = k.todo /\ undo.keep = k.keep /\ undo.conflict = k.conflict
  BY <1>1, <1>2, <1>3 DEF Task
<1>7. TaskOK(undo)
  <2> HIDE DEF undo
  <2> QED BY <1>2, <1>3, <1>6 DEF TaskOK, Restores, Lists, e
<1> QED BY <1>4, <1>5, <1>6, <1>7 DEF e

\* Recover's decision on one pending turn keeps the state well formed.
LEMMA RecoverTurnShape ==
  ASSUME Shape, NEW m \in Managers, RecoverTurn(m)
  PROVE  Shape'
<1> DEFINE k == task[m]
           e == Head(k.todo)
           undo == [k EXCEPT !.kind = "recover", !.turn = e.id,
                             !.order = Reversed(e.order), !.recs = e.recs]
           next(keep) == [k EXCEPT !.todo = Tail(@), !.keep = keep]
           j == [id |-> e.id, order |-> e.order, recs |-> e.recs]
<1>1. /\ TaskOK(k) /\ k.kind = "scan" /\ k.todo # <<>> /\ k \in Task
      /\ ListOK(k.todo) /\ ListOK(k.keep)
      /\ UNCHANGED <<files, ledger, status, fd, active, tools, mishaps, ended, torn, checked>>
  BY DEF RecoverTurn, Shape, TasksOK, TaskOK
<1>2. EntryOK(e)
  BY <1>1, ListTail
<1>3. ListOK(Append(k.keep, e))
  BY <1>1, <1>2, ListAppend
<1>4. /\ refs' = refs \/ refs' = Released(Handles(e.recs))
      /\ dirty' = dirty \/ dirty' = Undone(e.id)
      /\ kept' = kept \/ Keep(m, "draft", e.id, j)
  BY DEF RecoverTurn
<1>5. \/ task' = Scanned(m, k.keep)
      \/ task' = Scanned(m, Append(k.keep, e))
      \/ task' = [task EXCEPT ![m].kind = "recover", ![m].turn = e.id,
                              ![m].order = Reversed(e.order), ![m].recs = e.recs]
  BY DEF RecoverTurn
<1>6. TasksOK'
  <2>1. TaskOK(next(k.keep)) /\ TaskOK(undo)
    BY <1>1, ScannedTask
  <2>2. TaskOK(next(Append(k.keep, e)))
    BY <1>1, <1>3, ScannedTask
  <2>3. \/ task' = [task EXCEPT ![m] = next(k.keep)]
        \/ task' = [task EXCEPT ![m] = next(Append(k.keep, e))]
        \/ task' = [task EXCEPT ![m] = undo]
    BY <1>5 DEF Scanned, Shape, TasksOK, Task
  <2> HIDE DEF undo, next
  <2> QED BY <2>1, <2>2, <2>3, TaskBecomes DEF Shape
<1>7. e.id \in Turns /\ JournalOK(j)
  BY <1>2 DEF EntryOK, PendingTurn, JournalOK, Journal
<1>8. Plain'
  <2>1. refs' \in [Contents -> Nat]
    BY <1>4, RefTypes DEF Shape, Plain
  <2>2. dirty' \in [Turns -> [Paths -> Contents \cup {Absent, None}]]
    BY <1>4, <1>7, HistoryTypes DEF Shape, Plain
  <2> QED BY <1>1, <2>1, <2>2 DEF Shape, Plain
<1>9. KeptOK'
  <2>1. CASE kept' = kept
    BY <2>1 DEF Shape, KeptOK
  <2>2. CASE Keep(m, "draft", e.id, j)
    <3>1. j.id = e.id
      OBVIOUS
    <3> HIDE DEF j, e
    <3> QED BY <1>7, <2>2, <3>1, KeptBecomes DEF Shape, Places
  <2> QED BY <1>4, <2>1, <2>2
<1>10. ListOK(ledger)' /\ ActiveOK'
  BY <1>1 DEF Shape, ActiveOK
<1> QED BY <1>6, <1>8, <1>9, <1>10 DEF Shape

\* The pending turn that Recover keeps after it tried to undo it.
KeptEntry(k) == [Head(k.todo) EXCEPT !.recs = k.recs]

\* The pending turn that a conflict keeps is well formed.
LEMMA KeptEntryOK ==
  ASSUME NEW k, TaskOK(k), k.kind = "recover"
  PROVE  /\ EntryOK(KeptEntry(k)) /\ KeptEntry(k).id = k.turn
         /\ KeptEntry(k).recs = k.recs
         /\ KeptEntry(k).committed = Head(k.todo).committed
         /\ KeptEntry(k).draft = Head(k.todo).draft
<1> DEFINE e == Head(k.todo)
<1>1. /\ EntryOK(e) /\ k.recs \in [Paths -> Record] /\ k.turn = e.id
      /\ \A p \in Paths : k.recs[p] # NoRecord <=> e.recs[p] # NoRecord
  BY ListTail DEF TaskOK, Task
<1> HIDE DEF e
<1>2. /\ KeptEntry(k) = [e EXCEPT !.recs = k.recs]
  BY DEF KeptEntry, e
<1>3. /\ KeptEntry(k) \in PendingTurn /\ KeptEntry(k).id = e.id
      /\ KeptEntry(k).recs = k.recs /\ KeptEntry(k).order = e.order
      /\ KeptEntry(k).committed = e.committed /\ KeptEntry(k).draft = e.draft
  BY <1>1, <1>2 DEF EntryOK, PendingTurn
<1>4. Lists(e.order, k.recs)
  BY <1>1 DEF EntryOK, Lists
<1> QED BY <1>1, <1>3, <1>4 DEF EntryOK, e

\* Recover's undoing of one turn, complete or in conflict, keeps the state well
\* formed.
LEMMA RecoverTurnEndsShape ==
  ASSUME Shape, NEW m \in Managers, RecoverTurnEnds(m)
  PROVE  Shape'
<1> DEFINE k == task[m]
           keep == IF k.conflict THEN Append(k.keep, KeptEntry(k)) ELSE k.keep
<1>1. /\ TaskOK(k) /\ k.kind = "recover" /\ k.todo # <<>>
      /\ ListOK(k.todo) /\ ListOK(k.keep)
      /\ UNCHANGED <<files, ledger, refs, status, fd, active, kept, tools, mishaps,
                     dirty, ended, torn, checked>>
  BY DEF RecoverTurnEnds, Done, memory, Shape, TasksOK, TaskOK
<1>2. ListOK(keep) /\ ListOK(Tail(k.todo))
  <2>1. EntryOK(KeptEntry(k))
    BY <1>1, KeptEntryOK
  <2>2. ListOK(Append(k.keep, KeptEntry(k)))
    BY <1>1, <2>1, ListAppend
  <2>3. ListOK(Tail(k.todo))
    BY <1>1, ListTail
  <2> QED BY <1>1, <2>2, <2>3
<1>3. task' = [task EXCEPT ![m] = ScanOf(Tail(k.todo), keep)]
  BY DEF RecoverTurnEnds, ScanOf, KeptEntry
<1> HIDE DEF keep
<1>4. TasksOK'
  BY <1>2, <1>3, ScanOfTask, TaskBecomes DEF Shape
<1>5. Plain' /\ ListOK(ledger)' /\ ActiveOK' /\ KeptOK'
  BY <1>1 DEF Shape, Plain, ActiveOK, KeptOK
<1> QED BY <1>4, <1>5 DEF Shape

\* The compaction that ends Recover keeps the state well formed.
LEMMA RecoverEndsShape ==
  ASSUME Shape, NEW m \in Managers, RecoverEnds(m)
  PROVE  Shape'
<1>1. /\ ledger' = task[m].keep /\ fd' = [n \in Managers |-> n = m]
      /\ status' = [status EXCEPT ![m] = "open"]
      /\ task' = [task EXCEPT ![m] = NoTask]
      /\ UNCHANGED <<files, refs, active, kept, tools, mishaps, dirty, ended, torn, checked>>
  BY DEF RecoverEnds, Compacted, memory
<1>2. ListOK(ledger)'
  BY <1>1 DEF Shape, TasksOK, TaskOK
<1>3. TasksOK'
  BY <1>1, EmptyShape, TaskBecomes DEF Shape
<1>4. Plain' /\ ActiveOK' /\ KeptOK'
  BY <1>1 DEF Shape, Plain, ActiveOK, KeptOK
<1> QED BY <1>2, <1>3, <1>4 DEF Shape

\* The ledger that Close leaves: committed turns gone, drafts without owner.
Unowned(L, m) == [i \in DOMAIN L |-> IF L[i].draft /\ L[i].owner = m
                                       THEN [L[i] EXCEPT !.owner = None] ELSE L[i]]

IsUnowned(q, L) ==
  \A i \in DOMAIN L : /\ q[i].id = L[i].id /\ q[i].recs = L[i].recs
                      /\ q[i].committed = L[i].committed /\ q[i].draft = L[i].draft

\* Close takes the owner off drafts and changes nothing else.
LEMMA UnownedList ==
  ASSUME NEW L, ListOK(L), NEW m
  PROVE  SamePlaces(Unowned(L, m), L) /\ IsUnowned(Unowned(L, m), L)
<1> DEFINE g == Unowned(L, m)
<1>1. g = [i \in DOMAIN L |-> IF L[i].draft /\ L[i].owner = m
                                THEN [L[i] EXCEPT !.owner = None] ELSE L[i]]
  BY DEF Unowned
<1> HIDE DEF g
<1>2. g = [i \in DOMAIN L |-> g[i]]
  BY <1>1
<1>3. ASSUME NEW i \in DOMAIN L
      PROVE  /\ EntryOK(g[i])
             /\ g[i].id = L[i].id /\ g[i].recs = L[i].recs
             /\ g[i].committed = L[i].committed /\ g[i].draft = L[i].draft
  <2>1. EntryOK(L[i])
    BY <1>3 DEF ListOK
  <2> QED BY <1>1, <1>3, <2>1 DEF EntryOK, PendingTurn
<1> QED BY <1>2, <1>3, ListMade DEF SamePlaces, IsUnowned, g

CloseList(m) ==
  IF fd[m] THEN Picked(ledger, {i \in DOMAIN ledger :
                                  ledger[i].id \notin In(m, "committed")})
  ELSE ledger

\* Manager.Close, which settles what was committed, keeps the state well
\* formed.
LEMMA CloseShape ==
  ASSUME Shape, NEW m \in Managers, Close(m)
  PROVE  Shape'
<1>1. /\ ledger' = Unowned(CloseList(m), m)
      /\ fd' = [n \in Managers |-> n = m]
      /\ status' = [status EXCEPT ![m] = "closed"]
      /\ active' = [active EXCEPT ![m] = NoJournal]
      /\ kept' = [kept EXCEPT ![m] = NothingKept]
      /\ active[m] = NoJournal
      /\ UNCHANGED <<files, tools, task, mishaps, dirty, ended, torn, checked>>
  BY DEF Close, Compacted, Unowned, CloseList
<1>2. ListOK(CloseList(m))
  BY PickedList DEF CloseList, Shape
<1>3. ListOK(ledger)'
  BY <1>1, <1>2, UnownedList DEF SamePlaces
<1>4. refs' \in [Contents -> Nat]
  <2> DEFINE X(c) == {x \in In(m, "committed") \X Paths :
                        kept[m]["committed"][x[1]].recs[x[2]].handle = c}
  <2>1. IsFiniteSet(In(m, "committed") \X Paths)
    <3>1. IsFiniteSet(In(m, "committed"))
      BY FS_Subset, JournalConstants DEF In
    <3> QED BY <3>1, FS_Product, JournalConstants
  <2>2. ASSUME NEW c PROVE Cardinality(X(c)) \in Nat
    <3>1. X(c) \subseteq In(m, "committed") \X Paths
      OBVIOUS
    <3> HIDE DEF X
    <3>2. IsFiniteSet(X(c))
      BY <2>1, <3>1, FS_Subset
    <3> QED BY <3>2, FS_CardinalityType
  <2>3. refs' = [c \in Contents |-> IF refs[c] > Cardinality(X(c))
                                      THEN refs[c] - Cardinality(X(c)) ELSE 0]
    BY DEF Close
  <2> HIDE DEF X
  <2> QED BY <2>2, <2>3 DEF Shape, Plain
<1>5. Plain'
  BY <1>1, <1>4 DEF Shape, Plain
<1>6. ActiveOK'
  BY <1>1, NoJournalIdle, EmptyShape, ActiveBecomes DEF Shape, ActiveOK, Idle
<1>7. KeptOK'
  BY <1>1, EmptyShape DEF Shape, KeptOK, NothingKept, JournalOK
<1>8. TasksOK'
  BY <1>1 DEF Shape, TasksOK
<1> QED BY <1>3, <1>5, <1>6, <1>7, <1>8 DEF Shape

\* The exit of a closed process keeps the state well formed.
LEMMA ExitShape ==
  ASSUME Shape, NEW m \in Managers, Exit(m)
  PROVE  Shape'
<1>1. /\ status' = [status EXCEPT ![m] = "dead"]
      /\ UNCHANGED <<files, ledger, refs, fd, active, kept, tools, task, mishaps,
                     dirty, ended, torn, checked>>
  BY DEF Exit, memory
<1> QED BY <1>1 DEF Shape, Plain, ActiveOK, KeptOK, TasksOK

\* A crash at any step keeps the state well formed.
LEMMA CrashShape ==
  ASSUME Shape, NEW m \in Managers, Crash(m)
  PROVE  Shape'
<1>1. /\ status' = [status EXCEPT ![m] = "dead"]
      /\ fd' = [fd EXCEPT ![m] = FALSE]
      /\ active' = [active EXCEPT ![m] = NoJournal]
      /\ kept' = [kept EXCEPT ![m] = NothingKept]
      /\ tools' = [tools EXCEPT ![m] = Idle]
      /\ task' = [task EXCEPT ![m] = NoTask]
      /\ checked' = [checked EXCEPT ![m] = None]
      /\ torn' = torn \cup Unlisted(m, {p \in Paths : tools[m][p] = "written"})
      /\ UNCHANGED <<files, ledger, refs, mishaps, dirty, ended>>
  BY DEF Crash
<1>2. torn' \subseteq Turns \X Paths
  <2>1. ASSUME NEW i \in DOMAIN ledger PROVE ledger[i].id \in Turns
    BY <2>1 DEF Shape, ListOK, EntryOK, PendingTurn
  <2>2. Unlisted(m, {p \in Paths : tools[m][p] = "written"}) \subseteq Turns \X Paths
    BY <2>1 DEF Unlisted
  <2> QED BY <1>1, <2>2 DEF Shape, Plain
<1>3. Plain' /\ ListOK(ledger)'
  BY <1>1, <1>2 DEF Shape, Plain
<1>4. ActiveOK'
  <2>1. /\ tools' \in [Managers -> [Paths -> {"idle", "prepared", "written"}]]
        /\ \A n \in Managers : n # m => tools'[n] = tools[n]
        /\ \A p \in Paths : tools'[m][p] = "idle"
    BY <1>1 DEF Shape, ActiveOK, Idle
  <2> QED BY <1>1, <2>1, EmptyShape, ActiveBecomes DEF Shape
<1>5. KeptOK'
  BY <1>1, EmptyShape DEF Shape, KeptOK, NothingKept, JournalOK
<1>6. TasksOK'
  BY <1>1, EmptyShape, TaskBecomes DEF Shape
<1> QED BY <1>3, <1>4, <1>5, <1>6 DEF Shape

\* The user's edit keeps the state well formed.
LEMMA EditShape ==
  ASSUME Shape, NEW p \in Paths, NEW c \in Contents, Edit(p, c)
  PROVE  Shape'
<1>1. /\ files' = [files EXCEPT ![p] = Put(c)]
      /\ dirty' = [t \in Turns |-> [dirty[t] EXCEPT ![p] = None]]
      /\ Mishap
      /\ UNCHANGED <<ledger, refs, status, fd, active, kept, tools, task, ended, torn, checked>>
  BY DEF Edit, memory
<1>2. Put(c) \in Fingerprint
  BY PutType
<1>3. files' \in [Paths -> Fingerprint]
  BY <1>1, <1>2 DEF Shape, Plain
<1>4. dirty' \in [Turns -> [Paths -> Contents \cup {Absent, None}]]
  BY <1>1 DEF Shape, Plain
<1>5. mishaps' \in 0..MaxMishaps
  BY <1>1, JournalConstants DEF Mishap, Shape, Plain
<1>6. Plain'
  BY <1>1, <1>3, <1>4, <1>5 DEF Shape, Plain
<1>7. ListOK(ledger)' /\ ActiveOK' /\ KeptOK' /\ TasksOK'
  BY <1>1 DEF Shape, ActiveOK, KeptOK, TasksOK
<1> QED BY <1>6, <1>7 DEF Shape

\* Each action, for the proofs that go through all of them.
LEMMA NextShape ==
  ASSUME Shape, [Next]_vars
  PROVE  Shape'
<1>1. CASE UNCHANGED vars
  BY <1>1 DEF vars, Shape, Plain, ActiveOK, KeptOK, TasksOK
<1>2. CASE \E p \in Paths, c \in Contents : Edit(p, c)
  BY <1>2, EditShape
<1>3. ASSUME NEW m \in Managers, NEW t \in Turns,
             \/ Begin(m, t) \/ Commit(m, t) \/ Suspend(m, t) \/ KeepDraft(m, t)
             \/ Rollback(m, t) \/ Revert(m, t)
             \/ \E s \in Turns : ResumeDraft(m, s, t)
             \/ \E p \in Paths :
                  \/ Before(m, t, p) \/ After(m, t, p)
                  \/ \E c \in Contents \cup {Absent} : ToolWrite(m, t, p, c)
      PROVE  Shape'
  BY <1>3, BeginShape, CommitShape, SuspendShape, KeepDraftShape, RollbackShape,
     RevertShape, ResumeDraftShape, BeforeShape, AfterShape, ToolWriteShape
<1>4. ASSUME NEW m \in Managers,
             \/ RestoreCheck(m) \/ RestoreWrite(m) \/ RestoreFails(m)
             \/ RollbackEnds(m) \/ RevertEnds(m)
             \/ OpenManager(m)
             \/ RecoverTurn(m) \/ RecoverTurnEnds(m) \/ RecoverEnds(m)
             \/ Close(m) \/ Exit(m) \/ Crash(m)
      PROVE  Shape'
  BY <1>4, RestoreRecordShape, RestoreFailsShape, RollbackEndsShape,
     RevertEndsShape, OpenManagerShape, RecoverTurnShape, RecoverTurnEndsShape,
     RecoverEndsShape, CloseShape, ExitShape, CrashShape DEF RestoreRecord
<1> QED BY <1>1, <1>2, <1>3, <1>4, Zenon DEF Next

\* Every reachable state is well formed.
LEMMA ShapeHolds == Spec => []Shape
BY InitShape, NextShape, PTL DEF Spec

\* The journal's types, for any number of processes, turns, files and contents,
\* one process at a time or several: in particular releasing handles never takes
\* a reference count of the image store below zero, and a fresh identity for the
\* next write can always be found.
THEOREM JournalTypeCorrect == Spec => []JournalTypeOK
BY ShapeHolds, ShapeTypes, PTL

-----------------------------------------------------------------------------
(* Life: with one process at a time, who is alive and what the others hold *)

Live(m) == status[m] \in {"recovering", "open"}

\* The memory of a process that has none.
Vacant(m) == active[m] = NoJournal /\ kept[m] = NothingKept /\ task[m] = NoTask

LifeAt(m) ==
  /\ Live(m) => fd[m]
  /\ ~Live(m) => Vacant(m)
  /\ status[m] = "recovering" =>
       /\ active[m] = NoJournal
       /\ In(m, "committed") = {} /\ In(m, "unresolved") = {}
       /\ task[m].kind \in {"scan", "recover"}
  /\ status[m] = "open" => task[m].kind \in {"none", "rollback", "revert"}

\* At most one process is at work on the journal, and it alone has memory.
Life ==
  /\ \A m, n \in Managers : Live(m) /\ Live(n) => m = n
  /\ \A m \in Managers : LifeAt(m)

\* A step of manager m leaves the memory of the others alone.
Elsewhere(m) ==
  \A n \in Managers \ {m} :
    /\ status'[n] = status[n] /\ active'[n] = active[n] /\ kept'[n] = kept[n]
    /\ task'[n] = task[n] /\ tools'[n] = tools[n]

\* What one manager does in a step, whichever turn or path it is for.
Step(m) ==
  \/ \E t \in Turns :
       \/ Begin(m, t) \/ Commit(m, t) \/ Suspend(m, t) \/ KeepDraft(m, t)
       \/ Rollback(m, t) \/ Revert(m, t)
       \/ \E s \in Turns : ResumeDraft(m, s, t)
       \/ \E p \in Paths :
            \/ Before(m, t, p) \/ After(m, t, p)
            \/ \E c \in Contents \cup {Absent} : ToolWrite(m, t, p, c)
  \/ RestoreRecord(m) \/ RestoreFails(m)
  \/ RollbackEnds(m) \/ RevertEnds(m)
  \/ OpenManager(m)
  \/ RecoverTurn(m) \/ RecoverTurnEnds(m) \/ RecoverEnds(m)
  \/ Close(m) \/ Exit(m) \/ Crash(m)

\* A step of the system is a step of one process, or an edit of the user.
LEMMA NextSteps ==
  ASSUME [Next]_vars
  PROVE  \/ UNCHANGED vars
         \/ \E p \in Paths, c \in Contents : Edit(p, c)
         \/ \E m \in Managers : Step(m)
BY Zenon DEF Next, Step, RestoreRecord

\* A process never touches the memory of another.
LEMMA StepElsewhere ==
  ASSUME Shape, NEW m \in Managers, Step(m)
  PROVE  Elsewhere(m)
<1> USE DEF Shape, Plain, ActiveOK, KeptOK, TasksOK, Elsewhere
<1>1. ASSUME NEW t \in Turns, Begin(m, t) \/ Commit(m, t) \/ Suspend(m, t)
      PROVE  Elsewhere(m)
  BY <1>1 DEF Begin, Commit, Suspend, Keep, memory
<1>2. ASSUME NEW t \in Turns, KeepDraft(m, t) \/ Revert(m, t)
      PROVE  Elsewhere(m)
  BY <1>2 DEF KeepDraft, Revert, StartRestore, memory
<1>3. ASSUME NEW t \in Turns, Rollback(m, t)
      PROVE  Elsewhere(m)
  BY <1>3 DEF Rollback, StartRestore
<1>4. ASSUME NEW t \in Turns, NEW s \in Turns, ResumeDraft(m, s, t)
      PROVE  Elsewhere(m)
  BY <1>4 DEF ResumeDraft, Keep
<1>5. ASSUME NEW t \in Turns, NEW p \in Paths, Before(m, t, p)
      PROVE  Elsewhere(m)
  BY <1>5 DEF Before
<1>6. ASSUME NEW t \in Turns, NEW p \in Paths, After(m, t, p)
      PROVE  Elsewhere(m)
  BY <1>6 DEF After
<1>7. ASSUME NEW t \in Turns, NEW p \in Paths, NEW c \in Contents \cup {Absent},
             ToolWrite(m, t, p, c)
      PROVE  Elsewhere(m)
  BY <1>7 DEF ToolWrite, memory
<1>8. CASE RestoreRecord(m)
  <2>1. UNCHANGED <<status, active, kept, tools>>
    BY <1>8, RestoreRecordIs
  <2> QED BY <1>8, <2>1, RestoreRecordStays
<1>9. CASE RestoreFails(m) \/ RollbackEnds(m) \/ RevertEnds(m)
  <2>1. CASE RestoreFails(m)
    BY <2>1, RestoreFailsIs
  <2>2. CASE RollbackEnds(m) \/ RevertEnds(m)
    BY <2>2 DEF RollbackEnds, RevertEnds, Keep
  <2> QED BY <1>9, <2>1, <2>2
<1>10. CASE OpenManager(m) \/ RecoverTurnEnds(m) \/ RecoverEnds(m)
  BY <1>10 DEF OpenManager, RecoverTurnEnds, RecoverEnds, memory
<1>11. CASE RecoverTurn(m)
  BY <1>11 DEF RecoverTurn, Scanned, Keep
<1>12. CASE Close(m) \/ Exit(m) \/ Crash(m)
  BY <1>12 DEF Close, Exit, Crash, memory
<1> QED BY <1>1, <1>2, <1>3, <1>4, <1>5, <1>6, <1>7, <1>8, <1>9, <1>10, <1>11,
           <1>12, Zenon DEF Step

\* Any step but opening is one of the process at work, or of one that exits.
LEMMA StepIsLive ==
  ASSUME Shape, Life, NEW m \in Managers, Step(m)
  PROVE  OpenManager(m) \/ Exit(m) \/ Live(m)
<1>1. task[m].kind # "none" => Live(m)
  BY DEF Life, LifeAt, Vacant, NoTask
<1>2. RestoreRecord(m) \/ RestoreFails(m) \/ RollbackEnds(m) \/ RevertEnds(m)
        \/ RecoverTurn(m) \/ RecoverTurnEnds(m) \/ RecoverEnds(m)
        => task[m].kind # "none"
  BY RestoreRecordIs DEF Restores, RestoreAt, RestoreFails, RollbackEnds, RevertEnds,
         RecoverTurn, RecoverTurnEnds, RecoverEnds, Done
<1>3. Close(m) \/ Crash(m) => Live(m)
  BY DEF Close, Crash, Open, Live
<1>4. ASSUME NEW t \in Turns,
             \/ Begin(m, t) \/ Commit(m, t) \/ Suspend(m, t) \/ KeepDraft(m, t)
             \/ Rollback(m, t) \/ Revert(m, t)
             \/ \E s \in Turns : ResumeDraft(m, s, t)
             \/ \E p \in Paths :
                  \/ Before(m, t, p) \/ After(m, t, p)
                  \/ \E c \in Contents \cup {Absent} : ToolWrite(m, t, p, c)
      PROVE  Live(m)
  <2>1. Open(m)
    BY <1>4 DEF Begin, Commit, Suspend, KeepDraft, Rollback, Revert, ResumeDraft,
                Before, After, ToolWrite, Active
  <2> QED BY <2>1 DEF Open, Live
<1> QED BY <1>1, <1>2, <1>3, <1>4, Zenon DEF Step

\* The steps that leave the process open, and what they do to its task.
OpenStep(m) ==
  \/ \E t \in Turns :
       \/ Begin(m, t) \/ Commit(m, t) \/ Suspend(m, t) \/ KeepDraft(m, t)
       \/ Rollback(m, t) \/ Revert(m, t)
       \/ \E s \in Turns : ResumeDraft(m, s, t)
       \/ \E p \in Paths :
            \/ Before(m, t, p) \/ After(m, t, p)
            \/ \E c \in Contents \cup {Absent} : ToolWrite(m, t, p, c)
  \/ RollbackEnds(m) \/ RevertEnds(m)

\* Between Recover and Close the process stays open with its descriptor.
LEMMA OpenStepStays ==
  ASSUME Shape, Life, NEW m \in Managers, OpenStep(m)
  PROVE  /\ status[m] = "open" /\ status' = status /\ fd' = fd
         /\ task'[m].kind \in {"none", "rollback", "revert"}
<1>1. task \in [Managers -> Task] /\ NoTask.kind = "none"
  BY DEF Shape, TasksOK, NoTask
<1>2. ASSUME NEW t \in Turns,
             \/ Begin(m, t) \/ Commit(m, t) \/ Suspend(m, t) \/ KeepDraft(m, t)
             \/ \E s \in Turns : ResumeDraft(m, s, t)
             \/ \E p \in Paths :
                  \/ Before(m, t, p) \/ After(m, t, p)
                  \/ \E c \in Contents \cup {Absent} : ToolWrite(m, t, p, c)
      PROVE  Open(m) /\ status' = status /\ fd' = fd /\ task' = task
  BY <1>2 DEF Begin, Commit, Suspend, KeepDraft, ResumeDraft, Before, After,
              ToolWrite, Active
<1>3. ASSUME NEW t \in Turns, Rollback(m, t) \/ Revert(m, t)
      PROVE  /\ Open(m) /\ status' = status /\ fd' = fd
             /\ task'[m].kind \in {"rollback", "revert"}
  <2>1. Open(m) /\ status' = status /\ fd' = fd
    BY <1>3 DEF Rollback, Revert
  <2>2. \E kind \in {"rollback", "revert"} : \E place, j : StartRestore(m, kind, place, j)
    BY <1>3 DEF Rollback, Revert
  <2>3. NoTask \in Task
    BY EmptyShape DEF TaskOK
  <2> QED BY <1>1, <2>1, <2>2, <2>3 DEF StartRestore, Task
<1>4. ASSUME RollbackEnds(m) \/ RevertEnds(m)
      PROVE  Open(m) /\ status' = status /\ fd' = fd /\ task'[m].kind = "none"
  <2>1. /\ task[m].kind \in {"rollback", "revert"} /\ status' = status /\ fd' = fd
        /\ task' = [task EXCEPT ![m] = NoTask]
    BY <1>4 DEF RollbackEnds, RevertEnds, Done
  <2>2. Open(m)
    BY <1>1, <2>1 DEF Life, LifeAt, Live, Vacant, Open, Shape, Plain
  <2> QED BY <1>1, <2>1, <2>2
<1>5. Open(m) => task[m].kind \in {"none", "rollback", "revert"}
  BY DEF Life, LifeAt, Open
<1> QED BY <1>2, <1>3, <1>4, <1>5, Zenon DEF OpenStep, Open

\* The steps of a recovery and of a restore.
TaskStep(m) ==
  RestoreRecord(m) \/ RestoreFails(m) \/ RecoverTurn(m) \/ RecoverTurnEnds(m)

\* A restore or a recovery in progress leaves the process where it is.
LEMMA TaskStepStays ==
  ASSUME Shape, Life, NEW m \in Managers, TaskStep(m)
  PROVE  /\ status' = status /\ fd' = fd /\ active' = active
         /\ \A w \in {"committed", "unresolved"} : In(m, w)' = In(m, w)
         /\ task[m].kind \in {"rollback", "revert"} => task'[m].kind = task[m].kind
         /\ task[m].kind \in {"scan", "recover"} =>
              task'[m].kind \in {"scan", "recover"}
         /\ task[m].kind # "none"
<1> DEFINE k == task[m]
<1>0. /\ task \in [Managers -> Task] /\ k \in Task /\ TaskOK(k) /\ NoTask \in Task
      /\ kept \in [Managers -> [Places -> [Turns -> Journal]]]
  BY EmptyShape DEF Shape, TasksOK, TaskOK, KeptOK
<1>1. CASE RestoreRecord(m) \/ RestoreFails(m)
  <2>1. UNCHANGED <<status, fd, active, kept>> /\ k.kind \in Restores
    BY <1>1, RestoreRecordIs, RestoreFailsIs
  <2>2. task'[m].kind = k.kind
    <3>1. CASE RestoreFails(m)
      BY <3>1, RestoreFailsIs
    <3>2. CASE RestoreRecord(m)
      BY <3>2, RestoreRecordStays
    <3> QED BY <1>1, <3>1, <3>2
  <2> QED BY <2>1, <2>2 DEF In, Restores
<1>2. CASE RecoverTurn(m)
  <2>1. UNCHANGED <<status, fd, active>> /\ k.kind = "scan"
    BY <1>2 DEF RecoverTurn
  <2>2. task'[m].kind \in {"scan", "recover"}
    BY <1>0, <1>2, <2>1 DEF RecoverTurn, Scanned, Task
  <2>3. kept' = kept \/ \E t, j : Keep(m, "draft", t, j)
    BY <1>2 DEF RecoverTurn
  <2>4. \A w \in {"committed", "unresolved"}, t \in Turns : kept'[m][w][t] = kept[m][w][t]
    BY <1>0, <2>3 DEF Keep, Places
  <2> QED BY <2>1, <2>2, <2>4 DEF In
<1>3. CASE RecoverTurnEnds(m)
  <2>1. UNCHANGED <<status, fd, active, kept>> /\ k.kind = "recover"
    BY <1>3 DEF RecoverTurnEnds, Done, memory
  <2>2. task'[m].kind = "scan"
    BY <1>0, <1>3 DEF RecoverTurnEnds, Task
  <2> QED BY <2>1, <2>2 DEF In
<1> QED BY <1>1, <1>2, <1>3 DEF TaskStep

\* The steps that change what a process is.
PhaseStep(m) ==
  OpenManager(m) \/ RecoverEnds(m) \/ Close(m) \/ Exit(m) \/ Crash(m)

\* A process without memory keeps no journal.
LEMMA NothingIn ==
  ASSUME NEW m \in Managers, kept[m] = NothingKept
  PROVE  \A w \in Places : In(m, w) = {}
BY DEF In, NothingKept

\* Opening, recovering, closing and dying leave each process with the memory
\* its status allows.
LEMMA PhaseStepLife ==
  ASSUME ~Shared, Shape, Life, NEW m \in Managers, PhaseStep(m)
  PROVE  LifeAt(m)'
<1> USE DEF Shape, Plain, ActiveOK, KeptOK, TasksOK
<1>0. NoTask \in Task /\ NoTask.kind = "none"
  BY EmptyShape DEF TaskOK, NoTask
<1>1. CASE OpenManager(m)
  <2>1. /\ status'[m] = "recovering" /\ fd'[m] = TRUE
        /\ active' = active /\ kept' = kept
    BY <1>1 DEF OpenManager, memory
  <2>2. task'[m].kind = "scan"
    BY <1>0, <1>1 DEF OpenManager, Task
  <2>3. active[m] = NoJournal /\ kept[m] = NothingKept
    BY <1>1 DEF OpenManager, Life, LifeAt, Live, Vacant
  <2>4. In(m, "committed")' = {} /\ In(m, "unresolved")' = {}
    BY <2>1, <2>3, NothingIn DEF In, Places
  <2> QED BY <2>1, <2>2, <2>3, <2>4 DEF LifeAt, Live
<1>2. CASE RecoverEnds(m)
  <2>1. status'[m] = "open" /\ fd'[m] = TRUE /\ task'[m] = NoTask
    BY <1>2 DEF RecoverEnds, Compacted
  <2> QED BY <1>0, <2>1 DEF LifeAt, Live
<1>3. CASE Close(m)
  <2>1. /\ status'[m] = "closed" /\ active'[m] = NoJournal /\ kept'[m] = NothingKept
        /\ task'[m] = NoTask
    BY <1>3 DEF Close
  <2> QED BY <2>1 DEF LifeAt, Live, Vacant
<1>4. CASE Exit(m)
  <2>1. /\ status'[m] = "dead" /\ UNCHANGED <<active, kept, task>>
        /\ status[m] = "closed"
    BY <1>4 DEF Exit, memory
  <2> QED BY <2>1 DEF LifeAt, Live, Vacant, Life
<1>5. CASE Crash(m)
  <2>1. /\ status'[m] = "dead" /\ active'[m] = NoJournal /\ kept'[m] = NothingKept
        /\ task'[m] = NoTask
    BY <1>5 DEF Crash
  <2> QED BY <2>1 DEF LifeAt, Live, Vacant
<1> QED BY <1>1, <1>2, <1>3, <1>4, <1>5 DEF PhaseStep

\* Who is alive after a step, and whose descriptor names the ledger.
LEMMA PhaseStepOthers ==
  ASSUME ~Shared, Shape, Life, NEW m \in Managers, PhaseStep(m)
  PROVE  \A n \in Managers \ {m} :
           /\ Live(n)' => ~Live(m)' /\ fd'[n] = fd[n] /\ Live(n)
           /\ Live(n)' <=> Live(n)
<1> USE DEF Shape, Plain
<1>1. CASE OpenManager(m)
  BY <1>1 DEF OpenManager, Live
<1>2. CASE RecoverEnds(m) \/ Close(m)
  <2>1. Live(m)
    BY <1>2, StepIsLive DEF Step, RecoverEnds, OpenManager, Exit, Close, Open, Live
  <2>2. \A n \in Managers \ {m} : status'[n] = status[n]
    BY <1>2 DEF RecoverEnds, Close
  <2> QED BY <2>1, <2>2 DEF Live, Life
<1>3. CASE Exit(m) \/ Crash(m)
  BY <1>3 DEF Exit, Crash, Live
<1> QED BY <1>1, <1>2, <1>3 DEF PhaseStep

\* The three kinds of step: of an open process, of a task, of a phase.
LEMMA StepCases ==
  ASSUME NEW m \in Managers
  PROVE  Step(m) <=> OpenStep(m) \/ TaskStep(m) \/ PhaseStep(m)
BY Zenon DEF Step, OpenStep, TaskStep, PhaseStep

\* A step of one process keeps at most one at work.
LEMMA StepLife ==
  ASSUME ~Shared, Shape, Life, NEW m \in Managers, Step(m)
  PROVE  Life'
<1>1. Elsewhere(m)
  BY StepElsewhere
<1>2. LifeAt(m)' /\ \A n \in Managers \ {m} :
        /\ Live(n)' => ~Live(m)' /\ fd'[n] = fd[n]
        /\ Live(n)' <=> Live(n)
  <2>1. CASE PhaseStep(m)
    BY <2>1, PhaseStepLife, PhaseStepOthers
  <2>2. CASE OpenStep(m)
    <3>1. /\ status[m] = "open" /\ status' = status /\ fd' = fd
          /\ task'[m].kind \in {"none", "rollback", "revert"}
      BY <2>2, OpenStepStays
    <3> QED BY <3>1 DEF Life, LifeAt, Live
  <2>3. CASE TaskStep(m)
    <3>1. /\ status' = status /\ fd' = fd /\ active' = active
          /\ \A w \in {"committed", "unresolved"} : In(m, w)' = In(m, w)
          /\ task[m].kind \in {"rollback", "revert"} => task'[m].kind = task[m].kind
          /\ task[m].kind \in {"scan", "recover"} => task'[m].kind \in {"scan", "recover"}
          /\ task[m].kind # "none"
      BY <2>3, TaskStepStays
    <3>2. Live(m)
      BY <3>1 DEF Life, LifeAt, Vacant, NoTask
    <3> QED BY <3>1, <3>2 DEF Life, LifeAt, Live
  <2> QED BY <2>1, <2>2, <2>3, StepCases
<1>3. ASSUME NEW n \in Managers \ {m}
      PROVE  LifeAt(n)'
  BY <1>1, <1>2, <1>3 DEF Elsewhere, Life, LifeAt, Live, Vacant, In
<1>4. \A a, b \in Managers : Live(a)' /\ Live(b)' => a = b
  BY <1>2 DEF Life
<1> QED BY <1>2, <1>3, <1>4 DEF Life

\* At first no process is at work.
LEMMA InitLife == Init => Life
BY DEF Init, Life, LifeAt, Live, Vacant

\* The user's edit concerns no process.
LEMMA EditLife ==
  ASSUME Life, NEW p \in Paths, NEW c \in Contents, Edit(p, c)
  PROVE  Life'
BY DEF Edit, memory, Life, LifeAt, Live, Vacant, In

\* At most one process is at work, whatever happens.
LEMMA NextLife ==
  ASSUME ~Shared, Shape, Life, [Next]_vars
  PROVE  Life'
<1>1. CASE UNCHANGED vars
  BY <1>1 DEF vars, Life, LifeAt, Live, Vacant, In
<1> QED BY <1>1, EditLife, StepLife, NextSteps

-----------------------------------------------------------------------------
(* Standing: which turns the ledger, the memory and a recovery list *)

\* L lists turn t as one that is not accepted.
Stands(L, t) == \E i \in DOMAIN L : L[i].id = t /\ ~L[i].committed

\* The list that backs the drafts: a recovery has not written it yet.
Base(m) == IF Open(m) THEN ledger ELSE task[m].keep

Current(m) ==
  /\ \A i \in DOMAIN ledger : ledger[i].id \in ended \/ ledger[i].id = active[m].id
  /\ active[m].id # None => active[m].id \notin ended /\ Stands(ledger, active[m].id)

Shelved(m) ==
  /\ \A w \in Places, t \in Turns : t \in In(m, w) => t \in ended
  /\ \A w, v \in Places, t \in Turns : t \in In(m, w) /\ t \in In(m, v) => w = v
  /\ \A t \in Turns : t \in In(m, "draft") => Stands(Base(m), t)

ScanStanding(k) ==
  /\ Distinct(k.todo) /\ Distinct(k.keep)
  /\ \A i \in DOMAIN k.todo, j \in DOMAIN k.keep : k.todo[i].id # k.keep[j].id
  /\ \A i \in DOMAIN k.todo : k.todo[i].id \in ended
  /\ \A j \in DOMAIN k.keep : k.keep[j].id \in ended
  /\ k.kind = "recover" => ~Head(k.todo).committed /\ ~Head(k.todo).draft

Doing(m) ==
  /\ task[m].kind \in Restores => task[m].turn \in ended
  /\ task[m].kind = "rollback" =>
       task[m].turn \notin In(m, "draft") /\ task[m].turn \notin In(m, "committed")
  /\ task[m].kind = "revert" => task[m].turn \in In(m, task[m].place)
  /\ task[m].kind \in {"scan", "recover"} => ScanStanding(task[m])

StandingAt(m) == Current(m) /\ Shelved(m) /\ Doing(m)

\* An id is in one place at a time, and what is unaccepted is in the ledger.
Standing ==
  /\ Distinct(ledger)
  /\ \A m \in Managers : Live(m) => StandingAt(m)

\* A live process always writes through a current descriptor.
LEMMA LiveWrites ==
  ASSUME Life, NEW m \in Managers, Live(m), NEW L
  PROVE  Written(m, L) = L
BY DEF Life, LifeAt, Written

\* q lists the turns of L, as accepted or not as they were.
SameTurns(q, L) ==
  /\ DOMAIN q = DOMAIN L
  /\ \A i \in DOMAIN L : q[i].id = L[i].id /\ q[i].committed = L[i].committed

\* A list of the same turns lists the same unaccepted ones.
LEMMA SameTurnsStand ==
  ASSUME NEW q, NEW L, SameTurns(q, L)
  PROVE  /\ Distinct(L) => Distinct(q)
         /\ \A t : Stands(L, t) => Stands(q, t)
BY DEF SameTurns, Distinct, Stands

\* Turns other than t are not touched by what is done to t.
LEMMA BegunIds ==
  ASSUME NEW L, ListOK(L), NEW t \in Turns, NEW m \in Managers
  PROVE  LET q == Begun(L, t, m)
         IN  /\ \A k \in DOMAIN q :
                  q[k] = NewEntry(t, m) \/ \E i \in DOMAIN L : L[i].id # t /\ q[k] = L[i]
             /\ \A i \in DOMAIN L : L[i].id # t => \E k \in DOMAIN q : q[k] = L[i]
             /\ \E k \in DOMAIN q : q[k] = NewEntry(t, m)
             /\ Distinct(L) => Distinct(q)
<1> DEFINE S == Settle(L, t)
           e == NewEntry(t, m)
           q == Append(S, e)
<1>1. /\ ListOK(S)
      /\ \A k \in DOMAIN S : \E i \in DOMAIN L : L[i].id # t /\ S[k] = L[i]
      /\ \A i \in DOMAIN L : L[i].id # t => \E k \in DOMAIN S : S[k] = L[i]
      /\ Distinct(L) => Distinct(S)
  BY SettleList
<1>2. EntryOK(e) /\ e.id = t /\ Begun(L, t, m) = q
  BY BegunList DEF NewEntry
<1> HIDE DEF S, e
<1>3. /\ \A k \in DOMAIN q :
           (k \in DOMAIN S /\ q[k] = S[k]) \/ (k = Len(S) + 1 /\ q[k] = e)
      /\ \A k \in DOMAIN S : k \in DOMAIN q /\ q[k] = S[k]
      /\ Len(S) + 1 \in DOMAIN q /\ q[Len(S) + 1] = e
  BY <1>1, <1>2, ListAppend
<1> HIDE DEF q
<1>4. Distinct(L) => Distinct(q)
  BY <1>1, <1>2, <1>3 DEF Distinct
<1>5. \A i \in DOMAIN L : L[i].id # t => \E k \in DOMAIN q : q[k] = L[i]
  BY <1>1, <1>3
<1>6. \A k \in DOMAIN q : q[k] = e \/ \E i \in DOMAIN L : L[i].id # t /\ q[k] = L[i]
  BY <1>1, <1>3
<1> QED BY <1>2, <1>3, <1>4, <1>5, <1>6 DEF e

\* One more turn at the end, one turn less at the front.
LEMMA AppendIds ==
  ASSUME NEW L, ListOK(L), Distinct(L), NEW e, EntryOK(e),
         \A i \in DOMAIN L : L[i].id # e.id
  PROVE  /\ Distinct(Append(L, e))
         /\ \A k \in DOMAIN Append(L, e) :
              Append(L, e)[k] = e \/ \E i \in DOMAIN L : Append(L, e)[k] = L[i]
         /\ \A i \in DOMAIN L : \E k \in DOMAIN Append(L, e) : Append(L, e)[k] = L[i]
         /\ \E k \in DOMAIN Append(L, e) : Append(L, e)[k] = e
<1> DEFINE q == Append(L, e)
<1>1. /\ \A k \in DOMAIN q :
           (k \in DOMAIN L /\ q[k] = L[k]) \/ (k = Len(L) + 1 /\ q[k] = e)
      /\ \A k \in DOMAIN L : k \in DOMAIN q /\ q[k] = L[k]
      /\ Len(L) + 1 \in DOMAIN q /\ q[Len(L) + 1] = e
  BY ListAppend
<1> HIDE DEF q
<1>2. Distinct(q)
  BY <1>1 DEF Distinct
<1>3. /\ \A k \in DOMAIN q : q[k] = e \/ \E i \in DOMAIN L : q[k] = L[i]
      /\ \A i \in DOMAIN L : \E k \in DOMAIN q : q[k] = L[i]
      /\ \E k \in DOMAIN q : q[k] = e
  BY <1>1
<1> QED BY <1>2, <1>3 DEF q

\* The tail of a list lists the other turns.
LEMMA TailIds ==
  ASSUME NEW L, ListOK(L), L # <<>>, Distinct(L)
  PROVE  /\ Distinct(Tail(L))
         /\ \A k \in DOMAIN Tail(L) :
              \E i \in DOMAIN L : Tail(L)[k] = L[i] /\ L[i].id # Head(L).id
         /\ \A i \in DOMAIN L : L[i].id # Head(L).id =>
              \E k \in DOMAIN Tail(L) : Tail(L)[k] = L[i]
         /\ \E i \in DOMAIN L : Head(L) = L[i]
<1> DEFINE q == Tail(L)
<1>1. /\ 1 \in DOMAIN L /\ Head(L) = L[1]
      /\ \A k \in DOMAIN q : k + 1 \in DOMAIN L /\ q[k] = L[k + 1]
      /\ \A k \in DOMAIN L : k = 1 \/ (k - 1 \in DOMAIN q /\ q[k - 1] = L[k])
      /\ ListOK(q)
  BY ListTail
<1>2. \A k \in DOMAIN q : k \in Nat /\ k + 1 # 1
  <2>1. q \in Seq(PendingTurn)
    BY <1>1 DEF ListOK
  <2> HIDE DEF q
  <2>2. DOMAIN q = 1..Len(q) /\ Len(q) \in Nat
    BY <2>1, LenProperties
  <2> QED BY <2>2
<1>3. \A k, l \in DOMAIN q : k + 1 = l + 1 => k = l
  BY <1>2
<1> HIDE DEF q
<1>4. Distinct(q)
  BY <1>1, <1>3 DEF Distinct
<1>5. \A k \in DOMAIN q : \E i \in DOMAIN L : q[k] = L[i] /\ L[i].id # Head(L).id
  BY <1>1, <1>2 DEF Distinct
<1>6. \A i \in DOMAIN L : L[i].id # Head(L).id => \E k \in DOMAIN q : q[k] = L[i]
  BY <1>1
<1> QED BY <1>1, <1>4, <1>5, <1>6 DEF q

\* What Keep does to the places.
LEMMA KeepIn ==
  ASSUME KeptOK, NEW m \in Managers, NEW w \in Places, NEW t \in Turns, NEW j,
         Keep(m, w, t, j)
  PROVE  \A v \in Places, u \in Turns :
           /\ kept'[m][v][u] = IF v = w /\ u = t THEN j ELSE kept[m][v][u]
           /\ u \in In(m, v)' <=> IF v = w /\ u = t THEN j # NoJournal
                                  ELSE u \in In(m, v)
BY DEF KeptOK, Keep, In

\* One manager's step settles the question for all.
LEMMA StandingStep ==
  ASSUME ~Shared, Shape, Life, Standing, NEW m \in Managers, Step(m), ~Exit(m),
         Distinct(ledger)', Live(m)' => StandingAt(m)'
  PROVE  Standing'
<1>1. Elsewhere(m) /\ Life'
  BY StepElsewhere, StepLife
<1>2. Live(m) \/ OpenManager(m)
  BY StepIsLive
<1>3. OpenManager(m) => Live(m)'
  BY DEF OpenManager, Live, Shape, Plain
<1>4. ASSUME NEW n \in Managers, Live(n)' PROVE n = m
  BY <1>1, <1>2, <1>3, <1>4 DEF Elsewhere, Life, Live
<1> QED BY <1>4 DEF Standing

\* An open process is at work, and its lists are the ledger.
LEMMA OpenIsLive ==
  ASSUME NEW m \in Managers, Open(m), Standing
  PROVE  Live(m) /\ Base(m) = ledger /\ StandingAt(m)
BY DEF Open, Live, Base, Standing

\* Manager.Begin keeps every turn in the one place it belongs to.
LEMMA BeginStanding ==
  ASSUME Merges = {}, Shape, Life, Standing, NEW m \in Managers, NEW t \in Turns,
         Begin(m, t)
  PROVE  Distinct(ledger)' /\ StandingAt(m)'
<1>1. /\ Open(m) /\ task[m] = NoTask /\ t \notin ended /\ active[m] = NoJournal
      /\ In(m, "draft") = {} /\ ended' = ended \ {t}
      /\ ledger' = Written(m, Begun(ledger, t, m))
      /\ active' = [active EXCEPT ![m] = [NoJournal EXCEPT !.id = t]]
      /\ UNCHANGED <<kept, task, status>>
  BY DEF Begin, New
<1>2. Live(m) /\ StandingAt(m)
  BY <1>1, OpenIsLive
<1>3. /\ ledger' = Begun(ledger, t, m) /\ ended' = ended /\ active[m].id = None
      /\ active'[m].id = t /\ t # None /\ task[m].kind = "none"
  BY <1>1, <1>2, LiveWrites, JournalConstants
     DEF Shape, ActiveOK, NoJournal, NoTask
<1>4. /\ \A k \in DOMAIN ledger' :
           \/ ledger'[k] = NewEntry(t, m)
           \/ \E i \in DOMAIN ledger : ledger[i].id # t /\ ledger'[k] = ledger[i]
      /\ \E k \in DOMAIN ledger' : ledger'[k] = NewEntry(t, m)
      /\ Distinct(ledger')
  BY <1>3, BegunIds DEF Shape, Standing
<1>5. NewEntry(t, m).id = t /\ ~NewEntry(t, m).committed
  BY DEF NewEntry
<1>6. \A i \in DOMAIN ledger : ledger[i].id \in ended
  <2>1. \A i \in DOMAIN ledger : ledger[i].id # None
    BY JournalConstants DEF Shape, ListOK, EntryOK, PendingTurn
  <2> QED BY <1>2, <1>3, <2>1 DEF StandingAt, Current
<1>7. Current(m)'
  <2>1. Stands(ledger', t)
    BY <1>4, <1>5 DEF Stands
  <2>2. \A k \in DOMAIN ledger' : ledger'[k].id \in ended \/ ledger'[k].id = t
    BY <1>4, <1>5, <1>6
  <2> QED BY <1>1, <1>3, <2>1, <2>2 DEF Current, Stands
<1>8. Shelved(m)'
  BY <1>1, <1>2, <1>3 DEF StandingAt, Shelved, In
<1>9. Doing(m)'
  BY <1>1, <1>3 DEF Doing, Restores
<1> QED BY <1>4, <1>7, <1>8, <1>9 DEF StandingAt, Distinct

\* Steps that change neither who is where nor what the ledger lists.
LEMMA SameStanding ==
  ASSUME Standing, NEW m \in Managers, Open(m), SameTurns(ledger', ledger),
         active'[m].id = active[m].id, UNCHANGED <<kept, task, status, ended>>
  PROVE  Distinct(ledger)' /\ StandingAt(m)'
<1>1. StandingAt(m) /\ Base(m) = ledger /\ Base(m)' = ledger'
  BY OpenIsLive DEF Base, Open
<1>2. /\ Distinct(ledger') /\ \A t : Stands(ledger, t) => Stands(ledger', t)
  BY SameTurnsStand DEF Standing
<1>3. Current(m)'
  BY <1>1, <1>2 DEF StandingAt, Current, SameTurns
<1>4. Shelved(m)'
  BY <1>1, <1>2 DEF StandingAt, Shelved, In
<1>5. Doing(m)'
  BY <1>1 DEF StandingAt, Doing, In, ScanStanding
<1> QED BY <1>2, <1>3, <1>4, <1>5 DEF StandingAt, Distinct

\* Recording a file changes no turn but its own.
LEMMA RecordedSame ==
  ASSUME NEW L, ListOK(L), NEW t, NEW p \in Paths, NEW r \in Record, r # NoRecord
  PROVE  SameTurns(RecordedIn(L, t, p, r), L)
<1> DEFINE g == RecordedIn(L, t, p, r)
<1>1. SamePlaces(g, L) /\ IsRecorded(g, L, t, p, r)
  BY RecordedInList
<1> QED BY <1>1 DEF SameTurns, SamePlaces, IsRecorded

\* What the three steps of a tool do, in the terms of the record they write.
Prepares(m, t, p) ==
  /\ Open(m) /\ active[m].id = t /\ t \notin ended /\ tools[m][p] = "idle"
  /\ tools'[m][p] = "prepared"
  /\ \A q \in Paths : q # p => tools'[m][q] = tools[m][q]
  /\ UNCHANGED <<files, status, fd, kept, task, dirty, ended, torn>>

PreparesAgain(m, p) ==
  active[m].recs[p] # NoRecord /\ UNCHANGED <<ledger, active>>

PreparesFirst(m, t, p, r) ==
  /\ active[m].recs[p] = NoRecord
  /\ r # NoRecord /\ r.before = files[p] /\ r.after = files[p]
  /\ ledger' = RecordedIn(ledger, t, p, r)
  /\ active'[m].id = t
  /\ active'[m].recs = [active[m].recs EXCEPT ![p] = r]

Reports(m, t, p) ==
  /\ Open(m) /\ active[m].id = t /\ tools[m][p] \in {"prepared", "written"}
  /\ tools'[m][p] = "idle" /\ active[m].recs[p] # NoRecord
  /\ \A q \in Paths : q # p => tools'[m][q] = tools[m][q]
  /\ UNCHANGED <<files, status, fd, kept, task, ended>>

Records(m, t, p, r) ==
  /\ active'[m].id = t
  /\ r # NoRecord /\ r.before = active[m].recs[p].before
  /\ r.after = files[p] /\ r.handle = active[m].recs[p].handle
  /\ active'[m].recs = [active[m].recs EXCEPT ![p] = r]
  /\ \A u \in Turns, q \in Paths : u # t \/ q # p => dirty'[u][q] = dirty[u][q]
  /\ dirty'[t][p] = IF dirty[t][p] = None /\ files[p] # active[m].recs[p].after
                      THEN active[m].recs[p].before.sha ELSE dirty[t][p]
  /\ ledger' = RecordedIn(ledger, t, p, r) \/ ledger' = ledger
  /\ torn' = IF ledger' # ledger THEN torn \ {<<t, p>>}
             ELSE IF r # active[m].recs[p] THEN torn \cup {<<t, p>>}
             ELSE torn

Misses(m, t, p) ==
  /\ UNCHANGED <<ledger, active, dirty>>
  /\ torn' = IF files[p] # active[m].recs[p].after THEN torn \cup {<<t, p>>} ELSE torn

\* The effect of the tool's Before, with its durable record on the state of its
\* process, field by field.
LEMMA BeforeDoes ==
  ASSUME Shape, Life, NEW m \in Managers, NEW t \in Turns, NEW p \in Paths,
         Before(m, t, p)
  PROVE  /\ Prepares(m, t, p)
         /\ PreparesAgain(m, p) \/ \E r \in Record : PreparesFirst(m, t, p, r)
<1>1. /\ Open(m) /\ active[m].id = t /\ t \notin ended /\ tools[m][p] = "idle"
      /\ tools'[m][p] = "prepared"
      /\ \A q \in Paths : q # p => tools'[m][q] = tools[m][q]
      /\ UNCHANGED <<files, status, fd, kept, task, dirty, ended, torn>>
  BY DEF Before, Active, Shape, ActiveOK
<1>2. Live(m) /\ JournalOK(active[m])
  BY <1>1 DEF Open, Live, Shape, ActiveOK
<1>3. CASE active[m].recs[p] # NoRecord
  <2>1. UNCHANGED <<ledger, active>>
    BY <1>3 DEF Before
  <2> QED BY <1>1, <1>3, <2>1 DEF Prepares, PreparesAgain
<1>4. CASE active[m].recs[p] = NoRecord
  <2> DEFINE r == [before |-> files[p], after |-> files[p],
                   handle |-> IF files[p].sha = Absent THEN None ELSE files[p].sha]
  <2>1. /\ ledger' = Written(m, RecordedIn(ledger, t, p, r))
        /\ active' = [active EXCEPT ![m] = WithRecord(active[m], p, r)]
    BY <1>4 DEF Before
  <2>2. files[p] \in Fingerprint /\ files[p].sha \in Contents \cup {Absent}
    BY DEF Shape, Plain, Fingerprint
  <2>3. r \in Record /\ r # NoRecord /\ r.before = files[p] /\ r.after = files[p]
    BY <2>2, NoRecordTypes
  <2> HIDE DEF r
  <2>4. ledger' = RecordedIn(ledger, t, p, r)
    BY <1>2, <2>1, LiveWrites
  <2>5. /\ active'[m].id = t
        /\ active'[m].recs = [active[m].recs EXCEPT ![p] = r]
    <3>1. active'[m] = WithRecord(active[m], p, r)
      BY <2>1 DEF Shape, ActiveOK
    <3> QED BY <1>1, <1>2, <2>3, <3>1, JournalWithRecord
  <2>6. PreparesFirst(m, t, p, r)
    BY <1>4, <2>3, <2>4, <2>5 DEF PreparesFirst
  <2> QED BY <1>1, <2>3, <2>6 DEF Prepares
<1> QED BY <1>3, <1>4

\* The effect of AfterFingerprint, which may not read the file or not append,
\* on the state of its process, field by field.
LEMMA AfterDoes ==
  ASSUME Shape, Life, NEW m \in Managers, NEW t \in Turns, NEW p \in Paths,
         After(m, t, p)
  PROVE  /\ Reports(m, t, p)
         /\ Misses(m, t, p) \/ \E r \in Record : Records(m, t, p, r)
<1> DEFINE r == [active[m].recs[p] EXCEPT !.after = files[p]]
<1>1. /\ active[m] \in Journal /\ JournalOK(active[m])
      /\ active[m].id = t /\ active[m].recs[p] # NoRecord
      /\ active[m].recs[p] \in Record /\ Open(m) /\ Live(m)
  BY DEF After, Active, Shape, ActiveOK, Journal, Open, Live
<1>2. /\ \/ /\ active' = [active EXCEPT ![m] = WithRecord(active[m], p, r)]
            /\ dirty' = Taken(dirty, t, p, active[m].recs[p])
            /\ ledger' = Written(m, RecordedIn(ledger, t, p, r)) \/ ledger' = ledger
         \/ UNCHANGED <<active, ledger, dirty>>
      /\ tools' = [tools EXCEPT ![m][p] = "idle"]
      /\ tools[m][p] \in {"prepared", "written"}
      /\ torn' = IF ledger' # ledger THEN torn \ {<<t, p>>}
                 ELSE IF r # active[m].recs[p] THEN torn \cup {<<t, p>>}
                 ELSE torn
      /\ UNCHANGED <<files, status, fd, kept, task, ended>>
  BY DEF After
<1>3. files[p] \in Fingerprint
  BY DEF Shape, Plain
<1>4. /\ r \in Record /\ r # NoRecord /\ r.before = active[m].recs[p].before
      /\ r.after = files[p] /\ r.handle = active[m].recs[p].handle
      /\ r = active[m].recs[p] <=> files[p] = active[m].recs[p].after
  BY <1>1, <1>3, NoRecordTypes DEF Record
<1> HIDE DEF r
<1>5. /\ \A q \in Paths : q # p => tools'[m][q] = tools[m][q]
      /\ tools'[m][p] = "idle"
  BY <1>2 DEF Shape, ActiveOK
<1>6. Reports(m, t, p)
  BY <1>1, <1>2, <1>5 DEF Reports
<1>7. CASE UNCHANGED <<active, ledger, dirty>>
  BY <1>2, <1>4, <1>6, <1>7 DEF Misses
<1>8. CASE /\ active' = [active EXCEPT ![m] = WithRecord(active[m], p, r)]
           /\ dirty' = Taken(dirty, t, p, active[m].recs[p])
           /\ ledger' = Written(m, RecordedIn(ledger, t, p, r)) \/ ledger' = ledger
  <2>1. active'[m].id = t /\ active'[m].recs = [active[m].recs EXCEPT ![p] = r]
    <3>1. active'[m] = WithRecord(active[m], p, r)
      BY <1>8 DEF Shape, ActiveOK
    <3> QED BY <1>1, <1>4, <3>1, JournalWithRecord
  <2>2. ledger' = RecordedIn(ledger, t, p, r) \/ ledger' = ledger
    BY <1>1, <1>8, LiveWrites
  <2>3. /\ \A u \in Turns, q \in Paths : u # t \/ q # p => dirty'[u][q] = dirty[u][q]
        /\ dirty'[t][p] = IF dirty[t][p] = None /\ files[p] # active[m].recs[p].after
                            THEN active[m].recs[p].before.sha ELSE dirty[t][p]
    <3>1. dirty \in [Turns -> [Paths -> Contents \cup {Absent, None}]]
      BY DEF Shape, Plain
    <3> QED BY <1>8, <3>1 DEF Taken
  <2>4. Records(m, t, p, r)
    BY <1>2, <1>4, <2>1, <2>2, <2>3 DEF Records
  <2> QED BY <1>4, <1>6, <2>4
<1> QED BY <1>2, <1>7, <1>8

\* The three steps of a tool keeps every turn in the one place it belongs to.
LEMMA ToolStanding ==
  ASSUME Shape, Life, Standing, NEW m \in Managers, NEW t \in Turns, NEW p \in Paths,
         \/ Before(m, t, p) \/ After(m, t, p)
         \/ \E c \in Contents \cup {Absent} : ToolWrite(m, t, p, c)
  PROVE  Distinct(ledger)' /\ StandingAt(m)'
<1>0. SameTurns(ledger, ledger) /\ ListOK(ledger)
  BY DEF SameTurns, Shape
<1>1. CASE Before(m, t, p)
  <2>1. Open(m) /\ active[m].id = t /\ UNCHANGED <<kept, task, status, ended>>
    BY <1>1, BeforeDoes DEF Prepares
  <2>2. CASE PreparesAgain(m, p)
    BY <1>0, <2>1, <2>2, SameStanding DEF PreparesAgain
  <2>3. ASSUME NEW r \in Record, PreparesFirst(m, t, p, r)
        PROVE  Distinct(ledger)' /\ StandingAt(m)'
    <3>1. SameTurns(ledger', ledger) /\ active'[m].id = t
      BY <1>0, <2>3, RecordedSame DEF PreparesFirst
    <3> QED BY <2>1, <3>1, SameStanding
  <2> QED BY <1>1, <2>2, <2>3, BeforeDoes
<1>2. CASE After(m, t, p)
  <2>1. Open(m) /\ active[m].id = t /\ UNCHANGED <<kept, task, status, ended>>
    BY <1>2, AfterDoes DEF Reports
  <2>2. CASE Misses(m, t, p)
    BY <1>0, <2>1, <2>2, SameStanding DEF Misses
  <2>3. ASSUME NEW r \in Record, Records(m, t, p, r)
        PROVE  Distinct(ledger)' /\ StandingAt(m)'
    <3>1. SameTurns(ledger', ledger) /\ active'[m].id = t
      BY <1>0, <2>3, RecordedSame DEF Records
    <3> QED BY <2>1, <3>1, SameStanding
  <2> QED BY <1>2, <2>2, <2>3, AfterDoes
<1>3. CASE \E c \in Contents \cup {Absent} : ToolWrite(m, t, p, c)
  <2>1. Open(m) /\ UNCHANGED <<ledger, active, kept, task, status, ended>>
    BY <1>3 DEF ToolWrite, memory, Active
  <2> QED BY <1>0, <2>1, SameStanding
<1> QED BY <1>1, <1>2, <1>3

\* No pending turn has the id of a manager's absent journal.
LEMMA LedgerIds ==
  ASSUME Shape
  PROVE  \A i \in DOMAIN ledger : ledger[i].id \in Turns /\ ledger[i].id # None
BY JournalConstants DEF Shape, ListOK, EntryOK, PendingTurn

\* The effect of Manager.Commit on the state of its process, field by field.
LEMMA CommitDoes ==
  ASSUME Shape, Life, Standing, NEW m \in Managers, NEW t \in Turns, Commit(m, t)
  PROVE  /\ Open(m) /\ active[m].id = t /\ t # None /\ tools[m] = Idle
         /\ ledger' = Committed(ledger, t) /\ active'[m] = NoJournal
         /\ Keep(m, "committed", t, Finished(active[m]))
         /\ Finished(active[m]).id = t /\ Finished(active[m]) # NoJournal
         /\ ended' = ended \cup {t}
         /\ dirty' = [dirty EXCEPT ![t] = [p \in Paths |-> None]]
         /\ UNCHANGED <<files, status, fd, tools, task, torn>>
<1>1. /\ Open(m) /\ active[m].id = t /\ t # None /\ tools[m] = Idle
      /\ UNCHANGED <<files, status, fd, tools, task, torn>>
      /\ ended' = ended \cup {t}
      /\ dirty' = [dirty EXCEPT ![t] = [p \in Paths |-> None]]
  BY JournalConstants DEF Commit, Active, Quiet, Accept, End
<1>2. Live(m) /\ StandingAt(m)
  BY <1>1, OpenIsLive
<1>3. t \notin In(m, "committed")
  BY <1>1, <1>2 DEF StandingAt, Current, Shelved, Places
<1>4. /\ ledger' = Written(m, Committed(ledger, t))
      /\ Keep(m, "committed", t, Finished(active[m]))
      /\ active' = [active EXCEPT ![m] = NoJournal]
  BY <1>3 DEF Commit
<1>5. Finished(active[m]).id = t
  BY <1>1, FinishedJournal DEF Shape, ActiveOK
<1>6. Finished(active[m]) # NoJournal
  BY <1>1, <1>5 DEF NoJournal
<1> QED BY <1>1, <1>2, <1>4, <1>5, <1>6, LiveWrites DEF Shape, ActiveOK

\* Manager.Commit keeps every turn in the one place it belongs to.
LEMMA CommitStanding ==
  ASSUME Shape, Life, Standing, NEW m \in Managers, NEW t \in Turns, Commit(m, t)
  PROVE  Distinct(ledger)' /\ StandingAt(m)'
<1>1. /\ Open(m) /\ active[m].id = t /\ t # None
      /\ ledger' = Committed(ledger, t) /\ active'[m] = NoJournal
      /\ Keep(m, "committed", t, Finished(active[m]))
      /\ ended' = ended \cup {t} /\ UNCHANGED <<status, task>>
  BY CommitDoes
<1>2. /\ StandingAt(m) /\ Base(m) = ledger /\ Base(m)' = ledger' /\ Distinct(ledger)
      /\ t \notin ended
  BY <1>1, OpenIsLive DEF Base, Open, Standing, StandingAt, Current
<1>3. SamePlaces(ledger', ledger) /\ IsCommitted(ledger', ledger, t)
  BY <1>1, CommittedList DEF Shape
<1>4. /\ Distinct(ledger')
      /\ \A u : u # t /\ Stands(ledger, u) => Stands(ledger', u)
      /\ \A i \in DOMAIN ledger' : ledger'[i].id \in ended'
  BY <1>1, <1>2, <1>3
     DEF SamePlaces, IsCommitted, Distinct, Stands, StandingAt, Current
<1>5. \A v \in Places, u \in Turns :
        u \in In(m, v)' => (v = "committed" /\ u = t) \/ u \in In(m, v)
  BY <1>1, KeepIn DEF Shape, Places
<1>6. \A u \in Turns : u \in In(m, "draft")' <=> u \in In(m, "draft")
  BY <1>1, KeepIn DEF Shape, Places
<1>7. Current(m)'
  BY <1>1, <1>4 DEF Current, NoJournal
<1>8. Shelved(m)'
  BY <1>1, <1>2, <1>4, <1>5 DEF StandingAt, Shelved, Places
<1>9. Doing(m)'
  <2>1. \A v \in Places, u \in Turns : u \in In(m, v) => u \in In(m, v)'
    <3>1. Finished(active[m]) # NoJournal
      BY CommitDoes
    <3> QED BY <1>1, <3>1, KeepIn DEF Shape, Places
  <2>2. task[m].kind \in Restores => task[m].turn \in Turns
    BY DEF Shape, TasksOK, TaskOK
  <2>3. task[m].kind = "revert" => task[m].place \in Places
    BY DEF Shape, TasksOK, TaskOK, Places
  <2> QED BY <1>1, <1>2, <1>5, <2>1, <2>2, <2>3
          DEF StandingAt, Doing, ScanStanding, Restores, Places
<1> QED BY <1>4, <1>7, <1>8, <1>9 DEF StandingAt, Distinct

\* The effect of Manager.Suspend on the state of its process, field by field.
LEMMA SuspendDoes ==
  ASSUME Shape, Life, Standing, NEW m \in Managers, NEW t \in Turns, Suspend(m, t)
  PROVE  /\ Open(m) /\ active[m].id = t /\ t # None /\ tools[m] = Idle
         /\ t \notin ended /\ active'[m] = NoJournal /\ active[m] # NoJournal
         /\ ended' = ended \cup {t}
         /\ UNCHANGED <<files, status, fd, tools, task, torn>>
         /\ \/ /\ ledger' = Drafted(ledger, t) /\ Keep(m, "draft", t, active[m])
               /\ dirty' = dirty
            \/ /\ ledger' = Settle(ledger, t) /\ kept' = kept
               /\ dirty' = Undone(t) /\ ~HasChanges(active[m].recs)
<1>1. /\ Open(m) /\ active[m].id = t /\ t # None /\ tools[m] = Idle /\ t \notin ended
      /\ UNCHANGED <<files, status, fd, tools, task, torn>>
      /\ ended' = ended \cup {t}
      /\ active' = [active EXCEPT ![m] = NoJournal]
  BY JournalConstants DEF Suspend, Active, Quiet, End
<1>2. Live(m)
  BY <1>1, OpenIsLive
<1>3. \/ /\ ledger' = Written(m, Drafted(ledger, t)) /\ Keep(m, "draft", t, active[m])
         /\ dirty' = dirty
      \/ /\ ledger' = Written(m, Settle(ledger, t)) /\ kept' = kept
         /\ dirty' = Undone(t) /\ ~HasChanges(active[m].recs)
  BY DEF Suspend
<1>4. active[m] # NoJournal
  BY <1>1 DEF NoJournal
<1> QED BY <1>1, <1>2, <1>3, <1>4, LiveWrites DEF Shape, ActiveOK

\* Manager.Suspend keeps every turn in the one place it belongs to.
LEMMA SuspendStanding ==
  ASSUME Shape, Life, Standing, NEW m \in Managers, NEW t \in Turns, Suspend(m, t)
  PROVE  Distinct(ledger)' /\ StandingAt(m)'
<1>1. /\ Open(m) /\ active[m].id = t /\ t # None /\ t \notin ended
      /\ active'[m] = NoJournal /\ active[m] # NoJournal
      /\ ended' = ended \cup {t} /\ UNCHANGED <<status, task>>
      /\ \/ ledger' = Drafted(ledger, t) /\ Keep(m, "draft", t, active[m])
         \/ ledger' = Settle(ledger, t) /\ kept' = kept
  BY SuspendDoes
<1>2. /\ StandingAt(m) /\ Base(m) = ledger /\ Base(m)' = ledger' /\ Distinct(ledger)
      /\ ListOK(ledger) /\ Stands(ledger, t)
  BY <1>1, OpenIsLive DEF Base, Open, Standing, Shape, StandingAt, Current
<1>3. /\ Distinct(ledger')
      /\ \A u : u # t /\ Stands(ledger, u) => Stands(ledger', u)
      /\ \A i \in DOMAIN ledger' : \E k \in DOMAIN ledger : ledger'[i].id = ledger[k].id
      /\ kept' = kept \/ Stands(ledger', t)
  <2>1. CASE ledger' = Drafted(ledger, t)
    <3>1. SamePlaces(ledger', ledger) /\ IsDrafted(ledger', ledger, t)
      BY <1>2, <2>1, DraftedList
    <3> QED BY <1>2, <3>1 DEF SamePlaces, IsDrafted, Distinct, Stands
  <2>2. CASE ledger' = Settle(ledger, t) /\ kept' = kept
    <3>1. /\ \A k \in DOMAIN ledger' :
               \E i \in DOMAIN ledger : ledger[i].id # t /\ ledger'[k] = ledger[i]
          /\ \A i \in DOMAIN ledger : ledger[i].id # t =>
               \E k \in DOMAIN ledger' : ledger'[k] = ledger[i]
          /\ Distinct(ledger')
      BY <1>2, <2>2, SettleList
    <3>2. \A u : u # t /\ Stands(ledger, u) => Stands(ledger', u)
      BY <3>1 DEF Stands
    <3> QED BY <2>2, <3>1, <3>2
  <2> QED BY <1>1, <2>1, <2>2
<1>4. \A i \in DOMAIN ledger' : ledger'[i].id \in ended'
  BY <1>1, <1>2, <1>3 DEF StandingAt, Current
<1>5. \A v \in Places, u \in Turns :
        /\ u \in In(m, v)' => (v = "draft" /\ u = t /\ kept' # kept) \/ u \in In(m, v)
        /\ u \in In(m, v) => u \in In(m, v)'
  <2>1. CASE kept' = kept
    BY <2>1 DEF In
  <2>2. CASE kept' # kept
    BY <1>1, <2>2, KeepIn DEF Shape, Places
  <2> QED BY <2>1, <2>2
<1>6. Current(m)'
  BY <1>1, <1>4 DEF Current, NoJournal
<1>7. Shelved(m)'
  BY <1>1, <1>2, <1>3, <1>5 DEF StandingAt, Shelved, Places
<1>8. Doing(m)'
  <2>1. task[m].kind \in Restores => task[m].turn \in Turns
    BY DEF Shape, TasksOK, TaskOK
  <2>2. task[m].kind = "revert" => task[m].place \in Places
    BY DEF Shape, TasksOK, TaskOK, Places
  <2> QED BY <1>1, <1>2, <1>5, <2>1, <2>2
          DEF StandingAt, Doing, ScanStanding, Restores, Places
<1> QED BY <1>3, <1>6, <1>7, <1>8 DEF StandingAt, Distinct

\* The effect of Manager.KeepDraft on the state of its process, field by field.
LEMMA KeepDraftDoes ==
  ASSUME Shape, Life, NEW m \in Managers, NEW t \in Turns, KeepDraft(m, t)
  PROVE  /\ Open(m) /\ t \in In(m, "draft") /\ ~Restoring(m, t)
         /\ ledger' = Committed(ledger, t)
         /\ ended' = ended \cup {t}
         /\ dirty' = [dirty EXCEPT ![t] = [p \in Paths |-> None]]
         /\ UNCHANGED <<files, status, fd, active, tools, task, torn>>
         /\ \A v \in Places, u \in Turns :
              kept'[m][v][u] = IF v = "draft" /\ u = t THEN NoJournal
                               ELSE IF v = "committed" /\ u = t THEN kept[m]["draft"][t]
                               ELSE kept[m][v][u]
<1>1. /\ Open(m) /\ t \in In(m, "draft") /\ ~Restoring(m, t)
      /\ ledger' = Written(m, Committed(ledger, t))
      /\ ended' = ended \cup {t}
      /\ dirty' = [dirty EXCEPT ![t] = [p \in Paths |-> None]]
      /\ UNCHANGED <<files, status, fd, active, tools, task, torn>>
      /\ kept' = [kept EXCEPT ![m]["draft"][t] = NoJournal,
                              ![m]["committed"][t] = kept[m]["draft"][t]]
  BY DEF KeepDraft, Accept, End
<1>2. Live(m)
  BY <1>1 DEF Open, Live
<1>3. \A v \in Places, u \in Turns :
        kept'[m][v][u] = IF v = "draft" /\ u = t THEN NoJournal
                         ELSE IF v = "committed" /\ u = t THEN kept[m]["draft"][t]
                         ELSE kept[m][v][u]
  <2> DEFINE K == [kept EXCEPT ![m]["draft"][t] = NoJournal]
             j == kept[m]["draft"][t]
  <2>1. kept' = [K EXCEPT ![m]["committed"][t] = j]
    BY <1>1
  <2> HIDE DEF j
  <2>2. /\ K \in [Managers -> [Places -> [Turns -> Journal]]]
        /\ \A w \in Places, u \in Turns :
             K[m][w][u] = IF w = "draft" /\ u = t THEN NoJournal ELSE kept[m][w][u]
    BY EmptyShape DEF JournalOK, Shape, KeptOK, Places
  <2> HIDE DEF K
  <2>3. \A w \in Places, u \in Turns :
          kept'[m][w][u] = IF w = "committed" /\ u = t THEN j ELSE K[m][w][u]
    BY <2>1, <2>2 DEF Places
  <2> QED BY <2>2, <2>3 DEF j
<1> QED BY <1>1, <1>2, <1>3, LiveWrites

\* Manager.KeepDraft keeps every turn in the one place it belongs to.
LEMMA KeepDraftStanding ==
  ASSUME Shape, Life, Standing, NEW m \in Managers, NEW t \in Turns, KeepDraft(m, t)
  PROVE  Distinct(ledger)' /\ StandingAt(m)'
<1>1. /\ Open(m) /\ t \in In(m, "draft") /\ ~Restoring(m, t)
      /\ ledger' = Committed(ledger, t)
      /\ ended' = ended \cup {t} /\ UNCHANGED <<status, active, task>>
      /\ \A v \in Places, u \in Turns :
           kept'[m][v][u] = IF v = "draft" /\ u = t THEN NoJournal
                            ELSE IF v = "committed" /\ u = t THEN kept[m]["draft"][t]
                            ELSE kept[m][v][u]
  BY KeepDraftDoes
<1>2. /\ StandingAt(m) /\ Base(m) = ledger /\ Base(m)' = ledger' /\ Distinct(ledger)
      /\ t \in ended /\ ended' = ended
  <2>1. StandingAt(m) /\ Base(m) = ledger /\ Base(m)' = ledger' /\ Distinct(ledger)
    BY <1>1, OpenIsLive DEF Base, Open, Standing
  <2>2. t \in ended
    BY <1>1, <2>1 DEF StandingAt, Shelved, Places
  <2> QED BY <1>1, <2>1, <2>2
<1>3. SamePlaces(ledger', ledger) /\ IsCommitted(ledger', ledger, t)
  BY <1>1, CommittedList DEF Shape
<1>4. /\ Distinct(ledger')
      /\ \A u : u # t /\ Stands(ledger, u) => Stands(ledger', u)
      /\ \A i \in DOMAIN ledger : i \in DOMAIN ledger' /\ ledger'[i].id = ledger[i].id
      /\ DOMAIN ledger' = DOMAIN ledger
  BY <1>2, <1>3 DEF SamePlaces, IsCommitted, Distinct, Stands
<1>5. \A v \in Places, u \in Turns :
        /\ u \in In(m, v)' <=> kept'[m][v][u] # NoJournal
        /\ u \in In(m, v) <=> kept[m][v][u] # NoJournal
  BY DEF In
<1>6. /\ \A v \in Places, u \in Turns : u # t => (u \in In(m, v)' <=> u \in In(m, v))
      /\ t \notin In(m, "draft")'
      /\ t \in In(m, "unresolved")' => t \in In(m, "unresolved")
  BY <1>1, <1>5 DEF Places
<1>7. Current(m)'
  BY <1>1, <1>2, <1>4 DEF StandingAt, Current
<1>8. Shelved(m)'
  <2>1. t \notin In(m, "unresolved")'
    BY <1>1, <1>2, <1>6 DEF StandingAt, Shelved, Places
  <2>2. \A w, v \in Places, u \in Turns : u \in In(m, w)' /\ u \in In(m, v)' => w = v
    BY <1>2, <1>6, <2>1 DEF StandingAt, Shelved, Places
  <2> QED BY <1>2, <1>4, <1>6, <2>2 DEF StandingAt, Shelved, Places
<1>9. Doing(m)'
  <2>1. task[m].kind \in Restores => task[m].turn \in Turns
    BY DEF Shape, TasksOK, TaskOK
  <2>2. task[m].kind = "revert" => task[m].place \in Places
    BY DEF Shape, TasksOK, TaskOK, Places
  <2>3. task[m].kind \in {"rollback", "revert"} => task[m].turn # t
    BY <1>1, <1>2 DEF StandingAt, Doing, Restoring
  <2> QED BY <1>1, <1>2, <1>6, <2>1, <2>2, <2>3
          DEF StandingAt, Doing, ScanStanding, Restores, Places
<1> QED BY <1>4, <1>7, <1>8, <1>9 DEF StandingAt, Distinct

\* The effect of Manager.ResumeDraft on the state of its process, field by
\* field.
LEMMA ResumeDraftDoes ==
  ASSUME Merges = {}, Shape, Life, Standing, NEW m \in Managers, NEW s \in Turns,
         NEW t \in Turns, ResumeDraft(m, s, t)
  PROVE  /\ Open(m) /\ active[m] = NoJournal /\ s \in In(m, "draft") /\ ~Restoring(m, s)
         /\ task[m].place \in {"none", "draft"}
         /\ t = s \/ t \notin ended
         /\ active'[m].id = t /\ active'[m].recs = kept[m]["draft"][s].recs
         /\ Keep(m, "draft", s, NoJournal)
         /\ ended' = ended \ {t}
         /\ \A u \in Turns : u # s /\ u # t => dirty'[u] = dirty[u]
         /\ dirty'[t] = dirty[s]
         /\ s # t => \A p \in Paths : dirty'[s][p] = None
         /\ torn' = {<<IF e[1] = s THEN t ELSE e[1], e[2]>> : e \in torn}
         /\ UNCHANGED <<files, status, fd, tools, task>>
         /\ t = s => ledger' = ledger
         /\ t # s => SamePlaces(ledger', ledger) /\ IsResumed(ledger', ledger, s, t)
         /\ \A i \in DOMAIN ledger : ledger[i].id \in ended
<1>1. /\ Open(m) /\ active[m] = NoJournal /\ s \in In(m, "draft") /\ ~Restoring(m, s)
      /\ task[m].place \in {"none", "draft"}
      /\ t = s \/ t \notin ended
      /\ active' = [active EXCEPT ![m] = [kept[m]["draft"][s] EXCEPT !.id = t]]
      /\ Keep(m, "draft", s, NoJournal)
      /\ ended' = ended \ {t}
      /\ dirty' = [u \in Turns |-> IF u = t THEN dirty[s]
                                   ELSE IF u = s THEN [p \in Paths |-> None]
                                   ELSE dirty[u]]
      /\ torn' = {<<IF e[1] = s THEN t ELSE e[1], e[2]>> : e \in torn}
      /\ UNCHANGED <<files, status, fd, tools, task>>
      /\ ledger' = IF t = s THEN ledger ELSE Written(m, Resumed(ledger, s, t, m))
  BY DEF ResumeDraft, New
<1>2. Live(m) /\ StandingAt(m) /\ Base(m) = ledger
  BY <1>1, OpenIsLive
<1>3. active'[m].id = t /\ active'[m].recs = kept[m]["draft"][s].recs
  <2> DEFINE j == kept[m]["draft"][s]
  <2>1. j \in Journal
    BY DEF Shape, KeptOK, Places
  <2>2. active'[m] = [j EXCEPT !.id = t]
    BY <1>1 DEF Shape, ActiveOK
  <2> HIDE DEF j
  <2> QED BY <2>1, <2>2 DEF Journal, j
<1>4. \A i \in DOMAIN ledger : ledger[i].id \in ended
  BY <1>1, <1>2, LedgerIds DEF StandingAt, Current, NoJournal
<1>5. ASSUME t # s
      PROVE  SamePlaces(ledger', ledger) /\ IsResumed(ledger', ledger, s, t)
  <2>1. ledger' = Resumed(ledger, s, t, m)
    BY <1>1, <1>2, <1>5, LiveWrites
  <2>2. Pending(ledger, s)
    BY <1>1, <1>2 DEF StandingAt, Shelved, Stands, Pending
  <2>3. ~Pending(ledger, t)
    BY <1>1, <1>4, <1>5 DEF Pending
  <2> QED BY <2>1, <2>2, <2>3, ResumedList DEF Shape
<1>6. /\ \A u \in Turns : u # s /\ u # t => dirty'[u] = dirty[u]
      /\ dirty'[t] = dirty[s]
      /\ s # t => \A p \in Paths : dirty'[s][p] = None
  BY <1>1
<1> QED BY <1>1, <1>3, <1>4, <1>5, <1>6

\* Manager.ResumeDraft keeps every turn in the one place it belongs to.
LEMMA ResumeDraftStanding ==
  ASSUME Merges = {}, Shape, Life, Standing, NEW m \in Managers, NEW s \in Turns,
         NEW t \in Turns, ResumeDraft(m, s, t)
  PROVE  Distinct(ledger)' /\ StandingAt(m)'
<1>1. /\ Open(m) /\ active[m] = NoJournal /\ s \in In(m, "draft") /\ ~Restoring(m, s)
      /\ task[m].place \in {"none", "draft"}
      /\ t = s \/ t \notin ended
      /\ active'[m].id = t
      /\ Keep(m, "draft", s, NoJournal)
      /\ ended' = ended \ {t} /\ UNCHANGED <<status, task>>
      /\ t = s => ledger' = ledger
      /\ t # s => SamePlaces(ledger', ledger) /\ IsResumed(ledger', ledger, s, t)
      /\ \A i \in DOMAIN ledger : ledger[i].id \in ended
  BY ResumeDraftDoes
<1>2. /\ StandingAt(m) /\ Base(m) = ledger /\ Base(m)' = ledger' /\ Distinct(ledger)
  BY <1>1, OpenIsLive DEF Base, Open, Standing
<1>3. s \in ended /\ Stands(ledger, s)
  BY <1>1, <1>2 DEF StandingAt, Shelved, Places
<1>4. /\ Distinct(ledger') /\ Stands(ledger', t)
      /\ \A u : u # s /\ Stands(ledger, u) => Stands(ledger', u)
      /\ \A i \in DOMAIN ledger' : ledger'[i].id = t \/ ledger'[i].id \in ended'
  <2>1. CASE t = s
    BY <1>1, <1>2, <1>3, <2>1 DEF Distinct, Stands
  <2>2. CASE t # s
    <3>1. /\ DOMAIN ledger' = DOMAIN ledger
          /\ \A i \in DOMAIN ledger :
               /\ ledger[i].id # s => ledger'[i] = ledger[i]
               /\ ledger[i].id = s => /\ ledger'[i].id = t
                                      /\ ledger'[i].committed = ledger[i].committed
      BY <1>1, <2>2 DEF SamePlaces, IsResumed
    <3>2. Distinct(ledger')
      BY <1>1, <1>2, <2>2, <3>1 DEF Distinct
    <3>3. Stands(ledger', t)
      BY <1>3, <3>1 DEF Stands
    <3>4. \A u : u # s /\ Stands(ledger, u) => Stands(ledger', u)
      BY <3>1 DEF Stands
    <3>5. \A i \in DOMAIN ledger' : ledger'[i].id = t \/ ledger'[i].id \in ended'
      BY <1>1, <3>1
    <3> QED BY <3>2, <3>3, <3>4, <3>5
  <2> QED BY <2>1, <2>2
<1>5. \A v \in Places, u \in Turns :
        u \in In(m, v)' <=> u \in In(m, v) /\ ~(v = "draft" /\ u = s)
  BY <1>1, KeepIn DEF Shape, Places
<1>6. \A v \in Places, u \in Turns : u \in In(m, v)' => u \in ended'
  BY <1>1, <1>2, <1>5 DEF StandingAt, Shelved, Places
<1>7. Current(m)'
  BY <1>1, <1>4 DEF Current
<1>8. Shelved(m)'
  BY <1>2, <1>4, <1>5, <1>6 DEF StandingAt, Shelved, Places
<1>9. Doing(m)'
  <2>1. task[m].kind \in Restores => task[m].turn \in Turns
    BY DEF Shape, TasksOK, TaskOK
  <2>2. task[m].kind = "revert" => task[m].place = "draft"
    BY <1>1 DEF Shape, TasksOK, TaskOK
  <2>3. task[m].kind \in {"none", "rollback", "revert"}
    BY <1>1 DEF Life, LifeAt, Open
  <2>4. task[m].kind \in {"rollback", "revert"} => task[m].turn # s
    BY <1>1, <1>2 DEF StandingAt, Doing, Restoring
  <2>5. task[m].kind \in Restores => task[m].turn \in ended'
    BY <1>1, <1>2, <2>3, <2>4 DEF StandingAt, Doing, Restores
  <2>6. task[m].kind = "revert" => task[m].turn \in In(m, "draft")'
    BY <1>2, <1>5, <2>1, <2>2, <2>4 DEF StandingAt, Doing, Places, Restores
  <2>7. task[m].kind = "rollback" =>
          task[m].turn \notin In(m, "draft")' /\ task[m].turn \notin In(m, "committed")'
    BY <1>2, <1>5, <2>1 DEF StandingAt, Doing, Places, Restores
  <2> QED BY <1>1, <2>2, <2>3, <2>5, <2>6, <2>7 DEF Doing
<1> QED BY <1>4, <1>7, <1>8, <1>9 DEF StandingAt, Distinct

\* The journal that a rollback takes to undo, and where it was.
LEMMA RollbackDoes ==
  ASSUME Shape, Life, NEW m \in Managers, NEW t \in Turns, Rollback(m, t)
  PROVE  /\ Open(m) /\ task[m] = NoTask /\ tools[m] = Idle
         /\ ended' = ended \cup {t}
         /\ UNCHANGED <<files, ledger, status, fd, kept, tools, dirty, torn>>
         /\ active'[m] = NoJournal
         /\ \E j : /\ JournalOK(j) /\ j.id = t
                   /\ task'[m] = RestoreOf("rollback", "unresolved", j)
                   /\ \/ active[m].id = t /\ t \notin ended /\ j = active[m]
                      \/ /\ active[m] = NoJournal /\ t \in In(m, "unresolved")
                         /\ j = kept[m]["unresolved"][t]
<1>1. /\ Open(m) /\ task[m] = NoTask /\ tools[m] = Idle
      /\ ended' = ended \cup {t}
      /\ UNCHANGED <<files, ledger, status, fd, kept, tools, dirty, torn>>
  BY DEF Rollback, Quiet, End
<1>2. CASE /\ active[m].id = t /\ t \notin ended
           /\ StartRestore(m, "rollback", "unresolved", active[m])
           /\ active' = [active EXCEPT ![m] = NoJournal]
  <2>1. /\ active'[m] = NoJournal /\ JournalOK(active[m])
        /\ task'[m] = RestoreOf("rollback", "unresolved", active[m])
    BY <1>2 DEF StartRestore, RestoreOf, Shape, ActiveOK, TasksOK
  <2> QED BY <1>1, <1>2, <2>1
<1>3. CASE /\ active[m] = NoJournal /\ t \in In(m, "unresolved")
           /\ StartRestore(m, "rollback", "unresolved", kept[m]["unresolved"][t])
           /\ UNCHANGED active
  <2> DEFINE j == kept[m]["unresolved"][t]
  <2>1. /\ active'[m] = NoJournal /\ JournalOK(j) /\ j.id = t
        /\ task'[m] = RestoreOf("rollback", "unresolved", j)
    BY <1>3 DEF StartRestore, RestoreOf, Shape, KeptOK, TasksOK, In, Places
  <2> QED BY <1>1, <1>3, <2>1
<1> QED BY <1>2, <1>3 DEF Rollback

\* The start of a Rollback keeps every turn in the one place it belongs to.
LEMMA RollbackStanding ==
  ASSUME Shape, Life, Standing, NEW m \in Managers, NEW t \in Turns, Rollback(m, t)
  PROVE  Distinct(ledger)' /\ StandingAt(m)'
<1>1. /\ Open(m) /\ ended' = ended \cup {t}
      /\ UNCHANGED <<ledger, status, kept>> /\ active'[m] = NoJournal
  BY RollbackDoes
<1>2. PICK j : /\ JournalOK(j) /\ j.id = t
               /\ task'[m] = RestoreOf("rollback", "unresolved", j)
               /\ \/ active[m].id = t /\ t \notin ended /\ j = active[m]
                  \/ /\ active[m] = NoJournal /\ t \in In(m, "unresolved")
                     /\ j = kept[m]["unresolved"][t]
  BY RollbackDoes
<1>3. task'[m].kind = "rollback" /\ task'[m].turn = t
  <2>1. IsRestoreOf(task'[m], "rollback", "unresolved", j)
    BY <1>2, RestoreOfTask DEF Places
  <2> QED BY <1>2, <2>1 DEF IsRestoreOf
<1>4. /\ StandingAt(m) /\ Base(m) = ledger /\ Base(m)' = ledger' /\ Distinct(ledger)
  BY <1>1, OpenIsLive DEF Base, Open, Standing
<1>5. Distinct(ledger)'
  BY <1>1, <1>4 DEF Distinct
<1>6. \A v \in Places, u \in Turns : u \in In(m, v)' <=> u \in In(m, v)
  BY <1>1 DEF In
<1>7. Current(m)'
  BY <1>1, <1>2, <1>4, LedgerIds DEF StandingAt, Current, NoJournal
<1>8. Shelved(m)'
  BY <1>1, <1>4, <1>6 DEF StandingAt, Shelved, Places
<1>9. t \notin In(m, "draft") /\ t \notin In(m, "committed")
  BY <1>2, <1>4 DEF StandingAt, Shelved, Places
<1>10. Doing(m)'
  BY <1>1, <1>3, <1>6, <1>9 DEF Doing, Places
<1> QED BY <1>5, <1>7, <1>8, <1>10 DEF StandingAt

\* The effect of the start of a Revert on the state of its process, field by
\* field.
LEMMA RevertDoes ==
  ASSUME Shape, Life, NEW m \in Managers, NEW t \in Turns, Revert(m, t)
  PROVE  /\ Open(m) /\ task[m] = NoTask
         /\ UNCHANGED <<files, ledger, status, fd, active, kept, tools, dirty,
                        ended, torn>>
         /\ \E w \in {"committed", "draft"} :
              /\ t \in In(m, w) /\ JournalOK(kept[m][w][t]) /\ kept[m][w][t].id = t
              /\ task'[m] = RestoreOf("revert", w, kept[m][w][t])
<1>1. /\ Open(m) /\ task[m] = NoTask
      /\ UNCHANGED <<files, ledger, status, fd, active, kept, tools, dirty,
                     ended, torn>>
  BY DEF Revert, memory
<1>2. PICK w \in {"committed", "draft"} :
        t \in In(m, w) /\ StartRestore(m, "revert", w, kept[m][w][t])
  BY DEF Revert
<1>3. /\ JournalOK(kept[m][w][t]) /\ kept[m][w][t].id = t
      /\ task'[m] = RestoreOf("revert", w, kept[m][w][t])
  BY <1>2 DEF StartRestore, RestoreOf, Shape, KeptOK, TasksOK, In, Places
<1> QED BY <1>1, <1>2, <1>3

\* The start of a Revert keeps every turn in the one place it belongs to.
LEMMA RevertStanding ==
  ASSUME Shape, Life, Standing, NEW m \in Managers, NEW t \in Turns, Revert(m, t)
  PROVE  Distinct(ledger)' /\ StandingAt(m)'
<1>1. Open(m) /\ UNCHANGED <<ledger, status, active, kept, ended>>
  BY RevertDoes
<1>2. PICK w \in {"committed", "draft"} :
        /\ t \in In(m, w) /\ JournalOK(kept[m][w][t]) /\ kept[m][w][t].id = t
        /\ task'[m] = RestoreOf("revert", w, kept[m][w][t])
  BY RevertDoes
<1>3. task'[m].kind = "revert" /\ task'[m].turn = t /\ task'[m].place = w
  <2> DEFINE j == kept[m][w][t]
  <2>1. JournalOK(j) /\ j.id = t /\ task'[m] = RestoreOf("revert", w, j)
    BY <1>2
  <2> HIDE DEF j
  <2>2. IsRestoreOf(task'[m], "revert", w, j)
    BY <2>1, RestoreOfTask DEF Places
  <2> QED BY <2>1, <2>2 DEF IsRestoreOf
<1>4. /\ StandingAt(m) /\ Base(m) = ledger /\ Base(m)' = ledger' /\ Distinct(ledger)
  BY <1>1, OpenIsLive DEF Base, Open, Standing
<1>5. Distinct(ledger)'
  BY <1>1, <1>4 DEF Distinct
<1>6. \A v \in Places, u \in Turns : u \in In(m, v)' <=> u \in In(m, v)
  BY <1>1 DEF In
<1>7. Current(m)' /\ Shelved(m)'
  BY <1>1, <1>4, <1>6 DEF StandingAt, Current, Shelved, Places
<1>8. t \in ended
  BY <1>2, <1>4 DEF StandingAt, Shelved, Places
<1>9. Doing(m)'
  BY <1>1, <1>2, <1>3, <1>6, <1>8 DEF Doing, Places
<1> QED BY <1>5, <1>7, <1>9 DEF StandingAt

\* The effect of restore() on one path on the state of its process, field by
\* field.
LEMMA RestoreRecordDoes ==
  ASSUME Shape, NEW m \in Managers, RestoreRecord(m)
  PROVE  LET k == task[m]
             p == Head(k.order)
             r == k.recs[p]
         IN  /\ k.kind \in Restores
             /\ UNCHANGED <<ledger, status, fd, active, kept, tools, ended, torn>>
             /\ \/ UNCHANGED <<files, dirty, task>>
                \/ /\ Restored(k, task'[m])
                   /\ files' = [files EXCEPT ![p] = Put(r.before.sha)]
                   /\ dirty' = [Clean(p) EXCEPT ![k.turn][p] =
                                  IF @ = r.before.sha THEN None ELSE @]
                   /\ task'[m].conflict = k.conflict
                   /\ task'[m].recs = [k.recs EXCEPT ![p] = Forgotten(k.kind, r)]
                   /\ checked[m] # None
                \/ /\ Restored(k, task'[m]) /\ UNCHANGED <<files, dirty>>
                   /\ task'[m].conflict = TRUE /\ task'[m].recs = k.recs
<1> DEFINE k == task[m]
           p == Head(k.order)
           r == k.recs[p]
           done == [k EXCEPT !.order = Tail(@), !.recs[p] = Forgotten(k.kind, r)]
           left == [k EXCEPT !.order = Tail(@), !.conflict = TRUE]
<1>1. TaskOK(k) /\ k.kind \in Restores /\ k.order # <<>> /\ k \in Task
  BY RestoreRecordIs DEF Shape, TasksOK, Restores, TaskOK
<1>2. /\ Restored(k, done) /\ Restored(k, left)
      /\ done.conflict = k.conflict /\ left.conflict = TRUE
      /\ done.recs = [k.recs EXCEPT ![p] = Forgotten(k.kind, r)]
      /\ left.recs = k.recs
  <2> HIDE DEF k
  <2> QED BY <1>1, RestoreStepTask
<1>3. UNCHANGED <<ledger, status, fd, active, kept, tools, ended, torn>>
  BY RestoreRecordIs
<1>4. \/ UNCHANGED <<files, dirty, task>>
      \/ /\ files' = [files EXCEPT ![p] = Put(r.before.sha)]
         /\ dirty' = [Clean(p) EXCEPT ![k.turn][p] = IF @ = r.before.sha THEN None ELSE @]
         /\ task' = [task EXCEPT ![m].order = Tail(@), ![m].recs[p] = Forgotten(k.kind, r)]
         /\ checked[m] # None
      \/ /\ task' = [task EXCEPT ![m].order = Tail(@), ![m].conflict = TRUE]
         /\ UNCHANGED <<files, dirty>>
  BY RestoreRecordIs
<1>5. \/ UNCHANGED <<files, dirty, task>>
      \/ /\ files' = [files EXCEPT ![p] = Put(r.before.sha)]
         /\ dirty' = [Clean(p) EXCEPT ![k.turn][p] = IF @ = r.before.sha THEN None ELSE @]
         /\ task'[m] = done /\ checked[m] # None
      \/ /\ task'[m] = left
         /\ UNCHANGED <<files, dirty>>
  BY <1>4 DEF Shape, TasksOK, Task
<1> HIDE DEF done, left, r, p, k
<1> QED BY <1>1, <1>2, <1>3, <1>5 DEF k, p, r

\* Restore(), whether it succeeds on the path or not, keeps every turn in the
\* one place it belongs to.
LEMMA RestoreStanding ==
  ASSUME Shape, Life, Standing, NEW m \in Managers,
         RestoreRecord(m) \/ RestoreFails(m)
  PROVE  Distinct(ledger)' /\ StandingAt(m)'
<1>1. /\ UNCHANGED <<ledger, status, active, kept, ended>>
      /\ task[m].kind \in Restores
      /\ task'[m].kind = task[m].kind /\ task'[m].turn = task[m].turn
      /\ task'[m].place = task[m].place
      /\ task'[m].todo = task[m].todo /\ task'[m].keep = task[m].keep
  <2>1. CASE RestoreRecord(m)
    BY <2>1, RestoreRecordDoes DEF Restored
  <2>2. CASE RestoreFails(m)
    BY <2>2, RestoreFailsIs
  <2> QED BY <2>1, <2>2
<1>2. Live(m)
  <2>1. task[m].kind # "none"
    BY TaskStepStays DEF TaskStep
  <2> QED BY <2>1 DEF Life, LifeAt, Vacant, NoTask
<1>3. StandingAt(m) /\ Distinct(ledger) /\ Base(m)' = Base(m)
  BY <1>1, <1>2 DEF Standing, Base, Open
<1>4. \A v \in Places, u \in Turns : u \in In(m, v)' <=> u \in In(m, v)
  BY <1>1 DEF In
<1>5. In(m, task[m].place)' = In(m, task[m].place)
  BY <1>1 DEF In
<1>6. Current(m)' /\ Shelved(m)' /\ Distinct(ledger)'
  BY <1>1, <1>3, <1>4 DEF StandingAt, Current, Shelved, Places, Distinct
<1>7. ScanStanding(task[m]) => ScanStanding(task[m])'
  BY <1>1 DEF ScanStanding
<1>8. \A v \in Places : In(m, v)' = In(m, v)
  BY <1>1 DEF In
<1>9. Doing(m)'
  BY <1>1, <1>3, <1>5, <1>7, <1>8 DEF StandingAt, Doing, Places
<1> QED BY <1>6, <1>9 DEF StandingAt

\* The effect of the end of a Rollback, settled or in conflict on the state of
\* its process, field by field.
LEMMA RollbackEndsDoes ==
  ASSUME Shape, Life, NEW m \in Managers, RollbackEnds(m)
  PROVE  LET t == task[m].turn
         IN  /\ Open(m) /\ TaskOK(task[m]) /\ task[m].kind = "rollback" /\ t \in Turns
             /\ task[m].order = <<>> /\ task'[m] = NoTask
             /\ Remaining(m).id = t /\ Remaining(m).recs = task[m].recs
             /\ UNCHANGED <<files, status, fd, active, tools, dirty, ended, torn>>
             /\ \/ Keep(m, "unresolved", t, Remaining(m)) /\ UNCHANGED ledger
                \/ /\ Keep(m, "unresolved", t, NoJournal) /\ ~task[m].conflict
                   /\ ledger' = Settle(ledger, t)
<1> DEFINE t == task[m].turn
<1>1. /\ TaskOK(task[m]) /\ task[m].kind = "rollback" /\ t \in Turns
      /\ task[m].order = <<>> /\ task' = [task EXCEPT ![m] = NoTask]
      /\ UNCHANGED <<files, status, fd, active, tools, dirty, ended, torn>>
  BY DEF RollbackEnds, Done, Shape, TasksOK, TaskOK, Restores
<1>2. \/ Keep(m, "unresolved", t, Remaining(m)) /\ UNCHANGED ledger
      \/ /\ Keep(m, "unresolved", t, NoJournal) /\ ~task[m].conflict
         /\ ledger' = Written(m, Settle(ledger, t))
  BY DEF RollbackEnds
<1>3. Open(m) /\ Live(m)
  BY OpenStepStays DEF OpenStep, Open, Live
<1>4. Remaining(m).id = t /\ Remaining(m).recs = task[m].recs
  BY <1>1, RemainingJournal
<1>5. task'[m] = NoTask
  BY <1>1 DEF Shape, TasksOK
<1> QED BY <1>1, <1>2, <1>3, <1>4, <1>5, LiveWrites

\* The effect of the end of a Revert, settled or in conflict on the state of
\* its process, field by field.
LEMMA RevertEndsDoes ==
  ASSUME Shape, Life, NEW m \in Managers, RevertEnds(m)
  PROVE  LET t == task[m].turn
             w == task[m].place
         IN  /\ Open(m) /\ TaskOK(task[m]) /\ task[m].kind = "revert" /\ t \in Turns
             /\ w \in {"committed", "draft"}
             /\ task[m].order = <<>> /\ task'[m] = NoTask
             /\ Remaining(m).id = t /\ Remaining(m).recs = task[m].recs
             /\ UNCHANGED <<files, status, fd, active, tools, dirty, ended, torn>>
             /\ \/ Keep(m, w, t, Remaining(m)) /\ UNCHANGED ledger
                \/ /\ Keep(m, w, t, NoJournal) /\ ~task[m].conflict
                   /\ ledger' = ledger \/ ledger' = Settle(ledger, t)
<1> DEFINE t == task[m].turn  w == task[m].place
<1>1. /\ TaskOK(task[m]) /\ task[m].kind = "revert" /\ t \in Turns
      /\ w \in {"committed", "draft"}
      /\ task[m].order = <<>> /\ task' = [task EXCEPT ![m] = NoTask]
      /\ UNCHANGED <<files, status, fd, active, tools, dirty, ended, torn>>
  BY DEF RevertEnds, Done, Shape, TasksOK, TaskOK, Restores
<1>2. \/ Keep(m, w, t, Remaining(m)) /\ UNCHANGED ledger
      \/ /\ Keep(m, w, t, NoJournal) /\ ~task[m].conflict
         /\ ledger' = ledger \/ ledger' = Written(m, Settle(ledger, t))
  BY DEF RevertEnds
<1>3. Open(m) /\ Live(m)
  BY OpenStepStays DEF OpenStep, Open, Live
<1>4. Remaining(m).id = t /\ Remaining(m).recs = task[m].recs
  BY <1>1, RemainingJournal
<1>5. task'[m] = NoTask
  BY <1>1 DEF Shape, TasksOK
<1> QED BY <1>1, <1>2, <1>3, <1>4, <1>5, LiveWrites

\* Settling a turn leaves the others as they stand.
LEMMA SettleStands ==
  ASSUME NEW L, ListOK(L), Distinct(L), NEW t
  PROVE  /\ Distinct(Settle(L, t))
         /\ \A u : u # t /\ Stands(L, u) => Stands(Settle(L, t), u)
         /\ \A k \in DOMAIN Settle(L, t) :
              \E i \in DOMAIN L : L[i].id # t /\ Settle(L, t)[k] = L[i]
<1> DEFINE q == Settle(L, t)
<1>1. /\ \A k \in DOMAIN q : \E i \in DOMAIN L : L[i].id # t /\ q[k] = L[i]
      /\ \A i \in DOMAIN L : L[i].id # t => \E k \in DOMAIN q : q[k] = L[i]
      /\ Distinct(q)
  BY SettleList
<1> HIDE DEF q
<1>2. \A u : u # t /\ Stands(L, u) => Stands(q, u)
  BY <1>1 DEF Stands
<1> QED BY <1>1, <1>2 DEF q

\* The end of a Rollback or a Revert keeps every turn in the one place it
\* belongs to.
LEMMA EndsStanding ==
  ASSUME Shape, Life, Standing, NEW m \in Managers,
         RollbackEnds(m) \/ RevertEnds(m)
  PROVE  Distinct(ledger)' /\ StandingAt(m)'
<1> DEFINE t == task[m].turn
<1>1. /\ Open(m) /\ t \in Turns /\ task'[m] = NoTask
      /\ task[m].kind \in {"rollback", "revert"}
      /\ UNCHANGED <<status, active, ended>>
      /\ ledger' = ledger \/ ledger' = Settle(ledger, t)
  BY RollbackEndsDoes, RevertEndsDoes
<1>2. \E w \in Places : \E j :
        /\ Keep(m, w, t, j)
        /\ j = NoJournal \/ ledger' = ledger
        /\ task[m].kind = "rollback" => w = "unresolved"
        /\ task[m].kind = "revert" => w = task[m].place
  BY RollbackEndsDoes, RevertEndsDoes DEF Places
<1>20. PICK w \in Places : \E j :
        /\ Keep(m, w, t, j)
        /\ j = NoJournal \/ ledger' = ledger
        /\ task[m].kind = "rollback" => w = "unresolved"
        /\ task[m].kind = "revert" => w = task[m].place
  BY <1>2
<1>3. PICK j :
        /\ Keep(m, w, t, j)
        /\ j = NoJournal \/ ledger' = ledger
        /\ task[m].kind = "rollback" => w = "unresolved"
        /\ task[m].kind = "revert" => w = task[m].place
  BY <1>20
<1>4. /\ StandingAt(m) /\ Base(m) = ledger /\ Base(m)' = ledger' /\ Distinct(ledger)
      /\ ListOK(ledger)
  BY <1>1, OpenIsLive DEF Base, Open, Standing, Shape
<1>5. /\ Distinct(ledger')
      /\ \A u : u # t /\ Stands(ledger, u) => Stands(ledger', u)
      /\ \A k \in DOMAIN ledger' : \E i \in DOMAIN ledger : ledger'[k].id = ledger[i].id
      /\ ledger' = ledger => \A u : Stands(ledger, u) => Stands(ledger', u)
  <2>1. CASE ledger' = ledger
    BY <1>4, <2>1
  <2>2. CASE ledger' # ledger
    <3>1. ledger' = Settle(ledger, t)
      BY <1>1, <2>2
    <3> QED BY <1>4, <2>2, <3>1, SettleStands
  <2> QED BY <2>1, <2>2
<1>6. \A v \in Places, u \in Turns :
        u \in In(m, v)' <=> IF v = w /\ u = t THEN j # NoJournal ELSE u \in In(m, v)
  BY <1>1, <1>3, KeepIn DEF Shape
<1>7. /\ t \in ended
      /\ \A v \in Places : v # w => t \notin In(m, v)
  <2>1. t \in ended
    BY <1>1, <1>4 DEF StandingAt, Doing, Restores
  <2>2. CASE task[m].kind = "rollback"
    BY <1>3, <1>4, <2>1, <2>2 DEF StandingAt, Doing, Places
  <2>3. CASE task[m].kind = "revert"
    BY <1>1, <1>3, <1>4, <2>1, <2>3 DEF StandingAt, Doing, Shelved
  <2> QED BY <1>1, <2>1, <2>2, <2>3
<1>8. Current(m)'
  BY <1>1, <1>4, <1>5, <1>7 DEF StandingAt, Current
<1>9. Shelved(m)'
  <2>1. /\ \A v \in Places, u \in Turns : u \in In(m, v)' => u \in ended'
        /\ \A v, x \in Places, u \in Turns : u \in In(m, v)' /\ u \in In(m, x)' => v = x
    BY <1>1, <1>4, <1>6, <1>7 DEF StandingAt, Shelved
  <2>2. ASSUME NEW u \in Turns, u \in In(m, "draft")'
        PROVE  Stands(ledger', u)
    <3>1. CASE u # t
      BY <1>4, <1>5, <1>6, <2>2, <3>1 DEF StandingAt, Shelved, Places
    <3>2. CASE u = t
      <4>1. w = "draft" /\ j # NoJournal
        BY <1>6, <1>7, <2>2, <3>2 DEF Places
      <4>2. task[m].kind = "revert" /\ t \in In(m, "draft") /\ ledger' = ledger
        BY <1>1, <1>3, <1>4, <4>1 DEF StandingAt, Doing
      <4> QED BY <1>4, <1>5, <3>2, <4>2 DEF StandingAt, Shelved
    <3> QED BY <3>1, <3>2
  <2> QED BY <1>4, <2>1, <2>2 DEF Shelved
<1>10. Doing(m)'
  BY <1>1 DEF Doing, NoTask, Restores
<1> QED BY <1>5, <1>8, <1>9, <1>10 DEF StandingAt, Distinct

\* The effect of Open, which reads the ledger on the state of its process,
\* field by field.
LEMMA OpenManagerDoes ==
  ASSUME ~Shared, Shape, Life, NEW m \in Managers, OpenManager(m)
  PROVE  /\ status'[m] = "recovering" /\ ~Open(m)' /\ Live(m)'
         /\ \A n \in Managers : ~Live(n)
         /\ active'[m] = NoJournal /\ kept'[m] = NothingKept
         /\ task'[m].kind = "scan" /\ task'[m].todo = ledger /\ task'[m].keep = <<>>
         /\ ended' = ended \cup {ledger[i].id : i \in DOMAIN ledger}
         /\ UNCHANGED <<files, ledger, active, kept, tools, dirty, torn>>
<1>1. /\ status[m] = "unborn" /\ \A n \in Managers : ~Live(n)
      /\ status' = [status EXCEPT ![m] = "recovering"]
      /\ task' = [task EXCEPT ![m] = [NoTask EXCEPT !.kind = "scan", !.todo = ledger]]
      /\ ended' = ended \cup {ledger[i].id : i \in DOMAIN ledger}
      /\ UNCHANGED <<files, ledger, active, kept, tools, dirty, torn>>
  BY DEF OpenManager, memory, Live
<1>2. status'[m] = "recovering" /\ ~Open(m)' /\ Live(m)'
  BY <1>1 DEF Shape, Plain, Open, Live
<1>3. NoTask \in Task /\ NoTask.keep = <<>>
  BY EmptyShape DEF TaskOK, NoTask
<1>4. /\ task'[m].kind = "scan" /\ task'[m].todo = ledger
      /\ task'[m].keep = NoTask.keep
  BY <1>1, <1>3 DEF Task, Shape, TasksOK
<1>5. active[m] = NoJournal /\ kept[m] = NothingKept
  BY <1>1 DEF Life, LifeAt, Vacant
<1> QED BY <1>1, <1>2, <1>3, <1>4, <1>5

\* Open, which reads the ledger, keeps every turn in the one place it belongs
\* to.
LEMMA OpenManagerStanding ==
  ASSUME ~Shared, Shape, Life, Standing, NEW m \in Managers, OpenManager(m)
  PROVE  Distinct(ledger)' /\ StandingAt(m)'
<1>1. /\ ~Open(m)' /\ active'[m] = NoJournal /\ kept'[m] = NothingKept
      /\ task'[m].kind = "scan" /\ task'[m].todo = ledger /\ task'[m].keep = <<>>
      /\ ended' = ended \cup {ledger[i].id : i \in DOMAIN ledger}
      /\ UNCHANGED ledger
  BY OpenManagerDoes
<1>2. Distinct(ledger) /\ Distinct(<<>>)
  BY DEF Standing, Distinct
<1>3. \A i \in DOMAIN ledger : ledger[i].id \in ended'
  BY <1>1
<1>4. Current(m)'
  BY <1>1, <1>3 DEF Current, NoJournal
<1>5. \A v \in Places : In(m, v)' = {}
  BY <1>1 DEF In, NothingKept
<1>6. Shelved(m)'
  BY <1>5 DEF Shelved, Places
<1>7. ScanStanding(task[m])'
  BY <1>1, <1>2, <1>3 DEF ScanStanding
<1>8. Doing(m)'
  BY <1>1, <1>7 DEF Doing, Restores
<1> QED BY <1>1, <1>2, <1>4, <1>6, <1>8 DEF StandingAt, Distinct

\* What Recover does with the first turn it has not looked at.
Scans(m, keep) ==
  /\ task'[m].kind = "scan" /\ task'[m].todo = Tail(task[m].todo)
  /\ task'[m].keep = keep

StartsUndo(m, e) ==
  /\ task'[m].kind = "recover" /\ task'[m].turn = e.id
  /\ task'[m].order = Reversed(e.order) /\ task'[m].recs = e.recs
  /\ task'[m].todo = task[m].todo /\ task'[m].keep = task[m].keep

\* The effect of Recover's decision on one pending turn on the state of its
\* process, field by field.
LEMMA RecoverTurnDoes ==
  ASSUME Shape, Life, NEW m \in Managers, RecoverTurn(m)
  PROVE  LET k == task[m]
             e == Head(k.todo)
         IN  /\ status[m] = "recovering" /\ active[m] = NoJournal
             /\ TaskOK(k) /\ k.kind = "scan" /\ k.todo # <<>>
             /\ ListOK(k.todo) /\ ListOK(k.keep) /\ EntryOK(e)
             /\ UNCHANGED <<files, ledger, status, fd, active, tools, ended, torn>>
             /\ \/ /\ Discard(e) /\ Scans(m, k.keep)
                   /\ dirty' = Undone(e.id) /\ kept' = kept
                \/ /\ Keeps(e) /\ Scans(m, Append(k.keep, e))
                   /\ UNCHANGED <<kept, dirty>>
                \/ /\ Adopts(e) /\ Scans(m, Append(k.keep, e))
                   /\ Keep(m, "draft", e.id, [id |-> e.id, order |-> e.order,
                                              recs |-> e.recs])
                   /\ UNCHANGED dirty
                \/ /\ Undoes(e) /\ StartsUndo(m, e) /\ UNCHANGED <<kept, dirty>>
<1> DEFINE k == task[m]
           e == Head(k.todo)
<1>1. /\ TaskOK(k) /\ k.kind = "scan" /\ k.todo # <<>> /\ k \in Task
      /\ ListOK(k.todo) /\ ListOK(k.keep)
      /\ UNCHANGED <<files, ledger, status, fd, active, tools, ended, torn>>
  BY DEF RecoverTurn, Shape, TasksOK, TaskOK
<1>2. EntryOK(e)
  BY <1>1, ListTail
<1>3. status[m] = "recovering" /\ active[m] = NoJournal
  <2>1. Live(m)
    BY <1>1 DEF Life, LifeAt, Vacant, NoTask
  <2> QED BY <1>1, <2>1 DEF Life, LifeAt, Live
<1>4. task \in [Managers -> Task]
  BY DEF Shape, TasksOK
<1>5. ASSUME NEW keep, task' = Scanned(m, keep)
      PROVE  Scans(m, keep)
  BY <1>1, <1>4, <1>5 DEF Scanned, Scans, Task
<1>6. ASSUME task' = [task EXCEPT ![m].kind = "recover", ![m].turn = e.id,
                                  ![m].order = Reversed(e.order), ![m].recs = e.recs]
      PROVE  StartsUndo(m, e)
  <2> HIDE DEF e
  <2> QED BY <1>4, <1>6 DEF StartsUndo, Task
<1>7. \/ /\ Discard(e) /\ task' = Scanned(m, k.keep)
         /\ dirty' = Undone(e.id) /\ kept' = kept
      \/ /\ Keeps(e) /\ task' = Scanned(m, Append(k.keep, e))
         /\ UNCHANGED <<kept, dirty>>
      \/ /\ Adopts(e) /\ task' = Scanned(m, Append(k.keep, e))
         /\ Keep(m, "draft", e.id, [id |-> e.id, order |-> e.order, recs |-> e.recs])
         /\ UNCHANGED dirty
      \/ /\ Undoes(e)
         /\ task' = [task EXCEPT ![m].kind = "recover", ![m].turn = e.id,
                                 ![m].order = Reversed(e.order), ![m].recs = e.recs]
         /\ UNCHANGED <<kept, dirty>>
  BY DEF RecoverTurn
<1> QED BY <1>1, <1>2, <1>3, <1>5, <1>6, <1>7

\* Recover's decision on one pending turn keeps every turn in the one place it
\* belongs to.
LEMMA RecoverTurnStanding ==
  ASSUME Shape, Life, Standing, NEW m \in Managers, RecoverTurn(m)
  PROVE  Distinct(ledger)' /\ StandingAt(m)'
<1> DEFINE k == task[m]
           e == Head(k.todo)
           j == [id |-> e.id, order |-> e.order, recs |-> e.recs]
<1>1. /\ status[m] = "recovering" /\ active[m] = NoJournal /\ k.kind = "scan"
      /\ k.todo # <<>> /\ ListOK(k.todo) /\ ListOK(k.keep) /\ EntryOK(e)
      /\ UNCHANGED <<ledger, status, active, ended>>
      /\ \/ Discard(e) /\ Scans(m, k.keep) /\ kept' = kept
         \/ Keeps(e) /\ Scans(m, Append(k.keep, e)) /\ kept' = kept
         \/ Adopts(e) /\ Scans(m, Append(k.keep, e)) /\ Keep(m, "draft", e.id, j)
         \/ Undoes(e) /\ StartsUndo(m, e) /\ kept' = kept
  BY RecoverTurnDoes
<1>2. /\ StandingAt(m) /\ Distinct(ledger) /\ Base(m) = k.keep /\ Base(m)' = task'[m].keep
      /\ e.id \in Turns
  BY <1>1 DEF Standing, Live, Base, Open, EntryOK, PendingTurn
<1>3. ScanStanding(k)
  BY <1>1, <1>2 DEF StandingAt, Doing
<1>4. Distinct(ledger)' /\ Current(m)'
  BY <1>1, <1>2 DEF Distinct, StandingAt, Current
<1>5. /\ e.id \in ended /\ \A i \in DOMAIN k.keep : k.keep[i].id # e.id
      /\ Distinct(Tail(k.todo))
      /\ \A i \in DOMAIN Tail(k.todo) :
           \E l \in DOMAIN k.todo : Tail(k.todo)[i] = k.todo[l] /\ k.todo[l].id # e.id
  <2>1. /\ Distinct(Tail(k.todo)) /\ \E i \in DOMAIN k.todo : e = k.todo[i]
        /\ \A i \in DOMAIN Tail(k.todo) :
             \E l \in DOMAIN k.todo : Tail(k.todo)[i] = k.todo[l] /\ k.todo[l].id # e.id
    BY <1>1, <1>3, TailIds DEF ScanStanding
  <2>2. e.id \in ended /\ \A i \in DOMAIN k.keep : k.keep[i].id # e.id
    BY <1>3, <2>1 DEF ScanStanding
  <2> QED BY <2>1, <2>2
<1> DEFINE more == Append(k.keep, e)
<1>6. /\ Distinct(more) /\ \E i \in DOMAIN more : more[i] = e
      /\ \A i \in DOMAIN more : more[i] = e \/ \E l \in DOMAIN k.keep : more[i] = k.keep[l]
      /\ \A l \in DOMAIN k.keep : \E i \in DOMAIN more : more[i] = k.keep[l]
  BY <1>1, <1>3, <1>5, AppendIds DEF ScanStanding
<1> HIDE DEF more
<1>7. /\ \A u : Stands(k.keep, u) => Stands(more, u)
      /\ ~e.committed => Stands(more, e.id)
  BY <1>6 DEF Stands
<1>8. /\ \A v \in Places, u \in Turns : u \in In(m, v) => u \in In(m, v)'
      /\ \A v \in Places, u \in Turns :
           u \in In(m, v)' => u \in In(m, v) \/ (v = "draft" /\ u = e.id /\ Adopts(e))
  <2>1. CASE kept' = kept
    BY <2>1 DEF In
  <2>2. CASE Adopts(e) /\ Keep(m, "draft", e.id, j)
    <3>1. j # NoJournal
      BY <1>2, JournalConstants DEF NoJournal
    <3> HIDE DEF j, e
    <3> QED BY <1>2, <2>2, <3>1, KeepIn DEF Shape, Places
  <2> QED BY <1>1, <2>1, <2>2
<1>9. \A v \in {"committed", "unresolved"} : In(m, v) = {}
  BY <1>1 DEF Life, LifeAt
<1>10. /\ task'[m].keep = k.keep \/ task'[m].keep = more
       /\ Adopts(e) => task'[m].keep = more
  BY <1>1 DEF Scans, StartsUndo, more, Adopts, Keeps, Undoes
<1>11. Shelved(m)'
  <2>1. ASSUME NEW u \in Turns, u \in In(m, "draft")'
        PROVE  Stands(task'[m].keep, u)
    <3>1. CASE u \in In(m, "draft")
      BY <1>2, <1>7, <1>10, <3>1 DEF StandingAt, Shelved
    <3>2. CASE u = e.id /\ Adopts(e)
      BY <1>7, <1>10, <3>2 DEF Adopts, Discard
    <3> QED BY <1>8, <2>1, <3>1, <3>2 DEF Places
  <2>2. \A v \in Places, u \in Turns : u \in In(m, v)' => u \in ended'
    BY <1>1, <1>2, <1>5, <1>8 DEF StandingAt, Shelved
  <2>3. \A w, v \in Places, u \in Turns : u \in In(m, w)' /\ u \in In(m, v)' => w = v
    BY <1>8, <1>9 DEF Places
  <2> QED BY <1>2, <2>1, <2>2, <2>3 DEF Shelved
<1>12. ScanStanding(task[m])' /\ task'[m].kind \in {"scan", "recover"}
       /\ (task'[m].kind = "recover" => task'[m].turn \in ended')
  <2>1. CASE Scans(m, k.keep) \/ Scans(m, Append(k.keep, e))
    <3>1. /\ task'[m].kind = "scan" /\ task'[m].todo = Tail(k.todo)
          /\ task'[m].keep = k.keep \/ task'[m].keep = more
      BY <2>1 DEF Scans, more
    <3> HIDE DEF k, e
    <3>2. /\ Distinct(task'[m].todo) /\ Distinct(task'[m].keep)
          /\ \A i \in DOMAIN task'[m].todo : task'[m].todo[i].id \in ended'
          /\ \A i \in DOMAIN task'[m].keep : task'[m].keep[i].id \in ended'
      BY <1>1, <1>3, <1>5, <1>6, <3>1 DEF ScanStanding
    <3>3. \A i \in DOMAIN task'[m].todo, l \in DOMAIN task'[m].keep :
            task'[m].todo[i].id # task'[m].keep[l].id
      BY <1>3, <1>5, <1>6, <3>1 DEF ScanStanding
    <3> QED BY <3>1, <3>2, <3>3 DEF ScanStanding
  <2>2. CASE Undoes(e) /\ StartsUndo(m, e)
    <3>1. /\ task'[m].kind = "recover" /\ task'[m].turn = e.id
          /\ task'[m].todo = k.todo /\ task'[m].keep = k.keep
      BY <2>2 DEF StartsUndo
    <3>2. ~e.committed /\ ~e.draft
      BY <2>2 DEF Undoes, Discard
    <3>3. ScanStanding(task'[m])
      BY <1>1, <1>3, <3>1, <3>2 DEF ScanStanding
    <3> QED BY <1>1, <1>5, <3>1, <3>3 DEF ScanStanding
  <2> QED BY <1>1, <2>1, <2>2
<1>13. Doing(m)'
  BY <1>12 DEF Doing, Restores
<1> QED BY <1>4, <1>11, <1>13 DEF StandingAt

\* The effect of Recover's undoing of one turn, complete or in conflict on the
\* state of its process, field by field.
LEMMA RecoverTurnEndsDoes ==
  ASSUME Shape, Life, NEW m \in Managers, RecoverTurnEnds(m)
  PROVE  LET k == task[m]
         IN  /\ status[m] = "recovering" /\ active[m] = NoJournal
             /\ TaskOK(k) /\ k.kind = "recover" /\ k.todo # <<>> /\ k.order = <<>>
             /\ ListOK(k.todo) /\ ListOK(k.keep)
             /\ EntryOK(KeptEntry(k)) /\ KeptEntry(k).id = Head(k.todo).id
             /\ Head(k.todo).id = k.turn /\ k.turn \in Turns
             /\ Scans(m, IF k.conflict THEN Append(k.keep, KeptEntry(k)) ELSE k.keep)
             /\ UNCHANGED <<files, ledger, status, fd, active, kept, tools, dirty,
                            ended, torn>>
<1> DEFINE k == task[m]
           keep == IF k.conflict THEN Append(k.keep, KeptEntry(k)) ELSE k.keep
<1>1. /\ TaskOK(k) /\ k.kind = "recover" /\ k.todo # <<>> /\ k.order = <<>>
      /\ ListOK(k.todo) /\ ListOK(k.keep) /\ k.turn = Head(k.todo).id /\ k.turn \in Turns
      /\ UNCHANGED <<files, ledger, status, fd, active, kept, tools, dirty, ended, torn>>
  BY DEF RecoverTurnEnds, Done, memory, Shape, TasksOK, TaskOK, Restores
<1>2. EntryOK(KeptEntry(k)) /\ KeptEntry(k).id = k.turn
  BY <1>1, KeptEntryOK
<1>3. ListOK(keep) /\ ListOK(Tail(k.todo))
  BY <1>1, <1>2, ListAppend, ListTail
<1>4. task' = [task EXCEPT ![m] = ScanOf(Tail(k.todo), keep)]
  BY DEF RecoverTurnEnds, ScanOf, KeptEntry
<1> HIDE DEF keep
<1>5. Scans(m, keep)
  <2>1. task'[m] = ScanOf(Tail(k.todo), keep)
    BY <1>4 DEF Shape, TasksOK
  <2> QED BY <1>3, <2>1, ScanOfTask DEF Scans
<1>6. Live(m)
  BY <1>1 DEF Life, LifeAt, Vacant, NoTask
<1>7. status[m] = "recovering" /\ active[m] = NoJournal
  BY <1>1, <1>6 DEF Life, LifeAt, Live
<1> QED BY <1>1, <1>2, <1>5, <1>7 DEF keep

\* Recover's undoing of one turn, complete or in conflict, keeps every turn in
\* the one place it belongs to.
LEMMA RecoverTurnEndsStanding ==
  ASSUME Shape, Life, Standing, NEW m \in Managers, RecoverTurnEnds(m)
  PROVE  Distinct(ledger)' /\ StandingAt(m)'
<1> DEFINE k == task[m]
           e == KeptEntry(k)
<1>1. /\ status[m] = "recovering" /\ active[m] = NoJournal /\ k.kind = "recover"
      /\ k.todo # <<>> /\ ListOK(k.todo) /\ ListOK(k.keep) /\ EntryOK(e)
      /\ e.id = Head(k.todo).id
      /\ UNCHANGED <<ledger, status, active, kept, ended>>
      /\ Scans(m, k.keep) \/ Scans(m, Append(k.keep, e))
  BY RecoverTurnEndsDoes
<1>2. /\ StandingAt(m) /\ Distinct(ledger) /\ Base(m) = k.keep /\ Base(m)' = task'[m].keep
  BY <1>1 DEF Standing, Live, Base, Open
<1>3. ScanStanding(k)
  BY <1>1, <1>2 DEF StandingAt, Doing
<1>4. Distinct(ledger)' /\ Current(m)'
  BY <1>1, <1>2 DEF Distinct, StandingAt, Current
<1>5. /\ Distinct(Tail(k.todo)) /\ \E i \in DOMAIN k.todo : Head(k.todo) = k.todo[i]
      /\ \A i \in DOMAIN Tail(k.todo) :
           \E l \in DOMAIN k.todo : Tail(k.todo)[i] = k.todo[l] /\ k.todo[l].id # e.id
  <2>1. Distinct(k.todo)
    BY <1>3 DEF ScanStanding
  <2> DEFINE L == k.todo
  <2>2. ListOK(L) /\ L # <<>> /\ Distinct(L) /\ e.id = Head(L).id
    BY <1>1, <2>1
  <2> HIDE DEF L, e
  <2>3. /\ Distinct(Tail(L)) /\ \E i \in DOMAIN L : Head(L) = L[i]
        /\ \A i \in DOMAIN Tail(L) :
             \E l \in DOMAIN L : Tail(L)[i] = L[l] /\ L[l].id # e.id
    BY <2>2, TailIds
  <2> QED BY <2>3 DEF L
<1>6. e.id \in ended /\ \A i \in DOMAIN k.keep : k.keep[i].id # e.id
  BY <1>1, <1>3, <1>5 DEF ScanStanding
<1>15. Distinct(k.keep)
  BY <1>3 DEF ScanStanding
<1> HIDE DEF e, k
<1> DEFINE more == Append(k.keep, e)
<1>7. /\ Distinct(more)
      /\ \A i \in DOMAIN more : more[i] = e \/ \E l \in DOMAIN k.keep : more[i] = k.keep[l]
      /\ \A l \in DOMAIN k.keep : \E i \in DOMAIN more : more[i] = k.keep[l]
  BY <1>1, <1>6, <1>15, AppendIds
<1>8. /\ task'[m].kind = "scan" /\ task'[m].todo = Tail(k.todo)
      /\ task'[m].keep = k.keep \/ task'[m].keep = more
  BY <1>1 DEF Scans, k
<1> HIDE DEF more
<1>9. \A u : Stands(k.keep, u) => Stands(more, u)
  BY <1>7 DEF Stands
<1>10. Shelved(m)'
  BY <1>1, <1>2, <1>8, <1>9 DEF StandingAt, Shelved, In, k
<1>11. /\ Distinct(task'[m].todo) /\ Distinct(task'[m].keep)
       /\ \A i \in DOMAIN task'[m].todo : task'[m].todo[i].id \in ended'
       /\ \A i \in DOMAIN task'[m].keep : task'[m].keep[i].id \in ended'
  BY <1>1, <1>3, <1>5, <1>6, <1>7, <1>8 DEF ScanStanding
<1>12. \A i \in DOMAIN task'[m].todo, l \in DOMAIN task'[m].keep :
         task'[m].todo[i].id # task'[m].keep[l].id
  BY <1>3, <1>5, <1>7, <1>8 DEF ScanStanding
<1>13. ScanStanding(task[m])'
  BY <1>8, <1>11, <1>12 DEF ScanStanding
<1>14. Doing(m)'
  BY <1>8, <1>13 DEF Doing, Restores
<1> QED BY <1>4, <1>10, <1>14 DEF StandingAt

\* The effect of the compaction that ends Recover on the state of its process,
\* field by field.
LEMMA RecoverEndsDoes ==
  ASSUME Shape, Life, NEW m \in Managers, RecoverEnds(m)
  PROVE  /\ status[m] = "recovering" /\ status'[m] = "open" /\ active[m] = NoJournal
         /\ task[m].kind = "scan" /\ task[m].todo = <<>>
         /\ ledger' = task[m].keep /\ task'[m] = NoTask
         /\ UNCHANGED <<files, active, kept, tools, dirty, ended, torn>>
<1>1. /\ task[m].kind = "scan" /\ task[m].todo = <<>>
      /\ ledger' = task[m].keep
      /\ status' = [status EXCEPT ![m] = "open"]
      /\ task' = [task EXCEPT ![m] = NoTask]
      /\ UNCHANGED <<files, active, kept, tools, dirty, ended, torn>>
  BY DEF RecoverEnds, Compacted, memory
<1>2. Live(m)
  BY <1>1 DEF Life, LifeAt, Vacant, NoTask
<1>3. status[m] = "recovering" /\ active[m] = NoJournal
  BY <1>1, <1>2 DEF Life, LifeAt, Live
<1>4. status'[m] = "open" /\ task'[m] = NoTask
  BY <1>1 DEF Shape, Plain, TasksOK
<1> QED BY <1>1, <1>3, <1>4

\* The compaction that ends Recover keeps every turn in the one place it
\* belongs to.
LEMMA RecoverEndsStanding ==
  ASSUME Shape, Life, Standing, NEW m \in Managers, RecoverEnds(m)
  PROVE  Distinct(ledger)' /\ StandingAt(m)'
<1>1. /\ status[m] = "recovering" /\ status'[m] = "open" /\ active[m] = NoJournal
      /\ task[m].kind = "scan" /\ ledger' = task[m].keep /\ task'[m] = NoTask
      /\ UNCHANGED <<active, kept, ended>>
  BY RecoverEndsDoes
<1>2. StandingAt(m) /\ Base(m) = task[m].keep /\ Base(m)' = ledger'
  BY <1>1 DEF Standing, Live, Base, Open
<1>3. ScanStanding(task[m])
  BY <1>1, <1>2 DEF StandingAt, Doing
<1>4. Distinct(ledger') /\ \A i \in DOMAIN ledger' : ledger'[i].id \in ended
  BY <1>1, <1>3 DEF ScanStanding
<1>5. Current(m)'
  BY <1>1, <1>4 DEF Current, NoJournal
<1>6. Shelved(m)'
  BY <1>1, <1>2 DEF StandingAt, Shelved, In
<1>7. Doing(m)'
  BY <1>1 DEF Doing, NoTask, Restores
<1> QED BY <1>4, <1>5, <1>6, <1>7 DEF StandingAt, Distinct

\* Every pending turn that Close leaves was pending, and only turns that this
\* process committed are gone.
LEMMA CloseDoes ==
  ASSUME Shape, NEW m \in Managers, Close(m)
  PROVE  /\ Open(m) /\ active[m] = NoJournal /\ ~Live(m)'
         /\ \A i \in DOMAIN ledger' :
              \E l \in DOMAIN ledger :
                /\ ledger'[i].id = ledger[l].id /\ ledger'[i].recs = ledger[l].recs
                /\ ledger'[i].committed = ledger[l].committed
                /\ ledger'[i].draft = ledger[l].draft
         /\ \A l \in DOMAIN ledger : ledger[l].id \notin In(m, "committed") =>
              \E i \in DOMAIN ledger' : ledger'[i].id = ledger[l].id
         /\ Distinct(ledger) => Distinct(ledger')
         /\ UNCHANGED <<files, tools, dirty, ended, torn>>
         /\ active' = active
<1> DEFINE L == CloseList(m)
<1>1. /\ Open(m) /\ active[m] = NoJournal
      /\ ledger' = Unowned(L, m)
      /\ status' = [status EXCEPT ![m] = "closed"]
      /\ active' = [active EXCEPT ![m] = NoJournal]
      /\ UNCHANGED <<files, tools, dirty, ended, torn>>
  BY DEF Close, Compacted, Unowned, CloseList
<1>2. /\ ListOK(L) /\ (Distinct(ledger) => Distinct(L))
      /\ \A k \in DOMAIN L : \E i \in DOMAIN ledger : L[k] = ledger[i]
      /\ \A i \in DOMAIN ledger : ledger[i].id \notin In(m, "committed") =>
           \E k \in DOMAIN L : L[k] = ledger[i]
  <2>1. CASE fd[m]
    <3> DEFINE I == {i \in DOMAIN ledger : ledger[i].id \notin In(m, "committed")}
    <3>1. L = Picked(ledger, I) /\ ListOK(ledger)
      BY <2>1 DEF CloseList, Shape
    <3>2. /\ ListOK(Picked(ledger, I))
          /\ Distinct(ledger) => Distinct(Picked(ledger, I))
          /\ \A k \in DOMAIN Picked(ledger, I) :
               \E i \in DOMAIN ledger : i \in I /\ Picked(ledger, I)[k] = ledger[i]
          /\ \A i \in DOMAIN ledger : i \in I =>
               \E k \in DOMAIN Picked(ledger, I) : Picked(ledger, I)[k] = ledger[i]
      <4> HIDE DEF I
      <4> QED BY <3>1, PickedList
    <3> HIDE DEF L
    <3>3. \A i \in DOMAIN ledger : ledger[i].id \notin In(m, "committed") => i \in I
      OBVIOUS
    <3> HIDE DEF I
    <3> QED BY <3>1, <3>2, <3>3
  <2>2. CASE ~fd[m]
    BY <2>2 DEF CloseList, Shape
  <2> QED BY <2>1, <2>2
<1> HIDE DEF L
<1>3. SamePlaces(ledger', L) /\ IsUnowned(ledger', L)
  BY <1>1, <1>2, UnownedList
<1>4. DOMAIN ledger' = DOMAIN L /\ (Distinct(L) => Distinct(ledger'))
  BY <1>3 DEF SamePlaces, IsUnowned, Distinct
<1>5. \A l \in DOMAIN ledger : ledger[l].id \notin In(m, "committed") =>
        \E i \in DOMAIN ledger' : ledger'[i].id = ledger[l].id
  BY <1>2, <1>3, <1>4 DEF IsUnowned
<1>6. \A i \in DOMAIN ledger' :
        \E l \in DOMAIN ledger :
          /\ ledger'[i].id = ledger[l].id /\ ledger'[i].recs = ledger[l].recs
          /\ ledger'[i].committed = ledger[l].committed
          /\ ledger'[i].draft = ledger[l].draft
  BY <1>2, <1>3, <1>4 DEF IsUnowned
<1>7. ~Live(m)'
  BY <1>1 DEF Live, Shape, Plain
<1>8. active' = active
  BY <1>1 DEF Shape, ActiveOK
<1> QED BY <1>1, <1>2, <1>4, <1>5, <1>6, <1>7, <1>8

\* At first no turn is anywhere.
LEMMA InitStanding == Init => Standing
BY DEF Init, Standing, Distinct, Live

\* Steps that leave the memory and the ledger as they are.
LEMMA QuietStanding ==
  ASSUME Standing, UNCHANGED <<ledger, active, kept, task, ended>>,
         \A m \in Managers : Live(m)' => Live(m) /\ (Open(m)' <=> Open(m))
  PROVE  Standing'
<1>1. ASSUME NEW m \in Managers, Live(m)' PROVE StandingAt(m)'
  <2>1. StandingAt(m) /\ Base(m)' = Base(m)
    BY <1>1 DEF Standing, Base
  <2>2. Current(m)' /\ Shelved(m)'
    BY <2>1 DEF StandingAt, Current, Shelved, In
  <2>3. Doing(m)'
    BY <2>1 DEF StandingAt, Doing, In, ScanStanding
  <2> QED BY <2>2, <2>3 DEF StandingAt
<1> QED BY <1>1 DEF Standing, Distinct

\* A step of one process keeps every turn in one place.
LEMMA StepStanding ==
  ASSUME ~Shared, Merges = {}, Shape, Life, Standing, NEW m \in Managers, Step(m)
  PROVE  Standing'
<1>1. CASE Exit(m)
  BY <1>1, QuietStanding DEF Exit, memory, Live, Open, Shape, Plain
<1>2. CASE Crash(m)
  <2>1. ~Live(m)' /\ UNCHANGED ledger
    BY <1>2 DEF Crash, Live, Shape, Plain
  <2>2. ~Exit(m)
    BY <1>2 DEF Crash, Exit
  <2>3. Distinct(ledger)'
    BY <2>1 DEF Standing, Distinct
  <2> QED BY <2>1, <2>2, <2>3, StandingStep
<1>3. CASE Close(m)
  <2>1. ~Live(m)' /\ ~Exit(m) /\ Distinct(ledger)'
    BY <1>3, CloseDoes DEF Standing, Exit, Open, Distinct
  <2> QED BY <2>1, StandingStep
<1>4. CASE ~Exit(m) /\ ~Crash(m) /\ ~Close(m)
  <2>1. CASE \E t \in Turns :
               \/ Begin(m, t) \/ Commit(m, t) \/ Suspend(m, t) \/ KeepDraft(m, t)
               \/ Rollback(m, t) \/ Revert(m, t)
               \/ \E s \in Turns : ResumeDraft(m, s, t)
    <3>1. Distinct(ledger)' /\ StandingAt(m)'
      BY <2>1, BeginStanding, CommitStanding, SuspendStanding, KeepDraftStanding,
         RollbackStanding, RevertStanding, ResumeDraftStanding
    <3> QED BY <1>4, <3>1, StandingStep
  <2>2. CASE \E t \in Turns, p \in Paths :
               \/ Before(m, t, p) \/ After(m, t, p)
               \/ \E c \in Contents \cup {Absent} : ToolWrite(m, t, p, c)
    <3>1. Distinct(ledger)' /\ StandingAt(m)'
      BY <2>2, ToolStanding
    <3> QED BY <1>4, <3>1, StandingStep
  <2>3. CASE \/ RestoreRecord(m) \/ RestoreFails(m) \/ RollbackEnds(m)
             \/ RevertEnds(m) \/ OpenManager(m) \/ RecoverTurn(m)
             \/ RecoverTurnEnds(m) \/ RecoverEnds(m)
    <3>1. Distinct(ledger)' /\ StandingAt(m)'
      BY <2>3, RestoreStanding, EndsStanding, OpenManagerStanding,
         RecoverTurnStanding, RecoverTurnEndsStanding, RecoverEndsStanding
    <3> QED BY <1>4, <3>1, StandingStep
  <2> QED BY <1>4, <2>1, <2>2, <2>3, Zenon DEF Step
<1> QED BY <1>1, <1>2, <1>3, <1>4

\* A turn is in one place at a time, and what is unaccepted is in the ledger.
LEMMA NextStanding ==
  ASSUME ~Shared, Merges = {}, Shape, Life, Standing, [Next]_vars
  PROVE  Standing'
<1>1. CASE UNCHANGED vars
  BY <1>1, QuietStanding DEF vars, Live, Open
<1>2. ASSUME NEW p \in Paths, NEW c \in Contents, Edit(p, c)
      PROVE  Standing'
  BY <1>2, QuietStanding DEF Edit, memory, Live, Open
<1> QED BY <1>1, <1>2, StepStanding, NextSteps

-----------------------------------------------------------------------------
(* Truth: what the records say about the files *)

\* r is right about a path with content f where a turn's history is d: content
\* of the turn's is undone by r, and what r would undo is the turn's.
FairRecord(d, f, r) ==
  /\ d # None => r # NoRecord /\ r.before.sha = d
  /\ Changed(r) /\ f = r.after => d = r.before.sha

Fair(D, F, recs) == \A p \in Paths : FairRecord(D[p], F[p], recs[p])

Clear(D) == \A p \in Paths : D[p] = None

\* The records show every change on the paths V.
Shows(V, recs) == \A p \in V : Changed(recs[p])

\* What a tool of turn t wrote and has not reported.
InFlight(t, p) == \E m \in Managers : active[m].id = t /\ tools[m][p] = "written"

\* The paths that hold what turn t wrote and the ledger vouches for; those of
\* them that its records must show.
loose == [t \in Turns |-> {p \in Paths : Holds(t, p) /\ <<t, p>> \notin torn}]
seen == [t \in Turns |-> {p \in Paths : p \in loose[t] /\ ~InFlight(t, p)}]

\* Undoing with list starts where undoing with recs does.
Backs(recs, list) ==
  \A p \in Paths : recs[p] # NoRecord =>
    list[p] # NoRecord /\ list[p].before = recs[p].before

TrueEntry(d, f, v, e) ==
  IF e.committed THEN Clear(d[e.id])
  ELSE Fair(d[e.id], f, e.recs) /\ (e.draft => Shows(v[e.id], e.recs))

TrueList(d, f, v, L) == \A i \in DOMAIN L : TrueEntry(d, f, v, L[i])

\* recs is what a process remembers of turn t, and L what a file says of it.
Copy(d, f, v, t, recs, L) ==
  /\ Fair(d[t], f, recs) /\ Shows(v[t], recs)
  /\ \A i \in DOMAIN L : L[i].id = t => Shows(v[t], L[i].recs) /\ Backs(recs, L[i].recs)

LedgerTruth ==
  /\ TrueList(dirty, files, seen, ledger)
  /\ \A t \in Turns : loose[t] # {} => Pending(ledger, t)
  /\ \A t \in Turns : Clear(dirty[t]) \/ t \in ended \/ Pending(ledger, t)

\* A tool that wrote path p left it other than record r says.
ToolTruth(f, stage, r) == stage = "written" => f # r.after

ActiveTruth(m) ==
  active[m].id # None =>
    /\ Copy(dirty, files, seen, active[m].id, active[m].recs, ledger)
    /\ \A p \in Paths :
         ToolTruth(files[p], tools[m][p], active[m].recs[p])

\* The records a process keeps of turn t in a place.
PlaceTruth(d, f, v, w, t, recs, L) ==
  /\ w = "draft" => Copy(d, f, v, t, recs, L)
  /\ w = "committed" => Clear(d[t])
  /\ w = "unresolved" => Fair(d[t], f, recs)

KeptTruth(m) ==
  \A w \in Places, t \in Turns : t \in In(m, w) =>
    PlaceTruth(dirty, files, seen, w, t, kept[m][w][t].recs, Base(m))

RestoreTruth(d, f, v, k, L) ==
  /\ k.conflict \/ \A p \in Paths : d[k.turn][p] # None => Occurs(p, k.order)
  /\ k.kind \in {"rollback", "recover"} => Fair(d[k.turn], f, k.recs)
  /\ k.kind = "revert" /\ k.place = "draft" => Copy(d, f, v, k.turn, k.recs, L)

ScanTruth(d, f, v, l, k) ==
  /\ TrueList(d, f, v, k.todo) /\ TrueList(d, f, v, k.keep)
  /\ \A t \in Turns : l[t] # {} => Pending(k.todo, t) \/ Pending(k.keep, t)

TaskTruth(m) ==
  /\ task[m].kind \in Restores => RestoreTruth(dirty, files, seen, task[m], ledger)
  /\ task[m].kind \in {"scan", "recover"} => ScanTruth(dirty, files, seen, loose, task[m])

TruthAt(m) == ActiveTruth(m) /\ KeptTruth(m) /\ TaskTruth(m)

Truth == LedgerTruth /\ \A m \in Managers : Live(m) => TruthAt(m)

-----------------------------------------------------------------------------
(* Steps that only take from a turn what it did *)

\* The identities of the records are in use.
Known(recs) == \A p \in Paths : recs[p] # NoRecord => recs[p].after.id \in UsedIds
KnownList(L) == \A i \in DOMAIN L : Known(L[i].recs)

\* Identities in use are not fresh.
LEMMA KnownIds ==
  ASSUME NEW recs, IdsOf(recs) \subseteq UsedIds
  PROVE  Known(recs)
BY DEF IdsOf, Recorded, Known

\* Every record in the ledger or in a memory uses identities in use.
LEMMA KnownRecords ==
  /\ KnownList(ledger)
  /\ \A m \in Managers :
       /\ Known(active[m].recs) /\ Known(task[m].recs)
       /\ KnownList(task[m].todo) /\ KnownList(task[m].keep)
       /\ \A w \in Places, t \in Turns : Known(kept[m][w][t].recs)
<1>1. ASSUME NEW L, ListIds(L) \subseteq UsedIds PROVE KnownList(L)
  <2>1. ASSUME NEW i \in DOMAIN L PROVE IdsOf(L[i].recs) \subseteq UsedIds
    BY <1>1, <2>1 DEF ListIds
  <2> QED BY <2>1, KnownIds DEF KnownList
<1>2. ListIds(ledger) \subseteq UsedIds
  BY DEF UsedIds
<1>3. ASSUME NEW m \in Managers
      PROVE  /\ Known(active[m].recs) /\ Known(task[m].recs)
             /\ KnownList(task[m].todo) /\ KnownList(task[m].keep)
             /\ \A w \in Places, t \in Turns : Known(kept[m][w][t].recs)
  <2>1. MemoryIds(m) \subseteq UsedIds
    BY DEF UsedIds
  <2>2. /\ IdsOf(active[m].recs) \subseteq MemoryIds(m)
        /\ IdsOf(task[m].recs) \subseteq MemoryIds(m)
        /\ ListIds(task[m].todo) \subseteq MemoryIds(m)
        /\ ListIds(task[m].keep) \subseteq MemoryIds(m)
    BY DEF MemoryIds
  <2>3. ASSUME NEW w \in Places, NEW t \in Turns
        PROVE  IdsOf(kept[m][w][t].recs) \subseteq MemoryIds(m)
    BY <2>3 DEF MemoryIds
  <2> QED BY <1>1, <2>1, <2>2, <2>3, KnownIds
<1> QED BY <1>1, <1>2, <1>3

\* One path of one turn: its history may end, and a new content is nobody's.
Fade(d, e, f, g) ==
  /\ e = None \/ e = d
  /\ g = f => e = d \/ d = f.sha
  /\ g # f => g.id \notin UsedIds /\ (e # None => f.sha # d)

\* A step that does nothing else to turn t.
Calm(t) ==
  /\ \A p \in Paths : Fade(dirty[t][p], dirty'[t][p], files[p], files'[p])
  /\ seen'[t] \subseteq seen[t] /\ loose'[t] \subseteq loose[t]

\* A record stays right when the history of its path fades.
LEMMA FadeFair ==
  ASSUME NEW d, NEW e, NEW f, NEW g, Fade(d, e, f, g), NEW r, FairRecord(d, f, r),
         r # NoRecord => r.after.id \in UsedIds
  PROVE  FairRecord(e, g, r)
BY DEF Fade, FairRecord, Changed

\* The records of a turn stay right in a step that is calm for it.
LEMMA CalmFair ==
  ASSUME NEW t \in Turns, Calm(t), NEW recs, Known(recs)
  PROVE  /\ Fair(dirty[t], files, recs) => Fair(dirty'[t], files', recs)
         /\ Clear(dirty[t]) => Clear(dirty'[t])
         /\ Shows(seen[t], recs) => Shows(seen'[t], recs)
<1>1. ASSUME Fair(dirty[t], files, recs), NEW p \in Paths
      PROVE  FairRecord(dirty'[t][p], files'[p], recs[p])
  <2>1. /\ Fade(dirty[t][p], dirty'[t][p], files[p], files'[p])
        /\ FairRecord(dirty[t][p], files[p], recs[p])
        /\ recs[p] # NoRecord => recs[p].after.id \in UsedIds
    BY <1>1 DEF Calm, Fair, Known
  <2> QED BY <2>1, FadeFair
<1>2. Clear(dirty[t]) => Clear(dirty'[t])
  BY DEF Calm, Fade, Clear
<1>3. Shows(seen[t], recs) => Shows(seen'[t], recs)
  BY DEF Calm, Shows
<1> QED BY <1>1, <1>2, <1>3 DEF Fair

\* So does its entry in a list.
LEMMA CalmEntry ==
  ASSUME NEW e, e.id \in Turns, Known(e.recs), Calm(e.id),
         TrueEntry(dirty, files, seen, e)
  PROVE  TrueEntry(dirty', files', seen', e)
<1> DEFINE t == e.id  recs == e.recs
<1>1. /\ Fair(dirty[t], files, recs) => Fair(dirty'[t], files', recs)
      /\ Clear(dirty[t]) => Clear(dirty'[t])
      /\ Shows(seen[t], recs) => Shows(seen'[t], recs)
  BY CalmFair
<1> QED BY <1>1 DEF TrueEntry

\* So does the copy a process keeps of it.
LEMMA CalmCopy ==
  ASSUME NEW t \in Turns, Calm(t), NEW recs, Known(recs), NEW L,
         Copy(dirty, files, seen, t, recs, L)
  PROVE  Copy(dirty', files', seen', t, recs, L)
<1>1. Fair(dirty'[t], files', recs) /\ Shows(seen'[t], recs)
  BY CalmFair DEF Copy
<1>2. \A i \in DOMAIN L : L[i].id = t => Shows(seen'[t], L[i].recs)
  BY DEF Copy, Shows, Calm
<1> QED BY <1>1, <1>2 DEF Copy

\* q says of turn t only what L says.
SaysSame(q, L, t) ==
  \A k \in DOMAIN q : q[k].id = t =>
    \E i \in DOMAIN L : L[i].id = t /\ q[k].recs = L[i].recs

\* A copy is as good for a list that says the same.
LEMMA CopyOf ==
  ASSUME NEW d, NEW f, NEW v, NEW t, NEW recs, NEW L, NEW q, SaysSame(q, L, t),
         Copy(d, f, v, t, recs, L)
  PROVE  Copy(d, f, v, t, recs, q)
<1>1. ASSUME NEW k \in DOMAIN q, q[k].id = t
      PROVE  Shows(v[t], q[k].recs) /\ Backs(recs, q[k].recs)
  <2>1. PICK i \in DOMAIN L : L[i].id = t /\ q[k].recs = L[i].recs
    BY <1>1 DEF SaysSame
  <2> QED BY <2>1 DEF Copy
<1> QED BY <1>1 DEF Copy

\* When a step is calm for a turn.
LEMMA CalmWhen ==
  ASSUME Shape, Shape', NEW t \in Turns,
         \A p \in Paths : Fade(dirty[t][p], dirty'[t][p], files[p], files'[p]),
         \A p \in Paths : <<t, p>> \in torn => <<t, p>> \in torn',
         \A p \in Paths : InFlight(t, p) => InFlight(t, p)'
  PROVE  Calm(t)
<1>1. ASSUME NEW p \in Paths, Holds(t, p)' PROVE Holds(t, p)
  <2>1. Fade(dirty[t][p], dirty'[t][p], files[p], files'[p])
    OBVIOUS
  <2> QED BY <1>1, <2>1 DEF Holds, Fade
<1>2. loose'[t] \subseteq loose[t]
  BY <1>1 DEF loose
<1>3. seen'[t] \subseteq seen[t]
  <2>1. /\ seen'[t] = {p \in Paths : p \in loose'[t] /\ ~InFlight(t, p)'}
        /\ seen[t] = {p \in Paths : p \in loose[t] /\ ~InFlight(t, p)}
    BY DEF seen
  <2> QED BY <1>2, <2>1
<1> QED BY <1>2, <1>3 DEF Calm

\* Nothing fades where nothing changes.
LEMMA SameFade ==
  ASSUME NEW d, NEW f
  PROVE  Fade(d, d, f, f)
BY DEF Fade

-----------------------------------------------------------------------------
(* What a calm step preserves, copy by copy *)

SameEntry(x, y) ==
  /\ x.id = y.id /\ x.recs = y.recs
  /\ x.committed = y.committed /\ x.draft = y.draft

\* A list stays right when its entries are new and right, or old and calm.
LEMMA CalmList ==
  ASSUME NEW L, ListOK(L), KnownList(L), TrueList(dirty, files, seen, L), NEW q,
         \A k \in DOMAIN q :
           \/ TrueEntry(dirty', files', seen', q[k])
           \/ \E i \in DOMAIN L : SameEntry(q[k], L[i]) /\ Calm(L[i].id)
  PROVE  TrueList(dirty', files', seen', q)
<1>1. ASSUME NEW k \in DOMAIN q, ~TrueEntry(dirty', files', seen', q[k])
      PROVE  FALSE
  <2>1. PICK i \in DOMAIN L : SameEntry(q[k], L[i]) /\ Calm(L[i].id)
    BY <1>1
  <2>2. L[i].id \in Turns /\ Known(L[i].recs) /\ TrueEntry(dirty, files, seen, L[i])
    BY DEF ListOK, EntryOK, PendingTurn, KnownList, TrueList
  <2>3. TrueEntry(dirty', files', seen', L[i])
    BY <2>1, <2>2, CalmEntry
  <2>4. TrueEntry(dirty', files', seen', q[k])
    BY <2>1, <2>3 DEF SameEntry, TrueEntry
  <2> QED BY <1>1, <2>4
<1> QED BY <1>1 DEF TrueList

\* A turn without history has nothing loose.
LEMMA ClearLoose ==
  ASSUME NEW t \in Turns
  PROVE  /\ Clear(dirty[t]) => loose[t] = {}
         /\ Clear(dirty'[t]) => loose'[t] = {}
BY DEF Clear, loose, Holds

\* The ledger stays right when its entries do and no turn with work is lost.
LEMMA CalmLedger ==
  ASSUME Shape, LedgerTruth,
         \A k \in DOMAIN ledger' :
           \/ TrueEntry(dirty', files', seen', ledger'[k])
           \/ \E i \in DOMAIN ledger : SameEntry(ledger'[k], ledger[i]) /\ Calm(ledger[i].id),
         \A t \in Turns :
           \/ Pending(ledger', t) \/ Clear(dirty'[t])
           \/ t \in ended' /\ loose'[t] = {}
           \/ Calm(t) /\ ~Pending(ledger, t) /\ (t \in ended => t \in ended')
  PROVE  LedgerTruth'
<1>1. TrueList(dirty', files', seen', ledger')
  BY CalmList, KnownRecords DEF Shape, LedgerTruth
<1>2. ASSUME NEW t \in Turns
      PROVE  /\ loose'[t] # {} => Pending(ledger', t)
             /\ Clear(dirty'[t]) \/ t \in ended' \/ Pending(ledger', t)
  <2>1. CASE Pending(ledger', t) \/ Clear(dirty'[t]) \/ (t \in ended' /\ loose'[t] = {})
    BY <2>1, ClearLoose
  <2>2. CASE Calm(t) /\ ~Pending(ledger, t) /\ (t \in ended => t \in ended')
    <3>1. loose[t] = {} /\ (Clear(dirty[t]) \/ t \in ended)
      BY <2>2 DEF LedgerTruth
    <3>2. loose'[t] = {} /\ (Clear(dirty[t]) => Clear(dirty'[t]))
      BY <2>2, <3>1 DEF Calm, Fade, Clear
    <3> QED BY <2>2, <3>1, <3>2
  <2> QED BY <2>1, <2>2
<1> QED BY <1>1, <1>2 DEF LedgerTruth, Pending

\* A journal kept in a map stays right in a calm step.
LEMMA CalmPlace ==
  ASSUME NEW t \in Turns, Calm(t), NEW recs, Known(recs), NEW w, NEW L, NEW q,
         SaysSame(q, L, t), PlaceTruth(dirty, files, seen, w, t, recs, L)
  PROVE  PlaceTruth(dirty', files', seen', w, t, recs, q)
<1>1. ASSUME w = "draft" PROVE Copy(dirty', files', seen', t, recs, q)
  <2>1. Copy(dirty', files', seen', t, recs, L)
    BY <1>1, CalmCopy DEF PlaceTruth
  <2> QED BY <2>1, CopyOf
<1>2. /\ w = "committed" => Clear(dirty'[t])
      /\ w = "unresolved" => Fair(dirty'[t], files', recs)
  BY CalmFair DEF PlaceTruth
<1> QED BY <1>1, <1>2 DEF PlaceTruth

\* The maps of a Manager stay right in a calm step.
LEMMA CalmKept ==
  ASSUME NEW m \in Managers, KeptTruth(m),
         \A w \in Places, t \in Turns : t \in In(m, w)' =>
           \/ PlaceTruth(dirty', files', seen', w, t, kept'[m][w][t].recs, Base(m)')
           \/ /\ t \in In(m, w) /\ kept'[m][w][t] = kept[m][w][t]
              /\ Calm(t) /\ SaysSame(Base(m)', Base(m), t)
  PROVE  KeptTruth(m)'
<1>1. ASSUME NEW w \in Places, NEW t \in Turns, t \in In(m, w), Calm(t),
             SaysSame(Base(m)', Base(m), t)
      PROVE  PlaceTruth(dirty', files', seen', w, t, kept[m][w][t].recs, Base(m)')
  <2>1. /\ Known(kept[m][w][t].recs)
        /\ PlaceTruth(dirty, files, seen, w, t, kept[m][w][t].recs, Base(m))
    BY <1>1, KnownRecords DEF KeptTruth
  <2> QED BY <1>1, <2>1, CalmPlace
<1>2. ASSUME NEW w \in Places, NEW t \in Turns, t \in In(m, w)'
      PROVE  PlaceTruth(dirty', files', seen', w, t, kept'[m][w][t].recs, Base(m)')
  BY <1>1, <1>2
<1> QED BY <1>2 DEF KeptTruth

\* A restore in progress stays right in a calm step.
LEMMA CalmRestore ==
  ASSUME NEW k, k.kind \in Restores, k.turn \in Turns, Calm(k.turn), Known(k.recs),
         NEW L, NEW q, SaysSame(q, L, k.turn), RestoreTruth(dirty, files, seen, k, L)
  PROVE  RestoreTruth(dirty', files', seen', k, q)
<1> DEFINE t == k.turn
<1>1. ~k.conflict => \A p \in Paths : dirty'[t][p] # None => Occurs(p, k.order)
  BY DEF RestoreTruth, Calm, Fade
<1>2. k.kind \in {"rollback", "recover"} => Fair(dirty'[t], files', k.recs)
  BY CalmFair DEF RestoreTruth
<1>3. ASSUME k.kind = "revert", k.place = "draft"
      PROVE  Copy(dirty', files', seen', t, k.recs, q)
  <2>1. Copy(dirty', files', seen', t, k.recs, L)
    BY <1>3, CalmCopy DEF RestoreTruth
  <2> QED BY <2>1, CopyOf
<1> QED BY <1>1, <1>2, <1>3 DEF RestoreTruth

\* The active turn stays right in a step that is calm and spares its tools.
LEMMA CalmActive ==
  ASSUME Shape, NEW m \in Managers, ActiveTruth(m), active'[m] = active[m],
         tools'[m] = tools[m],
         active[m].id # None =>
           Calm(active[m].id) /\ SaysSame(ledger', ledger, active[m].id)
  PROVE  ActiveTruth(m)'
<1> DEFINE t == active[m].id
           recs == active[m].recs
<1> SUFFICES ASSUME t # None
             PROVE  /\ Copy(dirty', files', seen', t, recs, ledger')
                    /\ \A p \in Paths : ToolTruth(files'[p], tools[m][p], recs[p])
  BY DEF ActiveTruth
<1>1. t \in Turns /\ Known(recs) /\ Copy(dirty, files, seen, t, recs, ledger)
  BY KnownRecords DEF Shape, ActiveOK, Journal, ActiveTruth
<1>2. Copy(dirty', files', seen', t, recs, ledger')
  <2> HIDE DEF recs
  <2>1. Copy(dirty', files', seen', t, recs, ledger)
    BY <1>1, CalmCopy
  <2> QED BY <2>1, CopyOf
<1>3. ASSUME NEW p \in Paths PROVE ToolTruth(files'[p], tools[m][p], recs[p])
  <2>1. ToolTruth(files[p], tools[m][p], recs[p])
    BY DEF ActiveTruth
  <2>2. tools[m][p] # "idle" => recs[p].after.id \in UsedIds
    BY <1>1 DEF Shape, ActiveOK, Known
  <2>3. files'[p] = files[p] \/ files'[p].id \notin UsedIds
    BY <1>1 DEF Calm, Fade
  <2> QED BY <2>1, <2>2, <2>3 DEF ToolTruth
<1> QED BY <1>2, <1>3

\* A list says what it says.
LEMMA SaysItself ==
  ASSUME NEW L PROVE \A t : SaysSame(L, L, t)
BY DEF SaysSame

\* What a record is forgotten in memory, its turn's history does not need.
LEMMA NoRecordClear ==
  ASSUME NEW D, NEW F, NEW recs, Fair(D, F, recs), NEW p \in Paths, recs[p] = NoRecord
  PROVE  D[p] = None
BY DEF Fair, FairRecord

-----------------------------------------------------------------------------
(* Who has a write in flight, and which steps are calm *)

\* A step of one process keeps the state well formed.
LEMMA StepShape ==
  ASSUME Shape, NEW m \in Managers, Step(m)
  PROVE  Shape'
<1>1. Next
  BY Zenon DEF Next, Step, RestoreRecord
<1> QED BY <1>1, NextShape

\* Only the process at work has writes in flight.
LEMMA OwnFlight ==
  ASSUME ~Shared, Shape, Life, NEW m \in Managers, Step(m), ~Exit(m),
         NEW t \in Turns, NEW p \in Paths
  PROVE  /\ InFlight(t, p) <=> active[m].id = t /\ tools[m][p] = "written"
         /\ InFlight(t, p)' <=> active'[m].id = t /\ tools'[m][p] = "written"
<1>1. Elsewhere(m)
  BY StepElsewhere
<1>2. ASSUME NEW n \in Managers, n # m PROVE active[n].id # t /\ active'[n].id # t
  <2>1. ~Live(n)
    <3>1. Live(m) \/ OpenManager(m)
      BY StepIsLive
    <3> QED BY <1>2, <3>1 DEF Life, OpenManager, Live
  <2>2. active[n].id = None /\ t # None
    BY <2>1, JournalConstants DEF Life, LifeAt, Vacant, NoJournal
  <2> QED BY <1>1, <1>2, <2>2 DEF Elsewhere
<1> QED BY <1>2 DEF InFlight

\* Steps that touch neither files nor history are calm when no write of theirs
\* lands.
LEMMA StillCalm ==
  ASSUME ~Shared, Shape, Life, NEW m \in Managers, Step(m), ~Exit(m),
         UNCHANGED <<files, dirty, torn>>,
         \A p \in Paths : tools[m][p] = "written" =>
           active'[m].id = active[m].id /\ tools'[m][p] = "written"
  PROVE  \A t \in Turns : Calm(t)
<1> TAKE t \in Turns
<1>1. \A p \in Paths : Fade(dirty[t][p], dirty'[t][p], files[p], files'[p])
  BY SameFade
<1>2. \A p \in Paths : InFlight(t, p) => InFlight(t, p)'
  BY OwnFlight
<1> QED BY <1>1, <1>2, CalmWhen, StepShape

\* What is left to show for a step: the ledger, and the memory of its process.
LEMMA TruthStep ==
  ASSUME ~Shared, Shape, Life, NEW m \in Managers, Step(m), ~Exit(m),
         LedgerTruth', Live(m)' => TruthAt(m)'
  PROVE  Truth'
<1>1. Elsewhere(m) /\ Life'
  BY StepElsewhere, StepLife
<1>2. Live(m) \/ OpenManager(m)
  BY StepIsLive
<1>3. OpenManager(m) => Live(m)'
  BY DEF OpenManager, Live, Shape, Plain
<1>4. ASSUME NEW n \in Managers, Live(n)' PROVE n = m
  BY <1>1, <1>2, <1>3, <1>4 DEF Elsewhere, Life, Live
<1> QED BY <1>4 DEF Truth

\* The two lists of a recovery after a calm step.
LEMMA CalmScan ==
  ASSUME Shape, NEW m \in Managers, \A t \in Turns : Calm(t)
  PROVE  /\ TrueList(dirty, files, seen, task[m].todo) =>
              TrueList(dirty', files', seen', task[m].todo)
         /\ TrueList(dirty, files, seen, task[m].keep) =>
              TrueList(dirty', files', seen', task[m].keep)
<1>1. ASSUME NEW L, ListOK(L), KnownList(L), TrueList(dirty, files, seen, L)
      PROVE  TrueList(dirty', files', seen', L)
  <2>1. \A k \in DOMAIN L : SameEntry(L[k], L[k]) /\ Calm(L[k].id)
    BY <1>1 DEF SameEntry, ListOK, EntryOK, PendingTurn
  <2> QED BY <1>1, <2>1, CalmList
<1>2. ListOK(task[m].todo) /\ ListOK(task[m].keep)
  BY DEF Shape, TasksOK, TaskOK
<1> QED BY <1>1, <1>2, KnownRecords

-----------------------------------------------------------------------------
(* Truth, action by action: steps of an open process *)

\* What holds of an open process.
LEMMA OpenTruth ==
  ASSUME Shape, Life, Standing, Truth, NEW m \in Managers, Open(m)
  PROVE  /\ Live(m) /\ ~Exit(m) /\ Base(m) = ledger /\ StandingAt(m) /\ Distinct(ledger)
         /\ LedgerTruth /\ ActiveTruth(m) /\ KeptTruth(m) /\ TaskTruth(m)
         /\ \A w \in Places, u \in Turns : u \in In(m, w) => u \in ended
         /\ active[m].id # None => active[m].id \notin ended /\ active[m].id \in Turns
         /\ task[m].kind \in {"none", "rollback", "revert"}
         /\ task[m].kind \in Restores =>
              /\ task[m].turn \in ended /\ task[m].turn \in Turns
              /\ RestoreTruth(dirty, files, seen, task[m], ledger)
<1>1. /\ Live(m) /\ ~Exit(m) /\ Base(m) = ledger /\ StandingAt(m) /\ Distinct(ledger)
  BY OpenIsLive DEF Open, Exit, Standing
<1>2. LedgerTruth /\ ActiveTruth(m) /\ KeptTruth(m) /\ TaskTruth(m)
  BY <1>1 DEF Truth, TruthAt
<1>3. /\ \A w \in Places, u \in Turns : u \in In(m, w) => u \in ended
      /\ active[m].id # None => active[m].id \notin ended
  BY <1>1 DEF StandingAt, Shelved, Current
<1>4. active[m].id # None => active[m].id \in Turns
  BY DEF Shape, ActiveOK, Journal
<1>5. task[m].kind \in {"none", "rollback", "revert"}
  BY DEF Life, LifeAt, Open
<1>6. task[m].kind \in Restores =>
        /\ task[m].turn \in ended /\ task[m].turn \in Turns
        /\ RestoreTruth(dirty, files, seen, task[m], ledger)
  BY <1>1, <1>2 DEF StandingAt, Doing, TaskTruth, Shape, TasksOK, TaskOK
<1> QED BY <1>1, <1>2, <1>3, <1>4, <1>5, <1>6

\* Without an active turn no tool is at work.
LEMMA IdleTools ==
  ASSUME Shape, NEW m \in Managers, active[m] = NoJournal
  PROVE  \A p \in Paths : tools[m][p] = "idle"
BY DEF Shape, ActiveOK, NoJournal, NoRecords

\* The task of an open process after a calm step that leaves it alone.
LEMMA SameTask ==
  ASSUME Shape, Life, Standing, Truth, NEW m \in Managers, Open(m),
         task'[m] = task[m],
         task[m].kind \in Restores =>
           Calm(task[m].turn) /\ SaysSame(ledger', ledger, task[m].turn)
  PROVE  TaskTruth(m)'
<1>1. /\ task[m].kind \in {"none", "rollback", "revert"}
      /\ task[m].kind \in Restores =>
           task[m].turn \in Turns /\ RestoreTruth(dirty, files, seen, task[m], ledger)
  BY OpenTruth
<1>2. Known(task[m].recs)
  BY KnownRecords
<1>3. task[m].kind \in Restores =>
        RestoreTruth(dirty', files', seen', task[m], ledger')
  BY <1>1, <1>2, CalmRestore
<1> QED BY <1>1, <1>3 DEF TaskTruth, Restores

\* A process without a task has nothing to show for it.
LEMMA NoTaskTruth ==
  ASSUME NEW m \in Managers, task'[m] = NoTask
  PROVE  TaskTruth(m)'
BY DEF TaskTruth, NoTask, Restores

\* Nor has one without an active turn.
LEMMA NoActiveTruth ==
  ASSUME NEW m \in Managers, active'[m] = NoJournal
  PROVE  ActiveTruth(m)'
BY DEF ActiveTruth, NoJournal

\* A turn that wrote nothing needs no record.
LEMMA ClearTrue ==
  ASSUME NEW D, Clear(D), NEW F
  PROVE  Fair(D, F, NoRecords)
BY DEF Clear, Fair, FairRecord, NoRecords, Changed

\* What must be shown is loose.
LEMMA SeenLoose ==
  ASSUME NEW t \in Turns
  PROVE  seen[t] \subseteq loose[t] /\ seen'[t] \subseteq loose'[t]
BY DEF seen

\* The ledger after a calm step that leaves it alone.
LEMMA StillLedger ==
  ASSUME Shape, LedgerTruth, ledger' = ledger, ended \subseteq ended',
         \A t \in Turns : Calm(t)
  PROVE  LedgerTruth'
<1>1. \A k \in DOMAIN ledger' : SameEntry(ledger'[k], ledger[k]) /\ Calm(ledger[k].id)
  BY LedgerIds DEF SameEntry
<1>2. \A t \in Turns : Pending(ledger', t) \/ ~Pending(ledger, t)
  OBVIOUS
<1> QED BY <1>1, <1>2, CalmLedger

\* Undoing goes through every path with a record.
LEMMA UndoesAll ==
  ASSUME NEW o \in Seq(Paths), NEW recs, Lists(o, recs)
  PROVE  \A p \in Paths : recs[p] # NoRecord => Occurs(p, Reversed(o))
BY ReversedOrder DEF Lists

\* Manager.Begin keeps the records right about the files.
LEMMA BeginTruth ==
  ASSUME ~Shared, Merges = {}, Shape, Life, Standing, Truth, NEW m \in Managers,
         NEW t \in Turns, Begin(m, t)
  PROVE  LedgerTruth' /\ TruthAt(m)'
<1>1. /\ Open(m) /\ task[m] = NoTask /\ t \notin ended /\ active[m] = NoJournal
      /\ ended' = ended \ {t}
      /\ ledger' = Written(m, Begun(ledger, t, m))
      /\ active' = [active EXCEPT ![m] = [NoJournal EXCEPT !.id = t]]
      /\ UNCHANGED <<files, dirty, torn, kept, task, status, tools>>
  BY DEF Begin, New
<1>2. Step(m) /\ ended' = ended
  BY <1>1 DEF Step
<1>3. ledger' = Begun(ledger, t, m)
  BY <1>1, OpenTruth, LiveWrites
<1>4. active'[m].id = t /\ active'[m].recs = NoRecords /\ t # None
  BY <1>1, JournalConstants DEF Shape, ActiveOK, NoJournal
<1>5. \A u \in Turns : Calm(u)
  BY <1>1, <1>2, OpenTruth, IdleTools, StillCalm
<1>6. ~Pending(ledger, t) /\ Clear(dirty[t]) /\ loose[t] = {}
  <2>1. \A i \in DOMAIN ledger : ledger[i].id \in ended
    BY <1>1, OpenTruth, LedgerIds DEF StandingAt, Current, NoJournal
  <2>2. ~Pending(ledger, t)
    BY <1>1, <2>1 DEF Pending
  <2> QED BY <1>1, <2>2, OpenTruth DEF LedgerTruth
<1>7. Clear(dirty'[t]) /\ seen'[t] = {}
  BY <1>1, <1>5, <1>6, SeenLoose DEF Calm
<1> DEFINE e == NewEntry(t, m)
<1>8. e.id = t /\ ~e.committed /\ ~e.draft /\ e.recs = NoRecords
  BY DEF NewEntry
<1>9. /\ \A k \in DOMAIN ledger' :
           ledger'[k] = e \/ \E i \in DOMAIN ledger : ledger[i].id # t /\ ledger'[k] = ledger[i]
      /\ \A i \in DOMAIN ledger : ledger[i].id # t =>
           \E k \in DOMAIN ledger' : ledger'[k] = ledger[i]
      /\ \E k \in DOMAIN ledger' : ledger'[k] = e
  BY <1>3, BegunIds DEF Shape
<1> HIDE DEF e
<1>10. TrueEntry(dirty', files', seen', e)
  BY <1>7, <1>8, ClearTrue DEF TrueEntry
<1>11. LedgerTruth'
  <2>1. ASSUME NEW k \in DOMAIN ledger'
        PROVE  \/ TrueEntry(dirty', files', seen', ledger'[k])
               \/ \E i \in DOMAIN ledger : SameEntry(ledger'[k], ledger[i]) /\ Calm(ledger[i].id)
    BY <1>5, <1>9, <1>10, LedgerIds DEF SameEntry
  <2>2. ASSUME NEW u \in Turns PROVE Pending(ledger', u) \/ ~Pending(ledger, u)
    BY <1>6, <1>9 DEF Pending
  <2> QED BY <1>1, <1>2, <1>5, <2>1, <2>2, CalmLedger, OpenTruth
<1>12. ActiveTruth(m)'
  <2>1. Copy(dirty', files', seen', t, NoRecords, ledger')
    <3>1. ASSUME NEW k \in DOMAIN ledger', ledger'[k].id = t
          PROVE  Shows(seen'[t], ledger'[k].recs) /\ Backs(NoRecords, ledger'[k].recs)
      BY <1>7 DEF Shows, Backs, NoRecords
    <3> QED BY <1>7, <3>1, ClearTrue DEF Copy, Shows
  <2>2. \A p \in Paths : tools'[m][p] = "idle"
    BY <1>1, IdleTools
  <2> QED BY <1>4, <2>1, <2>2 DEF ActiveTruth, ToolTruth
<1>13. KeptTruth(m)'
  <2>1. Base(m) = ledger /\ Base(m)' = ledger' /\ KeptTruth(m)
    BY <1>1, OpenTruth DEF Base, Open
  <2>2. ASSUME NEW u \in Turns, u # t PROVE SaysSame(ledger', ledger, u)
    BY <1>8, <1>9, <2>2 DEF SaysSame
  <2>3. ASSUME NEW w \in Places, NEW u \in Turns, u \in In(m, w)'
        PROVE  u \in In(m, w) /\ kept'[m][w][u] = kept[m][w][u] /\ u # t
    BY <1>1, <2>3, OpenTruth DEF In
  <2> QED BY <1>5, <2>1, <2>2, <2>3, CalmKept
<1>14. TaskTruth(m)'
  BY <1>1, NoTaskTruth
<1> QED BY <1>11, <1>12, <1>13, <1>14 DEF TruthAt

\* The start of a Rollback keeps the records right about the files.
LEMMA RollbackTruth ==
  ASSUME ~Shared, Shape, Life, Standing, Truth, NEW m \in Managers, NEW t \in Turns,
         Rollback(m, t)
  PROVE  LedgerTruth' /\ TruthAt(m)'
<1>1. /\ Open(m) /\ ended' = ended \cup {t} /\ tools[m] = Idle /\ active'[m] = NoJournal
      /\ UNCHANGED <<files, ledger, status, kept, tools, dirty, torn>>
  BY RollbackDoes
<1>2. PICK j : /\ JournalOK(j) /\ j.id = t
               /\ task'[m] = RestoreOf("rollback", "unresolved", j)
               /\ \/ active[m].id = t /\ t \notin ended /\ j = active[m]
                  \/ /\ active[m] = NoJournal /\ t \in In(m, "unresolved")
                     /\ j = kept[m]["unresolved"][t]
  BY RollbackDoes
<1>3. Step(m)
  BY DEF Step
<1>4. \A u \in Turns : Calm(u)
  BY <1>1, <1>3, OpenTruth, StillCalm DEF Idle
<1>5. LedgerTruth'
  BY <1>1, <1>4, StillLedger, OpenTruth
<1>6. KeptTruth(m)'
  <2>1. Base(m) = ledger /\ Base(m)' = ledger /\ KeptTruth(m)
    BY <1>1, OpenTruth DEF Base, Open
  <2> QED BY <1>1, <1>4, <2>1, CalmKept, SaysItself DEF In
<1>7. Fair(dirty[t], files, j.recs)
  <2>1. CASE active[m].id = t /\ j = active[m]
    BY <1>1, <2>1, OpenTruth, JournalConstants DEF ActiveTruth, Copy
  <2>2. CASE t \in In(m, "unresolved") /\ j = kept[m]["unresolved"][t]
    BY <1>1, <2>2, OpenTruth DEF KeptTruth, PlaceTruth, Places
  <2> QED BY <1>2, <2>1, <2>2
<1>8. TaskTruth(m)'
  <2>1. IsRestoreOf(task'[m], "rollback", "unresolved", j)
    BY <1>2, RestoreOfTask DEF Places
  <2>2. /\ task'[m].kind = "rollback" /\ task'[m].turn = t /\ task'[m].recs = j.recs
        /\ \A p \in Paths : j.recs[p] # NoRecord => Occurs(p, task'[m].order)
    BY <1>2, <2>1, UndoesAll DEF IsRestoreOf, JournalOK, Journal
  <2>3. \A p \in Paths : dirty'[t][p] # None => Occurs(p, task'[m].order)
    BY <1>1, <1>7, <2>2 DEF Fair, FairRecord
  <2>4. RestoreTruth(dirty', files', seen', task'[m], ledger')
    BY <1>1, <1>7, <2>2, <2>3 DEF RestoreTruth
  <2> QED BY <2>2, <2>4 DEF TaskTruth
<1> QED BY <1>1, <1>5, <1>6, <1>8, NoActiveTruth DEF TruthAt

\* The start of a Revert keeps the records right about the files.
LEMMA RevertTruth ==
  ASSUME ~Shared, Shape, Life, Standing, Truth, NEW m \in Managers, NEW t \in Turns,
         Revert(m, t)
  PROVE  LedgerTruth' /\ TruthAt(m)'
<1>1. /\ Open(m) /\ UNCHANGED <<files, ledger, status, active, kept, tools, dirty,
                                ended, torn>>
  BY RevertDoes
<1>2. PICK w \in {"committed", "draft"} :
        /\ t \in In(m, w) /\ JournalOK(kept[m][w][t])
        /\ kept[m][w][t].id = t
        /\ task'[m] = RestoreOf("revert", w, kept[m][w][t])
  BY RevertDoes
<1> DEFINE j == kept[m][w][t]
<1>3. Step(m)
  BY DEF Step
<1>4. \A u \in Turns : Calm(u)
  BY <1>1, <1>3, OpenTruth, StillCalm
<1>5. LedgerTruth'
  BY <1>1, <1>4, StillLedger, OpenTruth
<1>6. Base(m) = ledger /\ Base(m)' = ledger /\ KeptTruth(m)
  BY <1>1, OpenTruth DEF Base, Open
<1>7. KeptTruth(m)'
  BY <1>1, <1>4, <1>6, CalmKept, SaysItself DEF In
<1>8. ActiveTruth(m)'
  BY <1>1, <1>4, OpenTruth, CalmActive, SaysItself
<1>9. PlaceTruth(dirty, files, seen, w, t, j.recs, ledger)
  BY <1>2, <1>6 DEF KeptTruth, Places
<1>10. \A u \in Turns : seen'[u] \subseteq seen[u]
  BY <1>4 DEF Calm
<1>11. JournalOK(j) /\ j.id = t /\ task'[m] = RestoreOf("revert", w, j) /\ w \in Places
  BY <1>2 DEF Places
<1> HIDE DEF j
<1>12. IsRestoreOf(task'[m], "revert", w, j)
  BY <1>11, RestoreOfTask
<1>13. /\ task'[m].kind = "revert" /\ task'[m].turn = t /\ task'[m].recs = j.recs
       /\ task'[m].place = w
       /\ \A p \in Paths : j.recs[p] # NoRecord => Occurs(p, task'[m].order)
  BY <1>11, <1>12, UndoesAll DEF IsRestoreOf, JournalOK, Journal
<1>14. RestoreTruth(dirty', files', seen', task'[m], ledger')
  <2>1. \A p \in Paths : dirty[t][p] # None => Occurs(p, task'[m].order)
    BY <1>9, <1>13 DEF PlaceTruth, Copy, Fair, FairRecord, Clear
  <2>2. w = "draft" => Copy(dirty, files, seen', t, j.recs, ledger)
    BY <1>9, <1>10 DEF PlaceTruth, Copy, Shows
  <2> QED BY <1>1, <1>13, <2>1, <2>2 DEF RestoreTruth
<1>15. TaskTruth(m)'
  BY <1>13, <1>14 DEF TaskTruth
<1> QED BY <1>5, <1>7, <1>8, <1>15 DEF TruthAt

\* A restore that stops is one with a conflict.
LEMMA RestoreFailsTruth ==
  ASSUME ~Shared, Shape, Life, Standing, Truth, NEW m \in Managers, RestoreFails(m)
  PROVE  LedgerTruth' /\ TruthAt(m)'
<1>1. /\ UNCHANGED <<files, ledger, status, fd, active, kept, tools, dirty, ended, torn>>
      /\ task[m].kind \in Restores
      /\ task'[m].kind = task[m].kind /\ task'[m].turn = task[m].turn
      /\ task'[m].place = task[m].place /\ task'[m].recs = task[m].recs
      /\ task'[m].todo = task[m].todo /\ task'[m].keep = task[m].keep
      /\ task'[m].conflict = TRUE
  BY RestoreFailsIs
<1>2. Step(m) /\ ~Exit(m)
  <2>1. task[m].kind # "none"
    BY <1>1 DEF Restores
  <2>2. Live(m)
    BY <2>1 DEF Life, LifeAt, Vacant, NoTask
  <2> QED BY <2>2 DEF Step, Exit, Live
<1>3. Live(m)
  BY <1>2, StepIsLive DEF RestoreFails, RestoreAt, OpenManager, Life, LifeAt, Vacant, NoTask, Live
<1>4. /\ LedgerTruth /\ ActiveTruth(m) /\ KeptTruth(m) /\ TaskTruth(m)
      /\ Base(m)' = Base(m)
  BY <1>1, <1>3 DEF Truth, TruthAt, Base, Open
<1>5. \A u \in Turns : Calm(u)
  BY <1>1, <1>2, StillCalm
<1>6. LedgerTruth'
  BY <1>1, <1>4, <1>5, StillLedger
<1>7. KeptTruth(m)'
  BY <1>1, <1>4, <1>5, CalmKept, SaysItself DEF In
<1>8. ActiveTruth(m)'
  <2>1. active[m].id # None => active[m].id \in Turns
    BY DEF Shape, ActiveOK, Journal
  <2> QED BY <1>1, <1>4, <1>5, <2>1, CalmActive, SaysItself
<1>9. RestoreTruth(dirty', files', seen', task'[m], ledger')
  <2>1. task[m].turn \in Turns /\ Known(task[m].recs)
    BY <1>1, KnownRecords DEF Shape, TasksOK, TaskOK
  <2>2. RestoreTruth(dirty', files', seen', task[m], ledger)
    BY <1>1, <1>4, <1>5, <2>1, CalmRestore, SaysItself DEF TaskTruth
  <2> QED BY <1>1, <2>2 DEF RestoreTruth
<1>10. task[m].kind = "recover" => ScanTruth(dirty', files', seen', loose', task'[m])
  <2>1. ASSUME task[m].kind = "recover"
        PROVE  /\ TrueList(dirty', files', seen', task[m].todo)
               /\ TrueList(dirty', files', seen', task[m].keep)
    BY <1>4, <1>5, <2>1, CalmScan DEF TaskTruth, ScanTruth
  <2>2. \A u \in Turns : loose'[u] \subseteq loose[u]
    BY <1>5 DEF Calm
  <2> QED BY <1>1, <1>4, <2>1, <2>2 DEF TaskTruth, ScanTruth
<1>11. TaskTruth(m)'
  BY <1>1, <1>9, <1>10 DEF TaskTruth, Restores
<1> QED BY <1>6, <1>7, <1>8, <1>11 DEF TruthAt

\* The end of a Rollback or a Revert keeps the records right about the files.
LEMMA EndsTruth ==
  ASSUME ~Shared, Shape, Life, Standing, Truth, NEW m \in Managers,
         RollbackEnds(m) \/ RevertEnds(m)
  PROVE  LedgerTruth' /\ TruthAt(m)'
<1> DEFINE t == task[m].turn
<1>1. /\ Open(m) /\ t \in Turns /\ task'[m] = NoTask /\ task[m].order = <<>>
      /\ task[m].kind \in {"rollback", "revert"}
      /\ UNCHANGED <<files, status, active, tools, dirty, ended, torn>>
      /\ ledger' = ledger \/ (ledger' = Settle(ledger, t) /\ ~task[m].conflict)
  BY RollbackEndsDoes, RevertEndsDoes
<1>2. \E w \in Places : \E j :
        /\ Keep(m, w, t, j)
        /\ j = NoJournal \/ j.recs = task[m].recs
        /\ task[m].kind = "rollback" => w = "unresolved"
        /\ task[m].kind = "revert" => w = task[m].place
        /\ w = "committed" => t \in In(m, w)
  <2>1. CASE RollbackEnds(m)
    BY <2>1, RollbackEndsDoes DEF Places
  <2>2. CASE RevertEnds(m)
    <3>1. task[m].place \in Places /\ t \in In(m, task[m].place)
      BY <1>1, <2>2, RevertEndsDoes, OpenTruth DEF StandingAt, Doing, Places
    <3> QED BY <2>2, <3>1, RevertEndsDoes
  <2> QED BY <2>1, <2>2
<1>20. PICK w \in Places : \E j :
        /\ Keep(m, w, t, j)
        /\ j = NoJournal \/ j.recs = task[m].recs
        /\ task[m].kind = "rollback" => w = "unresolved"
        /\ task[m].kind = "revert" => w = task[m].place
        /\ w = "committed" => t \in In(m, w)
  BY <1>2
<1>3. PICK j :
        /\ Keep(m, w, t, j)
        /\ j = NoJournal \/ j.recs = task[m].recs
        /\ task[m].kind = "rollback" => w = "unresolved"
        /\ task[m].kind = "revert" => w = task[m].place
        /\ w = "committed" => t \in In(m, w)
  BY <1>20
<1>4. Step(m)
  BY Zenon DEF Step
<1>5. \A u \in Turns : Calm(u)
  BY <1>1, <1>4, OpenTruth, StillCalm
<1>6. /\ RestoreTruth(dirty, files, seen, task[m], ledger)
      /\ LedgerTruth /\ ActiveTruth(m) /\ KeptTruth(m) /\ Base(m) = ledger /\ Base(m)' = ledger'
  BY <1>1, OpenTruth DEF Restores, Base, Open
<1>7. ~task[m].conflict => Clear(dirty[t])
  BY <1>1, <1>6 DEF RestoreTruth, Occurs, Clear
<1>8. /\ \A k \in DOMAIN ledger' : \E i \in DOMAIN ledger : ledger'[k] = ledger[i]
      /\ \A i \in DOMAIN ledger : ledger' = ledger \/ ledger[i].id = t \/
           \E k \in DOMAIN ledger' : ledger'[k] = ledger[i]
  <2>1. CASE ledger' = ledger
    BY <2>1
  <2>2. CASE ledger' = Settle(ledger, t)
    <3>1. /\ \A k \in DOMAIN ledger' : \E i \in DOMAIN ledger : ledger[i].id # t /\ ledger'[k] = ledger[i]
          /\ \A i \in DOMAIN ledger : ledger[i].id # t =>
               \E k \in DOMAIN ledger' : ledger'[k] = ledger[i]
      BY <2>2, SettleList DEF Shape
    <3> QED BY <3>1
  <2> QED BY <1>1, <2>1, <2>2
<1>9. LedgerTruth'
  <2>1. ASSUME NEW k \in DOMAIN ledger'
        PROVE  \E i \in DOMAIN ledger : SameEntry(ledger'[k], ledger[i]) /\ Calm(ledger[i].id)
    BY <1>5, <1>8, LedgerIds DEF SameEntry
  <2>2. ASSUME NEW u \in Turns
        PROVE  Pending(ledger', u) \/ Clear(dirty'[u]) \/ ~Pending(ledger, u)
    BY <1>1, <1>7, <1>8 DEF Pending
  <2> QED BY <1>1, <1>5, <1>6, <2>1, <2>2, CalmLedger
<1>10. \A u : SaysSame(ledger', ledger, u)
  BY <1>8 DEF SaysSame
<1>11. ActiveTruth(m)'
  BY <1>1, <1>5, <1>6, <1>10, OpenTruth, CalmActive
<1>12. ASSUME j # NoJournal
       PROVE  PlaceTruth(dirty', files', seen', w, t, j.recs, ledger')
  <2>1. Known(task[m].recs) /\ j.recs = task[m].recs
    BY <1>3, <1>12, KnownRecords
  <2>2. RestoreTruth(dirty', files', seen', task[m], ledger')
    BY <1>1, <1>5, <1>6, <1>10, <2>1, CalmRestore DEF Restores
  <2>3. w = "committed" => Clear(dirty'[t])
    BY <1>1, <1>3, <1>6 DEF KeptTruth, PlaceTruth
  <2>4. task[m].kind = "revert" => task[m].place \in {"committed", "draft"}
    BY DEF Shape, TasksOK, TaskOK
  <2>5. w = "draft" => Copy(dirty', files', seen', t, task[m].recs, ledger')
    BY <1>1, <1>3, <2>2 DEF RestoreTruth
  <2>6. w = "unresolved" => Fair(dirty'[t], files', task[m].recs)
    BY <1>1, <1>3, <2>2, <2>4 DEF RestoreTruth
  <2> QED BY <2>1, <2>3, <2>5, <2>6 DEF PlaceTruth
<1>13. KeptTruth(m)'
  <2>1. ASSUME NEW v \in Places, NEW u \in Turns, u \in In(m, v)'
        PROVE  \/ PlaceTruth(dirty', files', seen', v, u, kept'[m][v][u].recs, Base(m)')
               \/ u \in In(m, v) /\ kept'[m][v][u] = kept[m][v][u]
    <3>1. /\ kept'[m][v][u] = IF v = w /\ u = t THEN j ELSE kept[m][v][u]
          /\ u \in In(m, v)' <=> IF v = w /\ u = t THEN j # NoJournal ELSE u \in In(m, v)
      BY <1>1, <1>3, KeepIn DEF Shape
    <3> QED BY <1>6, <1>12, <2>1, <3>1
  <2> QED BY <1>5, <1>6, <1>10, <2>1, CalmKept
<1> QED BY <1>1, <1>9, <1>11, <1>13, NoTaskTruth DEF TruthAt

\* The accepted turn has nothing left to undo; the others are as they were.
LEMMA AcceptCalm ==
  ASSUME ~Shared, Shape, Life, NEW m \in Managers, Step(m), ~Exit(m), NEW t \in Turns,
         dirty' = [dirty EXCEPT ![t] = [p \in Paths |-> None]],
         UNCHANGED <<files, torn, tools>>,
         \A p \in Paths : tools[m][p] = "written" => active'[m].id = active[m].id
  PROVE  Clear(dirty'[t]) /\ \A u \in Turns : u # t => Calm(u)
<1>1. Clear(dirty'[t]) /\ \A u \in Turns : u # t => dirty'[u] = dirty[u]
  BY DEF Clear, Shape, Plain
<1>2. ASSUME NEW u \in Turns, u # t PROVE Calm(u)
  <2>1. \A p \in Paths : Fade(dirty[u][p], dirty'[u][p], files[p], files'[p])
    BY <1>1, <1>2, SameFade
  <2>2. \A p \in Paths : InFlight(u, p) => InFlight(u, p)'
    BY OwnFlight
  <2> QED BY <2>1, <2>2, CalmWhen, StepShape
<1> QED BY <1>1, <1>2

\* Committing turn t in the ledger, where the others stay as they are.
LEMMA CommittedLedger ==
  ASSUME Shape, LedgerTruth, NEW t \in Turns, ledger' = Committed(ledger, t),
         Clear(dirty'[t]), \A u \in Turns : u # t => Calm(u), ended \subseteq ended'
  PROVE  LedgerTruth' /\ \A u : u # t => SaysSame(ledger', ledger, u)
<1>1. SamePlaces(ledger', ledger) /\ IsCommitted(ledger', ledger, t)
  BY CommittedList DEF Shape
<1>2. DOMAIN ledger' = DOMAIN ledger
  BY <1>1 DEF SamePlaces
<1>3. \A i \in DOMAIN ledger :
        /\ ledger[i].id # t => ledger'[i] = ledger[i]
        /\ ledger'[i].id = ledger[i].id
        /\ ledger[i].id = t => ledger'[i].committed
  BY <1>1 DEF IsCommitted
<1>4. \A k \in DOMAIN ledger' :
        \/ TrueEntry(dirty', files', seen', ledger'[k])
        \/ \E i \in DOMAIN ledger : SameEntry(ledger'[k], ledger[i]) /\ Calm(ledger[i].id)
  <2> TAKE k \in DOMAIN ledger'
  <2>1. CASE ledger[k].id = t
    BY <1>2, <1>3, <2>1 DEF TrueEntry
  <2>2. CASE ledger[k].id # t
    BY <1>2, <1>3, <2>2, LedgerIds DEF SameEntry
  <2> QED BY <2>1, <2>2
<1>5. \A u : Pending(ledger', u) <=> Pending(ledger, u)
  BY <1>2, <1>3 DEF Pending
<1>6. \A u : u # t => SaysSame(ledger', ledger, u)
  BY <1>2, <1>3 DEF SaysSame
<1>7. \A u \in Turns : Pending(ledger', u) \/ Clear(dirty'[u]) \/ ~Pending(ledger, u)
  BY <1>5
<1>8. \A u \in Turns : u # t => Calm(u) /\ (u \in ended => u \in ended')
  OBVIOUS
<1> QED BY <1>4, <1>6, <1>7, <1>8, CalmLedger

\* Manager.Commit: an accepted turn has nothing left to undo.
LEMMA CommitTruth ==
  ASSUME ~Shared, Shape, Life, Standing, Truth, NEW m \in Managers, NEW t \in Turns,
         Commit(m, t)
  PROVE  LedgerTruth' /\ TruthAt(m)'
<1>1. /\ Open(m) /\ active[m].id = t /\ t # None /\ tools[m] = Idle
      /\ ledger' = Committed(ledger, t) /\ active'[m] = NoJournal
      /\ Keep(m, "committed", t, Finished(active[m]))
      /\ ended' = ended \cup {t}
      /\ dirty' = [dirty EXCEPT ![t] = [p \in Paths |-> None]]
      /\ UNCHANGED <<files, status, tools, task, torn>>
  BY CommitDoes
<1>2. Step(m) /\ t \notin ended
  BY <1>1, OpenTruth DEF Step
<1>3. Clear(dirty'[t]) /\ \A u \in Turns : u # t => Calm(u)
  BY <1>1, <1>2, OpenTruth, AcceptCalm DEF Idle
<1>4. LedgerTruth' /\ \A u : u # t => SaysSame(ledger', ledger, u)
  BY <1>1, <1>3, OpenTruth, CommittedLedger
<1>5. KeptTruth(m)'
  <2>1. Base(m) = ledger /\ Base(m)' = ledger' /\ KeptTruth(m)
    BY <1>1, OpenTruth DEF Base, Open
  <2>2. ASSUME NEW v \in Places, NEW u \in Turns, u \in In(m, v)'
        PROVE  \/ PlaceTruth(dirty', files', seen', v, u, kept'[m][v][u].recs, Base(m)')
               \/ u \in In(m, v) /\ kept'[m][v][u] = kept[m][v][u] /\ u # t
    <3> DEFINE j == Finished(active[m])
    <3>1. Keep(m, "committed", t, j)
      BY <1>1
    <3> HIDE DEF j
    <3>2. /\ kept'[m][v][u] = IF v = "committed" /\ u = t THEN j ELSE kept[m][v][u]
          /\ u \in In(m, v)' <=> IF v = "committed" /\ u = t THEN j # NoJournal
                                 ELSE u \in In(m, v)
      BY <3>1, KeepIn DEF Shape, Places
    <3>3. CASE v = "committed" /\ u = t
      BY <1>3, <3>3 DEF PlaceTruth
    <3>4. CASE ~(v = "committed" /\ u = t)
      BY <1>1, <1>2, <2>2, <3>2, <3>4, OpenTruth
    <3> QED BY <3>3, <3>4
  <2> QED BY <1>3, <1>4, <2>1, <2>2, CalmKept
<1>6. TaskTruth(m)'
  BY <1>1, <1>2, <1>3, <1>4, OpenTruth, SameTask
<1> QED BY <1>1, <1>4, <1>5, <1>6, NoActiveTruth DEF TruthAt

\* KeepDraft: an accepted draft has nothing left to undo.
LEMMA KeepDraftTruth ==
  ASSUME ~Shared, Shape, Life, Standing, Truth, NEW m \in Managers, NEW t \in Turns,
         KeepDraft(m, t)
  PROVE  LedgerTruth' /\ TruthAt(m)'
<1>1. /\ Open(m) /\ t \in In(m, "draft") /\ ~Restoring(m, t)
      /\ ledger' = Committed(ledger, t) /\ ended' = ended \cup {t}
      /\ dirty' = [dirty EXCEPT ![t] = [p \in Paths |-> None]]
      /\ UNCHANGED <<files, status, active, tools, task, torn>>
      /\ \A v \in Places, u \in Turns :
           kept'[m][v][u] = IF v = "draft" /\ u = t THEN NoJournal
                            ELSE IF v = "committed" /\ u = t THEN kept[m]["draft"][t]
                            ELSE kept[m][v][u]
  BY KeepDraftDoes
<1>2. Step(m)
  BY DEF Step
<1>3. Clear(dirty'[t]) /\ \A u \in Turns : u # t => Calm(u)
  BY <1>1, <1>2, OpenTruth, AcceptCalm
<1>4. LedgerTruth' /\ \A u : u # t => SaysSame(ledger', ledger, u)
  BY <1>1, <1>3, OpenTruth, CommittedLedger
<1>5. /\ t \in ended /\ active[m].id # t
      /\ task[m].kind \in Restores => task[m].turn # t
  <2>1. t \in ended /\ StandingAt(m) /\ task[m].kind \in {"none", "rollback", "revert"}
    BY <1>1, OpenTruth DEF Places
  <2>2. active[m].id # t
    BY <1>1, <2>1, OpenTruth, JournalConstants
  <2> QED BY <1>1, <2>1, <2>2 DEF StandingAt, Doing, Restoring, Restores
<1>6. ActiveTruth(m)'
  <2>1. active[m].id # None =>
          \A p \in Paths : dirty'[active[m].id][p] = dirty[active[m].id][p]
    BY <1>1, <1>5, OpenTruth DEF Shape, Plain
  <2> QED BY <1>1, <1>3, <1>4, <1>5, <2>1, OpenTruth, CalmActive
<1>7. KeptTruth(m)'
  <2>1. Base(m) = ledger /\ Base(m)' = ledger' /\ KeptTruth(m) /\ Shelved(m)
    BY <1>1, OpenTruth DEF Base, Open, StandingAt
  <2>2. ASSUME NEW v \in Places, NEW u \in Turns, u \in In(m, v)'
        PROVE  \/ PlaceTruth(dirty', files', seen', v, u, kept'[m][v][u].recs, Base(m)')
               \/ u \in In(m, v) /\ kept'[m][v][u] = kept[m][v][u] /\ u # t
    <3>1. u \in In(m, v)' <=> kept'[m][v][u] # NoJournal
      BY DEF In
    <3>2. CASE v = "committed" /\ u = t
      BY <1>3, <3>2 DEF PlaceTruth
    <3>3. CASE v = "draft" /\ u = t
      BY <1>1, <2>2, <3>1, <3>3
    <3>4. CASE v = "unresolved" /\ u = t
      <4>1. u \in In(m, v)
        BY <1>1, <2>2, <3>1, <3>4 DEF In
      <4> QED BY <1>1, <2>1, <3>4, <4>1 DEF Shelved, Places
    <3>5. CASE u # t
      BY <1>1, <2>2, <3>1, <3>5 DEF In
    <3> QED BY <3>2, <3>3, <3>4, <3>5 DEF Places
  <2> QED BY <1>3, <1>4, <2>1, <2>2, CalmKept
<1>8. TaskTruth(m)'
  BY <1>1, <1>3, <1>4, <1>5, OpenTruth, SameTask
<1> QED BY <1>4, <1>6, <1>7, <1>8 DEF TruthAt

\* Forgetting what a turn left as it found it is calm.
LEMMA UndoneCalm ==
  ASSUME ~Shared, Shape, Life, NEW m \in Managers, Step(m), ~Exit(m), NEW t \in Turns,
         dirty' = Undone(t), UNCHANGED <<files, torn, tools>>,
         \A p \in Paths : tools[m][p] = "written" => active'[m].id = active[m].id
  PROVE  \A u \in Turns : Calm(u)
<1> TAKE u \in Turns
<1>1. ASSUME NEW p \in Paths
      PROVE  Fade(dirty[u][p], dirty'[u][p], files[p], files'[p])
  <2>1. dirty'[u][p] = dirty[u][p] \/ (dirty'[u][p] = None /\ dirty[u][p] = files[p].sha)
    BY DEF Undone, Shape, Plain
  <2> QED BY <2>1 DEF Fade
<1>2. \A p \in Paths : InFlight(u, p) => InFlight(u, p)'
  BY OwnFlight
<1> QED BY <1>1, <1>2, CalmWhen, StepShape

\* Paths that no tool is writing are seen as soon as they are loose.
LEMMA AllSeen ==
  ASSUME ~Shared, Shape, Life, NEW m \in Managers, Step(m), ~Exit(m), NEW t \in Turns,
         \A p \in Paths : active[m].id = t => tools[m][p] # "written"
  PROVE  seen[t] = loose[t]
<1>1. \A p \in Paths : ~InFlight(t, p)
  BY OwnFlight
<1>2. loose[t] \subseteq Paths
  BY DEF loose
<1>3. seen[t] = {p \in Paths : p \in loose[t] /\ ~InFlight(t, p)}
  BY DEF seen
<1> QED BY <1>1, <1>2, <1>3

\* Manager.Suspend keeps the records right about the files.
LEMMA SuspendTruth ==
  ASSUME ~Shared, Shape, Life, Standing, Truth, NEW m \in Managers, NEW t \in Turns,
         Suspend(m, t)
  PROVE  LedgerTruth' /\ TruthAt(m)'
<1>1. /\ Open(m) /\ active[m].id = t /\ t # None /\ tools[m] = Idle
      /\ t \notin ended /\ active'[m] = NoJournal
      /\ ended' = ended \cup {t}
      /\ UNCHANGED <<files, status, fd, tools, task, torn>>
      /\ \/ /\ ledger' = Drafted(ledger, t) /\ Keep(m, "draft", t, active[m])
            /\ dirty' = dirty
         \/ /\ ledger' = Settle(ledger, t) /\ kept' = kept
            /\ dirty' = Undone(t) /\ ~HasChanges(active[m].recs)
  BY SuspendDoes
<1>2. Step(m)
  BY DEF Step
<1>3. /\ Copy(dirty, files, seen, t, active[m].recs, ledger) /\ Known(active[m].recs)
      /\ Base(m) = ledger /\ Base(m)' = ledger' /\ KeptTruth(m) /\ LedgerTruth
  BY <1>1, OpenTruth, KnownRecords DEF ActiveTruth, Base, Open
<1>4. \A p \in Paths : tools[m][p] # "written"
  BY <1>1 DEF Idle
<1>5. \A u \in Turns : Calm(u)
  <2>1. CASE dirty' = dirty
    BY <1>1, <1>2, <1>4, <2>1, OpenTruth, StillCalm
  <2>2. CASE dirty' = Undone(t)
    BY <1>1, <1>2, <1>4, <2>2, OpenTruth, UndoneCalm
  <2> QED BY <1>1, <2>1, <2>2
<1>6. CASE ledger' = Drafted(ledger, t) /\ Keep(m, "draft", t, active[m])
  <2>1. SamePlaces(ledger', ledger) /\ IsDrafted(ledger', ledger, t)
    BY <1>6, DraftedList DEF Shape
  <2>2. /\ DOMAIN ledger' = DOMAIN ledger
        /\ \A i \in DOMAIN ledger :
             /\ ledger[i].id # t => ledger'[i] = ledger[i]
             /\ ledger'[i].id = ledger[i].id /\ ledger'[i].recs = ledger[i].recs
             /\ ledger'[i].committed = ledger[i].committed
    BY <2>1 DEF SamePlaces, IsDrafted
  <2>3. \A u : SaysSame(ledger', ledger, u)
    BY <2>2 DEF SaysSame
  <2>4. Copy(dirty', files', seen', t, active[m].recs, ledger')
    <3>1. Copy(dirty', files', seen', t, active[m].recs, ledger)
      BY <1>3, <1>5, CalmCopy
    <3> QED BY <2>3, <3>1, CopyOf
  <2>5. ASSUME NEW k \in DOMAIN ledger', ledger[k].id = t
        PROVE  TrueEntry(dirty', files', seen', ledger'[k])
    <3>1. Shows(seen'[t], ledger'[k].recs)
      BY <2>2, <2>4, <2>5 DEF Copy
    <3>2. TrueEntry(dirty, files, seen, ledger[k]) /\ Known(ledger[k].recs)
      BY <1>3, <2>2, KnownRecords DEF LedgerTruth, TrueList, KnownList
    <3>3. TrueEntry(dirty', files', seen', ledger[k])
      BY <1>5, <2>5, <3>2, CalmEntry
    <3> QED BY <2>2, <2>5, <3>1, <3>3 DEF TrueEntry
  <2>6. LedgerTruth'
    <3>1. \A k \in DOMAIN ledger' :
            \/ TrueEntry(dirty', files', seen', ledger'[k])
            \/ \E i \in DOMAIN ledger : SameEntry(ledger'[k], ledger[i]) /\ Calm(ledger[i].id)
      BY <1>5, <2>2, <2>5, LedgerIds DEF SameEntry
    <3>2. \A u \in Turns : Pending(ledger', u) \/ ~Pending(ledger, u)
      BY <2>2 DEF Pending
    <3> QED BY <1>1, <1>3, <1>5, <3>1, <3>2, CalmLedger
  <2>7. KeptTruth(m)'
    <3>1. ASSUME NEW v \in Places, NEW u \in Turns, u \in In(m, v)'
          PROVE  \/ PlaceTruth(dirty', files', seen', v, u, kept'[m][v][u].recs, Base(m)')
                 \/ u \in In(m, v) /\ kept'[m][v][u] = kept[m][v][u]
      <4>1. /\ kept'[m][v][u] = IF v = "draft" /\ u = t THEN active[m] ELSE kept[m][v][u]
            /\ u \in In(m, v)' <=> IF v = "draft" /\ u = t THEN active[m] # NoJournal
                                   ELSE u \in In(m, v)
        BY <1>6, KeepIn DEF Shape, Places
      <4> QED BY <1>3, <2>4, <3>1, <4>1 DEF PlaceTruth
    <3> QED BY <1>3, <1>5, <2>3, <3>1, CalmKept
  <2>8. TaskTruth(m)'
    BY <1>1, <1>5, <2>3, OpenTruth, SameTask
  <2> QED BY <1>1, <2>6, <2>7, <2>8, NoActiveTruth DEF TruthAt
<1>7. CASE /\ ledger' = Settle(ledger, t) /\ kept' = kept /\ ~HasChanges(active[m].recs)
  <2>1. loose'[t] = {}
    <3>1. seen[t] = loose[t]
      BY <1>1, <1>2, <1>4, OpenTruth, AllSeen
    <3>2. seen[t] \subseteq Paths
      BY DEF seen
    <3>3. seen[t] = {}
      BY <1>3, <1>7, <3>2 DEF Copy, Shows, HasChanges
    <3> QED BY <1>5, <3>1, <3>3 DEF Calm
  <2>2. /\ \A k \in DOMAIN ledger' : \E i \in DOMAIN ledger : ledger[i].id # t /\ ledger'[k] = ledger[i]
        /\ \A i \in DOMAIN ledger : ledger[i].id # t =>
             \E k \in DOMAIN ledger' : ledger'[k] = ledger[i]
    BY <1>7, SettleList DEF Shape
  <2>3. \A u : SaysSame(ledger', ledger, u)
    BY <2>2 DEF SaysSame
  <2>4. LedgerTruth'
    <3>1. \A k \in DOMAIN ledger' :
            \E i \in DOMAIN ledger : SameEntry(ledger'[k], ledger[i]) /\ Calm(ledger[i].id)
      BY <1>5, <2>2, LedgerIds DEF SameEntry
    <3>2. \A u \in Turns : u = t \/ Pending(ledger', u) \/ ~Pending(ledger, u)
      BY <2>2 DEF Pending
    <3>3. t \in ended' /\ \A u \in Turns : u \in ended => u \in ended'
      BY <1>1
    <3> QED BY <1>3, <1>5, <2>1, <3>1, <3>2, <3>3, CalmLedger
  <2>5. KeptTruth(m)'
    BY <1>3, <1>5, <1>7, <2>3, CalmKept DEF In
  <2>6. TaskTruth(m)'
    BY <1>1, <1>5, <2>3, OpenTruth, SameTask
  <2> QED BY <1>1, <2>4, <2>5, <2>6, NoActiveTruth DEF TruthAt
<1> QED BY <1>1, <1>6, <1>7

\* ResumeDraft: the recovery turn inherits the records with the baseline.
LEMMA ResumeDraftTruth ==
  ASSUME ~Shared, Merges = {}, Shape, Life, Standing, Truth, NEW m \in Managers,
         NEW s \in Turns, NEW t \in Turns, ResumeDraft(m, s, t)
  PROVE  LedgerTruth' /\ TruthAt(m)'
<1>1. /\ Open(m) /\ active[m] = NoJournal /\ s \in In(m, "draft") /\ ~Restoring(m, s)
      /\ t = s \/ t \notin ended
      /\ active'[m].id = t /\ active'[m].recs = kept[m]["draft"][s].recs
      /\ Keep(m, "draft", s, NoJournal)
      /\ ended' = ended \ {t}
      /\ \A u \in Turns : u # s /\ u # t => dirty'[u] = dirty[u]
      /\ dirty'[t] = dirty[s]
      /\ s # t => \A p \in Paths : dirty'[s][p] = None
      /\ torn' = {<<IF e[1] = s THEN t ELSE e[1], e[2]>> : e \in torn}
      /\ UNCHANGED <<files, status, tools, task>>
      /\ t = s => ledger' = ledger
      /\ t # s => SamePlaces(ledger', ledger) /\ IsResumed(ledger', ledger, s, t)
      /\ \A i \in DOMAIN ledger : ledger[i].id \in ended
  BY ResumeDraftDoes
<1> DEFINE recs == kept[m]["draft"][s].recs
<1>2. Step(m) /\ Shape'
  <2>1. Step(m)
    BY DEF Step
  <2> QED BY <2>1, StepShape
<1>3. /\ Copy(dirty, files, seen, s, recs, ledger) /\ Stands(ledger, s)
      /\ Base(m) = ledger /\ Base(m)' = ledger' /\ KeptTruth(m) /\ LedgerTruth
      /\ StandingAt(m) /\ ~Exit(m)
  <2>1. /\ Base(m) = ledger /\ Base(m)' = ledger' /\ KeptTruth(m) /\ LedgerTruth
        /\ StandingAt(m) /\ ~Exit(m)
    BY <1>1, OpenTruth DEF Base, Open
  <2>2. PlaceTruth(dirty, files, seen, "draft", s, recs, ledger)
    BY <1>1, <2>1 DEF KeptTruth, Places
  <2> QED BY <1>1, <2>1, <2>2 DEF PlaceTruth, StandingAt, Shelved
<1> HIDE DEF recs
<1>4. \A p \in Paths : tools[m][p] = "idle"
  BY <1>1, IdleTools
<1>5. ASSUME NEW u \in Turns, u # s, u # t PROVE Calm(u)
  <2>1. \A p \in Paths : Fade(dirty[u][p], dirty'[u][p], files[p], files'[p])
    BY <1>1, <1>5, SameFade
  <2>2. ASSUME NEW p \in Paths, <<u, p>> \in torn PROVE <<u, p>> \in torn'
    <3> DEFINE e == <<u, p>>
    <3>1. e \in torn /\ e[1] = u /\ e[2] = p
      BY <2>2
    <3>2. <<IF e[1] = s THEN t ELSE e[1], e[2]>> \in torn'
      BY <1>1, <3>1
    <3> QED BY <1>5, <3>1, <3>2
  <2>3. \A p \in Paths : InFlight(u, p) => InFlight(u, p)'
    BY <1>2, <1>3, <1>4, OwnFlight
  <2> QED BY <1>2, <2>1, <2>2, <2>3, CalmWhen
<1>6. seen'[t] \subseteq seen[s]
  <2>1. loose'[t] \subseteq loose[s]
    <3>1. ASSUME NEW p \in Paths, <<s, p>> \in torn PROVE <<t, p>> \in torn'
      <4> DEFINE e == <<s, p>>
      <4>1. e \in torn /\ e[1] = s /\ e[2] = p
        BY <3>1
      <4>2. <<IF e[1] = s THEN t ELSE e[1], e[2]>> \in torn'
        BY <1>1, <4>1
      <4> QED BY <4>1, <4>2
    <3>2. \A p \in Paths : Holds(t, p)' => Holds(s, p)
      BY <1>1 DEF Holds
    <3> QED BY <3>1, <3>2 DEF loose
  <2>2. seen[s] = loose[s]
    BY <1>2, <1>3, <1>4, AllSeen
  <2> QED BY <2>1, <2>2, SeenLoose
<1>7. /\ DOMAIN ledger' = DOMAIN ledger
      /\ \A i \in DOMAIN ledger :
           /\ ledger[i].id = s => /\ ledger'[i].id = t /\ ledger'[i].recs = ledger[i].recs
                                  /\ ledger'[i].committed = ledger[i].committed
           /\ ledger[i].id # s => ledger'[i] = ledger[i] /\ ledger[i].id # t
  <2>1. CASE t = s
    BY <1>1, <2>1
  <2>2. CASE t # s
    BY <1>1, <2>2 DEF SamePlaces, IsResumed
  <2> QED BY <2>1, <2>2
<1>8. ASSUME NEW i \in DOMAIN ledger, ledger[i].id = s
      PROVE  /\ TrueEntry(dirty', files', seen', ledger'[i])
             /\ Shows(seen'[t], ledger'[i].recs) /\ Backs(recs, ledger'[i].recs)
  <2>1. Shows(seen[s], ledger[i].recs) /\ Backs(recs, ledger[i].recs)
    BY <1>3, <1>8 DEF Copy
  <2>2. Shows(seen'[t], ledger[i].recs)
    BY <1>6, <2>1 DEF Shows
  <2>3. TrueEntry(dirty, files, seen, ledger[i])
    BY <1>3 DEF LedgerTruth, TrueList
  <2>4. /\ ledger'[i].id = t /\ ledger'[i].recs = ledger[i].recs
        /\ ledger'[i].committed = ledger[i].committed
    BY <1>7, <1>8
  <2> QED BY <1>1, <1>8, <2>1, <2>2, <2>3, <2>4 DEF TrueEntry
<1>9. LedgerTruth'
  <2>1. \A k \in DOMAIN ledger' :
          \/ TrueEntry(dirty', files', seen', ledger'[k])
          \/ \E i \in DOMAIN ledger : SameEntry(ledger'[k], ledger[i]) /\ Calm(ledger[i].id)
    BY <1>5, <1>7, <1>8, LedgerIds DEF SameEntry
  <2>2. Pending(ledger', t)
    BY <1>3, <1>7 DEF Stands, Pending
  <2>3. \A u \in Turns : u = s \/ u = t \/ Pending(ledger', u) \/ ~Pending(ledger, u)
    BY <1>7 DEF Pending
  <2>4. s = t \/ Clear(dirty'[s])
    BY <1>1 DEF Clear
  <2>5. \A u \in Turns : u # t => (u \in ended => u \in ended')
    BY <1>1
  <2> QED BY <1>3, <1>5, <2>1, <2>2, <2>3, <2>4, <2>5, CalmLedger
<1>10. ActiveTruth(m)'
  <2>1. Fair(dirty'[t], files', recs) /\ Shows(seen'[t], recs)
    BY <1>1, <1>3, <1>6 DEF Copy, Shows
  <2>2. ASSUME NEW k \in DOMAIN ledger', ledger'[k].id = t
        PROVE  Shows(seen'[t], ledger'[k].recs) /\ Backs(recs, ledger'[k].recs)
    BY <1>7, <1>8, <2>2
  <2>3. Copy(dirty', files', seen', t, recs, ledger')
    BY <2>1, <2>2 DEF Copy
  <2> QED BY <1>1, <1>4, <2>3 DEF ActiveTruth, ToolTruth, recs
<1>11. \A u : u # s /\ u # t => SaysSame(ledger', ledger, u)
  BY <1>7 DEF SaysSame
<1>12. KeptTruth(m)'
  <2>1. ASSUME NEW v \in Places, NEW u \in Turns, u \in In(m, v)'
        PROVE  u \in In(m, v) /\ kept'[m][v][u] = kept[m][v][u] /\ u # s /\ u # t
    <3>1. /\ kept'[m][v][u] = IF v = "draft" /\ u = s THEN NoJournal ELSE kept[m][v][u]
          /\ u \in In(m, v)' <=> IF v = "draft" /\ u = s THEN NoJournal # NoJournal
                                 ELSE u \in In(m, v)
      BY <1>1, KeepIn DEF Shape, Places
    <3>2. u \in In(m, v) /\ ~(v = "draft" /\ u = s) /\ kept'[m][v][u] = kept[m][v][u]
      BY <2>1, <3>1
    <3>3. u \in ended /\ u # s
      BY <1>1, <1>3, <3>2 DEF StandingAt, Shelved, Places
    <3> QED BY <1>1, <3>2, <3>3
  <2> QED BY <1>3, <1>5, <1>11, <2>1, CalmKept
<1>13. TaskTruth(m)'
  <2>1. task[m].kind \in Restores => task[m].turn # s /\ task[m].turn # t
    BY <1>1, <1>3, OpenTruth DEF StandingAt, Doing, Restoring, Restores
  <2> QED BY <1>1, <1>5, <1>11, <2>1, OpenTruth, SameTask
<1> QED BY <1>9, <1>10, <1>12, <1>13 DEF TruthAt

-----------------------------------------------------------------------------
(* Truth: the steps of a tool *)

\* What is left to show for a step on the active turn's records.
LEMMA ToolStepTruth ==
  ASSUME Shape, Life, Standing, Truth, NEW m \in Managers, Open(m), NEW t \in Turns,
         active[m].id = t, UNCHANGED <<kept, task, status, ended>>,
         \A u \in Turns : u # t => Calm(u),
         DOMAIN ledger' = DOMAIN ledger,
         \A i \in DOMAIN ledger : /\ ledger'[i].id = ledger[i].id
                                  /\ ledger[i].id # t => ledger'[i] = ledger[i],
         \A i \in DOMAIN ledger : ledger[i].id = t =>
           TrueEntry(dirty', files', seen', ledger'[i]),
         ActiveTruth(m)'
  PROVE  LedgerTruth' /\ TruthAt(m)'
<1>1. /\ Base(m) = ledger /\ Base(m)' = ledger' /\ KeptTruth(m) /\ LedgerTruth
      /\ StandingAt(m) /\ t # None
  BY OpenTruth, JournalConstants DEF Base, Open
<1>2. Pending(ledger', t)
  BY <1>1 DEF StandingAt, Current, Stands, Pending
<1>3. LedgerTruth'
  <2>1. \A k \in DOMAIN ledger' :
          \/ TrueEntry(dirty', files', seen', ledger'[k])
          \/ \E i \in DOMAIN ledger : SameEntry(ledger'[k], ledger[i]) /\ Calm(ledger[i].id)
    BY LedgerIds DEF SameEntry
  <2>2. \A u \in Turns : Pending(ledger', u) \/ ~Pending(ledger, u)
    BY DEF Pending
  <2> QED BY <1>1, <1>2, <2>1, <2>2, CalmLedger
<1>4. \A u : u # t => SaysSame(ledger', ledger, u)
  BY DEF SaysSame
<1>5. KeptTruth(m)'
  <2>1. ASSUME NEW v \in Places, NEW u \in Turns, u \in In(m, v)'
        PROVE  u \in In(m, v) /\ kept'[m][v][u] = kept[m][v][u] /\ u # t
    BY <1>1, <2>1, OpenTruth DEF In
  <2> QED BY <1>1, <1>4, <2>1, CalmKept
<1>6. TaskTruth(m)'
  BY <1>1, <1>4, OpenTruth, SameTask
<1> QED BY <1>3, <1>5, <1>6 DEF TruthAt

\* What the active turn and its entry in the ledger know of each other.
LEMMA ActiveEntry ==
  ASSUME Shape, Life, Standing, Truth, NEW m \in Managers, Open(m), NEW t \in Turns,
         active[m].id = t
  PROVE  /\ t # None /\ t \notin ended
         /\ Copy(dirty, files, seen, t, active[m].recs, ledger)
         /\ \A p \in Paths : ToolTruth(files[p], tools[m][p], active[m].recs[p])
         /\ \A i \in DOMAIN ledger : ledger[i].id = t =>
              /\ ~ledger[i].committed /\ Fair(dirty[t], files, ledger[i].recs)
              /\ Shows(seen[t], ledger[i].recs) /\ Backs(active[m].recs, ledger[i].recs)
<1>1. t # None /\ t \notin ended
  BY OpenTruth, JournalConstants
<1>2. /\ Copy(dirty, files, seen, t, active[m].recs, ledger)
      /\ \A p \in Paths : ToolTruth(files[p], tools[m][p], active[m].recs[p])
  BY <1>1, OpenTruth DEF ActiveTruth
<1>3. ASSUME NEW i \in DOMAIN ledger, ledger[i].id = t
      PROVE  ~ledger[i].committed /\ TrueEntry(dirty, files, seen, ledger[i])
  BY <1>1, <1>3, OpenTruth DEF StandingAt, Current, Stands, Distinct, LedgerTruth, TrueList
<1> QED BY <1>1, <1>2, <1>3 DEF TrueEntry, Copy

\* One record replaced.
LEMMA Replaced ==
  ASSUME NEW recs \in [Paths -> Record], NEW p \in Paths, NEW r, NEW q,
         q = [recs EXCEPT ![p] = r]
  PROVE  /\ \A D, F : (\A x \in Paths : x # p => FairRecord(D[x], F[x], recs[x]))
                        /\ FairRecord(D[p], F[p], r) => Fair(D, F, q)
         /\ \A V : V \subseteq Paths /\ Shows(V \ {p}, recs) /\ (p \in V => Changed(r))
                     => Shows(V, q)
<1>1. q[p] = r /\ \A x \in Paths : x # p => q[x] = recs[x]
  OBVIOUS
<1>2. ASSUME NEW D, NEW F, \A x \in Paths : x # p => FairRecord(D[x], F[x], recs[x]),
             FairRecord(D[p], F[p], r)
      PROVE  Fair(D, F, q)
  BY <1>1, <1>2 DEF Fair
<1>3. ASSUME NEW V, V \subseteq Paths, Shows(V \ {p}, recs), p \in V => Changed(r)
      PROVE  Shows(V, q)
  BY <1>1, <1>3 DEF Shows
<1> QED BY <1>2, <1>3

\* A record replaced in memory and in the ledger, or in memory only.
LEMMA ReplacedBacks ==
  ASSUME NEW recs \in [Paths -> Record], NEW list \in [Paths -> Record],
         Backs(recs, list), NEW p \in Paths, NEW r, r # NoRecord
  PROVE  /\ Backs([recs EXCEPT ![p] = r], [list EXCEPT ![p] = r])
         /\ recs[p] # NoRecord /\ r.before = recs[p].before =>
              Backs([recs EXCEPT ![p] = r], list)
BY DEF Backs

\* Before: the first record of a path starts from what the file held.
LEMMA BeforeTruth ==
  ASSUME ~Shared, Shape, Life, Standing, Truth, NEW m \in Managers,
         NEW t \in Turns, NEW p \in Paths, Before(m, t, p)
  PROVE  LedgerTruth' /\ TruthAt(m)'
<1>1. /\ Open(m) /\ active[m].id = t /\ t \notin ended /\ tools[m][p] = "idle"
      /\ tools'[m][p] = "prepared"
      /\ \A q \in Paths : q # p => tools'[m][q] = tools[m][q]
      /\ UNCHANGED <<files, status, fd, kept, task, dirty, ended, torn>>
      /\ active'[m].id = t
  <2>1. Prepares(m, t, p)
    BY BeforeDoes
  <2>2. active'[m].id = t
    <3>1. CASE PreparesAgain(m, p)
      BY <2>1, <3>1 DEF Prepares, PreparesAgain
    <3>2. ASSUME NEW r \in Record, PreparesFirst(m, t, p, r) PROVE active'[m].id = t
      BY <3>2 DEF PreparesFirst
    <3> QED BY <3>1, <3>2, BeforeDoes
  <2> QED BY <2>1, <2>2 DEF Prepares
<1>2. Step(m) /\ ~Exit(m)
  BY <1>1 DEF Step, Exit, Open
<1>3. \A u \in Turns : Calm(u)
  BY <1>1, <1>2, StillCalm
<1> DEFINE recs == active[m].recs
<1>4. /\ t # None /\ Copy(dirty, files, seen, t, recs, ledger) /\ Known(recs)
      /\ \A q \in Paths : ToolTruth(files[q], tools[m][q], recs[q])
      /\ recs \in [Paths -> Record]
  BY <1>1, ActiveEntry, KnownRecords DEF Shape, ActiveOK, Journal
<1> HIDE DEF recs
<1>5. Copy(dirty', files', seen', t, recs, ledger)
  BY <1>3, <1>4, CalmCopy
<1>6. CASE PreparesAgain(m, p)
  <2>1. UNCHANGED <<ledger, active>>
    BY <1>6 DEF PreparesAgain
  <2>2. \A q \in Paths : ToolTruth(files'[q], tools'[m][q], recs[q])
    BY <1>1, <1>4, <2>1 DEF ToolTruth
  <2>3. ActiveTruth(m)'
    BY <1>1, <1>5, <2>1, <2>2 DEF ActiveTruth, recs
  <2>4. \A i \in DOMAIN ledger : TrueEntry(dirty', files', seen', ledger[i])
    BY <1>1, <1>3, <2>1, OpenTruth, StillLedger DEF LedgerTruth, TrueList
  <2> QED BY <1>1, <1>3, <2>1, <2>3, <2>4, ToolStepTruth
<1>7. ASSUME NEW r \in Record, PreparesFirst(m, t, p, r)
      PROVE  LedgerTruth' /\ TruthAt(m)'
  <2>1. /\ recs[p] = NoRecord /\ r # NoRecord /\ r.before = files[p] /\ r.after = files[p]
        /\ ledger' = RecordedIn(ledger, t, p, r)
        /\ active'[m].recs = [recs EXCEPT ![p] = r]
    BY <1>7 DEF PreparesFirst, recs
  <2>2. SamePlaces(ledger', ledger) /\ IsRecorded(ledger', ledger, t, p, r)
    BY <2>1, RecordedInList DEF Shape
  <2>3. /\ DOMAIN ledger' = DOMAIN ledger
        /\ \A i \in DOMAIN ledger :
             /\ ledger'[i].id = ledger[i].id
             /\ ledger'[i].committed = ledger[i].committed /\ ledger'[i].draft = ledger[i].draft
             /\ ledger[i].id # t => ledger'[i] = ledger[i]
             /\ ledger[i].id = t => ledger'[i].recs = [ledger[i].recs EXCEPT ![p] = r]
    BY <2>2 DEF SamePlaces, IsRecorded
  <2>4. dirty[t][p] = None /\ dirty'[t][p] = None
    BY <1>1, <1>4, <2>1, NoRecordClear DEF Copy
  <2>5. p \notin seen'[t] /\ seen'[t] \subseteq Paths
    <3>1. p \notin loose'[t]
      BY <2>4 DEF loose, Holds
    <3> QED BY <3>1, SeenLoose DEF seen
  <2>6. FairRecord(dirty'[t][p], files'[p], r)
    BY <1>1, <2>1, <2>4 DEF FairRecord, Changed
  <2>7. ASSUME NEW x \in [Paths -> Record], Fair(dirty'[t], files', x), Shows(seen'[t], x),
               NEW y, y = [x EXCEPT ![p] = r]
        PROVE  Fair(dirty'[t], files', y) /\ Shows(seen'[t], y)
    <3>1. \A q \in Paths : q # p => FairRecord(dirty'[t][q], files'[q], x[q])
      BY <2>7 DEF Fair
    <3>2. Shows(seen'[t] \ {p}, x)
      BY <2>7 DEF Shows
    <3> QED BY <2>5, <2>6, <2>7, <3>1, <3>2, Replaced
  <2>8. ASSUME NEW i \in DOMAIN ledger, ledger[i].id = t
        PROVE  /\ ledger[i].recs \in [Paths -> Record] /\ ~ledger[i].committed
               /\ Fair(dirty'[t], files', ledger[i].recs) /\ Shows(seen'[t], ledger[i].recs)
               /\ Backs(recs, ledger[i].recs)
    <3>1. ledger[i].recs \in [Paths -> Record] /\ Known(ledger[i].recs)
      BY KnownRecords DEF Shape, ListOK, EntryOK, PendingTurn, KnownList
    <3>2. /\ ~ledger[i].committed /\ Fair(dirty[t], files, ledger[i].recs)
          /\ Shows(seen[t], ledger[i].recs) /\ Backs(recs, ledger[i].recs)
      BY <1>1, <2>8, ActiveEntry DEF recs
    <3> QED BY <1>3, <3>1, <3>2, CalmFair
  <2>9. ASSUME NEW i \in DOMAIN ledger, ledger[i].id = t
        PROVE  /\ Fair(dirty'[t], files', ledger'[i].recs) /\ Shows(seen'[t], ledger'[i].recs)
               /\ Backs(active'[m].recs, ledger'[i].recs) /\ ~ledger'[i].committed
    <3>1. ledger'[i].recs = [ledger[i].recs EXCEPT ![p] = r] /\ ~ledger'[i].committed
      BY <2>3, <2>8, <2>9
    <3>2. Fair(dirty'[t], files', ledger'[i].recs) /\ Shows(seen'[t], ledger'[i].recs)
      BY <2>7, <2>8, <2>9, <3>1
    <3>3. Backs([recs EXCEPT ![p] = r], [ledger[i].recs EXCEPT ![p] = r])
      BY <1>4, <2>1, <2>8, <2>9, ReplacedBacks
    <3> QED BY <2>1, <3>1, <3>2, <3>3
  <2>10. Fair(dirty'[t], files', active'[m].recs) /\ Shows(seen'[t], active'[m].recs)
    BY <1>4, <1>5, <2>1, <2>7 DEF Copy
  <2>11. Copy(dirty', files', seen', t, active'[m].recs, ledger')
    BY <2>3, <2>9, <2>10 DEF Copy
  <2>12. \A q \in Paths : ToolTruth(files'[q], tools'[m][q], active'[m].recs[q])
    BY <1>1, <1>4, <2>1 DEF ToolTruth
  <2>13. ActiveTruth(m)'
    BY <1>1, <2>11, <2>12 DEF ActiveTruth
  <2>14. \A i \in DOMAIN ledger : ledger[i].id = t =>
           TrueEntry(dirty', files', seen', ledger'[i])
    BY <2>3, <2>9 DEF TrueEntry
  <2> QED BY <1>1, <1>3, <2>3, <2>13, <2>14, ToolStepTruth
<1> QED BY <1>6, <1>7, BeforeDoes

\* What a write does, path by path.
LEMMA ToolWriteDoes ==
  ASSUME Shape, NEW m \in Managers, NEW t \in Turns, NEW p \in Paths,
         NEW c \in Contents \cup {Absent}, ToolWrite(m, t, p, c)
  PROVE  /\ Open(m) /\ active[m].id = t /\ tools[m][p] = "prepared"
         /\ tools'[m][p] = "written"
         /\ \A q \in Paths : q # p => tools'[m][q] = tools[m][q] /\ files'[q] = files[q]
         /\ files'[p].id \notin UsedIds /\ files'[p] # files[p]
         /\ \A u \in Turns, q \in Paths : q # p => dirty'[u][q] = dirty[u][q]
         /\ \A u \in Turns : u # t =>
              dirty'[u][p] = IF dirty[u][p] = files[p].sha THEN None ELSE dirty[u][p]
         /\ LET r == active[m].recs[p] IN
              \/ dirty'[t][p] = dirty[t][p] /\ dirty[t][p] # None
              \/ dirty'[t][p] = r.before.sha /\ files[p] # r.after
              \/ dirty'[t][p] = files[p].sha /\ files[p] = r.after /\ dirty[t][p] = None
              \/ dirty'[t][p] = files[p].sha /\ dirty[t][p] = files[p].sha
         /\ UNCHANGED <<ledger, active, kept, task, status, fd, ended, torn>>
<1>1. /\ Open(m) /\ active[m].id = t /\ tools[m][p] = "prepared"
      /\ tools' = [tools EXCEPT ![m][p] = "written"]
      /\ files' = [files EXCEPT ![p] = Put(c)]
      /\ dirty' = [Taken(Clean(p), t, p, active[m].recs[p])
                     EXCEPT ![t][p] = IF @ = None THEN files[p].sha ELSE @]
      /\ UNCHANGED <<ledger, active, kept, task, status, fd, ended, torn>>
  BY DEF ToolWrite, Active, memory
<1>2. /\ files \in [Paths -> Fingerprint] /\ tools[m] \in [Paths -> {"idle", "prepared", "written"}]
      /\ dirty \in [Turns -> [Paths -> Contents \cup {Absent, None}]]
      /\ tools \in [Managers -> [Paths -> {"idle", "prepared", "written"}]]
  BY DEF Shape, Plain, ActiveOK
<1>3. files'[p].id = FreshId /\ \A q \in Paths : q # p => files'[q] = files[q]
  BY <1>1, <1>2 DEF Put
<1>4. FreshId \notin UsedIds
  BY ShapeTypes, Fresh
<1>5. files[p].id \in UsedIds
  BY DEF UsedIds
<1>6. /\ tools'[m][p] = "written"
      /\ \A q \in Paths : q # p => tools'[m][q] = tools[m][q]
  BY <1>1, <1>2
<1> DEFINE d == Clean(p)
<1>7. /\ d \in [Turns -> [Paths -> Contents \cup {Absent, None}]]
      /\ \A u \in Turns, q \in Paths : q # p => d[u][q] = dirty[u][q]
      /\ \A u \in Turns :
           d[u][p] = IF dirty[u][p] = files[p].sha THEN None ELSE dirty[u][p]
  BY <1>2 DEF Clean
<1> HIDE DEF d
<1> DEFINE x == active[m].recs[p]
           y == IF d[t][p] = None /\ files[p] # x.after THEN x.before.sha ELSE d[t][p]
<1>8. /\ \A u \in Turns, q \in Paths : q # p => dirty'[u][q] = d[u][q]
      /\ \A u \in Turns : u # t => dirty'[u][p] = d[u][p]
      /\ dirty'[t][p] = IF y = None THEN files[p].sha ELSE y
  <2> HIDE DEF x
  <2> DEFINE D == [d EXCEPT ![t][p] = y]
  <2>1. D = Taken(d, t, p, x)
    BY <1>7 DEF Taken
  <2>2. dirty' = [D EXCEPT ![t][p] = IF @ = None THEN files[p].sha ELSE @]
    BY <1>1, <2>1 DEF d, x
  <2>3. /\ DOMAIN D = Turns /\ \A u \in Turns : DOMAIN D[u] = Paths
        /\ D[t][p] = y /\ \A u \in Turns : u # t => D[u] = d[u]
        /\ \A q \in Paths : q # p => D[t][q] = d[t][q]
    BY <1>7
  <2> HIDE DEF D, y
  <2>4. dirty' = [D EXCEPT ![t][p] = IF y = None THEN files[p].sha ELSE y]
    BY <2>2, <2>3
  <2> QED BY <2>3, <2>4
<1>9. /\ \A u \in Turns, q \in Paths : q # p => dirty'[u][q] = dirty[u][q]
      /\ \A u \in Turns : u # t =>
           dirty'[u][p] = IF dirty[u][p] = files[p].sha THEN None ELSE dirty[u][p]
  BY <1>7, <1>8
<1>10. x.before.sha # None /\ files[p].sha # None
  <2>1. x \in Record /\ x # NoRecord
    BY <1>1 DEF Shape, ActiveOK, Journal
  <2> QED BY <1>2, <2>1, NoRecordTypes, JournalConstants DEF Fingerprint
<1>11. \/ dirty'[t][p] = dirty[t][p] /\ dirty[t][p] # None
       \/ dirty'[t][p] = x.before.sha /\ files[p] # x.after
       \/ dirty'[t][p] = files[p].sha /\ files[p] = x.after /\ dirty[t][p] = None
       \/ dirty'[t][p] = files[p].sha /\ dirty[t][p] = files[p].sha
  BY <1>7, <1>8, <1>10
<1> QED BY <1>1, <1>3, <1>4, <1>5, <1>6, <1>9, <1>11

\* The records of the turn that wrote are still right.
LEMMA WroteFair ==
  ASSUME NEW t \in Turns, NEW p \in Paths, NEW recs, Known(recs),
         Fair(dirty[t], files, recs), recs[p] # NoRecord,
         recs[p].before.sha = dirty'[t][p], files'[p].id \notin UsedIds,
         \A q \in Paths : q # p => files'[q] = files[q] /\ dirty'[t][q] = dirty[t][q]
  PROVE  Fair(dirty'[t], files', recs) /\ files'[p] # recs[p].after
<1>1. files'[p] # recs[p].after
  BY DEF Known
<1>2. FairRecord(dirty'[t][p], files'[p], recs[p])
  BY <1>1 DEF FairRecord
<1>3. \A q \in Paths : q # p => FairRecord(dirty'[t][q], files'[q], recs[q])
  BY DEF Fair
<1> QED BY <1>1, <1>2, <1>3 DEF Fair

\* A tool's write: the record prepared before it still says how to undo it.
LEMMA ToolWriteTruth ==
  ASSUME ~Shared, Shape, Life, Standing, Truth, NEW m \in Managers,
         NEW t \in Turns, NEW p \in Paths, NEW c \in Contents \cup {Absent},
         ToolWrite(m, t, p, c)
  PROVE  LedgerTruth' /\ TruthAt(m)'
<1>1. /\ Open(m) /\ active[m].id = t /\ tools[m][p] = "prepared"
      /\ tools'[m][p] = "written"
      /\ \A q \in Paths : q # p => tools'[m][q] = tools[m][q] /\ files'[q] = files[q]
      /\ files'[p].id \notin UsedIds /\ files'[p] # files[p]
      /\ \A u \in Turns, q \in Paths : q # p => dirty'[u][q] = dirty[u][q]
      /\ \A u \in Turns : u # t =>
           dirty'[u][p] = IF dirty[u][p] = files[p].sha THEN None ELSE dirty[u][p]
      /\ UNCHANGED <<ledger, active, kept, task, status, fd, ended, torn>>
  BY ToolWriteDoes
<1>2. Step(m) /\ ~Exit(m) /\ Shape'
  <2>1. Step(m)
    BY DEF Step
  <2> QED BY <1>1, <2>1, StepShape DEF Exit, Open
<1> DEFINE recs == active[m].recs
<1>3. /\ t # None /\ Copy(dirty, files, seen, t, recs, ledger) /\ Known(recs)
      /\ \A q \in Paths : ToolTruth(files[q], tools[m][q], recs[q])
      /\ recs \in [Paths -> Record] /\ recs[p] # NoRecord
  BY <1>1, ActiveEntry, KnownRecords DEF Shape, ActiveOK, Journal
<1> HIDE DEF recs
<1>4. recs[p].before.sha = dirty'[t][p]
  <2>1. FairRecord(dirty[t][p], files[p], recs[p])
    BY <1>3 DEF Copy, Fair
  <2>2. recs[p].before.sha # None
    <3>1. recs[p].before \in Fingerprint
      BY <1>3, NoRecordTypes DEF Record
    <3> QED BY <3>1, JournalConstants DEF Fingerprint
  <2>3. \/ dirty'[t][p] = dirty[t][p] /\ dirty[t][p] # None
        \/ dirty'[t][p] = recs[p].before.sha /\ files[p] # recs[p].after
        \/ dirty'[t][p] = files[p].sha /\ files[p] = recs[p].after /\ dirty[t][p] = None
        \/ dirty'[t][p] = files[p].sha /\ dirty[t][p] = files[p].sha
    BY ToolWriteDoes DEF recs
  <2>4. files[p].sha # None
    BY JournalConstants DEF Shape, Plain, Fingerprint
  <2> QED BY <1>3, <2>1, <2>2, <2>3, <2>4 DEF FairRecord, Changed
<1>5. ASSUME NEW u \in Turns, u # t PROVE Calm(u)
  <2>1. ASSUME NEW q \in Paths PROVE Fade(dirty[u][q], dirty'[u][q], files[q], files'[q])
    <3>1. CASE q = p
      BY <1>1, <1>5, <3>1 DEF Fade
    <3>2. CASE q # p
      BY <1>1, <3>2, SameFade
    <3> QED BY <3>1, <3>2
  <2>2. \A q \in Paths : ~InFlight(u, q)
    BY <1>1, <1>2, <1>5, OwnFlight
  <2> QED BY <1>1, <1>2, <2>1, <2>2, CalmWhen
<1>6. seen'[t] \subseteq seen[t] \ {p}
  <2>1. InFlight(t, p)'
    BY <1>1, <1>2, OwnFlight
  <2>2. \A q \in Paths : q # p => (InFlight(t, q)' <=> InFlight(t, q))
    BY <1>1, <1>2, OwnFlight
  <2>3. /\ seen'[t] = {q \in Paths : q \in loose'[t] /\ ~InFlight(t, q)'}
        /\ seen[t] = {q \in Paths : q \in loose[t] /\ ~InFlight(t, q)}
    BY DEF seen
  <2>4. \A q \in Paths : q # p => (q \in loose'[t] <=> q \in loose[t])
    BY <1>1 DEF loose, Holds
  <2> QED BY <2>1, <2>2, <2>3, <2>4
<1>7. Fair(dirty'[t], files', recs) /\ files'[p] # recs[p].after /\ Shows(seen'[t], recs)
  <2>1. Fair(dirty[t], files, recs) /\ Shows(seen[t], recs)
    BY <1>3 DEF Copy
  <2>2. Fair(dirty'[t], files', recs) /\ files'[p] # recs[p].after
    BY <1>1, <1>3, <1>4, <2>1, WroteFair
  <2> QED BY <1>6, <2>1, <2>2 DEF Shows
<1>8. ASSUME NEW i \in DOMAIN ledger, ledger[i].id = t
      PROVE  /\ Fair(dirty'[t], files', ledger[i].recs) /\ Shows(seen'[t], ledger[i].recs)
             /\ Backs(recs, ledger[i].recs) /\ ~ledger[i].committed
  <2>1. /\ ~ledger[i].committed /\ Fair(dirty[t], files, ledger[i].recs)
        /\ Shows(seen[t], ledger[i].recs) /\ Backs(recs, ledger[i].recs)
    BY <1>1, <1>8, ActiveEntry DEF recs
  <2>2. Known(ledger[i].recs)
    BY KnownRecords DEF KnownList
  <2>3. ledger[i].recs[p] # NoRecord /\ ledger[i].recs[p].before.sha = dirty'[t][p]
    BY <1>3, <1>4, <2>1 DEF Backs
  <2>4. Fair(dirty'[t], files', ledger[i].recs)
    BY <1>1, <2>1, <2>2, <2>3, WroteFair
  <2> QED BY <1>6, <2>1, <2>4 DEF Shows
<1>9. ActiveTruth(m)'
  <2>1. Copy(dirty', files', seen', t, recs, ledger')
    BY <1>1, <1>7, <1>8 DEF Copy
  <2>2. \A q \in Paths : ToolTruth(files'[q], tools'[m][q], recs[q])
    BY <1>1, <1>3, <1>4, <1>7 DEF ToolTruth
  <2> QED BY <1>1, <2>1, <2>2 DEF ActiveTruth, recs
<1>10. \A i \in DOMAIN ledger : ledger[i].id = t =>
         TrueEntry(dirty', files', seen', ledger'[i])
  BY <1>1, <1>8 DEF TrueEntry
<1> QED BY <1>1, <1>5, <1>9, <1>10, ToolStepTruth

\* AfterFingerprint: the record is right about what the tool left, also when
\* its append failed and the ledger's older record has to do.
LEMMA RecordsTruth ==
  ASSUME ~Shared, Shape, Life, Standing, Truth, NEW m \in Managers,
         NEW t \in Turns, NEW p \in Paths, After(m, t, p), NEW r \in Record,
         Reports(m, t, p), Records(m, t, p, r)
  PROVE  LedgerTruth' /\ TruthAt(m)'
<1> DEFINE recs == active[m].recs
<1>2. /\ Open(m) /\ active[m].id = t /\ tools[m][p] \in {"prepared", "written"}
      /\ tools'[m][p] = "idle" /\ recs[p] # NoRecord
      /\ \A q \in Paths : q # p => tools'[m][q] = tools[m][q]
      /\ UNCHANGED <<files, status, fd, kept, task, ended>>
      /\ \A u \in Turns, q \in Paths : u # t \/ q # p => dirty'[u][q] = dirty[u][q]
      /\ dirty'[t][p] = IF dirty[t][p] = None /\ files[p] # recs[p].after
                          THEN recs[p].before.sha ELSE dirty[t][p]
      /\ active'[m].id = t
      /\ r # NoRecord /\ r.before = recs[p].before /\ r.after = files[p]
      /\ active'[m].recs = [recs EXCEPT ![p] = r]
      /\ ledger' = RecordedIn(ledger, t, p, r) \/ ledger' = ledger
      /\ torn' = IF ledger' # ledger THEN torn \ {<<t, p>>}
                 ELSE IF r # recs[p] THEN torn \cup {<<t, p>>}
                 ELSE torn
  BY DEF Reports, Records
<1>3. Step(m) /\ ~Exit(m) /\ Shape'
  <2>1. Step(m)
    BY DEF Step
  <2> QED BY <1>2, <2>1, StepShape DEF Exit, Open
<1>4. /\ t # None /\ Copy(dirty, files, seen, t, recs, ledger)
      /\ \A q \in Paths : ToolTruth(files[q], tools[m][q], recs[q])
      /\ recs \in [Paths -> Record]
  BY <1>2, ActiveEntry DEF Shape, ActiveOK, Journal
<1> HIDE DEF recs
<1>5. \A u \in Turns, q \in Paths : u # t \/ q # p => (<<u, q>> \in torn' <=> <<u, q>> \in torn)
  BY <1>2
<1>6. ASSUME NEW u \in Turns, u # t PROVE Calm(u)
  <2>1. \A q \in Paths : Fade(dirty[u][q], dirty'[u][q], files[q], files'[q])
    BY <1>2, <1>6, SameFade
  <2>2. \A q \in Paths : ~InFlight(u, q)
    BY <1>2, <1>3, <1>6, OwnFlight
  <2> QED BY <1>3, <1>5, <1>6, <2>1, <2>2, CalmWhen
<1>7. /\ seen'[t] \subseteq Paths /\ seen'[t] \ {p} \subseteq seen[t]
      /\ p \in seen'[t] =>
           /\ Holds(t, p)' /\ <<t, p>> \notin torn'
           /\ tools[m][p] = "prepared" /\ <<t, p>> \notin torn /\ Holds(t, p)
                => p \in seen[t]
  <2>1. \A q \in Paths : q # p => (InFlight(t, q)' <=> InFlight(t, q))
    BY <1>2, <1>3, OwnFlight
  <2>2. InFlight(t, p) <=> tools[m][p] = "written"
    BY <1>2, <1>3, OwnFlight
  <2>3. /\ seen'[t] = {q \in Paths : q \in loose'[t] /\ ~InFlight(t, q)'}
        /\ seen[t] = {q \in Paths : q \in loose[t] /\ ~InFlight(t, q)}
    BY DEF seen
  <2>4. /\ \A q \in Paths : q # p => (q \in loose'[t] <=> q \in loose[t])
        /\ p \in loose'[t] => Holds(t, p)' /\ <<t, p>> \notin torn'
        /\ Holds(t, p) /\ <<t, p>> \notin torn => p \in loose[t]
    BY <1>2, <1>5 DEF loose, Holds
  <2> QED BY <2>1, <2>2, <2>3, <2>4
<1>8. FairRecord(dirty[t][p], files[p], recs[p]) /\ Shows(seen[t], recs)
  BY <1>4 DEF Copy, Fair
<1>9. FairRecord(dirty'[t][p], files'[p], r)
  <2>1. CASE files[p] = recs[p].after
    BY <1>2, <1>8, <2>1 DEF FairRecord, Changed
  <2>2. CASE files[p] # recs[p].after
    BY <1>2, <1>8, <2>2 DEF FairRecord
  <2> QED BY <2>1, <2>2
<1>10. p \in seen'[t] => Changed(r)
  BY <1>2, <1>7, <1>9 DEF Holds, FairRecord, Changed
<1>11. ASSUME NEW x \in [Paths -> Record], Fair(dirty[t], files, x), Shows(seen[t], x),
              NEW y, y = [x EXCEPT ![p] = r]
       PROVE  Fair(dirty'[t], files', y) /\ Shows(seen'[t], y)
  <2>1. \A q \in Paths : q # p => FairRecord(dirty'[t][q], files'[q], x[q])
    BY <1>2, <1>11 DEF Fair
  <2>2. Shows(seen'[t] \ {p}, x)
    BY <1>7, <1>11 DEF Shows
  <2> QED BY <1>7, <1>9, <1>10, <1>11, <2>1, <2>2, Replaced
<1>12. Fair(dirty'[t], files', active'[m].recs) /\ Shows(seen'[t], active'[m].recs)
  BY <1>2, <1>4, <1>11 DEF Copy
<1>13. ASSUME NEW i \in DOMAIN ledger, ledger[i].id = t
       PROVE  /\ ledger[i].recs \in [Paths -> Record] /\ ~ledger[i].committed
              /\ Fair(dirty[t], files, ledger[i].recs) /\ Shows(seen[t], ledger[i].recs)
              /\ Backs(recs, ledger[i].recs)
  <2>1. ledger[i].recs \in [Paths -> Record]
    BY DEF Shape, ListOK, EntryOK, PendingTurn
  <2> QED BY <1>2, <1>13, <2>1, ActiveEntry DEF recs
<1>14. \A q \in Paths : ToolTruth(files'[q], tools'[m][q], active'[m].recs[q])
  BY <1>2, <1>4 DEF ToolTruth
<1>15. CASE ledger' = RecordedIn(ledger, t, p, r)
  <2>1. SamePlaces(ledger', ledger) /\ IsRecorded(ledger', ledger, t, p, r)
    BY <1>2, <1>15, RecordedInList DEF Shape
  <2>2. /\ DOMAIN ledger' = DOMAIN ledger
        /\ \A i \in DOMAIN ledger :
             /\ ledger'[i].id = ledger[i].id
             /\ ledger'[i].committed = ledger[i].committed
             /\ ledger[i].id # t => ledger'[i] = ledger[i]
             /\ ledger[i].id = t => ledger'[i].recs = [ledger[i].recs EXCEPT ![p] = r]
    BY <2>1 DEF SamePlaces, IsRecorded
  <2>3. ASSUME NEW i \in DOMAIN ledger, ledger[i].id = t
        PROVE  /\ Fair(dirty'[t], files', ledger'[i].recs) /\ Shows(seen'[t], ledger'[i].recs)
               /\ Backs(active'[m].recs, ledger'[i].recs) /\ ~ledger'[i].committed
    <3>1. ledger'[i].recs = [ledger[i].recs EXCEPT ![p] = r] /\ ~ledger'[i].committed
      BY <1>13, <2>2, <2>3
    <3>2. Fair(dirty'[t], files', ledger'[i].recs) /\ Shows(seen'[t], ledger'[i].recs)
      BY <1>11, <1>13, <2>3, <3>1
    <3>3. Backs([recs EXCEPT ![p] = r], [ledger[i].recs EXCEPT ![p] = r])
      BY <1>2, <1>4, <1>13, <2>3, ReplacedBacks
    <3> QED BY <1>2, <3>1, <3>2, <3>3
  <2>4. Copy(dirty', files', seen', t, active'[m].recs, ledger')
    BY <1>12, <2>2, <2>3 DEF Copy
  <2>5. ActiveTruth(m)'
    BY <1>2, <1>14, <2>4 DEF ActiveTruth
  <2>6. \A i \in DOMAIN ledger : ledger[i].id = t =>
          TrueEntry(dirty', files', seen', ledger'[i])
    BY <2>2, <2>3 DEF TrueEntry
  <2> QED BY <1>2, <1>6, <2>2, <2>5, <2>6, ToolStepTruth
<1>16. CASE ledger' = ledger
  <2>1. p \in seen'[t] => p \in seen[t]
    <3>1. <<t, p>> \notin torn' => r = recs[p] /\ torn' = torn
      BY <1>2, <1>16
    <3>2. r = recs[p] => tools[m][p] = "prepared" /\ dirty'[t][p] = dirty[t][p]
      BY <1>2, <1>4 DEF ToolTruth
    <3>3. r = recs[p] /\ Holds(t, p)' => Holds(t, p)
      BY <1>2, <3>2 DEF Holds
    <3> QED BY <1>7, <3>1, <3>2, <3>3
  <2>2. ASSUME NEW i \in DOMAIN ledger, ledger[i].id = t
        PROVE  /\ Fair(dirty'[t], files', ledger[i].recs) /\ Shows(seen'[t], ledger[i].recs)
               /\ Backs(active'[m].recs, ledger[i].recs)
    <3>1. Shows(seen'[t], ledger[i].recs)
      BY <1>7, <1>13, <2>1, <2>2 DEF Shows
    <3>2. Backs([recs EXCEPT ![p] = r], ledger[i].recs)
      BY <1>2, <1>4, <1>13, <2>2, ReplacedBacks
    <3>3. FairRecord(dirty'[t][p], files'[p], ledger[i].recs[p])
      <4>1. /\ FairRecord(dirty[t][p], files[p], ledger[i].recs[p])
            /\ ledger[i].recs[p] # NoRecord
            /\ ledger[i].recs[p].before = recs[p].before
        BY <1>2, <1>13, <2>2 DEF Fair, Backs
      <4> QED BY <1>2, <4>1 DEF FairRecord
    <3>4. Fair(dirty'[t], files', ledger[i].recs)
      BY <1>2, <1>13, <2>2, <3>3 DEF Fair
    <3> QED BY <1>2, <3>1, <3>2, <3>4
  <2>3. Copy(dirty', files', seen', t, active'[m].recs, ledger')
    BY <1>12, <1>16, <2>2 DEF Copy
  <2>4. ActiveTruth(m)'
    BY <1>2, <1>14, <2>3 DEF ActiveTruth
  <2>5. \A i \in DOMAIN ledger : ledger[i].id = t =>
          TrueEntry(dirty', files', seen', ledger'[i])
    BY <1>13, <1>16, <2>2 DEF TrueEntry
  <2> QED BY <1>2, <1>6, <1>16, <2>4, <2>5, ToolStepTruth
<1> QED BY <1>2, <1>15, <1>16

\* A result that could not be read is not recorded, and said to be torn.
LEMMA MissesTruth ==
  ASSUME ~Shared, Shape, Life, Standing, Truth, NEW m \in Managers,
         NEW t \in Turns, NEW p \in Paths, After(m, t, p),
         Reports(m, t, p), Misses(m, t, p)
  PROVE  LedgerTruth' /\ TruthAt(m)'
<1> DEFINE recs == active[m].recs
<1>1. /\ Open(m) /\ active[m].id = t /\ tools'[m][p] = "idle"
      /\ \A q \in Paths : q # p => tools'[m][q] = tools[m][q]
      /\ UNCHANGED <<files, status, fd, kept, task, ended, ledger, active, dirty>>
      /\ torn' = IF files[p] # recs[p].after THEN torn \cup {<<t, p>>} ELSE torn
  BY DEF Reports, Misses
<1>2. Step(m) /\ ~Exit(m) /\ Shape'
  <2>1. Step(m)
    BY DEF Step
  <2> QED BY <1>1, <2>1, StepShape DEF Exit, Open
<1>3. /\ t # None /\ Copy(dirty, files, seen, t, recs, ledger) /\ Known(recs)
      /\ \A q \in Paths : ToolTruth(files[q], tools[m][q], recs[q])
  BY <1>1, ActiveEntry, KnownRecords
<1> HIDE DEF recs
<1>4. \A u \in Turns, q \in Paths : <<u, q>> \in torn => <<u, q>> \in torn'
  BY <1>1
<1>5. \A u \in Turns, q \in Paths : Fade(dirty[u][q], dirty'[u][q], files[q], files'[q])
  BY <1>1, SameFade
<1>6. ASSUME NEW u \in Turns, u # t PROVE Calm(u)
  <2>1. \A q \in Paths : ~InFlight(u, q)
    BY <1>1, <1>2, <1>6, OwnFlight
  <2> QED BY <1>2, <1>4, <1>5, <2>1, CalmWhen
<1>7. Calm(t)
  <2>1. loose'[t] \subseteq loose[t]
    BY <1>1, <1>4 DEF loose, Holds
  <2>2. ASSUME NEW q \in Paths, q \in loose'[t], ~InFlight(t, q)' PROVE ~InFlight(t, q)
    <3>1. CASE q # p
      BY <1>1, <1>2, <2>2, <3>1, OwnFlight
    <3>2. CASE q = p
      <4>1. files[p] = recs[p].after
        BY <1>1, <2>2, <3>2 DEF loose
      <4> QED BY <1>2, <1>3, <3>2, <4>1, OwnFlight DEF ToolTruth
    <3> QED BY <3>1, <3>2
  <2>3. /\ seen'[t] = {q \in Paths : q \in loose'[t] /\ ~InFlight(t, q)'}
        /\ seen[t] = {q \in Paths : q \in loose[t] /\ ~InFlight(t, q)}
    BY DEF seen
  <2>4. seen'[t] \subseteq seen[t]
    BY <2>1, <2>2, <2>3
  <2> QED BY <1>5, <2>1, <2>4 DEF Calm
<1>8. \A u \in Turns : Calm(u)
  BY <1>6, <1>7
<1>9. Copy(dirty', files', seen', t, recs, ledger)
  BY <1>3, <1>7, CalmCopy
<1>10. \A q \in Paths : ToolTruth(files'[q], tools'[m][q], recs[q])
  BY <1>1, <1>3 DEF ToolTruth
<1>11. ActiveTruth(m)'
  BY <1>1, <1>9, <1>10 DEF ActiveTruth, recs
<1>12. \A i \in DOMAIN ledger : TrueEntry(dirty', files', seen', ledger[i])
  BY <1>1, <1>8, OpenTruth, StillLedger DEF LedgerTruth, TrueList
<1> QED BY <1>1, <1>8, <1>11, <1>12, ToolStepTruth

\* AfterFingerprint, whichever way it goes.
LEMMA AfterTruth ==
  ASSUME ~Shared, Shape, Life, Standing, Truth, NEW m \in Managers,
         NEW t \in Turns, NEW p \in Paths, After(m, t, p)
  PROVE  LedgerTruth' /\ TruthAt(m)'
BY AfterDoes, RecordsTruth, MissesTruth

-----------------------------------------------------------------------------
(* Truth: undoing one record, and the user *)

\* What putting back the content of path p does, path by path.
PutsBack(t, p, r) ==
  /\ \A q \in Paths : q # p => files'[q] = files[q]
  /\ files'[p].id \notin UsedIds /\ files'[p] # files[p]
  /\ \A u \in Turns, q \in Paths : q # p => dirty'[u][q] = dirty[u][q]
  /\ \A u \in Turns : \/ dirty'[u][p] = None
                      \/ dirty'[u][p] = dirty[u][p] /\ dirty[u][p] # files[p].sha
  /\ dirty[t][p] = r.before.sha => dirty'[t][p] = None

\* restore() on one path, in terms of files and histories.
LEMMA PutsBackPaths ==
  ASSUME Shape, NEW t \in Turns, NEW p \in Paths, NEW r \in Record, r # NoRecord,
         files' = [files EXCEPT ![p] = Put(r.before.sha)],
         dirty' = [Clean(p) EXCEPT ![t][p] = IF @ = r.before.sha THEN None ELSE @]
  PROVE  PutsBack(t, p, r)
<1>1. /\ files \in [Paths -> Fingerprint]
      /\ dirty \in [Turns -> [Paths -> Contents \cup {Absent, None}]]
  BY DEF Shape, Plain
<1>2. files'[p].id = FreshId /\ \A q \in Paths : q # p => files'[q] = files[q]
  BY <1>1 DEF Put
<1>3. FreshId \notin UsedIds /\ files[p].id \in UsedIds
  BY ShapeTypes, Fresh DEF UsedIds
<1> DEFINE d == Clean(p)
<1>4. /\ d \in [Turns -> [Paths -> Contents \cup {Absent, None}]]
      /\ \A u \in Turns, q \in Paths : q # p => d[u][q] = dirty[u][q]
      /\ \A u \in Turns :
           d[u][p] = IF dirty[u][p] = files[p].sha THEN None ELSE dirty[u][p]
  BY <1>1 DEF Clean
<1> HIDE DEF d
<1>5. /\ \A u \in Turns, q \in Paths : q # p => dirty'[u][q] = d[u][q]
      /\ \A u \in Turns : u # t => dirty'[u][p] = d[u][p]
      /\ dirty'[t][p] = IF d[t][p] = r.before.sha THEN None ELSE d[t][p]
  <2>1. dirty' = [d EXCEPT ![t][p] = IF d[t][p] = r.before.sha THEN None ELSE d[t][p]]
    BY <1>4 DEF d
  <2> QED BY <1>4, <2>1
<1>6. /\ \A u \in Turns, q \in Paths : q # p => dirty'[u][q] = dirty[u][q]
      /\ \A u \in Turns : \/ dirty'[u][p] = None
                          \/ dirty'[u][p] = dirty[u][p] /\ dirty[u][p] # files[p].sha
      /\ dirty[t][p] = r.before.sha => dirty'[t][p] = None
  BY <1>4, <1>5
<1> QED BY <1>2, <1>3, <1>6 DEF PutsBack

\* New content in a path no turn is writing is calm for every turn.
LEMMA PutsBackFades ==
  ASSUME NEW t, NEW p \in Paths, NEW r, PutsBack(t, p, r), NEW u \in Turns
  PROVE  \A q \in Paths : Fade(dirty[u][q], dirty'[u][q], files[q], files'[q])
<1>1. ASSUME NEW q \in Paths, q # p
      PROVE  Fade(dirty[u][q], dirty'[u][q], files[q], files'[q])
  BY <1>1, SameFade DEF PutsBack
<1>2. Fade(dirty[u][p], dirty'[u][p], files[p], files'[p])
  BY DEF PutsBack, Fade
<1> QED BY <1>1, <1>2

\* After the step, n is as right about turn t as recs.
AsRight(t, kind, recs, n) ==
  /\ Fair(dirty'[t], files', recs) => Fair(dirty'[t], files', n)
  /\ \A L : kind # "recover" /\ Copy(dirty', files', seen', t, recs, L)
              => Copy(dirty', files', seen', t, n, L)

\* The records a restore goes on with, when p is done.
LEMMA RestoredRecords ==
  ASSUME NEW t \in Turns, NEW p \in Paths, NEW recs \in [Paths -> Record], recs[p] # NoRecord,
         Known(recs), dirty'[t][p] = None, files'[p].id \notin UsedIds,
         NEW kind, NEW n, n = [recs EXCEPT ![p] = Forgotten(kind, recs[p])]
  PROVE  AsRight(t, kind, recs, n)
<1>1. /\ \A q \in Paths : q # p => n[q] = recs[q]
      /\ n[p] = Forgotten(kind, recs[p])
  OBVIOUS
<1>2. FairRecord(dirty'[t][p], files'[p], n[p])
  <2>1. CASE kind # "recover"
    BY <1>1, <2>1 DEF Forgotten, FairRecord, Changed
  <2>2. CASE kind = "recover"
    <3>1. recs[p].after.id # files'[p].id
      BY DEF Known
    <3>2. n[p].after = recs[p].after
      BY <1>1, <2>2, NoRecordTypes DEF Forgotten, Record
    <3> QED BY <3>1, <3>2 DEF FairRecord
  <2> QED BY <2>1, <2>2
<1>3. ASSUME Fair(dirty'[t], files', recs) PROVE Fair(dirty'[t], files', n)
  BY <1>1, <1>2, <1>3 DEF Fair
<1>4. ASSUME NEW L, kind # "recover", Copy(dirty', files', seen', t, recs, L)
      PROVE  Copy(dirty', files', seen', t, n, L)
  <2>1. p \notin seen'[t] /\ seen'[t] \subseteq Paths
    BY DEF seen, loose, Holds
  <2>2. Shows(seen'[t], n)
    BY <1>1, <1>4, <2>1 DEF Copy, Shows
  <2>3. n[p] = NoRecord
    BY <1>1, <1>4 DEF Forgotten
  <2>4. \A list : Backs(recs, list) => Backs(n, list)
    BY <1>1, <2>3 DEF Backs
  <2>5. Fair(dirty'[t], files', n)
    BY <1>3, <1>4 DEF Copy
  <2> QED BY <1>4, <2>2, <2>4, <2>5 DEF Copy
<1> QED BY <1>3, <1>4 DEF AsRight

\* restore() on one path: what was put back is no longer to be undone, and what
\* is left is still recorded.
LEMMA RestoreStepTruth ==
  ASSUME ~Shared, Shape, Life, Standing, Truth, NEW m \in Managers, RestoreRecord(m),
         task' # task
  PROVE  LedgerTruth' /\ TruthAt(m)'
<1> DEFINE k == task[m]
           t == k.turn
           p == Head(k.order)
           r == k.recs[p]
           n == task'[m]
<1>1. /\ k.kind \in Restores /\ Restored(k, n)
      /\ UNCHANGED <<ledger, status, fd, active, kept, tools, ended, torn>>
      /\ \/ /\ files' = [files EXCEPT ![p] = Put(r.before.sha)]
            /\ dirty' = [Clean(p) EXCEPT ![t][p] = IF @ = r.before.sha THEN None ELSE @]
            /\ n.conflict = k.conflict
            /\ n.recs = [k.recs EXCEPT ![p] = Forgotten(k.kind, r)]
         \/ UNCHANGED <<files, dirty>> /\ n.conflict = TRUE /\ n.recs = k.recs
  BY RestoreRecordDoes
<1>2. /\ n.kind = k.kind /\ n.turn = t /\ n.place = k.place
      /\ n.todo = k.todo /\ n.keep = k.keep
      /\ p \in Paths /\ r \in Record /\ r # NoRecord
      /\ \A q \in Paths : Occurs(q, n.order) <=> (Occurs(q, k.order) /\ q # p)
  BY <1>1 DEF Restored
<1>3. t \in Turns /\ Known(k.recs) /\ k.recs \in [Paths -> Record]
  BY <1>1, KnownRecords DEF Shape, TasksOK, TaskOK, Task
<1>4. Live(m) /\ Step(m) /\ ~Exit(m) /\ Shape'
  <2>1. k.kind # "none"
    BY <1>1 DEF Restores
  <2>2. Live(m)
    BY <2>1 DEF Life, LifeAt, Vacant, NoTask
  <2>3. Step(m)
    BY DEF Step
  <2> QED BY <2>2, <2>3, StepShape DEF Exit, Live
<1>5. /\ LedgerTruth /\ ActiveTruth(m) /\ KeptTruth(m) /\ TaskTruth(m)
      /\ RestoreTruth(dirty, files, seen, k, ledger) /\ StandingAt(m)
  BY <1>1, <1>4 DEF Truth, TruthAt, TaskTruth, Standing
<1>6. Base(m)' = Base(m)
  BY <1>1, <1>2 DEF Base, Open
<1>7. k.kind = "revert" /\ k.place # "draft" => Clear(dirty[t])
  <2>1. k.kind = "revert" => t \in In(m, k.place) /\ k.place \in {"committed", "draft"}
    BY <1>5 DEF StandingAt, Doing, Shape, TasksOK, TaskOK
  <2> QED BY <1>3, <1>5, <2>1 DEF KeptTruth, PlaceTruth, Places
<1> HIDE DEF k, p, r, n
<1>8. ASSUME files' = [files EXCEPT ![p] = Put(r.before.sha)],
             dirty' = [Clean(p) EXCEPT ![t][p] = IF @ = r.before.sha THEN None ELSE @]
      PROVE  PutsBack(t, p, r)
  <2> HIDE DEF t
  <2> QED BY <1>2, <1>3, <1>8, PutsBackPaths
<1> HIDE DEF t
<1>9. \/ /\ PutsBack(t, p, r) /\ n.conflict = k.conflict
         /\ n.recs = [k.recs EXCEPT ![p] = Forgotten(k.kind, r)]
      \/ UNCHANGED <<files, dirty>> /\ n.conflict = TRUE /\ n.recs = k.recs
  BY <1>1, <1>8
<1>10. \A u \in Turns : Calm(u)
  <2>1. CASE PutsBack(t, p, r)
    <3>1. ASSUME NEW u \in Turns PROVE Calm(u)
      <4>1. \A q \in Paths : Fade(dirty[u][q], dirty'[u][q], files[q], files'[q])
        BY <1>2, <2>1, PutsBackFades
      <4>2. \A q \in Paths : InFlight(u, q) => InFlight(u, q)'
        BY <1>1 DEF InFlight
      <4> QED BY <1>1, <1>4, <4>1, <4>2, CalmWhen
    <3> QED BY <3>1
  <2>2. CASE UNCHANGED <<files, dirty>>
    BY <1>1, <1>4, <2>2, StillCalm
  <2> QED BY <1>9, <2>1, <2>2
<1>11. LedgerTruth'
  BY <1>1, <1>5, <1>10, StillLedger
<1>12. KeptTruth(m)'
  BY <1>1, <1>5, <1>6, <1>10, CalmKept, SaysItself DEF In
<1>13. ActiveTruth(m)'
  <2>1. active[m].id # None => active[m].id \in Turns
    BY DEF Shape, ActiveOK, Journal
  <2> QED BY <1>1, <1>5, <1>10, <2>1, CalmActive, SaysItself
<1>14. RestoreTruth(dirty', files', seen', k, ledger)
  BY <1>1, <1>3, <1>5, <1>10, CalmRestore, SaysItself DEF t
<1>15. RestoreTruth(dirty', files', seen', n, ledger)
  <2>1. CASE /\ PutsBack(t, p, r) /\ n.conflict = k.conflict
             /\ n.recs = [k.recs EXCEPT ![p] = Forgotten(k.kind, r)]
    <3>1. dirty'[t][p] = None
      <4>1. CASE Fair(dirty[t], files, k.recs)
        <5>1. dirty[t][p] = None \/ dirty[t][p] = r.before.sha
          BY <1>2, <4>1 DEF Fair, FairRecord, r
        <5> QED BY <1>3, <2>1, <5>1 DEF PutsBack
      <4>2. CASE Clear(dirty[t])
        BY <1>2, <1>3, <2>1, <4>2 DEF Clear, PutsBack
      <4>3. Fair(dirty[t], files, k.recs) \/ Clear(dirty[t])
        BY <1>1, <1>5, <1>7 DEF RestoreTruth, Copy, Restores, t
      <4> QED BY <4>1, <4>2, <4>3
    <3>2. AsRight(t, k.kind, k.recs, n.recs)
      <4>1. files'[p].id \notin UsedIds /\ k.recs[p] # NoRecord
        BY <1>2, <2>1 DEF PutsBack, r
      <4>2. n.recs = [k.recs EXCEPT ![p] = Forgotten(k.kind, k.recs[p])]
        BY <2>1 DEF r
      <4> QED BY <1>2, <1>3, <3>1, <4>1, <4>2, RestoredRecords
    <3>3. n.conflict \/ \A q \in Paths : dirty'[t][q] # None => Occurs(q, n.order)
      BY <1>2, <1>14, <2>1, <3>1 DEF RestoreTruth, t
    <3>4. n.kind \in {"rollback", "recover"} => Fair(dirty'[t], files', n.recs)
      BY <1>2, <1>14, <3>2 DEF RestoreTruth, AsRight, t
    <3>5. n.kind = "revert" /\ n.place = "draft" => Copy(dirty', files', seen', t, n.recs, ledger)
      BY <1>2, <1>14, <3>2 DEF RestoreTruth, AsRight, t
    <3> QED BY <1>2, <3>3, <3>4, <3>5 DEF RestoreTruth
  <2>2. CASE n.conflict = TRUE /\ n.recs = k.recs
    BY <1>2, <1>14, <2>2 DEF RestoreTruth, t
  <2> QED BY <1>9, <2>1, <2>2
<1>16. k.kind = "recover" => ScanTruth(dirty', files', seen', loose', n)
  <2>1. ASSUME k.kind = "recover"
        PROVE  /\ TrueList(dirty', files', seen', k.todo)
               /\ TrueList(dirty', files', seen', k.keep)
    BY <1>5, <1>10, <2>1, CalmScan DEF TaskTruth, ScanTruth, k
  <2>2. \A u \in Turns : loose'[u] \subseteq loose[u]
    BY <1>10 DEF Calm
  <2> QED BY <1>2, <1>5, <2>1, <2>2 DEF TaskTruth, ScanTruth, k
<1>17. TaskTruth(m)'
  BY <1>1, <1>2, <1>15, <1>16 DEF TaskTruth, Restores, n
<1> QED BY <1>11, <1>12, <1>13, <1>17 DEF TruthAt

\* The user's edit is nobody's work.
LEMMA EditTruth ==
  ASSUME Shape, Life, Standing, Truth, NEW p \in Paths, NEW c \in Contents, Edit(p, c)
  PROVE  Truth'
<1>1. /\ files' = [files EXCEPT ![p] = Put(c)]
      /\ dirty' = [t \in Turns |-> [dirty[t] EXCEPT ![p] = None]]
      /\ UNCHANGED <<ledger, status, fd, active, kept, tools, task, ended, torn>>
  BY DEF Edit, memory
<1>2. Shape'
  BY EditShape
<1>3. /\ files \in [Paths -> Fingerprint]
      /\ dirty \in [Turns -> [Paths -> Contents \cup {Absent, None}]]
  BY DEF Shape, Plain
<1>4. /\ files'[p].id \notin UsedIds /\ \A q \in Paths : q # p => files'[q] = files[q]
      /\ \A u \in Turns : dirty'[u][p] = None
      /\ \A u \in Turns, q \in Paths : q # p => dirty'[u][q] = dirty[u][q]
  <2>1. FreshId \notin UsedIds
    BY ShapeTypes, Fresh
  <2> QED BY <1>1, <1>3, <2>1 DEF Put
<1>5. files[p].id \in UsedIds
  BY DEF UsedIds
<1>6. ASSUME NEW u \in Turns PROVE Calm(u)
  <2>1. ASSUME NEW q \in Paths PROVE Fade(dirty[u][q], dirty'[u][q], files[q], files'[q])
    <3>1. CASE q = p
      BY <1>4, <1>5, <3>1 DEF Fade
    <3>2. CASE q # p
      BY <1>4, <3>2, SameFade
    <3> QED BY <3>1, <3>2
  <2>2. \A q \in Paths : InFlight(u, q) => InFlight(u, q)'
    BY <1>1 DEF InFlight
  <2> QED BY <1>1, <1>2, <2>1, <2>2, CalmWhen
<1>7. LedgerTruth'
  BY <1>1, <1>6, StillLedger DEF Truth
<1>8. ASSUME NEW m \in Managers, Live(m)' PROVE TruthAt(m)'
  <2>1. TruthAt(m) /\ Base(m)' = Base(m)
    BY <1>1, <1>8 DEF Truth, Live, Base, Open
  <2>2. KeptTruth(m)'
    BY <1>1, <1>6, <2>1, CalmKept, SaysItself DEF In, TruthAt
  <2>3. ActiveTruth(m)'
    <3>1. active[m].id # None => active[m].id \in Turns
      BY DEF Shape, ActiveOK, Journal
    <3> QED BY <1>1, <1>6, <2>1, <3>1, CalmActive, SaysItself DEF TruthAt
  <2>4. task[m].kind \in Restores => RestoreTruth(dirty', files', seen', task[m], ledger)
    <3>1. task[m].kind \in Restores => task[m].turn \in Turns
      BY DEF Shape, TasksOK, TaskOK
    <3> QED BY <1>6, <2>1, <3>1, CalmRestore, SaysItself, KnownRecords DEF TruthAt, TaskTruth
  <2>5. task[m].kind \in {"scan", "recover"} => ScanTruth(dirty', files', seen', loose', task[m])
    <3>1. ASSUME task[m].kind \in {"scan", "recover"}
          PROVE  /\ TrueList(dirty', files', seen', task[m].todo)
                 /\ TrueList(dirty', files', seen', task[m].keep)
      BY <1>6, <2>1, <3>1, CalmScan DEF TruthAt, TaskTruth, ScanTruth
    <3>2. \A u \in Turns : loose'[u] \subseteq loose[u]
      BY <1>6 DEF Calm
    <3> QED BY <2>1, <3>1, <3>2 DEF TruthAt, TaskTruth, ScanTruth
  <2>6. TaskTruth(m)'
    BY <1>1, <2>4, <2>5 DEF TaskTruth
  <2> QED BY <2>2, <2>3, <2>6 DEF TruthAt
<1> QED BY <1>7, <1>8 DEF Truth

-----------------------------------------------------------------------------
(* Truth: the next process recovers *)

\* Open: the copy of the ledger a recovery works on is as right as the ledger.
LEMMA OpenManagerTruth ==
  ASSUME ~Shared, Shape, Life, Standing, Truth, NEW m \in Managers, OpenManager(m)
  PROVE  LedgerTruth' /\ TruthAt(m)'
<1>1. /\ active'[m] = NoJournal /\ kept'[m] = NothingKept
      /\ task'[m].kind = "scan" /\ task'[m].todo = ledger /\ task'[m].keep = <<>>
      /\ ended' = ended \cup {ledger[i].id : i \in DOMAIN ledger}
      /\ UNCHANGED <<files, ledger, active, kept, tools, dirty, torn>>
  BY OpenManagerDoes
<1>2. Step(m) /\ ~Exit(m)
  BY DEF Step, OpenManager, Exit
<1>3. \A u \in Turns : Calm(u)
  BY <1>1, <1>2, StillCalm
<1>4. LedgerTruth'
  BY <1>1, <1>3, StillLedger DEF Truth
<1>5. KeptTruth(m)'
  BY <1>1 DEF KeptTruth, In, NothingKept
<1>6. ScanTruth(dirty', files', seen', loose', task'[m])
  <2>1. TrueList(dirty', files', seen', ledger) /\ TrueList(dirty', files', seen', <<>>)
    BY <1>1, <1>4 DEF LedgerTruth, TrueList
  <2>2. \A u \in Turns : loose'[u] # {} => Pending(ledger, u)
    BY <1>1, <1>4 DEF LedgerTruth, Pending
  <2> QED BY <1>1, <2>1, <2>2 DEF ScanTruth
<1>7. TaskTruth(m)'
  BY <1>1, <1>6 DEF TaskTruth, Restores
<1> QED BY <1>1, <1>4, <1>5, <1>7, NoActiveTruth DEF TruthAt

\* A recovery's drafts are backed by what it keeps, not by what it has to do.
LEMMA DraftsKept ==
  ASSUME Shape, Life, Standing, Truth, NEW m \in Managers, status[m] = "recovering",
         task[m].todo # <<>>
  PROVE  /\ Live(m) /\ ~Exit(m) /\ Base(m) = task[m].keep
         /\ StandingAt(m) /\ ScanStanding(task[m]) /\ LedgerTruth /\ KeptTruth(m)
         /\ TaskTruth(m) /\ ScanTruth(dirty, files, seen, loose, task[m])
         /\ ListOK(task[m].todo) /\ ListOK(task[m].keep)
         /\ Head(task[m].todo).id \in Turns /\ Head(task[m].todo).id \in ended
         /\ Known(Head(task[m].todo).recs)
         /\ TrueEntry(dirty, files, seen, Head(task[m].todo))
         /\ \A i \in DOMAIN task[m].keep : task[m].keep[i].id # Head(task[m].todo).id
         /\ \A w \in Places, u \in Turns : u \in In(m, w) =>
              w = "draft" /\ u # Head(task[m].todo).id
<1> DEFINE k == task[m]
           e == Head(k.todo)
<1>1. /\ Live(m) /\ ~Exit(m) /\ Base(m) = k.keep /\ StandingAt(m)
      /\ k.kind \in {"scan", "recover"}
      /\ In(m, "committed") = {} /\ In(m, "unresolved") = {}
  BY DEF Live, Exit, Base, Open, Standing, Life, LifeAt
<1>2. /\ ScanStanding(k) /\ LedgerTruth /\ KeptTruth(m) /\ TaskTruth(m)
      /\ ScanTruth(dirty, files, seen, loose, k)
  BY <1>1 DEF StandingAt, Doing, Truth, TruthAt, TaskTruth
<1>3. ListOK(k.todo) /\ ListOK(k.keep)
  BY DEF Shape, TasksOK, TaskOK
<1>4. PICK i \in DOMAIN k.todo : e = k.todo[i]
  BY <1>2, <1>3, TailIds DEF ScanStanding
<1>5. /\ e.id \in Turns /\ e.id \in ended /\ Known(e.recs)
      /\ TrueEntry(dirty, files, seen, e)
      /\ \A l \in DOMAIN k.keep : k.keep[l].id # e.id
  <2>1. e.id \in Turns
    BY <1>3, <1>4 DEF ListOK, EntryOK, PendingTurn
  <2>2. e.id \in ended /\ \A l \in DOMAIN k.keep : k.keep[l].id # e.id
    BY <1>2, <1>4 DEF ScanStanding
  <2>3. TrueEntry(dirty, files, seen, e) /\ Known(e.recs)
    BY <1>2, <1>4, KnownRecords DEF ScanTruth, TrueList, KnownList
  <2> QED BY <2>1, <2>2, <2>3
<1>6. ASSUME NEW w \in Places, NEW u \in Turns, u \in In(m, w)
      PROVE  w = "draft" /\ u # e.id
  <2>1. w = "draft"
    BY <1>1, <1>6 DEF Places
  <2>2. Stands(k.keep, u)
    BY <1>1, <1>6, <2>1 DEF StandingAt, Shelved
  <2> QED BY <1>5, <2>1, <2>2 DEF Stands
<1> QED BY <1>1, <1>2, <1>3, <1>5, <1>6

\* The lists of a recovery when it goes on to the next turn.
LEMMA ScanGoesOn ==
  ASSUME Shape, Life, Standing, Truth, NEW m \in Managers, status[m] = "recovering",
         task[m].todo # <<>>, \A u \in Turns : Calm(u), NEW x, EntryOK(x),
         x.id = Head(task[m].todo).id, NEW keep,
         Scans(m, keep),
         \/ keep = task[m].keep /\ loose'[x.id] = {}
         \/ keep = Append(task[m].keep, x) /\ TrueEntry(dirty', files', seen', x)
  PROVE  /\ TaskTruth(m)'
         /\ \A u : u # x.id => SaysSame(task'[m].keep, task[m].keep, u)
         /\ keep = Append(task[m].keep, x) =>
              \A i \in DOMAIN task'[m].keep : task'[m].keep[i].id = x.id =>
                task'[m].keep[i] = x
<1> DEFINE k == task[m]
           e == Head(k.todo)
           more == Append(k.keep, x)
<1>1. /\ ScanStanding(k) /\ ScanTruth(dirty, files, seen, loose, k)
      /\ ListOK(k.todo) /\ ListOK(k.keep)
      /\ \A i \in DOMAIN k.keep : k.keep[i].id # x.id
  BY DraftsKept
<1>2. /\ \A i \in DOMAIN Tail(k.todo) : \E l \in DOMAIN k.todo : Tail(k.todo)[i] = k.todo[l]
      /\ \A l \in DOMAIN k.todo : k.todo[l].id # x.id =>
           \E i \in DOMAIN Tail(k.todo) : Tail(k.todo)[i] = k.todo[l]
  BY <1>1, TailIds DEF ScanStanding
<1>3. /\ \A i \in DOMAIN more : more[i] = x \/ \E l \in DOMAIN k.keep : more[i] = k.keep[l]
      /\ \A l \in DOMAIN k.keep : \E i \in DOMAIN more : more[i] = k.keep[l]
      /\ \E i \in DOMAIN more : more[i] = x
  <2> DEFINE L == k.keep
  <2>1. ListOK(L) /\ Distinct(L) /\ \A i \in DOMAIN L : L[i].id # x.id
    BY <1>1 DEF ScanStanding
  <2> HIDE DEF L
  <2>2. /\ \A i \in DOMAIN Append(L, x) :
             Append(L, x)[i] = x \/ \E l \in DOMAIN L : Append(L, x)[i] = L[l]
        /\ \A l \in DOMAIN L : \E i \in DOMAIN Append(L, x) : Append(L, x)[i] = L[l]
        /\ \E i \in DOMAIN Append(L, x) : Append(L, x)[i] = x
    BY <2>1, AppendIds
  <2> QED BY <2>2 DEF L
<1>4. /\ TrueList(dirty', files', seen', k.todo) /\ TrueList(dirty', files', seen', k.keep)
  BY <1>1, CalmScan DEF ScanTruth
<1>5. /\ task'[m].kind = "scan" /\ task'[m].todo = Tail(k.todo) /\ task'[m].keep = keep
  BY DEF Scans
<1>6. keep = k.keep \/ keep = more
  OBVIOUS
<1> HIDE DEF more, k
<1>7. TrueList(dirty', files', seen', Tail(k.todo))
  BY <1>2, <1>4 DEF TrueList
<1>8. TrueList(dirty', files', seen', keep)
  <2>1. CASE keep = k.keep
    BY <1>4, <2>1
  <2>2. CASE keep = more /\ TrueEntry(dirty', files', seen', x)
    BY <1>3, <1>4, <2>2 DEF TrueList
  <2> QED BY <2>1, <2>2 DEF more, k
<1>9. ASSUME NEW u \in Turns, loose'[u] # {}
      PROVE  Pending(Tail(k.todo), u) \/ Pending(keep, u)
  <2>1. Pending(k.todo, u) \/ Pending(k.keep, u)
    BY <1>1, <1>9 DEF Calm, ScanTruth
  <2>2. CASE Pending(k.keep, u)
    BY <1>3, <1>6, <2>2 DEF Pending
  <2>3. CASE Pending(k.todo, u) /\ u # x.id
    BY <1>2, <2>3 DEF Pending
  <2>4. CASE u = x.id
    <3>1. keep = more
      BY <1>9, <2>4 DEF more, k
    <3> QED BY <1>3, <2>4, <3>1 DEF Pending
  <2> QED BY <2>1, <2>2, <2>3, <2>4
<1>10. ScanTruth(dirty', files', seen', loose', task'[m])
  BY <1>5, <1>7, <1>8, <1>9 DEF ScanTruth
<1>11. TaskTruth(m)'
  BY <1>5, <1>10 DEF TaskTruth, Restores
<1>12. \A u : u # x.id => SaysSame(keep, k.keep, u)
  BY <1>3, <1>6 DEF SaysSame
<1>13. keep = more => \A i \in DOMAIN keep : keep[i].id = x.id => keep[i] = x
  BY <1>1, <1>3
<1> QED BY <1>5, <1>11, <1>12, <1>13 DEF more, k

\* Recover: a discarded turn has nothing to undo, a kept or adopted one keeps
\* its records, and an undone one is undone path by path.
LEMMA RecoverTurnTruth ==
  ASSUME ~Shared, Shape, Life, Standing, Truth, NEW m \in Managers, RecoverTurn(m)
  PROVE  LedgerTruth' /\ TruthAt(m)'
<1> DEFINE k == task[m]
           e == Head(k.todo)
           j == [id |-> e.id, order |-> e.order, recs |-> e.recs]
<1>1. /\ status[m] = "recovering" /\ active[m] = NoJournal
      /\ k.kind = "scan" /\ k.todo # <<>> /\ EntryOK(e)
      /\ UNCHANGED <<files, ledger, status, fd, active, tools, ended, torn>>
      /\ \/ /\ Discard(e) /\ Scans(m, k.keep)
            /\ dirty' = Undone(e.id) /\ kept' = kept
         \/ /\ Keeps(e) /\ Scans(m, Append(k.keep, e))
            /\ UNCHANGED <<kept, dirty>>
         \/ /\ Adopts(e) /\ Scans(m, Append(k.keep, e))
            /\ Keep(m, "draft", e.id, j) /\ UNCHANGED dirty
         \/ /\ Undoes(e) /\ StartsUndo(m, e) /\ UNCHANGED <<kept, dirty>>
  BY RecoverTurnDoes
<1>2. /\ Live(m) /\ ~Exit(m) /\ Base(m) = k.keep /\ Base(m)' = task'[m].keep
      /\ ScanStanding(k) /\ LedgerTruth /\ KeptTruth(m)
      /\ ScanTruth(dirty, files, seen, loose, k)
      /\ e.id \in Turns /\ Known(e.recs) /\ TrueEntry(dirty, files, seen, e)
      /\ \A w \in Places, u \in Turns : u \in In(m, w) => w = "draft" /\ u # e.id
  BY <1>1, DraftsKept DEF Base, Open
<1>3. Step(m)
  BY DEF Step
<1>4. \A u \in Turns : Calm(u)
  <2>1. CASE dirty' = dirty
    BY <1>1, <1>2, <1>3, <2>1, StillCalm
  <2>2. CASE dirty' = Undone(e.id)
    BY <1>1, <1>2, <1>3, <2>2, UndoneCalm
  <2> QED BY <1>1, <2>1, <2>2
<1>5. LedgerTruth'
  BY <1>1, <1>2, <1>4, StillLedger
<1>6. ActiveTruth(m)'
  BY <1>1, NoActiveTruth
<1>7. TrueEntry(dirty', files', seen', e)
  BY <1>2, <1>4, CalmEntry
<1>8. CASE Scans(m, k.keep) /\ Discard(e) /\ kept' = kept
  <2>1. loose'[e.id] = {}
    <3>1. CASE e.committed
      BY <1>2, <1>4, <3>1, ClearLoose DEF TrueEntry, Calm
    <3>2. CASE ~e.committed
      <4>1. Shows(seen[e.id], e.recs) /\ ~HasChanges(e.recs)
        BY <1>2, <1>8, <3>2 DEF TrueEntry, Discard
      <4>2. seen[e.id] \subseteq Paths
        BY <1>2 DEF seen
      <4>3. seen[e.id] = {}
        BY <4>1, <4>2 DEF Shows, HasChanges
      <4>4. active[m].id # e.id
        BY <1>1, <1>2, JournalConstants DEF NoJournal
      <4>5. seen[e.id] = loose[e.id]
        BY <1>2, <1>3, <4>4, AllSeen
      <4> QED BY <1>2, <1>4, <4>3, <4>5 DEF Calm
    <3> QED BY <3>1, <3>2
  <2>2. /\ TaskTruth(m)'
        /\ \A u : u # e.id => SaysSame(task'[m].keep, k.keep, u)
    BY <1>1, <1>4, <1>8, <2>1, ScanGoesOn
  <2>3. KeptTruth(m)'
    BY <1>2, <1>4, <1>8, <2>2, CalmKept DEF In
  <2> QED BY <1>5, <1>6, <2>2, <2>3 DEF TruthAt
<1>9. CASE Scans(m, Append(k.keep, e))
  <2>1. /\ TaskTruth(m)'
        /\ \A u : u # e.id => SaysSame(task'[m].keep, k.keep, u)
        /\ \A i \in DOMAIN task'[m].keep : task'[m].keep[i].id = e.id =>
             task'[m].keep[i] = e
    BY <1>1, <1>4, <1>7, <1>9, ScanGoesOn
  <2>2. CASE kept' = kept
    <3>1. KeptTruth(m)'
      BY <1>2, <1>4, <2>1, <2>2, CalmKept DEF In
    <3> QED BY <1>5, <1>6, <2>1, <3>1 DEF TruthAt
  <2>3. CASE Adopts(e) /\ Keep(m, "draft", e.id, j)
    <3>1. j # NoJournal /\ j.recs = e.recs
      BY <1>2, JournalConstants DEF NoJournal
    <3>2. ~e.committed /\ e.draft
      BY <2>3 DEF Adopts, Discard
    <3>3. Copy(dirty', files', seen', e.id, e.recs, task'[m].keep)
      <4>1. Fair(dirty'[e.id], files', e.recs) /\ Shows(seen'[e.id], e.recs)
        BY <1>7, <3>2 DEF TrueEntry
      <4>2. Backs(e.recs, e.recs)
        BY DEF Backs
      <4> QED BY <2>1, <4>1, <4>2 DEF Copy
    <3> HIDE DEF j, e
    <3>4. ASSUME NEW v \in Places, NEW u \in Turns, u \in In(m, v)'
          PROVE  \/ PlaceTruth(dirty', files', seen', v, u, kept'[m][v][u].recs, Base(m)')
                 \/ u \in In(m, v) /\ kept'[m][v][u] = kept[m][v][u]
      <4>1. /\ kept'[m][v][u] = IF v = "draft" /\ u = e.id THEN j ELSE kept[m][v][u]
            /\ u \in In(m, v)' <=> IF v = "draft" /\ u = e.id THEN j # NoJournal
                                   ELSE u \in In(m, v)
        BY <1>2, <2>3, KeepIn DEF Shape, Places
      <4> QED BY <1>2, <3>1, <3>3, <3>4, <4>1 DEF PlaceTruth
    <3>5. KeptTruth(m)'
      BY <1>2, <1>4, <2>1, <3>4, CalmKept
    <3> QED BY <1>5, <1>6, <2>1, <3>5 DEF TruthAt
  <2>4. kept' = kept \/ (Adopts(e) /\ Keep(m, "draft", e.id, j))
    BY <1>1
  <2> QED BY <2>2, <2>3, <2>4
<1>10. CASE Undoes(e) /\ StartsUndo(m, e) /\ kept' = kept
  <2>1. /\ task'[m].kind = "recover" /\ task'[m].turn = e.id
        /\ task'[m].order = Reversed(e.order) /\ task'[m].recs = e.recs
        /\ task'[m].todo = k.todo /\ task'[m].keep = k.keep /\ ~e.committed
    BY <1>10 DEF StartsUndo, Undoes, Discard
  <2>2. Fair(dirty'[e.id], files', e.recs)
    BY <1>7, <2>1 DEF TrueEntry
  <2>3. \A p \in Paths : e.recs[p] # NoRecord => Occurs(p, Reversed(e.order))
    BY <1>1, UndoesAll DEF EntryOK, PendingTurn
  <2>4. \A p \in Paths : dirty'[e.id][p] # None => Occurs(p, Reversed(e.order))
    BY <2>2, <2>3 DEF Fair, FairRecord
  <2>5. RestoreTruth(dirty', files', seen', task'[m], ledger')
    <3> HIDE DEF e
    <3> QED BY <2>1, <2>2, <2>4 DEF RestoreTruth
  <2>6. ScanTruth(dirty', files', seen', loose', task'[m])
    <3>1. TrueList(dirty', files', seen', k.todo) /\ TrueList(dirty', files', seen', k.keep)
      BY <1>2, <1>4, CalmScan DEF ScanTruth
    <3>2. \A u \in Turns : loose'[u] \subseteq loose[u]
      BY <1>4 DEF Calm
    <3> QED BY <1>2, <2>1, <3>1, <3>2 DEF ScanTruth
  <2>7. TaskTruth(m)'
    BY <2>5, <2>6 DEF TaskTruth
  <2>8. KeptTruth(m)'
    BY <1>2, <1>4, <1>10, <2>1, CalmKept, SaysItself DEF In
  <2> QED BY <1>5, <1>6, <2>7, <2>8 DEF TruthAt
<1> QED BY <1>1, <1>8, <1>9, <1>10

\* Recover: a turn undone without conflict is clear of every file.
LEMMA RecoverTurnEndsTruth ==
  ASSUME ~Shared, Shape, Life, Standing, Truth, NEW m \in Managers, RecoverTurnEnds(m)
  PROVE  LedgerTruth' /\ TruthAt(m)'
<1> DEFINE k == task[m]
           t == k.turn
           x == KeptEntry(k)
           keep == IF k.conflict THEN Append(k.keep, x) ELSE k.keep
<1>1. /\ status[m] = "recovering" /\ active[m] = NoJournal /\ TaskOK(k)
      /\ k.kind = "recover" /\ k.todo # <<>> /\ k.order = <<>>
      /\ ListOK(k.todo) /\ EntryOK(x) /\ x.id = Head(k.todo).id
      /\ Head(k.todo).id = t /\ t \in Turns /\ Scans(m, keep)
      /\ UNCHANGED <<files, ledger, status, fd, active, kept, tools, dirty, ended, torn>>
  BY RecoverTurnEndsDoes
<1>2. /\ Live(m) /\ ~Exit(m) /\ Base(m) = k.keep /\ Base(m)' = task'[m].keep
      /\ ScanStanding(k) /\ LedgerTruth /\ KeptTruth(m) /\ TaskTruth(m)
      /\ \A w \in Places, u \in Turns : u \in In(m, w) => w = "draft" /\ u # t
  BY <1>1, DraftsKept DEF Base, Open
<1>3. RestoreTruth(dirty, files, seen, k, ledger)
  BY <1>1, <1>2 DEF TaskTruth, Restores
<1>4. Step(m)
  BY DEF Step
<1>5. \A u \in Turns : Calm(u)
  BY <1>1, <1>2, <1>4, StillCalm
<1>6. LedgerTruth' /\ ActiveTruth(m)'
  BY <1>1, <1>2, <1>5, StillLedger, NoActiveTruth
<1>7. x.id = t /\ ~x.committed /\ ~x.draft /\ x.recs = k.recs
  <2>1. ~Head(k.todo).committed /\ ~Head(k.todo).draft
    BY <1>1, <1>2 DEF ScanStanding
  <2>2. Head(k.todo) \in PendingTurn
    BY <1>1, ListTail DEF EntryOK
  <2>3. x.committed = Head(k.todo).committed /\ x.draft = Head(k.todo).draft
    BY <2>2 DEF KeptEntry, PendingTurn
  <2>4. x.recs = k.recs
    BY <2>2 DEF KeptEntry, PendingTurn
  <2> QED BY <1>1, <2>1, <2>3, <2>4
<1>8. TrueEntry(dirty', files', seen', x)
  BY <1>1, <1>3, <1>7 DEF RestoreTruth, TrueEntry
<1>9. ~k.conflict => loose'[x.id] = {}
  <2>1. ~k.conflict => Clear(dirty[t])
    BY <1>1, <1>3 DEF RestoreTruth, Occurs, Clear
  <2> QED BY <1>1, <1>7, <2>1, ClearLoose
<1>10. \/ keep = k.keep /\ loose'[x.id] = {}
       \/ keep = Append(k.keep, x) /\ TrueEntry(dirty', files', seen', x)
  BY <1>8, <1>9
<1> HIDE DEF keep, x
<1>11. /\ TaskTruth(m)'
       /\ \A u : u # x.id => SaysSame(task'[m].keep, k.keep, u)
  BY <1>1, <1>5, <1>10, ScanGoesOn
<1>12. KeptTruth(m)'
  BY <1>1, <1>2, <1>5, <1>7, <1>11, CalmKept DEF In
<1> QED BY <1>6, <1>11, <1>12 DEF TruthAt

\* The compacted ledger lists every turn that still has work in a file.
LEMMA RecoverEndsTruth ==
  ASSUME ~Shared, Shape, Life, Standing, Truth, NEW m \in Managers, RecoverEnds(m)
  PROVE  LedgerTruth' /\ TruthAt(m)'
<1>1. /\ status[m] = "recovering" /\ status'[m] = "open" /\ active[m] = NoJournal
      /\ task[m].kind = "scan" /\ task[m].todo = <<>>
      /\ ledger' = task[m].keep /\ task'[m] = NoTask
      /\ UNCHANGED <<files, active, kept, tools, dirty, ended, torn>>
  BY RecoverEndsDoes
<1>2. Step(m) /\ ~Exit(m) /\ Live(m)
  BY <1>1 DEF Step, Exit, Live
<1>3. \A u \in Turns : Calm(u)
  BY <1>1, <1>2, StillCalm
<1>4. /\ LedgerTruth /\ KeptTruth(m) /\ ScanTruth(dirty, files, seen, loose, task[m])
      /\ StandingAt(m) /\ Base(m) = task[m].keep /\ Base(m)' = ledger'
  BY <1>1, <1>2 DEF Truth, TruthAt, TaskTruth, Standing, Base, Open
<1>5. LedgerTruth'
  <2>1. TrueList(dirty', files', seen', ledger')
    BY <1>1, <1>3, <1>4, CalmScan DEF ScanTruth
  <2>2. ASSUME NEW u \in Turns, loose'[u] # {} PROVE Pending(ledger', u)
    <3>1. Pending(task[m].todo, u) \/ Pending(task[m].keep, u)
      BY <1>3, <1>4, <2>2 DEF Calm, ScanTruth
    <3> QED BY <1>1, <3>1 DEF Pending
  <2>3. ASSUME NEW u \in Turns PROVE Clear(dirty'[u]) \/ u \in ended'
    <3>1. \A i \in DOMAIN ledger : ledger[i].id \in ended
      BY <1>1, <1>4, LedgerIds, JournalConstants DEF StandingAt, Current, NoJournal
    <3> QED BY <1>1, <1>4, <3>1 DEF LedgerTruth, Pending
  <2> QED BY <2>1, <2>2, <2>3 DEF LedgerTruth, Pending
<1>6. KeptTruth(m)'
  BY <1>1, <1>3, <1>4, CalmKept, SaysItself DEF In
<1> QED BY <1>1, <1>5, <1>6, NoTaskTruth, NoActiveTruth DEF TruthAt

-----------------------------------------------------------------------------
(* Truth: a process ends *)

\* Manager.Close drops from the ledger only turns with nothing left to undo.
LEMMA CloseTruth ==
  ASSUME ~Shared, Shape, Life, Standing, Truth, NEW m \in Managers, Close(m)
  PROVE  LedgerTruth'
<1>1. /\ Open(m) /\ active[m] = NoJournal
      /\ \A i \in DOMAIN ledger' :
           \E l \in DOMAIN ledger :
             /\ ledger'[i].id = ledger[l].id /\ ledger'[i].recs = ledger[l].recs
             /\ ledger'[i].committed = ledger[l].committed
             /\ ledger'[i].draft = ledger[l].draft
      /\ \A l \in DOMAIN ledger : ledger[l].id \notin In(m, "committed") =>
           \E i \in DOMAIN ledger' : ledger'[i].id = ledger[l].id
      /\ UNCHANGED <<files, tools, dirty, ended, torn>> /\ active' = active
  BY CloseDoes
<1>2. Step(m)
  BY DEF Step
<1>3. \A u \in Turns : Calm(u)
  BY <1>1, <1>2, OpenTruth, StillCalm
<1>4. \A k \in DOMAIN ledger' :
        \E i \in DOMAIN ledger : SameEntry(ledger'[k], ledger[i]) /\ Calm(ledger[i].id)
  BY <1>1, <1>3, LedgerIds DEF SameEntry
<1>5. ASSUME NEW u \in Turns
      PROVE  Pending(ledger', u) \/ Clear(dirty'[u]) \/ ~Pending(ledger, u)
  <2>1. u \in In(m, "committed") => Clear(dirty[u])
    BY <1>1, OpenTruth DEF KeptTruth, PlaceTruth, Places
  <2> QED BY <1>1, <2>1 DEF Pending
<1> QED BY <1>1, <1>3, <1>4, <1>5, CalmLedger, OpenTruth

\* A write that was in flight is not one a draft's records must show.
LEMMA CrashTruth ==
  ASSUME ~Shared, Shape, Life, Standing, Truth, NEW m \in Managers, Crash(m)
  PROVE  LedgerTruth'
<1>1. /\ Live(m) /\ active'[m] = NoJournal /\ \A p \in Paths : tools'[m][p] = "idle"
      /\ torn' = torn \cup Unlisted(m, {p \in Paths : tools[m][p] = "written"})
      /\ UNCHANGED <<files, ledger, dirty, ended>>
  BY DEF Crash, Live, Shape, ActiveOK, Idle
<1>2. Step(m) /\ ~Exit(m) /\ LedgerTruth
  BY DEF Step, Crash, Exit, Truth
<1>3. \A u \in Turns : loose'[u] \subseteq loose[u]
  BY <1>1 DEF loose, Holds
<1>4. \A u \in Turns, p \in Paths :
        InFlight(u, p) <=> active[m].id = u /\ tools[m][p] = "written"
  BY <1>2, OwnFlight
<1>5. ASSUME NEW u \in Turns
      PROVE  /\ seen'[u] \subseteq Paths /\ seen'[u] \subseteq loose[u]
             /\ \A p \in seen'[u] : p \in seen[u] \/ InFlight(u, p)
             /\ \A p \in seen'[u] : <<u, p>> \notin torn'
  BY <1>3 DEF seen, loose
<1>6. ASSUME NEW i \in DOMAIN ledger
      PROVE  TrueEntry(dirty', files', seen', ledger[i])
  <2> DEFINE e == ledger[i]
  <2>1. TrueEntry(dirty, files, seen, e) /\ e.id \in Turns
    BY <1>2, LedgerIds DEF LedgerTruth, TrueList
  <2>2. ASSUME e.draft, NEW p \in seen'[e.id] PROVE p \in seen[e.id]
    <3>1. SUFFICES ASSUME InFlight(e.id, p) PROVE FALSE
      BY <1>5, <2>1, <2>2
    <3>2. p \in Paths /\ active[m].id = e.id /\ tools[m][p] = "written"
      BY <1>4, <1>5, <2>1, <2>2, <3>1
    <3>3. <<e.id, p>> \in Unlisted(m, {q \in Paths : tools[m][q] = "written"})
      BY <2>2, <3>2 DEF Unlisted
    <3> QED BY <1>1, <1>5, <2>1, <2>2, <3>3
  <2>3. ~e.committed /\ e.draft => Shows(seen'[e.id], e.recs)
    BY <2>1, <2>2 DEF TrueEntry, Shows
  <2> QED BY <1>1, <2>1, <2>3 DEF TrueEntry
<1>7. TrueList(dirty', files', seen', ledger')
  BY <1>1, <1>6 DEF TrueList
<1>8. \A u \in Turns : loose'[u] # {} => Pending(ledger', u)
  BY <1>1, <1>2, <1>3 DEF LedgerTruth
<1>9. \A u \in Turns : Clear(dirty'[u]) \/ u \in ended' \/ Pending(ledger', u)
  BY <1>1, <1>2 DEF LedgerTruth
<1> QED BY <1>7, <1>8, <1>9 DEF LedgerTruth, Pending

\* Steps that touch nothing Truth speaks of.
LEMMA QuietTruth ==
  ASSUME Truth, UNCHANGED <<files, ledger, active, kept, tools, task, dirty, ended, torn>>,
         \A m \in Managers : Live(m)' => Live(m) /\ (Open(m)' <=> Open(m))
  PROVE  Truth'
<1>1. loose' = loose
  BY DEF loose, Holds
<1>2. seen' = seen
  <2>1. \A t \in Turns, p \in Paths : InFlight(t, p)' <=> InFlight(t, p)
    BY DEF InFlight
  <2> QED BY <1>1, <2>1 DEF seen
<1>3. LedgerTruth'
  BY <1>1, <1>2 DEF Truth, LedgerTruth, TrueList, TrueEntry, Pending
<1>4. ASSUME NEW m \in Managers, Live(m)' PROVE TruthAt(m)'
  <2>1. TruthAt(m) /\ Base(m)' = Base(m)
    BY <1>4 DEF Truth, Base
  <2>2. ActiveTruth(m)'
    BY <1>2, <2>1 DEF TruthAt, ActiveTruth
  <2>3. KeptTruth(m)'
    BY <1>2, <2>1 DEF TruthAt, KeptTruth, In
  <2>4. TaskTruth(m)'
    BY <1>1, <1>2, <2>1 DEF TruthAt, TaskTruth
  <2> QED BY <2>2, <2>3, <2>4 DEF TruthAt
<1> QED BY <1>3, <1>4 DEF Truth

\* restore() on one path, its look at the file included.
LEMMA RestoreRecordTruth ==
  ASSUME ~Shared, Shape, Life, Standing, Truth, NEW m \in Managers, RestoreRecord(m)
  PROVE  LedgerTruth' /\ TruthAt(m)'
<1>1. CASE task' # task
  BY <1>1, RestoreStepTruth
<1>2. CASE task' = task
  <2>1. /\ task[m].kind \in Restores
        /\ UNCHANGED <<ledger, status, active, kept, tools, ended, torn>>
    BY RestoreRecordDoes
  <2>2. UNCHANGED <<files, dirty>>
    <3>1. \/ UNCHANGED <<files, dirty>>
          \/ Restored(task[m], task'[m])
      BY RestoreRecordDoes
    <3>2. task[m].order \in Seq(Paths) /\ task[m].order # <<>>
      BY RestoreRecordIs DEF Shape, TasksOK, Task
    <3>3. task[m].order # Tail(task[m].order)
      <4> DEFINE o == task[m].order
      <4>1. o \in Seq(Paths) /\ o # <<>>
        BY <3>2
      <4> HIDE DEF o
      <4>2. Len(o) \in Nat /\ Len(Tail(o)) = Len(o) - 1
        BY <4>1, HeadTailProperties, LenProperties
      <4>3. Len(o) # Len(Tail(o))
        BY <4>2
      <4>4. o # Tail(o)
        BY <4>3, Zenon
      <4> QED BY <4>4 DEF o
    <3> QED BY <1>2, <3>1, <3>3 DEF Restored
  <2>3. Truth'
    BY <1>2, <2>1, <2>2, QuietTruth DEF Live, Open
  <2>4. Live(m)'
    <3>1. task[m].kind # "none"
      BY <2>1 DEF Restores
    <3> QED BY <2>1, <3>1 DEF Life, LifeAt, Vacant, NoTask, Live
  <2> QED BY <2>3, <2>4 DEF Truth
<1> QED BY <1>1, <1>2

\* At first there is nothing to undo.
LEMMA InitTruth == Init => Truth
<1> SUFFICES ASSUME Init PROVE Truth
  OBVIOUS
<1>1. \A t \in Turns : Clear(dirty[t])
  BY DEF Init, Clear
<1>2. \A t \in Turns : loose[t] = {}
  BY <1>1, ClearLoose
<1>3. TrueList(dirty, files, seen, ledger)
  BY DEF Init, TrueList
<1>4. \A m \in Managers : ~Live(m)
  BY DEF Init, Live
<1> QED BY <1>1, <1>2, <1>3, <1>4 DEF Truth, LedgerTruth

\* A step of one process keeps the records right about the files.
LEMMA StepTruth ==
  ASSUME ~Shared, Merges = {}, Shape, Life, Standing, Truth,
         NEW m \in Managers, Step(m)
  PROVE  Truth'
<1>1. CASE Exit(m)
  BY <1>1, QuietTruth DEF Exit, memory, Live, Open, Shape, Plain
<1>2. CASE Crash(m)
  <2>1. ~Live(m)' /\ ~Exit(m)
    BY <1>2 DEF Crash, Exit, Live, Shape, Plain
  <2> QED BY <1>2, <2>1, CrashTruth, TruthStep
<1>3. CASE Close(m)
  <2>1. ~Live(m)' /\ ~Exit(m)
    BY <1>3, CloseDoes DEF Exit, Open
  <2> QED BY <1>3, <2>1, CloseTruth, TruthStep
<1>4. CASE ~Exit(m) /\ ~Crash(m) /\ ~Close(m)
  <2>1. CASE \E t \in Turns :
               \/ Begin(m, t) \/ Commit(m, t) \/ Suspend(m, t) \/ KeepDraft(m, t)
               \/ Rollback(m, t) \/ Revert(m, t)
               \/ \E s \in Turns : ResumeDraft(m, s, t)
    <3>1. LedgerTruth' /\ TruthAt(m)'
      BY <2>1, BeginTruth, CommitTruth, SuspendTruth, KeepDraftTruth,
         RollbackTruth, RevertTruth, ResumeDraftTruth
    <3> QED BY <1>4, <3>1, TruthStep
  <2>2. CASE \E t \in Turns, p \in Paths :
               \/ Before(m, t, p) \/ After(m, t, p)
               \/ \E c \in Contents \cup {Absent} : ToolWrite(m, t, p, c)
    <3>1. LedgerTruth' /\ TruthAt(m)'
      BY <2>2, BeforeTruth, AfterTruth, ToolWriteTruth
    <3> QED BY <1>4, <3>1, TruthStep
  <2>3. CASE \/ RestoreRecord(m) \/ RestoreFails(m) \/ RollbackEnds(m)
             \/ RevertEnds(m) \/ OpenManager(m) \/ RecoverTurn(m)
             \/ RecoverTurnEnds(m) \/ RecoverEnds(m)
    <3>1. LedgerTruth' /\ TruthAt(m)'
      BY <2>3, RestoreRecordTruth, RestoreFailsTruth, EndsTruth, OpenManagerTruth,
         RecoverTurnTruth, RecoverTurnEndsTruth, RecoverEndsTruth
    <3> QED BY <1>4, <3>1, TruthStep
  <2> QED BY <1>4, <2>1, <2>2, <2>3, Zenon DEF Step
<1> QED BY <1>1, <1>2, <1>3, <1>4

\* The records stay right about the files, whatever happens.
LEMMA NextTruth ==
  ASSUME ~Shared, Merges = {}, Shape, Life, Standing, Truth, [Next]_vars
  PROVE  Truth'
<1>1. CASE UNCHANGED vars
  BY <1>1, QuietTruth DEF vars, Live, Open
<1> QED BY <1>1, StepTruth, EditTruth, NextSteps

-----------------------------------------------------------------------------
(* The theorems *)

\* Right records are enough to undo whatever is still in a file.
LEMMA TruthUndoable ==
  ASSUME Shape, Truth
  PROVE  RecordedIsUndoable
<1> SUFFICES ASSUME NEW t \in Turns, NEW p \in Paths, Holds(t, p), <<t, p>> \notin torn
             PROVE  Undoable(t, p)
  BY DEF RecordedIsUndoable
<1>1. p \in loose[t]
  BY DEF loose
<1>2. PICK i \in DOMAIN ledger : ledger[i].id = t
  BY <1>1 DEF Truth, LedgerTruth, Pending
<1>3. TrueEntry(dirty, files, seen, ledger[i])
  BY DEF Truth, LedgerTruth, TrueList
<1>4. ~ledger[i].committed
  BY <1>2, <1>3 DEF TrueEntry, Clear, Holds
<1>5. ledger[i].recs[p] # NoRecord
  BY <1>2, <1>3, <1>4 DEF TrueEntry, Fair, FairRecord, Holds
<1> QED BY <1>2, <1>4, <1>5 DEF Undoable

\* What the journal knows with one process at a time: who is at work, which
\* turns are where, and what their records say about the files.
JournalInv == Shape /\ Life /\ Standing /\ Truth

\* With one process at a time and turn ids that are used once, the invariant
\* holds in every reachable state.
LEMMA JournalInvHolds ==
  ASSUME ~Shared, Merges = {}
  PROVE  Spec => []JournalInv
<1>1. Init => JournalInv
  BY InitShape, InitLife, InitStanding, InitTruth DEF JournalInv
<1>2. JournalInv /\ [Next]_vars => JournalInv'
  BY NextShape, NextLife, NextStanding, NextTruth DEF JournalInv
<1> QED BY <1>1, <1>2, PTL DEF Spec

\* For any number of processes after each other, turns, files and contents, and
\* wherever a process died: while a file holds what an unaccepted turn wrote,
\* the ledger lists the turn as pending with a record of the file.
THEOREM JournalKeepsUndo ==
  ASSUME ~Shared, Merges = {}
  PROVE  Spec => []RecordedIsUndoable
<1>1. JournalInv => RecordedIsUndoable
  BY TruthUndoable DEF JournalInv
<1> QED BY <1>1, JournalInvHolds, PTL

\* What restore() found unchanged, and is about to rewrite, is what the record of
\* the next path says.
LookedAt(m) ==
  checked[m] # None =>
    /\ task[m].kind \in Restores /\ task[m].order # <<>>
    /\ Equal(checked[m], task[m].recs[Head(task[m].order)].after)

Looked == \A m \in Managers : LookedAt(m)

\* A process between the check and the write of restore() does nothing else.
LEMMA StepLooks ==
  ASSUME Shape, Life, NEW m \in Managers, Step(m)
  PROVE  /\ \A n \in Managers \ {m} : checked'[n] = checked[n]
         /\ \/ checked'[m] = None
            \/ /\ checked'[m] = checked[m]
               /\ \/ task'[m] = task[m]
                  \/ task[m].kind \notin Restores \/ task[m].order = <<>>
            \/ /\ task'[m] = task[m]
               /\ task[m].kind \in Restores /\ task[m].order # <<>>
               /\ LET p == Head(task[m].order) IN
                  checked'[m] = files[p] /\ StillOwn(task[m].recs[p], p)
<1> DEFINE Rests == /\ checked' = checked
                    /\ \/ task' = task
                       \/ task[m].kind \notin Restores \/ task[m].order = <<>>
<1>0. checked \in [Managers -> Fingerprint \cup {None}]
  BY DEF Shape, Plain
<1>1. ASSUME NEW t \in Turns, Begin(m, t) \/ Commit(m, t) \/ Suspend(m, t) \/ KeepDraft(m, t)
      PROVE  Rests
  BY <1>1 DEF Begin, Commit, Suspend, KeepDraft
<1>2. ASSUME NEW t \in Turns, Rollback(m, t) \/ Revert(m, t)
      PROVE  Rests
  BY <1>2 DEF Rollback, Revert, NoTask, Restores
<1>3. ASSUME NEW t \in Turns, NEW s \in Turns, ResumeDraft(m, s, t)
      PROVE  Rests
  BY <1>3 DEF ResumeDraft
<1>4. ASSUME NEW t \in Turns, NEW p \in Paths, Before(m, t, p) \/ After(m, t, p)
      PROVE  Rests
  BY <1>4 DEF Before, After
<1>5. ASSUME NEW t \in Turns, NEW p \in Paths, NEW c \in Contents \cup {Absent},
             ToolWrite(m, t, p, c)
      PROVE  Rests
  BY <1>5 DEF ToolWrite
<1>6. CASE RollbackEnds(m) \/ RevertEnds(m) \/ RecoverTurnEnds(m)
  <2>1. Rests
    BY <1>6 DEF RollbackEnds, RevertEnds, RecoverTurnEnds, Done
  <2> QED BY <2>1
<1>7. CASE OpenManager(m) \/ RecoverTurn(m) \/ RecoverEnds(m) \/ Close(m) \/ Exit(m)
  <2>1. CASE OpenManager(m)
    <3>1. checked' = checked /\ ~Live(m)
      BY <2>1 DEF OpenManager, Live
    <3>2. task[m].kind \notin Restores
      BY <3>1 DEF Life, LifeAt, Vacant, NoTask, Restores
    <3> QED BY <3>1, <3>2
  <2>2. CASE RecoverTurn(m) \/ RecoverEnds(m)
    <3>1. Rests
      BY <2>2 DEF RecoverTurn, RecoverEnds, Restores
    <3> QED BY <3>1
  <2>3. CASE Close(m) \/ Exit(m)
    <3>1. Rests
      BY <2>3 DEF Close, Exit
    <3> QED BY <3>1
  <2> QED BY <1>7, <2>1, <2>2, <2>3
<1>8. CASE RestoreFails(m) \/ Crash(m)
  BY <1>0, <1>8 DEF RestoreFails, Crash
<1>9. CASE RestoreRecord(m)
  <2> DEFINE p == Head(task[m].order)
             r == task[m].recs[p]
  <2>1. /\ task[m].kind \in Restores /\ task[m].order # <<>>
        /\ \/ /\ task' = task /\ StillOwn(r, p)
              /\ checked' = [checked EXCEPT ![m] = files[p]]
           \/ checked[m] = None /\ checked' = checked
           \/ checked' = [checked EXCEPT ![m] = None]
    BY <1>9, RestoreRecordIs
  <2> HIDE DEF r
  <2> QED BY <1>0, <2>1 DEF r
<1> QED BY <1>1, <1>2, <1>3, <1>4, <1>5, <1>6, <1>7, <1>8, <1>9, Zenon DEF Step

\* What was found unchanged stays what the record says until it is rewritten.
LEMMA NextLooked ==
  ASSUME Shape, Life, Looked, [Next]_vars
  PROVE  Looked'
<1>1. CASE UNCHANGED vars \/ \E p \in Paths, c \in Contents : Edit(p, c)
  <2>1. checked' = checked /\ task' = task
    BY <1>1 DEF vars, Edit
  <2> QED BY <2>1 DEF Looked, LookedAt
<1>2. ASSUME NEW m \in Managers, Step(m)
      PROVE  Looked'
  <2>1. ASSUME NEW n \in Managers, n # m
        PROVE  LookedAt(n)'
    <3>1. checked'[n] = checked[n] /\ task'[n] = task[n]
      BY <1>2, <2>1, StepLooks, StepElsewhere DEF Elsewhere
    <3> QED BY <3>1 DEF Looked, LookedAt
  <2>2. LookedAt(m)'
    <3>1. LookedAt(m)
      BY DEF Looked
    <3>2. CASE checked'[m] = None
      BY <3>2 DEF LookedAt
    <3>3. CASE /\ checked'[m] = checked[m]
               /\ \/ task'[m] = task[m]
                  \/ task[m].kind \notin Restores \/ task[m].order = <<>>
      BY <3>1, <3>3 DEF LookedAt
    <3>4. CASE /\ task'[m] = task[m]
               /\ task[m].kind \in Restores /\ task[m].order # <<>>
               /\ LET p == Head(task[m].order) IN
                  checked'[m] = files[p] /\ StillOwn(task[m].recs[p], p)
      BY <3>4 DEF LookedAt, StillOwn
    <3> QED BY <1>2, <3>2, <3>3, <3>4, StepLooks
  <2> QED BY <2>1, <2>2 DEF Looked
<1> QED BY <1>1, <1>2, NextSteps

\* Only a tool and a restore write files.
LEMMA StepWrites ==
  ASSUME NEW m \in Managers, Step(m), files' # files
  PROVE  task' = task \/ RestoreRecord(m)
<1>1. ASSUME NEW t \in Turns, Begin(m, t) \/ Commit(m, t) \/ Suspend(m, t) \/ KeepDraft(m, t)
                                \/ Rollback(m, t) \/ Revert(m, t)
      PROVE  files' = files
  BY <1>1 DEF Begin, Commit, Suspend, KeepDraft, Rollback, Revert
<1>2. ASSUME NEW t \in Turns, NEW s \in Turns, ResumeDraft(m, s, t)
      PROVE  files' = files
  BY <1>2 DEF ResumeDraft
<1>3. ASSUME NEW t \in Turns, NEW p \in Paths, Before(m, t, p) \/ After(m, t, p)
      PROVE  files' = files
  BY <1>3 DEF Before, After
<1>4. ASSUME NEW t \in Turns, NEW p \in Paths, NEW c \in Contents \cup {Absent},
             ToolWrite(m, t, p, c)
      PROVE  task' = task
  BY <1>4 DEF ToolWrite
<1>5. ASSUME RestoreFails(m) \/ RollbackEnds(m) \/ RevertEnds(m) \/ OpenManager(m)
               \/ RecoverTurn(m) \/ RecoverTurnEnds(m) \/ RecoverEnds(m)
               \/ Close(m) \/ Exit(m) \/ Crash(m)
      PROVE  files' = files
  BY <1>5 DEF RestoreFails, RollbackEnds, RevertEnds, OpenManager, RecoverTurn,
              RecoverTurnEnds, RecoverEnds, Close, Exit, Crash
<1> QED BY <1>1, <1>2, <1>3, <1>4, <1>5, Zenon DEF Step

\* restore() puts a path back only where the file it looked at was what the turn
\* left; if nobody wrote it since, what goes is the turn's.
LEMMA RestoresOwn ==
  ASSUME Shape, Life, Standing, Truth, Looked, NEW m \in Managers, RestoreRecord(m),
         task[m].kind \in {"rollback", "recover"}, NEW p \in Paths,
         files[p].sha \in Contents, files'[p].sha # files[p].sha,
         files[p] = checked[m]
  PROVE  files'[p].sha = dirty[task[m].turn][p]
<1> DEFINE k == task[m]
           q == Head(k.order)
           r == k.recs[q]
<1>1. /\ k.kind \in Restores /\ Restored(k, task'[m])
      /\ files' = [files EXCEPT ![q] = Put(r.before.sha)]
      /\ checked[m] # None
  BY RestoreRecordDoes
<1>2. q \in Paths /\ r \in Record /\ r # NoRecord
  BY <1>1 DEF Restored
<1>3. files \in [Paths -> Fingerprint]
  BY DEF Shape, Plain
<1>4. Fair(dirty[k.turn], files, k.recs)
  <2>1. k.kind # "none"
    OBVIOUS
  <2>2. Live(m)
    BY <2>1 DEF Life, LifeAt, Vacant, NoTask
  <2> QED BY <1>1, <2>2 DEF Truth, TruthAt, TaskTruth, RestoreTruth
<1>5. FairRecord(dirty[k.turn][q], files[q], r)
  BY <1>2, <1>4 DEF Fair
<1>6. Equal(files[p], r.after)
  BY <1>1 DEF Looked, LookedAt
<1> HIDE DEF k, q, r
<1>7. p = q /\ files'[p].sha = r.before.sha
  BY <1>1, <1>2, <1>3 DEF Put
<1>8. r.after \in Fingerprint /\ files[p] \in Fingerprint
  BY <1>2, <1>3, NoRecordTypes
<1>9. files[p].sha = r.after.sha /\ files[p].id = r.after.id
  BY <1>6, JournalConstants DEF Equal
<1>10. files[p] = r.after
  BY <1>8, <1>9 DEF Fingerprint
<1>11. Changed(r)
  BY <1>2, <1>7, <1>9 DEF Changed
<1>12. dirty[k.turn][q] = r.before.sha
  BY <1>5, <1>7, <1>10, <1>11 DEF FairRecord
<1> QED BY <1>7, <1>12 DEF k

\* A rollback or a recovery changes an existing file only to what it held
\* before that turn's own unaccepted writes, for any number of processes,
\* turns, files and contents, and edits of the user at any time: what it may
\* lose is only an edit made between the check and the write of restore().
THEOREM JournalUndoesItsOwn ==
  ASSUME ~Shared, Merges = {}
  PROVE  Spec => UndoesOnlyItsOwn
<1> DEFINE A == \A m \in Managers, p \in Paths :
                  (/\ task[m].kind \in {"rollback", "recover"} /\ task'[m] # task[m]
                   /\ files[p].sha \in Contents /\ files'[p].sha # files[p].sha
                   /\ files[p] = checked[m])
                    => files'[p].sha = dirty[task[m].turn][p]
<1>1. JournalInv /\ Looked /\ [Next]_vars => [A]_vars
  <2> SUFFICES ASSUME JournalInv, Looked, [Next]_vars,
                      NEW m \in Managers, NEW p \in Paths,
                      task[m].kind \in {"rollback", "recover"}, task'[m] # task[m],
                      files[p].sha \in Contents, files'[p].sha # files[p].sha,
                      files[p] = checked[m]
               PROVE  files'[p].sha = dirty[task[m].turn][p]
    OBVIOUS
  <2>1. ASSUME NEW q \in Paths, NEW c \in Contents, Edit(q, c) PROVE task' = task
    BY <2>1 DEF Edit
  <2>2. ASSUME NEW n \in Managers, Step(n) PROVE RestoreRecord(m)
    <3>1. n = m
      BY <2>2, StepElsewhere DEF Elsewhere, JournalInv
    <3> QED BY <2>2, <3>1, StepWrites
  <2>3. RestoreRecord(m)
    BY <2>1, <2>2, NextSteps DEF vars
  <2> QED BY <2>3, RestoresOwn DEF JournalInv
<1>2. Spec => [][Next]_vars
  BY PTL DEF Spec
<1>3. Init => Looked
  BY DEF Init, Looked, LookedAt
<1>4. JournalInv /\ Looked /\ [Next]_vars => Looked'
  BY NextLooked DEF JournalInv
<1> QED BY <1>1, <1>2, <1>3, <1>4, JournalInvHolds, PTL DEF UndoesOnlyItsOwn, Spec
=============================================================================
