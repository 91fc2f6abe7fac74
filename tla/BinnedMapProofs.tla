--------------------------- MODULE BinnedMapProofs ---------------------------
(***************************************************************************)
(* For any number of threads that insert, of units and of activities: the  *)
(* binned map is an ordered queue, although threads insert into it while   *)
(* its owner pops, and units are used over and over.  Two things are asked *)
(* of the build and of the sync: that insert() loads current_time_unit     *)
(* once, and that one thread at a time looks for the earliest activity.    *)
(*                                                                         *)
(* The argument: a unit is in one place, holds only what is due at its     *)
(* time, and is due before the next sync if it is the current one; what    *)
(* another thread inserts is due after that and so goes into another unit. *)
(* Everything that is in or on its way in has a number of its own.         *)
(***************************************************************************)
EXTENDS BinnedMap, FiniteSetTheorems, FunctionTheorems, SequenceTheorems,
        WellFoundedInduction, TLAPS

(* Who is inserting, and who is sorting. *)
Flying(t) == pc[t] \in {"look", "find", "push"}
Reading(t) == pc[t] \in {"read", "place"}
Inserters == {Owner} \cup Writers

InMap == {map[t] : t \in DOMAIN map}
In(u) == {unit[u].acts[i] : i \in DOMAIN unit[u].acts}
Decreasing(s, n) == \A i, j \in 1 .. n : i < j => Less(s[j], s[i])

(* The types of the rest. *)
Locals ==
  [act : Acts \cup {NoAct}, unit : Units \cup {NoUnit}, i : Nat, val : Acts \cup {NoAct}]
LocalTypes ==
  /\ local \in [Threads -> Locals]
  /\ insertOrder >= 1 /\ depth <= insertOrder

(* What each thread may be doing, and in a sync nothing else is done. *)
Roles ==
  /\ \A t \in Threads : /\ Flying(t) => t \in Inserters
                        /\ pc[t] = "pop" => t = Owner
                        /\ Reading(t) => t \in Readers \ asked
  /\ asked # {} \/ (\E t \in Threads : Reading(t)) => InSync

(* Units are in use or in the pool, where they are empty; nothing that is   *)
(* in use is due before the current unit, nor is the current unit due after *)
(* the next sync.                                                           *)
UnitsInv ==
  /\ Units = pool \cup InUse /\ pool \cap InUse = {} /\ current \notin InMap
  /\ \A t \in DOMAIN map : unit[map[t]].time = t /\ unit[current].time < t
  /\ unit[current].time < windowEnd
  /\ \A u \in pool : unit[u].acts = <<>> /\ unit[u].time < windowEnd

(* What is in a unit is due when the unit is, in the order in which it is  *)
(* to come out if it is sorted, and nothing is in twice.                    *)
BinsInv ==
  /\ \A u \in Units : \A i \in DOMAIN unit[u].acts :
       unit[u].acts[i].time = unit[u].time /\ unit[u].acts[i].order <= insertOrder
  /\ \A u, v \in Units : \A i \in DOMAIN unit[u].acts, j \in DOMAIN unit[v].acts :
       unit[u].acts[i].order = unit[v].acts[j].order => u = v /\ i = j
  /\ \A u \in Units : unit[u].sorted => Decreasing(unit[u].acts, Len(unit[u].acts))

(* An insertion is on its way to the unit of its delivery time. *)
Writing(t) ==
  /\ local[t].act \in Acts /\ local[t].act.order <= insertOrder /\ local[t].unit \in Units
  /\ t \in Writers => windowEnd <= local[t].act.time
  /\ t = Owner => /\ unit[current].time <= local[t].act.time
                  /\ pc[t] = "look" => local[t].unit = current
                  /\ pc[t] = "find" => unit[current].time < local[t].act.time
  /\ pc[t] = "push" => local[t].unit \in InUse /\ unit[local[t].unit].time = local[t].act.time
FlyingInv ==
  /\ \A t \in Threads : Flying(t) =>
       /\ Writing(t)
       /\ \A u \in Units : \A i \in DOMAIN unit[u].acts :
            unit[u].acts[i].order # local[t].act.order
  /\ \A s, t \in Threads : Flying(s) /\ Flying(t) /\ local[s].act.order = local[t].act.order => s = t
  /\ \A t \in DOMAIN map : unit[map[t]].acts = <<>> =>
       \E s \in Threads : pc[s] = "push" /\ local[s].unit = map[t]

(* A reader has sorted the part of the unit it has been through. *)
Sorting(t) ==
  LET u == local[t].unit
  IN  /\ u \in InMap /\ ~unit[u].sorted /\ local[t].i \in 2 .. Len(unit[u].acts)
      /\ Decreasing(unit[u].acts, local[t].i - 1)
      /\ pc[t] = "place" => local[t].val = unit[u].acts[local[t].i]
SortingInv == \A t \in Threads : Reading(t) => Sorting(t)

(* The depth is the number of activities that are in, or on their way in. *)
Inside == UNION {In(u) : u \in Units}
Coming == {local[t].act : t \in {s \in Threads : Flying(s)}}
Held == Inside \cup Coming
DepthInv == IsFiniteSet(Held) /\ depth = Cardinality(Held)

BinInv ==
  /\ TypeOK /\ LocalTypes /\ Roles /\ UnitsInv /\ BinsInv /\ FlyingInv /\ SortingInv /\ DepthInv

----------------------------------------------------------------------------
(* Sequences of activities.                                                *)

(* Activities come out in a total order. *)
LEMMA LessIsOrder ==
  /\ \A a, b \in Acts : a # b => Less(a, b) \/ Less(b, a)
  /\ \A a, b \in Acts : Less(a, b) => ~Less(b, a)
  /\ \A a, b, c \in Acts : Less(a, b) /\ Less(b, c) => Less(a, c)
  <1>1. \A a \in Acts : /\ a.time \in Int /\ a.prio \in Int /\ a.order \in Int
                        /\ a = [time |-> a.time, prio |-> a.prio, order |-> a.order]
    <2> SUFFICES ASSUME NEW a \in Acts
                 PROVE  /\ a.time \in Int /\ a.prio \in Int /\ a.order \in Int
                        /\ a = [time |-> a.time, prio |-> a.prio, order |-> a.order]
      OBVIOUS
    <2>1. a \in [time : Times, prio : Prios, order : 1 .. MaxInserts]
      BY DEF Acts
    <2>2. a.time \in Times /\ a.prio \in Prios /\ a.order \in 1 .. MaxInserts
      BY <2>1
    <2>3. a = [time |-> a.time, prio |-> a.prio, order |-> a.order]
      BY <2>1
    <2>4. \A p \in Prios : p \in Int
      BY BinnedAssumption
    <2>5. a.prio \in Int
      BY <2>2, <2>4
    <2>6. a.time \in Int /\ a.order \in Int
      <3>1. LastTime \in Int /\ MaxInserts \in Int
        BY BinnedAssumption
      <3> QED BY <2>2, <3>1 DEF Times
    <2> QED BY <2>3, <2>5, <2>6
  <1>2. ASSUME NEW a \in Acts, NEW b \in Acts, a # b
        PROVE  a.time # b.time \/ a.prio # b.prio \/ a.order # b.order
    BY <1>1, <1>2
  <1>3. \A a, b \in Acts : a # b => Less(a, b) \/ Less(b, a)
    BY <1>1, <1>2 DEF Less
  <1>4. \A a, b \in Acts : Less(a, b) => ~Less(b, a)
    BY <1>1 DEF Less
  <1>5. \A a, b, c \in Acts : Less(a, b) /\ Less(b, c) => Less(a, c)
    BY <1>1 DEF Less
  <1> QED BY <1>3, <1>4, <1>5

(* A set of natural numbers that is not empty has a least one. *)
LEMMA LeastOf ==
  ASSUME NEW S \in SUBSET Nat, S # {}
  PROVE  \E t \in S : \A u \in S : t <= u
  <1> DEFINE R == OpToRel(<, Nat)
  <1>1. \E t \in S : \A u \in S : <<u, t>> \notin R
    <2>1. IsWellFoundedOn(R, Nat)
      BY NatLessThanWellFounded
    <2> HIDE DEF R
    <2> QED BY <2>1, WFMin
  <1>2. \A t, u \in Nat : <<u, t>> \notin R => t <= u
    BY DEF OpToRel
  <1> HIDE DEF R
  <1> QED BY <1>1, <1>2

(* The same activities in another order; their numbers are all different. *)
Numbered(s) == \A j, k \in DOMAIN s : s[j].order = s[k].order => j = k
Permuted(r, s) ==
  /\ r \in Seq(Acts) /\ Len(r) = Len(s) /\ Numbered(r)
  /\ \A j \in DOMAIN r : \E k \in DOMAIN s : r[j] = s[k]
  /\ \A k \in DOMAIN s : \E j \in DOMAIN r : r[j] = s[k]

(* One step of the insertion sort puts one more element in its place. *)
LEMMA PlacedIs ==
  ASSUME NEW s \in Seq(Acts), Numbered(s), NEW i \in 1 .. Len(s), Decreasing(s, i - 1)
  PROVE  Permuted(Placed(s, i, s[i]), s) /\ Decreasing(Placed(s, i, s[i]), i)
  <1> DEFINE v == s[i]
             Ps == {n \in 1 .. i : \A j \in n .. i - 1 : Less(s[j], v)}
             Good(n) == /\ \A j \in n .. i - 1 : Less(s[j], v)
                        /\ n > 1 => ~Less(s[n - 1], v)
             p == CHOOSE n \in 1 .. i : Good(n)
             r == [j \in DOMAIN s |-> IF j = p THEN v
                                      ELSE IF j \in p + 1 .. i THEN s[j - 1] ELSE s[j]]
  <1>1. i \in Nat /\ Len(s) \in Nat /\ DOMAIN s = 1 .. Len(s) /\ \A j \in 1 .. Len(s) : s[j] \in Acts
    OBVIOUS
  <1>2. \E n \in 1 .. i : Good(n)
    <2>1. i \in Ps /\ Ps \subseteq Nat
      BY <1>1
    <2>2. PICK n \in Ps : \A m \in Ps : n <= m
      BY <2>1, LeastOf
    <2>3. ASSUME n > 1, Less(s[n - 1], v) PROVE FALSE
      <3>1. n - 1 \in 1 .. i
        BY <2>2, <2>3, <1>1
      <3>2. \A j \in n - 1 .. i - 1 : j = n - 1 \/ j \in n .. i - 1
        BY <2>2, <1>1
      <3>3. n - 1 \in Ps
        BY <2>2, <2>3, <3>1, <3>2
      <3> QED BY <2>2, <3>3, <1>1
    <2> QED BY <2>2, <2>3
  <1>3. p \in 1 .. i /\ Good(p)
    <2> HIDE DEF Good
    <2> QED BY <1>2
  <1>4. Placed(s, i, s[i]) = r
    BY DEF Placed
  <1> HIDE DEF p, Ps
  <1>5. /\ r[p] = s[i]
        /\ \A j \in p + 1 .. i : r[j] = s[j - 1] /\ j - 1 \in 1 .. Len(s)
        /\ \A j \in 1 .. Len(s) : j < p \/ j > i => r[j] = s[j]
    BY <1>1, <1>3
  <1>6. r \in Seq(Acts) /\ Len(r) = Len(s) /\ DOMAIN r = 1 .. Len(s)
    <2>1. \A j \in 1 .. Len(s) : r[j] \in Acts
      BY <1>1, <1>3, <1>5
    <2>2. r \in [1 .. Len(s) -> Acts]
      BY <1>1, <2>1
    <2> HIDE DEF r
    <2> QED BY <1>1, <2>2
  <1> HIDE DEF r, Good
  <1>7. \A j \in 1 .. Len(s) : j = p \/ j \in p + 1 .. i \/ j < p \/ j > i
    BY <1>1, <1>3
  <1>8. Numbered(r)
    <2> SUFFICES ASSUME NEW j \in 1 .. Len(s), NEW k \in 1 .. Len(s), r[j].order = r[k].order PROVE j = k
      BY <1>6 DEF Numbered
    <2>1. \A a, b \in 1 .. Len(s) : s[a].order = s[b].order => a = b
      BY <1>1 DEF Numbered
    <2>2. \A a \in 1 .. Len(s) : \E b \in 1 .. Len(s) :
             /\ r[a] = s[b]
             /\ \/ a = p /\ b = i
                \/ a \in p + 1 .. i /\ b = a - 1
                \/ (a < p \/ a > i) /\ b = a
      <3> TAKE a \in 1 .. Len(s)
      <3>1. CASE a = p
        BY <1>1, <1>5, <3>1
      <3>2. CASE a \in p + 1 .. i
        BY <1>5, <3>2
      <3>3. CASE a < p \/ a > i
        BY <1>5, <3>3
      <3> QED BY <1>7, <3>1, <3>2, <3>3
    <2>3. PICK a \in 1 .. Len(s) : /\ r[j] = s[a]
                                   /\ \/ j = p /\ a = i
                                      \/ j \in p + 1 .. i /\ a = j - 1
                                      \/ (j < p \/ j > i) /\ a = j
      BY <2>2
    <2>4. PICK b \in 1 .. Len(s) : /\ r[k] = s[b]
                                   /\ \/ k = p /\ b = i
                                      \/ k \in p + 1 .. i /\ b = k - 1
                                      \/ (k < p \/ k > i) /\ b = k
      BY <2>2
    <2>5. a = b
      BY <2>1, <2>3, <2>4
    <2> QED BY <1>1, <1>3, <2>3, <2>4, <2>5
  <1>9. \A j \in DOMAIN r : \E k \in DOMAIN s : r[j] = s[k]
    BY <1>1, <1>5, <1>6, <1>7
  <1>10. \A k \in DOMAIN s : \E j \in DOMAIN r : r[j] = s[k]
    <2> TAKE k \in DOMAIN s
    <2>1. CASE k = i
      BY <1>1, <1>3, <1>5, <1>6, <2>1
    <2>2. CASE k >= p /\ k < i
      <3>1. k + 1 \in p + 1 .. i /\ k + 1 - 1 = k /\ k + 1 \in 1 .. Len(s)
        BY <1>1, <1>3, <2>2
      <3>2. r[k + 1] = s[k]
        BY <1>5, <3>1
      <3> QED BY <1>6, <3>1, <3>2
    <2>3. CASE k < p \/ k > i
      BY <1>1, <1>5, <1>6, <2>3
    <2> QED BY <1>1, <1>3, <2>1, <2>2, <2>3
  <1>11. Decreasing(r, i)
    <2> SUFFICES ASSUME NEW j \in 1 .. i, NEW k \in 1 .. i, j < k PROVE Less(r[k], r[j])
      BY DEF Decreasing
    <2>1. \A a, b \in 1 .. i - 1 : a < b => Less(s[b], s[a])
      BY DEF Decreasing
    <2>2. \A a \in p .. i - 1 : Less(s[a], v)
      BY <1>3 DEF Good
    <2>3. \A a \in 1 .. p - 1 : Less(v, s[a])
      <3> SUFFICES ASSUME NEW a \in 1 .. p - 1 PROVE Less(v, s[a])
        OBVIOUS
      <3>1. p > 1 /\ p - 1 \in 1 .. i - 1 /\ a \in 1 .. i - 1 /\ p - 1 # i
        BY <1>1, <1>3
      <3>2. ~Less(s[p - 1], v)
        BY <1>3, <3>1 DEF Good
      <3>3. p - 1 \in 1 .. Len(s) /\ i \in 1 .. Len(s) /\ a \in 1 .. Len(s)
        BY <1>1, <3>1
      <3>4. s[p - 1] # v
        BY <1>1, <3>1, <3>3 DEF Numbered
      <3>5. Less(v, s[p - 1])
        BY <1>1, <3>2, <3>3, <3>4, LessIsOrder
      <3>6. CASE a = p - 1
        BY <3>5, <3>6
      <3>7. CASE a < p - 1
        <4>1. Less(s[p - 1], s[a])
          BY <2>1, <3>1, <3>7
        <4> QED BY <1>1, <3>3, <3>5, <4>1, LessIsOrder
      <3> QED BY <1>1, <1>3, <3>6, <3>7
    <2>4. j \in 1 .. Len(s) /\ k \in 1 .. Len(s)
      BY <1>1
    <2>5. CASE k < p
      <3>1. r[j] = s[j] /\ r[k] = s[k] /\ j \in 1 .. i - 1 /\ k \in 1 .. i - 1
        BY <1>1, <1>3, <1>5, <2>4, <2>5
      <3> QED BY <2>1, <3>1
    <2>6. CASE k = p
      <3>1. r[j] = s[j] /\ r[k] = v /\ j \in 1 .. p - 1
        BY <1>1, <1>3, <1>5, <2>4, <2>6
      <3> QED BY <2>3, <3>1
    <2>7. CASE k \in p + 1 .. i
      <3>1. r[k] = s[k - 1] /\ k - 1 \in p .. i - 1 /\ k - 1 \in 1 .. i - 1
        BY <1>1, <1>3, <1>5, <2>7
      <3>2. CASE j = p
        BY <1>5, <2>2, <3>1, <3>2
      <3>3. CASE j < p
        <4>1. r[j] = s[j] /\ j \in 1 .. i - 1 /\ j < k - 1
          BY <1>1, <1>3, <1>5, <2>4, <2>7, <3>3
        <4> QED BY <2>1, <3>1, <4>1
      <3>4. CASE j \in p + 1 .. i
        <4>1. r[j] = s[j - 1] /\ j - 1 \in 1 .. i - 1 /\ j - 1 < k - 1
          BY <1>1, <1>3, <1>5, <2>7, <3>4
        <4> QED BY <2>1, <3>1, <4>1
      <3> QED BY <1>1, <1>3, <3>2, <3>3, <3>4
    <2> QED BY <1>1, <1>3, <2>5, <2>6, <2>7
  <1> QED BY <1>4, <1>6, <1>8, <1>9, <1>10, <1>11 DEF Permuted

(* A permutation of a permutation is one, and so is the sequence itself. *)
LEMMA PermutedTwice ==
  /\ \A s \in Seq(Acts) : Numbered(s) => Permuted(s, s)
  /\ \A q, r, s \in Seq(Acts) : Permuted(r, s) /\ Permuted(q, r) => Permuted(q, s)
  <1>1. ASSUME NEW s \in Seq(Acts), Numbered(s) PROVE Permuted(s, s)
    BY <1>1 DEF Permuted
  <1>2. ASSUME NEW q \in Seq(Acts), NEW r \in Seq(Acts), NEW s \in Seq(Acts),
               Permuted(r, s), Permuted(q, r)
        PROVE  Permuted(q, s)
    <2>1. Len(q) = Len(s) /\ DOMAIN q = 1 .. Len(s) /\ DOMAIN r = 1 .. Len(s) /\ DOMAIN s = 1 .. Len(s)
      BY <1>2 DEF Permuted
    <2>2. Numbered(q)
      BY <1>2 DEF Permuted
    <2>3. \A j \in DOMAIN q : \E k \in DOMAIN s : q[j] = s[k]
      <3> TAKE j \in DOMAIN q
      <3>1. PICK i \in DOMAIN r : q[j] = r[i]
        BY <1>2 DEF Permuted
      <3>2. PICK k \in DOMAIN s : r[i] = s[k]
        BY <1>2 DEF Permuted
      <3> QED BY <3>1, <3>2
    <2>4. \A k \in DOMAIN s : \E j \in DOMAIN q : q[j] = s[k]
      <3> TAKE k \in DOMAIN s
      <3>1. PICK i \in DOMAIN r : r[i] = s[k]
        BY <1>2 DEF Permuted
      <3>2. PICK j \in DOMAIN q : q[j] = r[i]
        BY <1>2 DEF Permuted
      <3> QED BY <3>1, <3>2
    <2> QED BY <2>1, <2>2, <2>3, <2>4 DEF Permuted
  <1> QED BY <1>1, <1>2

(* Every sequence of different activities can be sorted: element by        *)
(* element, by insertion.                                                  *)
LEMMA CanBeSorted ==
  ASSUME NEW s \in Seq(Acts), Numbered(s)
  PROVE  \E r \in Seq(Acts) : Permuted(r, s) /\ Decreasing(r, Len(s))
  <1> DEFINE Sortable(n) == \E r \in Seq(Acts) : Permuted(r, s) /\ Decreasing(r, n)
             Bad == {n \in 0 .. Len(s) : ~Sortable(n)}
  <1>1. Len(s) \in Nat
    OBVIOUS
  <1> SUFFICES ASSUME Bad # {} PROVE FALSE
    BY <1>1
  <1>2. PICK n \in Bad : \A m \in Bad : n <= m
    <2>1. Bad \in SUBSET Nat
      BY <1>1
    <2> HIDE DEF Bad
    <2> QED BY <2>1, LeastOf
  <1>3. n \in 0 .. Len(s) /\ ~Sortable(n)
    BY <1>2
  <1>4. n # 0
    <2>1. Permuted(s, s)
      BY PermutedTwice
    <2>2. Decreasing(s, 0)
      BY DEF Decreasing
    <2> QED BY <1>3, <2>1, <2>2
  <1>5. n - 1 \in 0 .. Len(s) /\ n - 1 \notin Bad /\ n \in 1 .. Len(s)
    BY <1>1, <1>2, <1>3, <1>4
  <1>6. PICK r \in Seq(Acts) : Permuted(r, s) /\ Decreasing(r, n - 1)
    BY <1>5
  <1>7. n \in 1 .. Len(r) /\ Numbered(r)
    BY <1>5, <1>6 DEF Permuted
  <1> DEFINE q == Placed(r, n, r[n])
  <1>8. Permuted(q, r) /\ Decreasing(q, n)
    BY <1>6, <1>7, PlacedIs
  <1> HIDE DEF q
  <1>9. q \in Seq(Acts)
    BY <1>8 DEF Permuted
  <1>10. Permuted(q, s)
    BY <1>6, <1>8, <1>9, PermutedTwice
  <1> QED BY <1>3, <1>8, <1>9, <1>10

(* std::sort of a unit. *)
LEMMA SortedIs ==
  ASSUME NEW s \in Seq(Acts), Numbered(s)
  PROVE  Permuted(Sorted(s), s) /\ Decreasing(Sorted(s), Len(s))
  <1> DEFINE n == Len(s)
             R == {s[i] : i \in DOMAIN s}
             Down(t) == \A i, j \in DOMAIN s : i < j => Less(t[j], t[i])
             t == CHOOSE x \in [DOMAIN s -> R] : Down(x)
  <1>1. n \in Nat /\ DOMAIN s = 1 .. n /\ \A i \in 1 .. n : s[i] \in Acts
    OBVIOUS
  <1>2. PICK w \in Seq(Acts) : Permuted(w, s) /\ Decreasing(w, n)
    BY CanBeSorted
  <1>3. w \in [DOMAIN s -> R] /\ Down(w)
    <2>1. DOMAIN w = 1 .. n /\ \A j \in 1 .. n : w[j] \in R
      BY <1>1, <1>2 DEF Permuted
    <2> HIDE DEF R
    <2> QED BY <1>1, <1>2, <2>1 DEF Decreasing
  <1>4. t \in [DOMAIN s -> R] /\ Down(t)
    <2> HIDE DEF Down, R
    <2> QED BY <1>3
  <1>5. Sorted(s) = t
    BY DEF Sorted
  <1> HIDE DEF t
  <1>6. R \subseteq Acts
    BY <1>1
  <1>7. \A i, j \in 1 .. n : t[i] = t[j] => i = j
    <2> SUFFICES ASSUME NEW i \in 1 .. n, NEW j \in 1 .. n, t[i] = t[j], i < j PROVE FALSE
      BY <1>1
    <2>1. Less(t[j], t[i]) /\ t[i] \in Acts
      BY <1>1, <1>4, <1>6
    <2> QED BY <2>1, LessIsOrder
  <1> HIDE DEF R
  <1>8. t \in Seq(Acts) /\ Len(t) = n /\ DOMAIN t = 1 .. n
    <2>1. t \in [1 .. n -> Acts]
      BY <1>1, <1>4, <1>6
    <2> QED BY <1>1, <2>1
  <1>9. \A j \in DOMAIN t : \E k \in DOMAIN s : t[j] = s[k]
    BY <1>1, <1>4, <1>8 DEF R
  <1>10. \A k \in DOMAIN s : \E j \in DOMAIN t : t[j] = s[k]
    <2> DEFINE D == 1 .. n
               f == [i \in D |-> s[i]]
    <2>1. IsFiniteSet(D)
      BY <1>1, FS_Interval
    <2>2. s \in Surjection(D, R) /\ s \in Injection(D, R)
      <3>1. s \in [D -> R]
        BY <1>1 DEF R
      <3>2. \A r \in R : \E i \in D : s[i] = r
        BY <1>1 DEF R
      <3>3. \A i, j \in D : s[i] = s[j] => i = j
        BY <1>1 DEF Numbered
      <3> QED BY <3>1, <3>2, <3>3 DEF Surjection, Injection, IsInjective
    <2>3. IsFiniteSet(R) /\ Cardinality(R) = Cardinality(D)
      BY <2>1, <2>2, FS_Surjection
    <2>4. t \in Injection(D, R)
      BY <1>1, <1>4, <1>7 DEF Injection, IsInjective
    <2>5. t \in Surjection(D, R)
      BY <2>3, <2>4, FS_Injection
    <2>6. \A r \in R : \E i \in D : t[i] = r
      BY <2>5 DEF Surjection
    <2> QED BY <1>1, <1>8, <2>6 DEF R
  <1>11. Numbered(t)
    <2> SUFFICES ASSUME NEW i \in 1 .. n, NEW j \in 1 .. n, t[i].order = t[j].order PROVE i = j
      BY <1>8 DEF Numbered
    <2>1. PICK a \in 1 .. n : t[i] = s[a]
      BY <1>1, <1>8, <1>9
    <2>2. PICK b \in 1 .. n : t[j] = s[b]
      BY <1>1, <1>8, <1>9
    <2>3. a = b
      BY <1>1, <2>1, <2>2 DEF Numbered
    <2> QED BY <1>7, <2>1, <2>2, <2>3
  <1>12. Decreasing(t, n)
    BY <1>1, <1>4 DEF Decreasing
  <1> QED BY <1>5, <1>8, <1>9, <1>10, <1>11, <1>12 DEF Permuted

----------------------------------------------------------------------------
(* What the parts of the invariant say of one thread, one unit.            *)
LEMMA ThreadTypes ==
  ASSUME TypeOK, LocalTypes
  PROVE  /\ Owner \in Threads /\ Writers \subseteq Threads /\ Readers \subseteq Threads
         /\ Inserters \subseteq Threads /\ Owner \notin Writers
         /\ \A t \in Threads : pc[t] \in PCs /\ local[t] \in Locals
         /\ pc \in [Threads -> PCs] /\ local \in [Threads -> Locals]
  BY BinnedAssumption DEF TypeOK, LocalTypes, Threads, Inserters

(* The types of what is in a unit. *)
LEMMA UnitTypes ==
  ASSUME TypeOK, NEW u \in Units
  PROVE  /\ unit[u].time \in Nat /\ unit[u].time \in Times /\ unit[u].acts \in Seq(Acts)
         /\ unit[u].sorted \in BOOLEAN /\ Len(unit[u].acts) \in Nat
         /\ DOMAIN unit[u].acts = 1 .. Len(unit[u].acts)
         /\ \A i \in 1 .. Len(unit[u].acts) : unit[u].acts[i] \in Acts
  <1>1. unit[u] \in [time : Times, acts : Seq(Acts), sorted : BOOLEAN]
    BY DEF TypeOK
  <1>2. unit[u].time \in Times /\ unit[u].acts \in Seq(Acts) /\ unit[u].sorted \in BOOLEAN
    BY <1>1
  <1>3. \A x \in Times : x \in Nat
    BY BinnedAssumption DEF Times
  <1>4. /\ Len(unit[u].acts) \in Nat /\ DOMAIN unit[u].acts = 1 .. Len(unit[u].acts)
        /\ \A i \in 1 .. Len(unit[u].acts) : unit[u].acts[i] \in Acts
    BY <1>2
  <1> QED BY <1>2, <1>3, <1>4

(* The types of what is in an activity. *)
LEMMA ActTypes ==
  ASSUME NEW a \in Acts
  PROVE  a.time \in Times /\ a.time \in Nat /\ a.prio \in Prios /\ a.order \in 1 .. MaxInserts
         /\ a.order \in Nat
  <1>1. a \in [time : Times, prio : Prios, order : 1 .. MaxInserts]
    BY DEF Acts
  <1>2. a.time \in Times /\ a.prio \in Prios /\ a.order \in 1 .. MaxInserts
    BY <1>1
  <1>3. (\A x \in Times : x \in Nat) /\ MaxInserts \in Nat
    BY BinnedAssumption DEF Times
  <1> QED BY <1>2, <1>3

(* The delivery times in the map are numbers. *)
LEMMA MapTimes ==
  ASSUME TypeOK
  PROVE  DOMAIN map \subseteq Times /\ DOMAIN map \subseteq Nat /\ InMap \subseteq Units
         /\ current \in Units /\ InUse = {current} \cup InMap
  <1>1. Times \subseteq Nat
    BY BinnedAssumption DEF Times
  <1> QED BY <1>1 DEF TypeOK, InMap, InUse

(* The least of them. *)
LEMMA FirstOfIs ==
  ASSUME TypeOK, DOMAIN map # {}
  PROVE  FirstOf(map) \in DOMAIN map /\ \A u \in DOMAIN map : FirstOf(map) <= u
  <1>1. DOMAIN map \in SUBSET Nat
    BY MapTimes
  <1>2. \E t \in DOMAIN map : \A u \in DOMAIN map : t <= u
    BY <1>1, LeastOf
  <1> QED BY <1>2 DEF FirstOf

(* Outside of a sync nobody has been asked for the earliest activity. *)
Quiet == asked = {} /\ \A t \in Threads : ~Reading(t)

(* That is so while the owner has something to do. *)
LEMMA NoSync ==
  ASSUME Roles, ~InSync PROVE Quiet
  BY DEF Roles, Quiet

(* Whoever inserts or pops is not in a sync. *)
LEMMA FlyingUnsynced ==
  ASSUME TypeOK, LocalTypes, Roles, NEW t \in Threads, Flying(t) \/ pc[t] = "pop"
  PROVE  t \in Inserters /\ ~InSync /\ Quiet
  <1>1. t \in Inserters
    BY DEF Roles, Inserters
  <1>2. ~InSync
    BY <1>1 DEF InSync, Flying, Inserters
  <1> QED BY <1>1, <1>2, NoSync

(* What is in the units that are used is all there is. *)
LEMMA ContentsInside ==
  ASSUME TypeOK, UnitsInv PROVE Contents = Inside
  <1>1. \A u \in Units : In(u) # {} => u \in InUse
    BY DEF UnitsInv, In
  <1>2. InUse \subseteq Units
    BY MapTimes
  <1>3. Contents = UNION {In(u) : u \in InUse}
    BY DEF Contents, In
  <1> QED BY <1>1, <1>2, <1>3 DEF Inside

(* Whatever is held has its number, and nothing else has that number. *)
LEMMA HeldOrder ==
  ASSUME BinInv, NEW a \in Held
  PROVE  a \in Acts /\ a.order <= insertOrder
  <1>1. ASSUME NEW u \in Units, NEW i \in DOMAIN unit[u].acts, a = unit[u].acts[i]
        PROVE  a \in Acts /\ a.order <= insertOrder
    BY <1>1, UnitTypes DEF BinInv, BinsInv
  <1>2. ASSUME NEW t \in Threads, Flying(t), a = local[t].act
        PROVE  a \in Acts /\ a.order <= insertOrder
    BY <1>2 DEF BinInv, FlyingInv, Writing
  <1> QED BY <1>1, <1>2 DEF Held, Inside, Coming, In

(* Nothing on its way in is in already. *)
LEMMA NotInside ==
  ASSUME FlyingInv, NEW t \in Threads, Flying(t) PROVE local[t].act \notin Inside
  BY DEF FlyingInv, Inside, In

----------------------------------------------------------------------------
(* The invariant is kept, action by action.                                *)
LEMMA InitKeeps == Init => BinInv
  <1> SUFFICES ASSUME Init PROVE BinInv
    OBVIOUS
  <1>1. PICK u \in Units \ {current} :
          /\ map = [t \in {LastTime} |-> u]
          /\ unit = [v \in Units |->
                       IF v = u THEN [time |-> LastTime, acts |-> <<EndStop>>, sorted |-> FALSE]
                       ELSE [time |-> 0, acts |-> <<>>, sorted |-> FALSE]]
          /\ pool = Units \ {current, u}
    BY DEF Init
  <1>2. /\ current \in Units /\ insertOrder = 1 /\ depth = 1
        /\ pc = [t \in Threads |-> "idle"] /\ local = [t \in Threads |-> NoLocal]
        /\ windowEnd = Window /\ asked = {} /\ popped = NoAct
    BY DEF Init
  <1>3. EndStop \in Acts /\ EndStop.time = LastTime /\ EndStop.order = 1
    <2>1. LastTime \in Times /\ 30 \in Prios /\ 1 \in 1 .. MaxInserts
      BY BinnedAssumption DEF Times
    <2> QED BY <2>1 DEF EndStop, Acts
  <1> HIDE DEF EndStop
  <1>4. /\ DOMAIN map = {LastTime} /\ map[LastTime] = u /\ InMap = {u} /\ InUse = {current, u}
        /\ unit[u] = [time |-> LastTime, acts |-> <<EndStop>>, sorted |-> FALSE]
        /\ \A v \in Units \ {u} : unit[v] = [time |-> 0, acts |-> <<>>, sorted |-> FALSE]
    BY <1>1 DEF InMap, InUse
  <1>5. \A t \in Threads : pc[t] = "idle"
    BY <1>2
  <1>6. 0 \in Times /\ LastTime \in Times
    BY BinnedAssumption DEF Times
  <1>7. TypeOK
    <2>1. unit \in [Units -> [time : Times, acts : Seq(Acts), sorted : BOOLEAN]]
      <3>1. <<EndStop>> \in Seq(Acts) /\ <<>> \in Seq(Acts)
        BY <1>3
      <3>2. \A v \in Units :
              (IF v = u THEN [time |-> LastTime, acts |-> <<EndStop>>, sorted |-> FALSE]
               ELSE [time |-> 0, acts |-> <<>>, sorted |-> FALSE])
                \in [time : Times, acts : Seq(Acts), sorted : BOOLEAN]
        BY <1>6, <3>1
      <3> QED BY <1>1, <3>2
    <2>2. /\ current \in Units /\ pool \subseteq Units
          /\ DOMAIN map \subseteq Times /\ \A t \in DOMAIN map : map[t] \in Units
      BY <1>1, <1>2, <1>4, <1>6
    <2>3. insertOrder \in 0 .. MaxInserts /\ depth \in 0 .. MaxInserts /\ windowEnd \in Nat
      BY <1>2, BinnedAssumption
    <2>4. pc \in [Threads -> PCs]
      BY <1>2 DEF PCs
    <2>5. asked \subseteq Readers /\ popped \in Acts \cup {NoAct}
      BY <1>2
    <2> QED BY <2>1, <2>2, <2>3, <2>4, <2>5 DEF TypeOK
  <1>8. LocalTypes
    <2>1. NoLocal \in Locals
      BY DEF NoLocal, Locals
    <2> QED BY <1>2, <2>1 DEF LocalTypes
  <1>9. Roles
    BY <1>2, <1>5 DEF Roles, Flying, Reading
  <1>10. UnitsInv
    <2>1. /\ Units = pool \cup InUse /\ pool \cap InUse = {} /\ current \notin InMap
      BY <1>1, <1>2, <1>4
    <2>2. \A t \in DOMAIN map : unit[map[t]].time = t /\ unit[current].time < t
      <3>1. unit[u].time = LastTime /\ unit[current].time = 0 /\ LastTime > 0
        BY <1>1, <1>2, <1>4, BinnedAssumption
      <3> QED BY <1>4, <3>1
    <2>3. unit[current].time < windowEnd
      BY <1>1, <1>2, <1>4, BinnedAssumption
    <2>4. \A v \in pool : unit[v].acts = <<>> /\ unit[v].time < windowEnd
      BY <1>1, <1>2, <1>4, BinnedAssumption
    <2> QED BY <2>1, <2>2, <2>3, <2>4 DEF UnitsInv
  <1>11. /\ DOMAIN unit[u].acts = {1} /\ unit[u].acts[1] = EndStop /\ Len(unit[u].acts) = 1
         /\ \A v \in Units \ {u} : DOMAIN unit[v].acts = {}
    BY <1>4
  <1>12. BinsInv
    <2>1. \A v \in Units : \A i \in DOMAIN unit[v].acts :
            v = u /\ i = 1 /\ unit[v].acts[i] = EndStop
      BY <1>11
    <2>2. unit[u].time = LastTime /\ \A v \in Units : ~unit[v].sorted
      BY <1>4
    <2> QED BY <1>2, <1>3, <2>1, <2>2 DEF BinsInv
  <1>13. FlyingInv
    <2>1. \A t \in DOMAIN map : unit[map[t]].acts # <<>>
      BY <1>4
    <2> QED BY <1>5, <2>1 DEF FlyingInv, Flying
  <1>14. SortingInv
    BY <1>5 DEF SortingInv, Reading
  <1>15. DepthInv
    <2>1. Inside = {EndStop}
      <3>1. In(u) = {EndStop} /\ \A v \in Units \ {u} : In(v) = {}
        BY <1>11 DEF In
      <3> QED BY <1>1, <3>1 DEF Inside
    <2>2. Coming = {}
      BY <1>5 DEF Coming, Flying
    <2>3. Held = {EndStop}
      BY <2>1, <2>2 DEF Held
    <2> QED BY <1>2, <2>3, FS_Singleton DEF DepthInv
  <1> QED BY <1>7, <1>8, <1>9, <1>10, <1>12, <1>13, <1>14, <1>15 DEF BinInv

(* The local variables of a thread. *)
LEMMA NewLocal ==
  ASSUME NEW a \in Acts, NEW u \in Units
  PROVE  LET l == [NoLocal EXCEPT !.act = a, !.unit = u]
         IN  l \in Locals /\ l.act = a /\ l.unit = u
  BY DEF NoLocal, Locals

(* Outside of insert() and front() there is nothing in them. *)
LEMMA NoLocalType == NoLocal \in Locals
  BY DEF NoLocal, Locals

(* A thread takes another unit. *)
LEMMA LocalWithUnit ==
  ASSUME NEW l \in Locals, NEW u \in Units
  PROVE  LET k == [l EXCEPT !.unit = u] IN k \in Locals /\ k.act = l.act /\ k.unit = u
  BY DEF Locals

(* An insertion begins. *)
LEMMA InsertCallKeeps ==
  ASSUME BinInv, NEW t \in Inserters, InsertCall(t) PROVE BinInv'
  <1>0. /\ TypeOK /\ LocalTypes /\ Roles /\ UnitsInv /\ BinsInv /\ FlyingInv /\ SortingInv /\ DepthInv
    BY DEF BinInv
  <1>1. PICK time \in (IF t = Owner THEN unit[current].time ELSE windowEnd) .. LastTime, p \in Prios :
          local' = [local EXCEPT ![t] =
                      [NoLocal EXCEPT
                         !.act = [time |-> time, prio |-> p, order |-> insertOrder + 1],
                         !.unit = current]]
    BY DEF InsertCall
  <1> DEFINE a == [time |-> time, prio |-> p, order |-> insertOrder + 1]
  <1>2. /\ pc[t] = "idle" /\ asked = {} /\ insertOrder < MaxInserts
        /\ insertOrder' = insertOrder + 1 /\ depth' = depth + 1
        /\ pc' = [pc EXCEPT ![t] = "look"]
        /\ UNCHANGED <<current, map, pool, unit, windowEnd, asked, popped>>
        /\ \A r \in Readers : pc[r] \notin {"read", "place"}
    BY DEF InsertCall
  <1>3. /\ insertOrder \in Nat /\ insertOrder >= 1 /\ depth \in Nat /\ depth <= insertOrder
        /\ MaxInserts \in Nat /\ windowEnd \in Nat /\ current \in Units /\ LastTime \in Nat
        /\ unit[current].time \in Nat
    BY <1>0, UnitTypes, BinnedAssumption DEF TypeOK, LocalTypes
  <1>4. /\ a \in Acts /\ a.time = time /\ a.order = insertOrder + 1
        /\ t = Owner => unit[current].time <= a.time
        /\ t # Owner => windowEnd <= a.time
    <2>1. time \in Times /\ insertOrder + 1 \in 1 .. MaxInserts
      BY <1>2, <1>3 DEF Times
    <2>2. /\ t = Owner => unit[current].time <= time
          /\ t # Owner => windowEnd <= time
      BY <1>3
    <2> QED BY <2>1, <2>2 DEF Acts
  <1> HIDE DEF a
  <1>5. /\ t \in Threads /\ local' = [local EXCEPT ![t] = [NoLocal EXCEPT !.act = a, !.unit = current]]
    BY <1>0, <1>1, ThreadTypes DEF a
  <1> DEFINE l == [NoLocal EXCEPT !.act = a, !.unit = current]
  <1>6. l \in Locals /\ l.act = a /\ l.unit = current
    BY <1>3, <1>4, NewLocal
  <1> HIDE DEF l
  <1>7. /\ local'[t] = l /\ local'[t].act = a /\ local'[t].unit = current /\ pc'[t] = "look"
        /\ \A s \in Threads \ {t} : pc'[s] = pc[s] /\ local'[s] = local[s]
        /\ pc' \in [Threads -> PCs]
    BY <1>0, <1>2, <1>5, <1>6, ThreadTypes DEF PCs, l
  <1>8. TypeOK'
    BY <1>0, <1>2, <1>3, <1>7 DEF TypeOK
  <1>9. LocalTypes'
    <2>2. local' \in [Threads -> Locals]
      BY <1>0, <1>5, <1>6, <1>7, ThreadTypes DEF l
    <2> QED BY <1>2, <1>3, <2>2 DEF LocalTypes
  <1>10. \A s \in Threads : ~Reading(s)'
    BY <1>0, <1>2, <1>7 DEF Roles, Reading
  <1>11. Roles'
    BY <1>0, <1>2, <1>7, <1>10 DEF Roles, Flying
  <1>12. UnitsInv'
    BY <1>0, <1>2 DEF UnitsInv, InUse, InMap
  <1>13. BinsInv'
    <2>1. \A u \in Units : \A i \in DOMAIN unit[u].acts : unit[u].acts[i].order <= insertOrder + 1
      BY <1>0, <1>3, UnitTypes, ActTypes DEF BinsInv
    <2> QED BY <1>0, <1>2, <2>1 DEF BinsInv
  <1>14. FlyingInv'
    <2>1. ASSUME NEW s \in Threads, Flying(s)'
          PROVE  /\ Writing(s)'
                 /\ \A u \in Units : \A i \in DOMAIN unit[u].acts : unit[u].acts[i].order # local'[s].act.order
      <3>1. CASE s = t
        <4>1. Writing(t)'
          <5>1. t \in Writers => t # Owner
            BY BinnedAssumption
          <5> QED BY <1>2, <1>3, <1>4, <1>7, <5>1 DEF Writing
        <4>2. \A u \in Units : \A i \in DOMAIN unit[u].acts : unit[u].acts[i].order <= insertOrder /\ unit[u].acts[i].order \in Nat
          BY <1>0, UnitTypes, ActTypes DEF BinsInv
        <4> QED BY <1>3, <1>4, <1>7, <3>1, <4>1, <4>2
      <3>2. CASE s # t
        <4>1. Flying(s) /\ local'[s] = local[s] /\ pc'[s] = pc[s]
          BY <1>7, <2>1, <3>2 DEF Flying
        <4>2. Writing(s)
          BY <1>0, <4>1 DEF FlyingInv
        <4>3. local[s].act.order <= insertOrder + 1
          BY <1>3, <4>2, ActTypes DEF Writing
        <4>4. Writing(s)'
          BY <1>2, <4>1, <4>2, <4>3 DEF Writing, InUse
        <4> QED BY <1>0, <4>1, <4>4 DEF FlyingInv
      <3> QED BY <3>1, <3>2
    <2>2. ASSUME NEW s \in Threads, NEW q \in Threads, Flying(s)', Flying(q)',
                 local'[s].act.order = local'[q].act.order
          PROVE  s = q
      <3>1. \A r \in Threads \ {t} : Flying(r)' => /\ Flying(r) /\ local'[r] = local[r]
                                                   /\ local[r].act.order <= insertOrder
                                                   /\ local[r].act.order \in Nat
        BY <1>0, <1>7, ActTypes DEF Flying, FlyingInv, Writing
      <3>2. local'[t].act.order = insertOrder + 1
        BY <1>4, <1>7
      <3> QED BY <1>0, <1>3, <2>2, <3>1, <3>2 DEF FlyingInv
    <2>3. ASSUME NEW x \in DOMAIN map, unit[map[x]].acts = <<>>
          PROVE  \E s \in Threads : pc'[s] = "push" /\ local'[s].unit = map[x]
      <3>1. PICK s \in Threads : pc[s] = "push" /\ local[s].unit = map[x]
        BY <1>0, <2>3 DEF FlyingInv
      <3> QED BY <1>2, <1>7, <3>1
    <2> QED BY <1>2, <2>1, <2>2, <2>3 DEF FlyingInv
  <1>15. SortingInv'
    BY <1>10 DEF SortingInv
  <1>16. DepthInv'
    <2>1. Inside' = Inside
      BY <1>2 DEF Inside, In
    <2>2. Coming' = Coming \cup {a}
      <3>1. \A s \in Threads : Flying(s)' <=> s = t \/ Flying(s)
        BY <1>7 DEF Flying
      <3>2. \A s \in Threads \ {t} : local'[s] = local[s]
        BY <1>7
      <3>3. local'[t].act = a /\ ~Flying(t)
        BY <1>2, <1>7 DEF Flying
      <3> QED BY <1>5, <3>1, <3>2, <3>3 DEF Coming
    <2>3. Held' = Held \cup {a}
      BY <2>1, <2>2 DEF Held
    <2>4. a \notin Held
      BY <1>3, <1>4, HeldOrder, ActTypes
    <2> QED BY <1>0, <1>2, <2>3, <2>4, FS_AddElement DEF DepthInv
  <1> QED BY <1>8, <1>9, <1>11, <1>12, <1>13, <1>14, <1>15, <1>16 DEF BinInv

(* The delivery time is compared with that of the current unit. *)
LEMMA LookKeeps ==
  ASSUME BinInv, ~Rereads, NEW t \in Inserters, Look(t) PROVE BinInv'
  <1>0. /\ TypeOK /\ LocalTypes /\ Roles /\ UnitsInv /\ BinsInv /\ FlyingInv /\ SortingInv /\ DepthInv
    BY DEF BinInv
  <1>1. /\ pc[t] = "look" /\ local' = local
        /\ pc' = [pc EXCEPT ![t] = IF unit[local[t].unit].time = local[t].act.time THEN "push" ELSE "find"]
        /\ UNCHANGED <<current, map, pool, unit, insertOrder, depth, windowEnd, asked, popped>>
    BY DEF Look
  <1>2. /\ t \in Threads /\ Flying(t) /\ Writing(t) /\ Quiet
        /\ pc' \in [Threads -> PCs] /\ \A s \in Threads \ {t} : pc'[s] = pc[s]
        /\ pc'[t] = IF unit[local[t].unit].time = local[t].act.time THEN "push" ELSE "find"
    <2>1. t \in Threads /\ Flying(t)
      BY <1>0, <1>1, ThreadTypes DEF Flying
    <2>2. Writing(t) /\ Quiet
      BY <1>0, <2>1, FlyingUnsynced DEF FlyingInv
    <2> QED BY <1>0, <1>1, <2>1, <2>2, ThreadTypes DEF PCs
  <1>3. \A s \in Threads : Flying(s)' <=> Flying(s)
    BY <1>1, <1>2 DEF Flying
  <1>4. \A s \in Threads : ~Reading(s)'
    BY <1>2 DEF Quiet, Reading
  <1>5. TypeOK' /\ LocalTypes'
    BY <1>0, <1>1, <1>2 DEF TypeOK, LocalTypes
  <1>6. Roles'
    BY <1>0, <1>1, <1>2, <1>3, <1>4 DEF Roles, Quiet
  <1>7. UnitsInv' /\ BinsInv' /\ SortingInv'
    BY <1>0, <1>1, <1>4 DEF UnitsInv, InUse, InMap, BinsInv, SortingInv
  <1>8. Writing(t)'
    <2>1. /\ local[t].act \in Acts /\ local[t].act.time \in Nat /\ local[t].unit \in Units
          /\ unit[local[t].unit].time \in Nat /\ unit[current].time \in Nat /\ windowEnd \in Nat
      BY <1>0, <1>2, ActTypes, UnitTypes, MapTimes DEF Writing, TypeOK
    <2>2. t = Owner => local[t].unit = current /\ unit[current].time <= local[t].act.time
      BY <1>1, <1>2 DEF Writing
    <2>3. unit[local[t].unit].time = local[t].act.time => local[t].unit \in InUse
      <3>1. CASE t = Owner
        BY <2>2, <3>1 DEF InUse
      <3>2. CASE t \in Writers
        <4>1. windowEnd <= local[t].act.time
          BY <1>2, <3>2 DEF Writing
        <4>2. unit[local[t].unit].time = local[t].act.time => local[t].unit \notin pool
          BY <1>0, <2>1, <4>1 DEF UnitsInv
        <4> QED BY <1>0, <2>1, <4>2 DEF UnitsInv
      <3> QED BY <3>1, <3>2 DEF Inserters
    <2> QED BY <1>1, <1>2, <2>1, <2>2, <2>3 DEF Writing, InUse
  <1>9. FlyingInv'
    <2>1. ASSUME NEW s \in Threads, Flying(s)' PROVE Writing(s)'
      <3>1. CASE s # t
        <4>1. Flying(s) /\ pc'[s] = pc[s]
          BY <1>2, <1>3, <2>1, <3>1
        <4>2. Writing(s)
          BY <1>0, <4>1 DEF FlyingInv
        <4> QED BY <1>1, <4>1, <4>2 DEF Writing, InUse
      <3> QED BY <1>8, <3>1
    <2>2. ASSUME NEW x \in DOMAIN map, unit[map[x]].acts = <<>>
          PROVE  \E s \in Threads : pc'[s] = "push" /\ local[s].unit = map[x]
      <3>1. PICK s \in Threads : pc[s] = "push" /\ local[s].unit = map[x]
        BY <1>0, <2>2 DEF FlyingInv
      <3> QED BY <1>1, <1>2, <3>1
    <2> QED BY <1>0, <1>1, <1>3, <2>1, <2>2 DEF FlyingInv
  <1>10. DepthInv'
    <2>1. Inside' = Inside /\ Coming' = Coming
      BY <1>1, <1>3 DEF Inside, In, Coming
    <2> QED BY <1>0, <1>1, <2>1 DEF DepthInv, Held
  <1> QED BY <1>5, <1>6, <1>7, <1>9, <1>10 DEF BinInv

(* The delivery time has no unit yet: it gets one from the pool. *)
LEMMA FindNewKeeps ==
  ASSUME BinInv, NEW t \in Inserters, Find(t), local[t].act.time \notin DOMAIN map PROVE BinInv'
  <1>0. /\ TypeOK /\ LocalTypes /\ Roles /\ UnitsInv /\ BinsInv /\ FlyingInv /\ SortingInv /\ DepthInv
    BY DEF BinInv
  <1> DEFINE time == local[t].act.time
  <1>1. PICK u \in pool :
          /\ pool' = pool \ {u}
          /\ unit' = [unit EXCEPT ![u].time = time]
          /\ map' = WithUnit(map, time, u)
          /\ local' = [local EXCEPT ![t].unit = u]
    BY DEF Find
  <1>2. /\ pc[t] = "find" /\ pc' = [pc EXCEPT ![t] = "push"]
        /\ UNCHANGED <<current, insertOrder, depth, windowEnd, asked, popped>>
    BY DEF Find
  <1>3. /\ t \in Threads /\ Flying(t) /\ Writing(t) /\ Quiet
        /\ pc' \in [Threads -> PCs] /\ \A s \in Threads \ {t} : pc'[s] = pc[s] /\ local'[s] = local[s]
        /\ pc'[t] = "push" /\ local' \in [Threads -> Locals]
        /\ local'[t].unit = u /\ local'[t].act = local[t].act
    <2>1. t \in Threads /\ Flying(t)
      BY <1>0, <1>2, ThreadTypes DEF Flying
    <2>2. Writing(t) /\ Quiet
      BY <1>0, <2>1, FlyingUnsynced DEF FlyingInv
    <2>3. u \in Units
      BY <1>0 DEF TypeOK
    <2>4. [local[t] EXCEPT !.unit = u] \in Locals /\ [local[t] EXCEPT !.unit = u].act = local[t].act
          /\ [local[t] EXCEPT !.unit = u].unit = u
      BY <1>0, <2>1, <2>3, ThreadTypes, LocalWithUnit
    <2>5. local' = [local EXCEPT ![t] = [local[t] EXCEPT !.unit = u]]
      BY <1>1
    <2> QED BY <1>0, <1>2, <2>1, <2>2, <2>4, <2>5, ThreadTypes DEF PCs
  <1>4. /\ u \in Units /\ time \in Times /\ time \in Nat /\ local[t].act \in Acts
        /\ unit[u].acts = <<>> /\ u \notin InUse /\ u # current /\ u \notin InMap
        /\ current \in Units /\ unit[current].time \in Nat /\ windowEnd \in Nat
    BY <1>0, <1>3, ActTypes, UnitTypes, MapTimes DEF Writing, UnitsInv, TypeOK
  <1>5. unit[current].time < time
    <2>1. CASE t = Owner
      BY <1>2, <1>3, <2>1 DEF Writing
    <2>2. CASE t \in Writers
      BY <1>0, <1>3, <1>4, <2>2 DEF Writing, UnitsInv
    <2> QED BY <2>1, <2>2 DEF Inserters
  <1>6. /\ \A v \in Units \ {u} : unit'[v] = unit[v]
        /\ unit'[u].time = time /\ unit'[u].acts = unit[u].acts /\ unit'[u].sorted = unit[u].sorted
        /\ unit' \in [Units -> [time : Times, acts : Seq(Acts), sorted : BOOLEAN]]
        /\ \A v \in Units : unit'[v].acts = unit[v].acts /\ unit'[v].sorted = unit[v].sorted
    <2>1. unit[u] \in [time : Times, acts : Seq(Acts), sorted : BOOLEAN]
      BY <1>0, <1>4 DEF TypeOK
    <2>2. unit' = [unit EXCEPT ![u] = [unit[u] EXCEPT !.time = time]]
      BY <1>1
    <2>3. unit \in [Units -> [time : Times, acts : Seq(Acts), sorted : BOOLEAN]]
      BY <1>0 DEF TypeOK
    <2>4. /\ [unit[u] EXCEPT !.time = time] \in [time : Times, acts : Seq(Acts), sorted : BOOLEAN]
          /\ [unit[u] EXCEPT !.time = time].time = time
          /\ [unit[u] EXCEPT !.time = time].acts = unit[u].acts
          /\ [unit[u] EXCEPT !.time = time].sorted = unit[u].sorted
      BY <1>4, <2>1
    <2> QED BY <1>4, <2>2, <2>3, <2>4
  <1>7. /\ DOMAIN map' = DOMAIN map \cup {time} /\ map'[time] = u
        /\ \A x \in DOMAIN map : map'[x] = map[x]
        /\ InMap' = InMap \cup {u} /\ InUse' = InUse \cup {u}
    <2>1. /\ DOMAIN map' = DOMAIN map \cup {time} /\ map'[time] = u
          /\ \A x \in DOMAIN map : map'[x] = map[x]
      BY <1>1 DEF WithUnit
    <2>2. InMap' = InMap \cup {u}
      BY <2>1 DEF InMap
    <2>3. InUse' = InUse \cup {u}
      BY <1>2, <2>2 DEF InMap, InUse
    <2> QED BY <2>1, <2>2, <2>3
  <1>8. \A s \in Threads : Flying(s)' <=> Flying(s)
    BY <1>2, <1>3 DEF Flying
  <1>9. \A s \in Threads : ~Reading(s)'
    BY <1>3 DEF Quiet, Reading
  <1>10. TypeOK'
    BY <1>0, <1>1, <1>2, <1>3, <1>4, <1>6, <1>7 DEF TypeOK
  <1>11. LocalTypes'
    BY <1>0, <1>2, <1>3 DEF LocalTypes
  <1>12. Roles'
    BY <1>0, <1>2, <1>3, <1>8, <1>9 DEF Roles, Quiet
  <1>13. UnitsInv'
    <2>1. Units = pool' \cup InUse' /\ pool' \cap InUse' = {} /\ current \notin InMap'
      BY <1>0, <1>1, <1>4, <1>7 DEF UnitsInv
    <2>2. ASSUME NEW x \in DOMAIN map' PROVE unit'[map'[x]].time = x /\ unit'[current].time < x
      <3>1. CASE x = time
        BY <1>4, <1>5, <1>6, <1>7, <3>1
      <3>2. CASE x \in DOMAIN map
        <4>1. map[x] \in Units \ {u}
          BY <1>4, <3>2, MapTimes, <1>0 DEF InMap
        <4> QED BY <1>0, <1>4, <1>6, <1>7, <3>2, <4>1 DEF UnitsInv
      <3> QED BY <1>7, <3>1, <3>2
    <2>3. \A v \in pool' : unit'[v].acts = <<>> /\ unit'[v].time < windowEnd
      BY <1>0, <1>1, <1>6 DEF UnitsInv, TypeOK
    <2>4. unit'[current].time < windowEnd
      BY <1>0, <1>4, <1>6 DEF UnitsInv
    <2> QED BY <1>2, <2>1, <2>2, <2>3, <2>4 DEF UnitsInv
  <1>14. BinsInv'
    <2>1. ASSUME NEW v \in Units, NEW i \in DOMAIN unit'[v].acts
          PROVE  unit'[v].acts[i].time = unit'[v].time /\ unit'[v].acts[i].order <= insertOrder
      <3>1. v # u
        BY <1>4, <1>6, <2>1
      <3> QED BY <1>0, <1>6, <2>1, <3>1 DEF BinsInv
    <2>2. ASSUME NEW v \in Units, NEW w \in Units, NEW i \in DOMAIN unit'[v].acts,
                 NEW j \in DOMAIN unit'[w].acts, unit'[v].acts[i].order = unit'[w].acts[j].order
          PROVE  v = w /\ i = j
      <3>1. /\ i \in DOMAIN unit[v].acts /\ j \in DOMAIN unit[w].acts
            /\ unit[v].acts[i].order = unit[w].acts[j].order
        BY <1>6, <2>2
      <3> QED BY <1>0, <3>1 DEF BinsInv
    <2>3. ASSUME NEW v \in Units, unit'[v].sorted
          PROVE  Decreasing(unit'[v].acts, Len(unit'[v].acts))
      <3>1. unit[v].sorted /\ unit'[v].acts = unit[v].acts
        BY <1>6, <2>3
      <3> QED BY <1>0, <3>1 DEF BinsInv
    <2> QED BY <1>2, <2>1, <2>2, <2>3 DEF BinsInv, Decreasing
  <1>15. FlyingInv'
    <2>1. ASSUME NEW s \in Threads, Flying(s)' PROVE Writing(s)'
      <3>1. CASE s = t
        BY <1>2, <1>3, <1>4, <1>5, <1>6, <1>7, <3>1 DEF Writing
      <3>2. CASE s # t
        <4>1. Flying(s) /\ pc'[s] = pc[s] /\ local'[s] = local[s]
          BY <1>3, <1>8, <2>1, <3>2
        <4>2. Writing(s)
          BY <1>0, <4>1 DEF FlyingInv
        <4>3. pc[s] = "push" => local[s].unit \in InUse' /\ local[s].unit # u
          BY <1>4, <1>7, <4>2 DEF Writing
        <4> QED BY <1>2, <1>4, <1>6, <4>1, <4>2, <4>3 DEF Writing
      <3> QED BY <3>1, <3>2
    <2>2. ASSUME NEW x \in DOMAIN map', unit'[map'[x]].acts = <<>>
          PROVE  \E s \in Threads : pc'[s] = "push" /\ local'[s].unit = map'[x]
      <3>1. CASE x = time
        BY <1>3, <1>7, <3>1
      <3>2. CASE x \in DOMAIN map
        <4>1. map'[x] = map[x] /\ map[x] \in Units
          BY <1>0, <1>7, <3>2 DEF TypeOK
        <4>2. PICK s \in Threads : pc[s] = "push" /\ local[s].unit = map[x]
          BY <1>0, <1>6, <2>2, <3>2, <4>1 DEF FlyingInv
        <4> QED BY <1>2, <1>3, <4>1, <4>2
      <3> QED BY <1>7, <3>1, <3>2
    <2>3. \A s \in Threads : local'[s].act = local[s].act
      BY <1>3
    <2>4. ASSUME NEW s \in Threads, Flying(s)', NEW v \in Units, NEW i \in DOMAIN unit'[v].acts
          PROVE  unit'[v].acts[i].order # local'[s].act.order
      <3>1. unit'[v].acts = unit[v].acts /\ Flying(s)
        BY <1>6, <1>8, <2>4
      <3> QED BY <1>0, <2>3, <2>4, <3>1 DEF FlyingInv
    <2>5. ASSUME NEW s \in Threads, NEW q \in Threads, Flying(s)', Flying(q)',
                 local'[s].act.order = local'[q].act.order
          PROVE  s = q
      BY <1>0, <1>8, <2>3, <2>5 DEF FlyingInv
    <2> QED BY <2>1, <2>2, <2>4, <2>5 DEF FlyingInv
  <1>16. SortingInv'
    BY <1>9 DEF SortingInv
  <1>17. DepthInv'
    <2>1. Inside' = Inside
      <3>1. \A v \in Units : In(v)' = In(v)
        <4> TAKE v \in Units
        <4>1. unit'[v].acts = unit[v].acts
          BY <1>6
        <4> QED BY <4>1 DEF In
      <3> QED BY <3>1 DEF Inside
    <2>2. Coming' = Coming
      <3>1. \A s \in Threads : local'[s].act = local[s].act
        BY <1>3
      <3> QED BY <1>8, <3>1 DEF Coming
    <2> QED BY <1>0, <1>2, <2>1, <2>2 DEF DepthInv, Held
  <1> QED BY <1>10, <1>11, <1>12, <1>13, <1>14, <1>15, <1>16, <1>17 DEF BinInv

(* The delivery time has a unit in the map. *)
LEMMA FindOldKeeps ==
  ASSUME BinInv, NEW t \in Inserters, Find(t), local[t].act.time \in DOMAIN map PROVE BinInv'
  <1>0. /\ TypeOK /\ LocalTypes /\ Roles /\ UnitsInv /\ BinsInv /\ FlyingInv /\ SortingInv /\ DepthInv
    BY DEF BinInv
  <1> DEFINE time == local[t].act.time
             u == map[time]
  <1>1. /\ pc[t] = "find" /\ pc' = [pc EXCEPT ![t] = "push"] /\ local' = [local EXCEPT ![t].unit = u]
        /\ UNCHANGED <<current, map, pool, unit, insertOrder, depth, windowEnd, asked, popped>>
    BY DEF Find
  <1>2. u \in Units /\ u \in InUse /\ unit[u].time = time
    BY <1>0 DEF TypeOK, InUse, UnitsInv
  <1> HIDE DEF u
  <1>3. /\ t \in Threads /\ Flying(t) /\ Writing(t) /\ Quiet
        /\ pc' \in [Threads -> PCs] /\ \A s \in Threads \ {t} : pc'[s] = pc[s] /\ local'[s] = local[s]
        /\ pc'[t] = "push" /\ local' \in [Threads -> Locals]
        /\ local'[t].unit = u /\ local'[t].act = local[t].act
    <2>1. t \in Threads /\ Flying(t)
      BY <1>0, <1>1, ThreadTypes DEF Flying
    <2>2. Writing(t) /\ Quiet
      BY <1>0, <2>1, FlyingUnsynced DEF FlyingInv
    <2>3. [local[t] EXCEPT !.unit = u] \in Locals /\ [local[t] EXCEPT !.unit = u].act = local[t].act
          /\ [local[t] EXCEPT !.unit = u].unit = u
      BY <1>0, <1>2, <2>1, ThreadTypes, LocalWithUnit
    <2>4. local' = [local EXCEPT ![t] = [local[t] EXCEPT !.unit = u]]
      BY <1>1
    <2> QED BY <1>0, <1>1, <2>1, <2>2, <2>3, <2>4, ThreadTypes DEF PCs
  <1>4. \A s \in Threads : (Flying(s)' <=> Flying(s)) /\ local'[s].act = local[s].act
    BY <1>1, <1>3 DEF Flying
  <1>5. \A s \in Threads : ~Reading(s)'
    BY <1>3 DEF Quiet, Reading
  <1>6. TypeOK' /\ LocalTypes'
    BY <1>0, <1>1, <1>3 DEF TypeOK, LocalTypes
  <1>7. Roles'
    BY <1>0, <1>1, <1>3, <1>4, <1>5 DEF Roles, Quiet
  <1>8. UnitsInv' /\ BinsInv' /\ SortingInv'
    BY <1>0, <1>1, <1>5 DEF UnitsInv, InUse, InMap, BinsInv, SortingInv
  <1>9. FlyingInv'
    <2>1. ASSUME NEW s \in Threads, Flying(s)' PROVE Writing(s)'
      <3>1. CASE s = t
        BY <1>1, <1>2, <1>3, <3>1 DEF Writing, InUse
      <3>2. CASE s # t
        <4>1. Flying(s) /\ pc'[s] = pc[s] /\ local'[s] = local[s]
          BY <1>3, <1>4, <2>1, <3>2
        <4>2. Writing(s)
          BY <1>0, <4>1 DEF FlyingInv
        <4> QED BY <1>1, <4>1, <4>2 DEF Writing, InUse
      <3> QED BY <3>1, <3>2
    <2>2. ASSUME NEW x \in DOMAIN map, unit[map[x]].acts = <<>>
          PROVE  \E s \in Threads : pc'[s] = "push" /\ local'[s].unit = map[x]
      <3>1. PICK s \in Threads : pc[s] = "push" /\ local[s].unit = map[x]
        BY <1>0, <2>2 DEF FlyingInv
      <3> QED BY <1>1, <1>3, <3>1
    <2> QED BY <1>0, <1>1, <1>4, <2>1, <2>2 DEF FlyingInv
  <1>10. DepthInv'
    <2>1. Inside' = Inside
      BY <1>1 DEF Inside, In
    <2>2. Coming' = Coming
      BY <1>4 DEF Coming
    <2> QED BY <1>0, <1>1, <2>1, <2>2 DEF DepthInv, Held
  <1> QED BY <1>6, <1>7, <1>8, <1>9, <1>10 DEF BinInv

(* A new activity at the end of a unit. *)
LEMMA AppendIs ==
  ASSUME NEW s \in Seq(Acts), NEW a \in Acts
  PROVE  /\ Append(s, a) \in Seq(Acts) /\ Len(Append(s, a)) = Len(s) + 1
         /\ DOMAIN Append(s, a) = 1 .. Len(s) + 1 /\ DOMAIN s = 1 .. Len(s) /\ Len(s) \in Nat
         /\ \A i \in 1 .. Len(s) : Append(s, a)[i] = s[i]
         /\ Append(s, a)[Len(s) + 1] = a
  OBVIOUS

(* What becomes of one unit, and what stays as it is. *)
LEMMA UnitChange ==
  ASSUME TypeOK, NEW u \in Units, NEW s \in Seq(Acts), NEW b \in BOOLEAN,
         unit' = [unit EXCEPT ![u].acts = s, ![u].sorted = b]
  PROVE  /\ unit' \in [Units -> [time : Times, acts : Seq(Acts), sorted : BOOLEAN]]
         /\ unit'[u].acts = s /\ unit'[u].sorted = b
         /\ \A v \in Units \ {u} : unit'[v] = unit[v]
         /\ \A v \in Units : unit'[v].time = unit[v].time
  <1>1. unit[u] \in [time : Times, acts : Seq(Acts), sorted : BOOLEAN]
    BY DEF TypeOK
  <1>2. unit \in [Units -> [time : Times, acts : Seq(Acts), sorted : BOOLEAN]]
    BY DEF TypeOK
  <1> DEFINE r == [unit[u] EXCEPT !.acts = s, !.sorted = b]
  <1>3. /\ r \in [time : Times, acts : Seq(Acts), sorted : BOOLEAN]
        /\ r.acts = s /\ r.sorted = b /\ r.time = unit[u].time
    BY <1>1
  <1>4. unit' = [unit EXCEPT ![u] = r]
    BY <1>2
  <1> HIDE DEF r
  <1> QED BY <1>2, <1>3, <1>4

(* The activity is put into the unit. *)
LEMMA PushKeeps ==
  ASSUME BinInv, NEW t \in Inserters, Push(t)
  PROVE  BinInv' /\ Inside' = Inside \cup {local[t].act} /\ local[t].act \notin Inside
         /\ local[t].act \in Acts /\ popped' = popped
  <1>0. /\ TypeOK /\ LocalTypes /\ Roles /\ UnitsInv /\ BinsInv /\ FlyingInv /\ SortingInv /\ DepthInv
    BY DEF BinInv
  <1>u. PICK u, a : u = local[t].unit /\ a = local[t].act
    OBVIOUS
  <1> DEFINE s == unit[u].acts
             n == Len(s)
  <1>1. /\ pc[t] = "push" /\ pc' = [pc EXCEPT ![t] = "idle"] /\ local' = [local EXCEPT ![t] = NoLocal]
        /\ unit' = [unit EXCEPT ![u].acts = Append(@, a), ![u].sorted = FALSE]
        /\ UNCHANGED <<current, map, pool, insertOrder, depth, windowEnd, asked, popped>>
    BY <1>u DEF Push
  <1>2. /\ t \in Threads /\ Flying(t) /\ Writing(t) /\ Quiet
        /\ pc' \in [Threads -> PCs] /\ \A x \in Threads \ {t} : pc'[x] = pc[x] /\ local'[x] = local[x]
        /\ pc'[t] = "idle" /\ local' \in [Threads -> Locals]
    <2>1. t \in Threads /\ Flying(t)
      BY <1>0, <1>1, ThreadTypes DEF Flying
    <2>2. Writing(t) /\ Quiet
      BY <1>0, <2>1, FlyingUnsynced DEF FlyingInv
    <2> QED BY <1>0, <1>1, <2>1, <2>2, ThreadTypes, NoLocalType DEF PCs
  <1>3. /\ u \in Units /\ u \in InUse /\ unit[u].time = a.time /\ a \in Acts /\ a.order <= insertOrder
        /\ s \in Seq(Acts)
    BY <1>0, <1>1, <1>2, <1>u, UnitTypes DEF Writing
  <1>4. unit' = [unit EXCEPT ![u].acts = Append(s, a), ![u].sorted = FALSE]
    BY <1>1
  <1>5. /\ Append(s, a) \in Seq(Acts) /\ DOMAIN Append(s, a) = 1 .. n + 1 /\ DOMAIN s = 1 .. n /\ n \in Nat
        /\ \A i \in 1 .. n : Append(s, a)[i] = s[i]
        /\ Append(s, a)[n + 1] = a /\ Append(s, a) # <<>>
    BY <1>3, AppendIs
  <1>6. /\ unit' \in [Units -> [time : Times, acts : Seq(Acts), sorted : BOOLEAN]]
        /\ unit'[u].acts = Append(s, a) /\ ~unit'[u].sorted
        /\ \A v \in Units \ {u} : unit'[v] = unit[v]
        /\ \A v \in Units : unit'[v].time = unit[v].time
    BY <1>0, <1>3, <1>4, <1>5, UnitChange
  <1>7. ASSUME NEW v \in Units, NEW i \in DOMAIN unit'[v].acts
        PROVE  \/ /\ i \in DOMAIN unit[v].acts /\ unit'[v].acts[i] = unit[v].acts[i]
                  /\ v = u => i \in 1 .. n
               \/ v = u /\ i = n + 1 /\ unit'[v].acts[i] = a
    BY <1>5, <1>6
  <1>8. ASSUME NEW v \in Units, NEW i \in DOMAIN unit[v].acts
        PROVE  i \in DOMAIN unit'[v].acts /\ unit'[v].acts[i] = unit[v].acts[i]
    <2>1. CASE v = u
      <3>1. unit[v].acts = s /\ unit'[v].acts = Append(s, a) /\ i \in 1 .. n
        BY <1>5, <1>6, <1>8, <2>1
      <3> QED BY <1>5, <3>1
    <2>2. CASE v # u
      BY <1>6, <1>8, <2>2
    <2> QED BY <2>1, <2>2
  <1>v. UNCHANGED <<current, map, pool, insertOrder, depth, windowEnd, asked, popped>>
    BY <1>1
  <1> HIDE DEF s, n
  <1>9. \A x \in Threads : Flying(x)' <=> x # t /\ Flying(x)
    BY <1>2 DEF Flying
  <1>10. \A x \in Threads : ~Reading(x)'
    BY <1>2 DEF Quiet, Reading
  <1>11. TypeOK'
    BY <1>0, <1>1, <1>2, <1>6 DEF TypeOK
  <1>12. LocalTypes'
    BY <1>0, <1>1, <1>2 DEF LocalTypes
  <1>13. Roles'
    BY <1>0, <1>1, <1>2, <1>9, <1>10 DEF Roles, Quiet
  <1>14. InMap' = InMap /\ InUse' = InUse
    BY <1>1 DEF InMap, InUse
  <1>15. UnitsInv'
    <2>1. \A v \in pool : v \in Units \ {u}
      BY <1>0, <1>3 DEF UnitsInv, TypeOK
    <2>2. current \in Units /\ \A x \in DOMAIN map : map[x] \in Units
      BY <1>0 DEF TypeOK
    <2> QED BY <1>0, <1>1, <1>6, <1>14, <2>1, <2>2 DEF UnitsInv
  <1>16. BinsInv'
    <2>1. ASSUME NEW v \in Units, NEW i \in DOMAIN unit'[v].acts
          PROVE  unit'[v].acts[i].time = unit'[v].time /\ unit'[v].acts[i].order <= insertOrder
      <3>1. CASE i \in DOMAIN unit[v].acts /\ unit'[v].acts[i] = unit[v].acts[i]
        BY <1>0, <1>6, <3>1 DEF BinsInv
      <3>2. CASE v = u /\ i = n + 1 /\ unit'[v].acts[i] = a
        BY <1>3, <1>6, <3>2
      <3> QED BY <1>7, <3>1, <3>2
    <2>2. ASSUME NEW v \in Units, NEW w \in Units, NEW i \in DOMAIN unit'[v].acts,
                 NEW j \in DOMAIN unit'[w].acts, unit'[v].acts[i].order = unit'[w].acts[j].order
          PROVE  v = w /\ i = j
      <3>1. \A x \in Units : \A k \in DOMAIN unit[x].acts : unit[x].acts[k].order # a.order
        BY <1>0, <1>2, <1>u DEF FlyingInv
      <3>2. CASE /\ i \in DOMAIN unit[v].acts /\ unit'[v].acts[i] = unit[v].acts[i]
                 /\ j \in DOMAIN unit[w].acts /\ unit'[w].acts[j] = unit[w].acts[j]
        BY <1>0, <2>2, <3>2 DEF BinsInv
      <3>3. CASE /\ i \in DOMAIN unit[v].acts /\ unit'[v].acts[i] = unit[v].acts[i]
                 /\ unit'[w].acts[j] = a
        BY <2>2, <3>1, <3>3
      <3>4. CASE /\ unit'[v].acts[i] = a
                 /\ j \in DOMAIN unit[w].acts /\ unit'[w].acts[j] = unit[w].acts[j]
        BY <2>2, <3>1, <3>4
      <3>5. CASE v = u /\ w = u /\ i = n + 1 /\ j = n + 1
        BY <3>5
      <3>6. \/ i \in DOMAIN unit[v].acts /\ unit'[v].acts[i] = unit[v].acts[i]
            \/ v = u /\ i = n + 1 /\ unit'[v].acts[i] = a
        BY <1>7
      <3>7. \/ j \in DOMAIN unit[w].acts /\ unit'[w].acts[j] = unit[w].acts[j]
            \/ w = u /\ j = n + 1 /\ unit'[w].acts[j] = a
        BY <1>7
      <3> QED BY <3>2, <3>3, <3>4, <3>5, <3>6, <3>7
    <2>3. ASSUME NEW v \in Units, unit'[v].sorted
          PROVE  Decreasing(unit'[v].acts, Len(unit'[v].acts))
      <3>1. v # u /\ unit'[v] = unit[v]
        BY <1>6, <2>3
      <3> QED BY <1>0, <2>3, <3>1 DEF BinsInv
    <2> QED BY <1>v, <2>1, <2>2, <2>3 DEF BinsInv, Decreasing
  <1>17. FlyingInv'
    <2>1. ASSUME NEW x \in Threads, Flying(x)'
          PROVE  /\ x # t /\ Flying(x) /\ pc'[x] = pc[x] /\ local'[x] = local[x] /\ Writing(x)
                 /\ Writing(x)'
      <3>1. x # t /\ Flying(x) /\ pc'[x] = pc[x] /\ local'[x] = local[x]
        BY <1>2, <1>9, <2>1
      <3>2. Writing(x)
        BY <1>0, <3>1 DEF FlyingInv
      <3>3. current \in Units /\ local[x].unit \in Units
        BY <1>0, <3>2 DEF TypeOK, Writing
      <3> QED BY <1>1, <1>6, <1>14, <3>1, <3>2, <3>3 DEF Writing
    <2>2. ASSUME NEW x \in Threads, Flying(x)', NEW v \in Units, NEW i \in DOMAIN unit'[v].acts
          PROVE  unit'[v].acts[i].order # local'[x].act.order
      <3>1. x # t /\ Flying(x) /\ local'[x] = local[x]
        BY <2>1, <2>2
      <3>2. CASE i \in DOMAIN unit[v].acts /\ unit'[v].acts[i] = unit[v].acts[i]
        BY <1>0, <3>1, <3>2 DEF FlyingInv
      <3>3. CASE unit'[v].acts[i] = a
        BY <1>0, <1>2, <1>u, <3>1, <3>3 DEF FlyingInv
      <3> QED BY <1>7, <3>2, <3>3
    <2>3. ASSUME NEW x \in Threads, NEW y \in Threads, Flying(x)', Flying(y)',
                 local'[x].act.order = local'[y].act.order
          PROVE  x = y
      <3>1. Flying(x) /\ local'[x] = local[x] /\ Flying(y) /\ local'[y] = local[y]
        BY <2>1, <2>3
      <3> QED BY <1>0, <2>3, <3>1 DEF FlyingInv
    <2>4. ASSUME NEW x \in DOMAIN map, unit'[map[x]].acts = <<>>
          PROVE  \E y \in Threads : pc'[y] = "push" /\ local'[y].unit = map[x]
      <3>1. map[x] # u /\ map[x] \in Units
        BY <1>0, <1>5, <1>6, <2>4 DEF TypeOK
      <3>2. unit[map[x]].acts = <<>>
        BY <1>6, <2>4, <3>1
      <3>3. PICK y \in Threads : pc[y] = "push" /\ local[y].unit = map[x]
        BY <1>0, <3>2 DEF FlyingInv
      <3>4. y # t
        BY <1>u, <3>1, <3>3
      <3> QED BY <1>2, <3>3, <3>4
    <2> QED BY <1>v, <2>1, <2>2, <2>3, <2>4 DEF FlyingInv
  <1>18. SortingInv'
    BY <1>10 DEF SortingInv
  <1>19. Inside' = Inside \cup {a}
    <2>1. \A v \in Units \ {u} : In(v)' = In(v)
      <3> TAKE v \in Units \ {u}
      <3>1. unit'[v].acts = unit[v].acts
        BY <1>6
      <3> QED BY <3>1 DEF In
    <2>2. In(u)' = In(u) \cup {a}
      <3>1. {Append(s, a)[i] : i \in 1 .. n + 1} = {s[i] : i \in 1 .. n} \cup {a}
        <4>1. \A i \in 1 .. n + 1 : i \in 1 .. n \/ i = n + 1
          BY <1>5
        <4>2. n + 1 \in 1 .. n + 1 /\ \A i \in 1 .. n : i \in 1 .. n + 1
          BY <1>5
        <4> QED BY <1>5, <4>1, <4>2
      <3>2. In(u) = {s[i] : i \in 1 .. n}
        BY <1>5 DEF In, s
      <3>3. In(u)' = {Append(s, a)[i] : i \in 1 .. n + 1}
        BY <1>5, <1>6 DEF In
      <3> QED BY <3>1, <3>2, <3>3
    <2>3. \A x : x \in Inside' <=> \E v \in Units : x \in In(v)'
      BY DEF Inside
    <2>4. \A x : x \in Inside <=> \E v \in Units : x \in In(v)
      BY DEF Inside
    <2> HIDE DEF Inside
    <2> QED BY <1>3, <2>1, <2>2, <2>3, <2>4
  <1>20. DepthInv'
    <2>1. Coming = Coming' \cup {a}
      <3>1. \A x \in Threads : x # t => local'[x] = local[x]
        BY <1>2
      <3>2. Coming' = {local[x].act : x \in {y \in Threads : Flying(y) /\ y # t}}
        BY <1>9, <3>1 DEF Coming
      <3> QED BY <1>2, <1>u, <3>2 DEF Coming
    <2>2. Held' = Held
      BY <1>19, <2>1 DEF Held
    <2> QED BY <1>0, <1>1, <2>2 DEF DepthInv
  <1>21. local[t].act \notin Inside
    BY <1>0, <1>2, NotInside
  <1>22. BinInv'
    BY <1>11, <1>12, <1>13, <1>15, <1>16, <1>17, <1>18, <1>20 DEF BinInv
  <1>23. Inside' = Inside \cup {local[t].act} /\ local[t].act \in Acts
    BY <1>u, <1>3, <1>19
  <1> QED BY <1>v, <1>21, <1>22, <1>23

(* The current unit is used up and the next one is taken. *)
LEMMA NextUnitKeeps ==
  ASSUME BinInv, NextUnit PROVE BinInv'
  <1>0. /\ TypeOK /\ LocalTypes /\ Roles /\ UnitsInv /\ BinsInv /\ FlyingInv /\ SortingInv /\ DepthInv
    BY DEF BinInv
  <1> DEFINE f == FirstOf(map)
  <1>1. /\ pc[Owner] = "idle" /\ asked = {} /\ Due /\ unit[current].acts = <<>>
        /\ pool' = pool \cup {current} /\ current' = map[f]
        /\ map' = WithoutTime(map, unit[current'].time)
        /\ pc' = [pc EXCEPT ![Owner] = "pop"]
        /\ UNCHANGED <<unit, insertOrder, depth, local, windowEnd, asked, popped>>
    BY DEF NextUnit
  <1>2. /\ Owner \in Threads /\ Quiet /\ ~Flying(Owner)
        /\ pc' \in [Threads -> PCs] /\ \A x \in Threads \ {Owner} : pc'[x] = pc[x]
        /\ pc'[Owner] = "pop"
    <2>1. ~InSync
      BY <1>1 DEF InSync
    <2> QED BY <1>0, <1>1, <2>1, NoSync, ThreadTypes DEF PCs, Flying
  <1>3. /\ f \in DOMAIN map /\ \A x \in DOMAIN map : f <= x
        /\ f < windowEnd /\ map[f] \in Units /\ unit[map[f]].time = f
        /\ f \in Nat /\ current \in Units /\ unit[current].time \in Nat
        /\ windowEnd \in Nat
    <2>1. DOMAIN map # {} /\ f < windowEnd
      BY <1>1 DEF Due
    <2> QED BY <1>0, <2>1, FirstOfIs, MapTimes, UnitTypes DEF TypeOK, UnitsInv
  <1> HIDE DEF f
  <1>4. /\ DOMAIN map' = DOMAIN map \ {f} /\ \A x \in DOMAIN map \ {f} : map'[x] = map[x]
        /\ InMap' = InMap \ {map[f]} /\ InUse' = InUse \ {current}
    <2>1. /\ DOMAIN map' = DOMAIN map \ {f} /\ \A x \in DOMAIN map \ {f} : map'[x] = map[x]
      BY <1>1, <1>3 DEF WithoutTime
    <2>2. \A x \in DOMAIN map : map[x] = map[f] => x = f
      BY <1>0, <1>3 DEF UnitsInv
    <2>3. InMap' = InMap \ {map[f]}
      BY <2>1, <2>2 DEF InMap
    <2>4. InUse = {current} \cup InMap /\ InUse' = {map[f]} \cup InMap' /\ current \notin InMap /\ map[f] \in InMap
      BY <1>0, <1>1, <1>3 DEF InUse, InMap, UnitsInv
    <2> QED BY <2>1, <2>3, <2>4
  <1>5. \A x \in Threads : Flying(x)' <=> Flying(x)
    BY <1>2 DEF Flying
  <1>6. \A x \in Threads : ~Reading(x)'
    BY <1>2 DEF Quiet, Reading
  <1>7. TypeOK'
    BY <1>0, <1>1, <1>2, <1>3, <1>4 DEF TypeOK
  <1>8. LocalTypes'
    BY <1>0, <1>1 DEF LocalTypes
  <1>9. Roles'
    BY <1>0, <1>1, <1>2, <1>5, <1>6 DEF Roles, Quiet
  <1>10. UnitsInv'
    <2>1. Units = pool' \cup InUse' /\ pool' \cap InUse' = {} /\ current' \notin InMap'
      BY <1>0, <1>1, <1>3, <1>4 DEF UnitsInv
    <2>2. ASSUME NEW x \in DOMAIN map' PROVE unit[map'[x]].time = x /\ unit[current'].time < x
      <3>1. x \in DOMAIN map /\ x # f /\ map'[x] = map[x] /\ x \in Nat
        BY <1>0, <1>4, MapTimes
      <3> QED BY <1>0, <1>1, <1>3, <3>1 DEF UnitsInv
    <2>3. unit[current'].time < windowEnd
      BY <1>1, <1>3
    <2>4. \A v \in pool' : unit[v].acts = <<>> /\ unit[v].time < windowEnd
      BY <1>0, <1>1 DEF UnitsInv
    <2> QED BY <1>1, <2>1, <2>2, <2>3, <2>4 DEF UnitsInv
  <1>11. BinsInv'
    BY <1>0, <1>1 DEF BinsInv
  <1>12. FlyingInv'
    <2>1. ASSUME NEW x \in Threads, Flying(x)' PROVE Writing(x)'
      <3>1. Flying(x) /\ x # Owner /\ pc'[x] = pc[x] /\ x \in Writers
        BY <1>0, <1>2, <1>5, <2>1 DEF Roles, Inserters
      <3>2. Writing(x)
        BY <1>0, <3>1 DEF FlyingInv
      <3>3. local[x].act.time \in Nat /\ windowEnd <= local[x].act.time
        BY <3>1, <3>2, ActTypes DEF Writing
      <3>4. pc[x] = "push" => local[x].unit \in InUse'
        BY <1>0, <1>3, <1>4, <3>2, <3>3 DEF Writing, UnitsInv
      <3> QED BY <1>1, <3>1, <3>2, <3>4 DEF Writing
    <2>2. ASSUME NEW x \in DOMAIN map', unit[map'[x]].acts = <<>>
          PROVE  \E s \in Threads : pc'[s] = "push" /\ local[s].unit = map'[x]
      <3>1. x \in DOMAIN map /\ map'[x] = map[x]
        BY <1>4
      <3>2. PICK s \in Threads : pc[s] = "push" /\ local[s].unit = map[x]
        BY <1>0, <2>2, <3>1 DEF FlyingInv
      <3> QED BY <1>1, <1>2, <3>1, <3>2
    <2> QED BY <1>0, <1>1, <1>5, <2>1, <2>2 DEF FlyingInv
  <1>13. SortingInv'
    BY <1>6 DEF SortingInv
  <1>14. DepthInv'
    <2>1. Inside' = Inside /\ Coming' = Coming
      BY <1>1, <1>5 DEF Inside, In, Coming
    <2> QED BY <1>0, <1>1, <2>1 DEF DepthInv, Held
  <1> QED BY <1>7, <1>8, <1>9, <1>10, <1>11, <1>12, <1>13, <1>14 DEF BinInv

(* What pop() does to the current unit: of its activities, sorted so that   *)
(* the first to come out is last, the last is taken off.                   *)
PopFrom(T) ==
  LET s == unit[current].acts  n == Len(T)
  IN  /\ T \in Seq(Acts) /\ Len(s) = n /\ n \in Nat /\ n >= 1 /\ DOMAIN T = 1 .. n /\ DOMAIN s = 1 .. n
      /\ Permuted(T, s) /\ Decreasing(T, n)
      /\ popped' = T[n]
      /\ SubSeq(T, 1, n - 1) \in Seq(Acts)
      /\ Len(SubSeq(T, 1, n - 1)) = n - 1 /\ DOMAIN SubSeq(T, 1, n - 1) = 1 .. n - 1
      /\ \A i \in 1 .. n - 1 : SubSeq(T, 1, n - 1)[i] = T[i]
      /\ unit' \in [Units -> [time : Times, acts : Seq(Acts), sorted : BOOLEAN]]
      /\ unit'[current].acts = SubSeq(T, 1, n - 1)
      /\ \A v \in Units \ {current} : unit'[v] = unit[v]
      /\ \A v \in Units : unit'[v].time = unit[v].time

(* Such a T is what the unit holds, or std::sort makes of it. *)
LEMMA PopIs ==
  ASSUME TypeOK, BinsInv, PopCurrent PROVE \E T : PopFrom(T)
  <1> DEFINE s == unit[current].acts
             T == IF unit[current].sorted THEN s ELSE Sorted(s)
             n == Len(T)
             q == SubSeq(T, 1, n - 1)
  <1>1. /\ s # <<>> /\ popped' = T[n]
        /\ unit' = [unit EXCEPT ![current].acts = q, ![current].sorted = TRUE]
    BY DEF PopCurrent
  <1>2. current \in Units /\ s \in Seq(Acts) /\ Len(s) \in Nat /\ DOMAIN s = 1 .. Len(s)
    BY MapTimes, UnitTypes
  <1>3. Numbered(s)
    BY <1>2 DEF BinsInv, Numbered
  <1>4. Permuted(T, s) /\ Decreasing(T, Len(s))
    <2>1. CASE unit[current].sorted
      <3>1. T = s
        BY <2>1
      <3>2. Decreasing(s, Len(s))
        BY <1>2, <2>1 DEF BinsInv
      <3> HIDE DEF T, s
      <3> QED BY <1>2, <1>3, <3>1, <3>2, PermutedTwice
    <2>2. CASE ~unit[current].sorted
      <3>1. T = Sorted(s)
        BY <2>2
      <3> HIDE DEF T, s
      <3> QED BY <1>2, <1>3, <3>1, SortedIs
    <2> QED BY <2>1, <2>2
  <1> HIDE DEF T, s
  <1>5. T \in Seq(Acts) /\ n = Len(s) /\ n \in Nat /\ n >= 1 /\ DOMAIN T = 1 .. n
    <2>1. T \in Seq(Acts) /\ n = Len(s)
      BY <1>4 DEF Permuted
    <2>2. Len(s) # 0
      BY <1>1, <1>2, EmptySeq
    <2> QED BY <1>2, <2>1, <2>2
  <1>6. /\ q \in Seq(Acts) /\ Len(q) = n - 1 /\ DOMAIN q = 1 .. n - 1
        /\ \A i \in 1 .. n - 1 : q[i] = T[i]
    <2>1. \A i \in 1 .. n - 1 : T[i] \in Acts
      BY <1>5
    <2>2. n - 1 \in Int /\ n - 1 \in Nat
      BY <1>5
    <2> HIDE DEF n
    <2>3. /\ q \in Seq(Acts) /\ Len(q) = IF 1 <= n - 1 THEN n - 1 - 1 + 1 ELSE 0
          /\ \A i \in 1 .. n - 1 - 1 + 1 : q[i] = T[1 + i - 1]
      BY <2>1, <2>2, SubSeqProperties
    <2> HIDE DEF q
    <2> QED BY <2>2, <2>3
  <1> HIDE DEF q
  <1>7. /\ unit' \in [Units -> [time : Times, acts : Seq(Acts), sorted : BOOLEAN]]
        /\ unit'[current].acts = q
        /\ \A v \in Units \ {current} : unit'[v] = unit[v]
        /\ \A v \in Units : unit'[v].time = unit[v].time
    BY <1>1, <1>2, <1>6, UnitChange
  <1>8. PopFrom(T)
    BY <1>1, <1>2, <1>4, <1>5, <1>6, <1>7 DEF PopFrom, q, s
  <1> QED BY <1>8

(* Where what is in a unit after a pop was before. *)
LEMMA PopKept ==
  ASSUME TypeOK, NEW T, PopFrom(T), NEW v \in Units
  PROVE  /\ \A i \in DOMAIN unit'[v].acts : \E k \in DOMAIN unit[v].acts :
              unit'[v].acts[i] = unit[v].acts[k]
         /\ unit'[v].acts # unit[v].acts => v = current
  <1>1. CASE v = current
    <2>1. \A i \in DOMAIN T : \E k \in DOMAIN unit[v].acts : T[i] = unit[v].acts[k]
      BY <1>1 DEF PopFrom, Permuted
    <2>2. ASSUME NEW i \in DOMAIN unit'[v].acts PROVE i \in DOMAIN T /\ unit'[v].acts[i] = T[i]
      BY <1>1, <2>2 DEF PopFrom
    <2> QED BY <1>1, <2>1, <2>2
  <1>2. CASE v # current
    <2>1. unit'[v].acts = unit[v].acts
      BY <1>2 DEF PopFrom
    <2> QED BY <2>1
  <1> QED BY <1>1, <1>2

(* One is gone, and it was the first of all. *)
LEMMA PopTakesFirst ==
  ASSUME TypeOK, BinsInv, UnitsInv, NEW T, PopFrom(T)
  PROVE  /\ popped' \in Inside /\ Inside' = Inside \ {popped'}
         /\ \A b \in Inside \ {popped'} : Less(popped', b)
  <1> DEFINE n == Len(T)
             s == unit[current].acts
  <1>1. /\ n \in Nat /\ n >= 1 /\ n \in 1 .. n /\ popped' = T[n] /\ Numbered(T) /\ T[n] \in Acts
        /\ DOMAIN s = 1 .. n /\ DOMAIN T = 1 .. n /\ Decreasing(T, n)
        /\ DOMAIN unit'[current].acts = 1 .. n - 1
        /\ \A i \in 1 .. n - 1 : unit'[current].acts[i] = T[i]
        /\ \A j \in 1 .. n : \E k \in 1 .. n : T[j] = s[k]
        /\ \A k \in 1 .. n : \E j \in 1 .. n : T[j] = s[k]
    <2>1. /\ n \in Nat /\ n >= 1 /\ popped' = T[n] /\ T \in Seq(Acts)
          /\ DOMAIN s = 1 .. n /\ DOMAIN T = 1 .. n /\ Decreasing(T, n)
      BY DEF PopFrom
    <2>2. /\ DOMAIN unit'[current].acts = 1 .. n - 1
          /\ \A i \in 1 .. n - 1 : unit'[current].acts[i] = T[i]
      BY DEF PopFrom
    <2>3. Permuted(T, s)
      BY DEF PopFrom
    <2> HIDE DEF s
    <2>4. /\ Numbered(T)
          /\ \A j \in 1 .. n : \E k \in 1 .. n : T[j] = s[k]
          /\ \A k \in 1 .. n : \E j \in 1 .. n : T[j] = s[k]
      BY <2>1, <2>3 DEF Permuted
    <2>5. n \in 1 .. n /\ T[n] \in Acts
      BY <2>1
    <2> QED BY <2>1, <2>2, <2>4, <2>5
  <1>2. PICK o : o = popped'
    OBVIOUS
  <1>3. current \in Units
    BY MapTimes
  <1> HIDE DEF n
  <1>4. PICK m \in DOMAIN s : o = s[m]
    BY <1>1, <1>2
  <1>5. \A x : x \in Inside <=> \E v \in Units : \E i \in DOMAIN unit[v].acts : x = unit[v].acts[i]
    BY DEF Inside, In
  <1>6. \A x : x \in Inside' <=> \E v \in Units : \E i \in DOMAIN unit'[v].acts : x = unit'[v].acts[i]
    BY DEF Inside, In
  <1>7. o \in Inside
    BY <1>3, <1>4, <1>5
  <1>8. ASSUME NEW v \in Units, NEW i \in DOMAIN unit[v].acts, unit[v].acts[i] # o
        PROVE  unit[v].acts[i] \in Inside' /\ Less(o, unit[v].acts[i])
    <2> DEFINE b == unit[v].acts[i]
    <2>1. CASE v = current
      <3>1. PICK j \in 1 .. n : T[j] = b
        BY <1>1, <2>1
      <3>2. j # n /\ j \in 1 .. n - 1 /\ j < n
        <4>1. j # n
          BY <1>1, <1>2, <1>8, <3>1
        <4>2. n \in Nat /\ j \in Nat /\ 1 <= j /\ j <= n
          BY <1>1
        <4> QED BY <4>1, <4>2
      <3>3. Less(T[n], T[j])
        BY <1>1, <3>2 DEF Decreasing
      <3>4. unit'[current].acts[j] = b /\ j \in DOMAIN unit'[current].acts
        BY <1>1, <3>1, <3>2
      <3> QED BY <1>1, <1>2, <1>3, <1>6, <3>1, <3>3, <3>4
    <2>2. CASE v # current
      <3>1. unit'[v].acts = unit[v].acts
        BY <2>2 DEF PopFrom
      <3>2. b \in Inside'
        BY <1>6, <3>1
      <3>3. v \in InMap
        <4>1. unit[v].acts # <<>>
          BY <1>8
        <4> QED BY <2>2, <4>1, MapTimes DEF UnitsInv
      <3>4. PICK t \in DOMAIN map : map[t] = v
        BY <3>3 DEF InMap
      <3>5. unit[v].time = t /\ unit[current].time < t
        BY <3>4 DEF UnitsInv
      <3>6. b.time = t /\ o.time = unit[current].time
        BY <1>3, <1>4, <3>5 DEF BinsInv
      <3> QED BY <3>2, <3>5, <3>6 DEF Less
    <2> QED BY <2>1, <2>2
  <1>9. ASSUME NEW v \in Units, NEW i \in DOMAIN unit'[v].acts
        PROVE  unit'[v].acts[i] \in Inside \ {o}
    <2>1. PICK k \in DOMAIN unit[v].acts : unit'[v].acts[i] = unit[v].acts[k]
      BY PopKept
    <2>2. unit'[v].acts[i] \in Inside
      BY <1>5, <2>1
    <2>3. ASSUME unit'[v].acts[i] = o PROVE FALSE
      <3>1. unit[v].acts[k].order = s[m].order
        BY <1>4, <2>1, <2>3
      <3>2. v = current
        BY <1>3, <1>4, <3>1 DEF BinsInv
      <3>3. i \in 1 .. n - 1 /\ T[i] = T[n]
        BY <1>1, <1>2, <1>9, <2>3, <3>2
      <3>4. i \in 1 .. n /\ i # n
        BY <1>1, <3>3
      <3> QED BY <1>1, <3>3, <3>4 DEF Numbered
    <2> QED BY <2>2, <2>3
  <1>10. Inside' = Inside \ {o}
    <2>1. \A x : x \in Inside' => x \in Inside \ {o}
      BY <1>6, <1>9
    <2>2. \A x : x \in Inside \ {o} => x \in Inside'
      BY <1>5, <1>8
    <2> HIDE DEF Inside
    <2> QED BY <2>1, <2>2
  <1>11. \A b \in Inside \ {o} : Less(o, b)
    BY <1>5, <1>8
  <1> QED BY <1>2, <1>7, <1>10, <1>11

(* The owner takes the first activity. *)
LEMMA PopCurrentKeeps ==
  ASSUME BinInv, PopCurrent PROVE BinInv'
  <1>0. /\ TypeOK /\ LocalTypes /\ Roles /\ UnitsInv /\ BinsInv /\ FlyingInv /\ SortingInv /\ DepthInv
    BY DEF BinInv
  <1>1. /\ pc[Owner] \in {"idle", "pop"} /\ unit[current].acts # <<>>
        /\ depth' = depth - 1 /\ pc' = [pc EXCEPT ![Owner] = "idle"]
        /\ UNCHANGED <<current, map, pool, insertOrder, local, windowEnd, asked>>
    BY DEF PopCurrent
  <1>2. PICK T : PopFrom(T)
    BY <1>0, PopIs
  <1>3. /\ Owner \in Threads /\ Quiet /\ ~Flying(Owner)
        /\ pc' \in [Threads -> PCs] /\ \A x \in Threads \ {Owner} : pc'[x] = pc[x]
        /\ pc'[Owner] = "idle"
    <2>1. ~InSync
      BY <1>1 DEF InSync, PopCurrent, Due
    <2> QED BY <1>0, <1>1, <2>1, NoSync, ThreadTypes DEF PCs, Flying
  <1>4. \A x \in Threads : (Flying(x)' <=> Flying(x)) /\ (Flying(x) => pc'[x] = pc[x])
    BY <1>3 DEF Flying
  <1>5. \A x \in Threads : ~Reading(x)'
    BY <1>3 DEF Quiet, Reading
  <1>6. /\ \A v \in Units : unit'[v].time = unit[v].time
        /\ \A v \in Units \ {current} : unit'[v] = unit[v]
        /\ \A v \in Units : \A i \in DOMAIN unit'[v].acts : \E k \in DOMAIN unit[v].acts :
             unit'[v].acts[i] = unit[v].acts[k]
        /\ current \in Units
    BY <1>0, <1>2, PopKept, MapTimes DEF PopFrom
  <1>7. /\ popped' \in Inside /\ Inside' = Inside \ {popped'} /\ popped' \in Held /\ popped' \in Acts
    <2>1. popped' \in Inside /\ Inside' = Inside \ {popped'}
      BY <1>0, <1>2, PopTakesFirst
    <2>2. popped' \in Held
      BY <2>1 DEF Held
    <2> QED BY <2>1, <2>2, HeldOrder
  <1>8. DepthInv' /\ depth' \in Nat
    <2>1. PICK o : o = popped'
      OBVIOUS
    <2>2. Coming' = Coming
      BY <1>1, <1>4 DEF Coming
    <2>3. o \notin Coming
      <3> SUFFICES ASSUME NEW x \in Threads, Flying(x), o = local[x].act PROVE FALSE
        BY DEF Coming
      <3> QED BY <1>0, <1>7, <2>1, NotInside
    <2>4. Held' = Held \ {o}
      <3>1. Inside' = Inside \ {o}
        BY <1>7, <2>1
      <3>2. Held' = Inside' \cup Coming'
        BY DEF Held
      <3> QED BY <2>2, <2>3, <3>1, <3>2 DEF Held
    <2>5. o \in Held /\ IsFiniteSet(Held) /\ depth = Cardinality(Held)
      BY <1>0, <1>7, <2>1 DEF DepthInv
    <2>6. IsFiniteSet(Held \ {o}) /\ Cardinality(Held \ {o}) = depth - 1
      BY <2>5, FS_RemoveElement
    <2>7. Cardinality(Held \ {o}) \in Nat
      BY <2>6, FS_CardinalityType
    <2> QED BY <1>1, <2>4, <2>6, <2>7 DEF DepthInv
  <1>9. TypeOK'
    <2>1. depth' \in 0 .. MaxInserts
      <3>1. depth \in 0 .. MaxInserts /\ MaxInserts \in Nat
        BY <1>0, BinnedAssumption DEF TypeOK
      <3> QED BY <1>1, <1>8, <3>1
    <2>2. unit' \in [Units -> [time : Times, acts : Seq(Acts), sorted : BOOLEAN]]
      BY <1>2 DEF PopFrom
    <2> QED BY <1>0, <1>1, <1>3, <1>7, <2>1, <2>2 DEF TypeOK
  <1>10. LocalTypes'
    <2>1. depth' <= insertOrder
      BY <1>0, <1>1 DEF LocalTypes, TypeOK
    <2> QED BY <1>0, <1>1, <2>1 DEF LocalTypes
  <1>11. Roles'
    BY <1>0, <1>1, <1>3, <1>4, <1>5 DEF Roles, Quiet
  <1>12. InMap' = InMap /\ InUse' = InUse
    BY <1>1 DEF InMap, InUse
  <1>13. UnitsInv'
    <2>1. \A v \in pool : v \in Units \ {current}
      BY <1>0 DEF UnitsInv, TypeOK, InUse
    <2>2. \A x \in DOMAIN map : map[x] \in Units
      BY <1>0 DEF TypeOK
    <2> QED BY <1>0, <1>1, <1>6, <1>12, <2>1, <2>2 DEF UnitsInv
  <1>14. BinsInv'
    <2>1. ASSUME NEW v \in Units, NEW i \in DOMAIN unit'[v].acts
          PROVE  unit'[v].acts[i].time = unit'[v].time /\ unit'[v].acts[i].order <= insertOrder
      <3>1. PICK k \in DOMAIN unit[v].acts : unit'[v].acts[i] = unit[v].acts[k]
        BY <1>6
      <3> QED BY <1>0, <1>6, <3>1 DEF BinsInv
    <2>2. ASSUME NEW v \in Units, NEW w \in Units, NEW i \in DOMAIN unit'[v].acts,
                 NEW j \in DOMAIN unit'[w].acts, unit'[v].acts[i].order = unit'[w].acts[j].order
          PROVE  v = w /\ i = j
      <3>1. PICK k \in DOMAIN unit[v].acts : unit'[v].acts[i] = unit[v].acts[k]
        BY <1>6
      <3>2. PICK l \in DOMAIN unit[w].acts : unit'[w].acts[j] = unit[w].acts[l]
        BY <1>6
      <3>3. v = w
        BY <1>0, <2>2, <3>1, <3>2 DEF BinsInv
      <3>4. CASE v = current
        <4>1. /\ i \in DOMAIN T /\ j \in DOMAIN T
              /\ unit'[v].acts[i] = T[i] /\ unit'[w].acts[j] = T[j]
          BY <1>2, <2>2, <3>3, <3>4 DEF PopFrom
        <4>2. Numbered(T)
          BY <1>2 DEF PopFrom, Permuted
        <4> QED BY <2>2, <3>3, <4>1, <4>2 DEF Numbered
      <3>5. CASE v # current
        <4>1. unit'[v] = unit[v]
          BY <1>6, <3>5
        <4> QED BY <1>0, <2>2, <3>3, <4>1 DEF BinsInv
      <3> QED BY <3>3, <3>4, <3>5
    <2>3. ASSUME NEW v \in Units, unit'[v].sorted
          PROVE  Decreasing(unit'[v].acts, Len(unit'[v].acts))
      <3>1. CASE v = current
        <4>1. /\ Decreasing(T, Len(T)) /\ Len(T) \in Nat
              /\ Len(unit'[v].acts) = Len(T) - 1
              /\ \A i \in 1 .. Len(T) - 1 : unit'[v].acts[i] = T[i]
          BY <1>2, <3>1 DEF PopFrom
        <4> QED BY <4>1 DEF Decreasing
      <3>2. CASE v # current
        <4>1. unit'[v] = unit[v]
          BY <1>6, <3>2
        <4> QED BY <1>0, <2>3, <4>1 DEF BinsInv
      <3> QED BY <3>1, <3>2
    <2> QED BY <1>1, <2>1, <2>2, <2>3 DEF BinsInv, Decreasing
  <1>15. FlyingInv'
    <2>1. ASSUME NEW x \in Threads, Flying(x)' PROVE Writing(x)'
      <3>1. Flying(x) /\ pc'[x] = pc[x] /\ Writing(x)
        BY <1>0, <1>4, <2>1 DEF FlyingInv
      <3>2. local[x].unit \in Units
        BY <3>1 DEF Writing
      <3> QED BY <1>1, <1>6, <1>12, <3>1, <3>2 DEF Writing
    <2>2. ASSUME NEW x \in Threads, Flying(x)', NEW v \in Units, NEW i \in DOMAIN unit'[v].acts
          PROVE  unit'[v].acts[i].order # local[x].act.order
      <3>1. PICK k \in DOMAIN unit[v].acts : unit'[v].acts[i] = unit[v].acts[k]
        BY <1>6
      <3>2. Flying(x)
        BY <1>4, <2>2
      <3> QED BY <1>0, <3>1, <3>2 DEF FlyingInv
    <2>3. ASSUME NEW x \in Threads, NEW y \in Threads, Flying(x)', Flying(y)',
                 local[x].act.order = local[y].act.order
          PROVE  x = y
      BY <1>0, <1>4, <2>3 DEF FlyingInv
    <2>4. ASSUME NEW x \in DOMAIN map, unit'[map[x]].acts = <<>>
          PROVE  \E y \in Threads : pc'[y] = "push" /\ local[y].unit = map[x]
      <3>1. map[x] # current /\ map[x] \in Units
        BY <1>0 DEF TypeOK, UnitsInv, InMap
      <3>2. unit[map[x]].acts = <<>>
        BY <1>6, <2>4, <3>1
      <3>3. PICK y \in Threads : pc[y] = "push" /\ local[y].unit = map[x]
        BY <1>0, <3>2 DEF FlyingInv
      <3>4. y # Owner
        BY <1>3, <3>3 DEF Flying
      <3> QED BY <1>3, <3>3, <3>4
    <2> QED BY <1>1, <2>1, <2>2, <2>3, <2>4 DEF FlyingInv
  <1>16. SortingInv'
    BY <1>5 DEF SortingInv
  <1> QED BY <1>8, <1>9, <1>10, <1>11, <1>13, <1>14, <1>15, <1>16 DEF BinInv

(* In a sync nobody is inserting or popping. *)
LEMMA SyncIsQuiet ==
  ASSUME Roles, InSync
  PROVE  /\ \A t \in Threads : ~Flying(t) /\ pc[t] # "pop"
         /\ unit[current].acts = <<>>
  BY DEF Roles, InSync, Flying, Inserters, Due

(* If there is anything in it, front() looks into a unit of the map that  *)
(* is not empty.                                                          *)
LEMMA Earliest ==
  ASSUME BinInv, InSync, depth > 0
  PROVE  /\ FrontUnit \in InMap /\ FrontUnit \in Units /\ FrontUnit # current
         /\ Len(unit[FrontUnit].acts) \in Nat /\ Len(unit[FrontUnit].acts) >= 1
  <1>0. /\ TypeOK /\ LocalTypes /\ Roles /\ UnitsInv /\ FlyingInv /\ DepthInv
    BY DEF BinInv
  <1>1. unit[current].acts = <<>> /\ \A t \in Threads : ~Flying(t)
    BY <1>0, SyncIsQuiet
  <1>2. Inside # {}
    <2> SUFFICES ASSUME Inside = {} PROVE FALSE
      OBVIOUS
    <2>1. Coming = {}
      BY <1>1 DEF Coming
    <2>2. Held = {}
      BY <2>1 DEF Held
    <2>3. depth = 0
      BY <1>0, <2>2, FS_EmptySet DEF DepthInv
    <2> QED BY <2>3
  <1>3. PICK u \in Units : In(u) # {}
    BY <1>2 DEF Inside
  <1>4. unit[u].acts # <<>>
    BY <1>3 DEF In
  <1>5. u \in InMap
    BY <1>0, <1>1, <1>4, MapTimes DEF UnitsInv
  <1>6. DOMAIN map # {}
    BY <1>5 DEF InMap
  <1>7. FirstOf(map) \in DOMAIN map
    BY <1>0, <1>6, FirstOfIs
  <1>8. FrontUnit = map[FirstOf(map)]
    BY <1>1 DEF FrontUnit
  <1>9. FrontUnit \in InMap /\ FrontUnit \in Units /\ FrontUnit # current
    <2>1. FrontUnit \in InMap
      BY <1>7, <1>8 DEF InMap
    <2> QED BY <1>0, <2>1, MapTimes DEF UnitsInv
  <1>10. unit[FrontUnit].acts # <<>>
    BY <1>0, <1>1, <1>7, <1>8 DEF FlyingInv, Flying
  <1>11. Len(unit[FrontUnit].acts) \in Nat /\ Len(unit[FrontUnit].acts) # 0
    <2>1. unit[FrontUnit].acts \in Seq(Acts) /\ Len(unit[FrontUnit].acts) \in Nat
      BY <1>0, <1>9, UnitTypes
    <2> QED BY <1>10, <2>1, EmptySeq
  <1> QED BY <1>9, <1>11

(* A reader finds the unit sorted, or begins to sort it. *)
LEMMA FrontCallKeeps ==
  ASSUME BinInv, NEW r \in Readers, FrontCall(r) PROVE BinInv'
  <1>0. /\ TypeOK /\ LocalTypes /\ Roles /\ UnitsInv /\ BinsInv /\ FlyingInv /\ SortingInv /\ DepthInv
    BY DEF BinInv
  <1>1. /\ InSync /\ r \notin asked /\ pc[r] = "idle" /\ depth > 0
        /\ UNCHANGED <<current, map, pool, insertOrder, depth, windowEnd, popped>>
    BY DEF FrontCall
  <1>2. PICK u : u = FrontUnit
    OBVIOUS
  <1>3. /\ u \in InMap /\ u \in Units /\ u # current
        /\ Len(unit[u].acts) \in Nat /\ Len(unit[u].acts) >= 1 /\ r \in Threads
    BY <1>0, <1>1, <1>2, Earliest, ThreadTypes
  <1>4. \A t \in Threads : ~Flying(t) /\ pc[t] # "pop"
    BY <1>0, <1>1, SyncIsQuiet
  <1>5. unit[current].acts = <<>>
    BY <1>0, <1>1, SyncIsQuiet
  <1>6. InMap' = InMap /\ InUse' = InUse
    BY <1>1 DEF InMap, InUse
  <1>7. \A x \in DOMAIN map : unit[map[x]].acts # <<>>
    BY <1>0, <1>4 DEF FlyingInv, Flying
  <1>8. current \in Units /\ \A x \in DOMAIN map : map[x] \in Units
    BY <1>0 DEF TypeOK
  <1>9. CASE unit[u].sorted \/ Len(unit[u].acts) = 1
    <2>1. /\ unit' = [unit EXCEPT ![u].sorted = TRUE] /\ asked' = asked \cup {r}
          /\ UNCHANGED <<pc, local>>
      BY <1>2, <1>9 DEF FrontCall
    <2>2. /\ unit' \in [Units -> [time : Times, acts : Seq(Acts), sorted : BOOLEAN]]
          /\ \A v \in Units : unit'[v].acts = unit[v].acts /\ unit'[v].time = unit[v].time
          /\ \A v \in Units \ {u} : unit'[v].sorted = unit[v].sorted
      <3>1. unit[u] \in [time : Times, acts : Seq(Acts), sorted : BOOLEAN]
        BY <1>0, <1>3 DEF TypeOK
      <3>2. unit \in [Units -> [time : Times, acts : Seq(Acts), sorted : BOOLEAN]]
        BY <1>0 DEF TypeOK
      <3>3. /\ [unit[u] EXCEPT !.sorted = TRUE] \in [time : Times, acts : Seq(Acts), sorted : BOOLEAN]
            /\ [unit[u] EXCEPT !.sorted = TRUE].acts = unit[u].acts
            /\ [unit[u] EXCEPT !.sorted = TRUE].time = unit[u].time
        BY <3>1
      <3>4. unit' = [unit EXCEPT ![u] = [unit[u] EXCEPT !.sorted = TRUE]]
        BY <2>1
      <3> QED BY <1>3, <3>2, <3>3, <3>4
    <2>3. /\ \A t \in Threads : ~Flying(t)'
          /\ \A t \in Threads : Reading(t)' <=> Reading(t)
      BY <1>4, <2>1 DEF Flying, Reading
    <2>4. TypeOK' /\ LocalTypes'
      BY <1>0, <1>1, <2>1, <2>2 DEF TypeOK, LocalTypes
    <2>5. Roles'
      <3>1. InSync'
        <4>1. unit'[current].acts = <<>>
          BY <1>5, <1>8, <2>2
        <4>2. ~Due'
          BY <1>1, <4>1 DEF InSync, Due
        <4> QED BY <1>1, <2>1, <4>2 DEF InSync
      <3>2. \A t \in Threads : Reading(t)' => t \in Readers \ asked'
        <4>1. ~Reading(r)
          BY <1>1 DEF Reading
        <4> QED BY <1>0, <2>1, <2>3, <4>1 DEF Roles
      <3>3. \A t \in Threads : pc'[t] # "pop"
        BY <1>4, <2>1
      <3> QED BY <2>3, <3>1, <3>2, <3>3 DEF Roles
    <2>6. UnitsInv'
      <3>1. \A v \in pool : v \in Units
        BY <1>0 DEF TypeOK
      <3> QED BY <1>0, <1>1, <1>6, <1>8, <2>2, <3>1 DEF UnitsInv
    <2>7. BinsInv'
      <3>1. ASSUME NEW v \in Units, NEW i \in DOMAIN unit'[v].acts
            PROVE  unit'[v].acts[i].time = unit'[v].time /\ unit'[v].acts[i].order <= insertOrder
        <4>1. i \in DOMAIN unit[v].acts /\ unit'[v].acts[i] = unit[v].acts[i]
          BY <2>2, <3>1
        <4> QED BY <1>0, <2>2, <4>1 DEF BinsInv
      <3>2. ASSUME NEW v \in Units, NEW w \in Units, NEW i \in DOMAIN unit'[v].acts,
                   NEW j \in DOMAIN unit'[w].acts, unit'[v].acts[i].order = unit'[w].acts[j].order
            PROVE  v = w /\ i = j
        <4>1. /\ i \in DOMAIN unit[v].acts /\ j \in DOMAIN unit[w].acts
              /\ unit[v].acts[i].order = unit[w].acts[j].order
          BY <2>2, <3>2
        <4> QED BY <1>0, <4>1 DEF BinsInv
      <3>3. ASSUME NEW v \in Units, unit'[v].sorted
            PROVE  Decreasing(unit'[v].acts, Len(unit'[v].acts))
        <4>1. unit'[v].acts = unit[v].acts
          BY <2>2
        <4>2. CASE v = u /\ Len(unit[u].acts) = 1
          <5>1. Decreasing(unit[u].acts, 1)
            BY DEF Decreasing
          <5> QED BY <4>1, <4>2, <5>1
        <4>3. CASE unit[v].sorted
          BY <1>0, <4>1, <4>3 DEF BinsInv
        <4> QED BY <1>9, <2>2, <3>3, <4>2, <4>3
      <3> QED BY <1>1, <3>1, <3>2, <3>3 DEF BinsInv, Decreasing
    <2>8. FlyingInv'
      <3>1. \A x \in DOMAIN map : unit'[map[x]].acts # <<>>
        BY <1>7, <1>8, <2>2
      <3> QED BY <1>1, <2>3, <3>1 DEF FlyingInv
    <2>9. SortingInv'
      <3> SUFFICES ASSUME NEW t \in Threads, Reading(t)' PROVE Sorting(t)'
        BY DEF SortingInv
      <3>1. Sorting(t)
        BY <1>0, <2>3 DEF SortingInv
      <3>2. local[t].unit \in Units
        BY <1>0, <3>1, MapTimes DEF Sorting
      <3>3. local[t].unit # u
        <4> SUFFICES ASSUME local[t].unit = u PROVE FALSE
          OBVIOUS
        <4>1. ~unit[u].sorted /\ local[t].i \in 2 .. Len(unit[u].acts)
          BY <3>1 DEF Sorting
        <4>2. Len(unit[u].acts) >= 2
          BY <1>3, <4>1
        <4> QED BY <1>9, <4>1, <4>2
      <3>4. unit'[local[t].unit].acts = unit[local[t].unit].acts /\ ~unit'[local[t].unit].sorted
        BY <2>2, <3>1, <3>2, <3>3 DEF Sorting
      <3> QED BY <1>6, <2>1, <3>1, <3>4 DEF Sorting, Decreasing
    <2>10. DepthInv'
      <3>1. Inside' = Inside
        <4>1. \A v \in Units : In(v)' = In(v)
          <5> TAKE v \in Units
          <5>1. unit'[v].acts = unit[v].acts
            BY <2>2
          <5> QED BY <5>1 DEF In
        <4> QED BY <4>1 DEF Inside
      <3>2. Coming' = Coming
        BY <1>4, <2>3 DEF Coming
      <3> QED BY <1>0, <1>1, <3>1, <3>2 DEF DepthInv, Held
    <2> QED BY <2>4, <2>5, <2>6, <2>7, <2>8, <2>9, <2>10 DEF BinInv
  <1>10. CASE ~(unit[u].sorted \/ Len(unit[u].acts) = 1)
    <2>1. /\ pc' = [pc EXCEPT ![r] = "read"] /\ local' = [local EXCEPT ![r].unit = u, ![r].i = 2]
          /\ UNCHANGED <<unit, asked>>
      BY <1>2, <1>10 DEF FrontCall
    <2>2. /\ pc'[r] = "read" /\ local'[r].unit = u /\ local'[r].i = 2
          /\ \A t \in Threads \ {r} : pc'[t] = pc[t] /\ local'[t] = local[t]
          /\ pc' \in [Threads -> PCs] /\ local' \in [Threads -> Locals]
      <3> DEFINE l == [local[r] EXCEPT !.unit = u, !.i = 2]
      <3>1. local[r] \in Locals
        BY <1>0, <1>3, ThreadTypes
      <3>2. l \in Locals /\ l.unit = u /\ l.i = 2
        BY <1>3, <3>1 DEF Locals
      <3>3. local' = [local EXCEPT ![r] = l]
        BY <1>0, <1>3, <2>1, ThreadTypes
      <3> HIDE DEF l
      <3>4. /\ local'[r] = l /\ \A t \in Threads \ {r} : local'[t] = local[t]
            /\ local' \in [Threads -> Locals]
        BY <1>0, <1>3, <3>2, <3>3, ThreadTypes
      <3>5. /\ pc'[r] = "read" /\ \A t \in Threads \ {r} : pc'[t] = pc[t]
            /\ pc' \in [Threads -> PCs]
        BY <1>0, <1>3, <2>1, ThreadTypes DEF PCs
      <3> QED BY <3>2, <3>4, <3>5
    <2>3. /\ \A t \in Threads : ~Flying(t)' /\ pc'[t] # "pop"
          /\ \A t \in Threads \ {r} : Reading(t)' <=> Reading(t)
      BY <1>4, <2>2 DEF Flying, Reading
    <2>4. TypeOK' /\ LocalTypes'
      BY <1>0, <1>1, <2>1, <2>2 DEF TypeOK, LocalTypes
    <2>5. Roles'
      <3>1. InSync'
        <4>1. ~Due'
          BY <1>1, <2>1 DEF InSync, Due
        <4>2. \A t \in Writers \cup {Owner} : pc'[t] \in {"idle", "read", "place"}
          <5>1. \A t \in Writers \cup {Owner} : t \in Threads
            BY DEF Threads
          <5> QED BY <1>1, <2>2, <5>1 DEF InSync
        <4> QED BY <4>1, <4>2 DEF InSync
      <3> QED BY <1>0, <1>1, <2>1, <2>3, <3>1 DEF Roles
    <2>6. UnitsInv' /\ BinsInv'
      BY <1>0, <1>1, <1>6, <2>1 DEF UnitsInv, BinsInv
    <2>7. FlyingInv'
      BY <1>1, <1>7, <2>1, <2>3 DEF FlyingInv
    <2>8. SortingInv'
      <3>1. Sorting(r)'
        <4>1. Decreasing(unit[u].acts, 2 - 1)
          BY DEF Decreasing
        <4>2. 2 \in 2 .. Len(unit[u].acts)
          <5>1. Len(unit[u].acts) # 1
            BY <1>10
          <5>2. PICK n : n = Len(unit[u].acts)
            OBVIOUS
          <5>3. n \in Nat /\ n >= 1 /\ n # 1
            BY <1>3, <5>1, <5>2
          <5>4. 2 \in 2 .. n
            BY <5>3
          <5> QED BY <5>2, <5>4
        <4>3. u \in InMap' /\ ~unit'[u].sorted /\ unit'[u].acts = unit[u].acts
          BY <1>3, <1>6, <1>10, <2>1
        <4>4. /\ local'[r].i \in 2 .. Len(unit'[u].acts)
              /\ Decreasing(unit'[u].acts, local'[r].i - 1)
          BY <2>2, <4>1, <4>2, <4>3
        <4> QED BY <2>2, <4>3, <4>4 DEF Sorting
      <3>2. ASSUME NEW t \in Threads \ {r}, Reading(t)' PROVE Sorting(t)'
        <4>1. Sorting(t) /\ local'[t] = local[t] /\ pc'[t] = pc[t]
          BY <1>0, <2>2, <2>3, <3>2 DEF SortingInv
        <4> QED BY <1>6, <2>1, <4>1 DEF Sorting
      <3> QED BY <3>1, <3>2 DEF SortingInv
    <2>9. DepthInv'
      <3>1. Inside' = Inside
        BY <2>1 DEF Inside, In
      <3>2. Coming' = Coming
        BY <1>4, <2>3 DEF Coming
      <3> QED BY <1>0, <1>1, <3>1, <3>2 DEF DepthInv, Held
    <2> QED BY <2>4, <2>5, <2>6, <2>7, <2>8, <2>9 DEF BinInv
  <1> QED BY <1>9, <1>10

(* The reader loads the next activity of the unit. *)
LEMMA SortReadKeeps ==
  ASSUME BinInv, NEW r \in Readers, SortRead(r) PROVE BinInv'
  <1>0. /\ TypeOK /\ LocalTypes /\ Roles /\ UnitsInv /\ BinsInv /\ FlyingInv /\ SortingInv /\ DepthInv
    BY DEF BinInv
  <1>1. PICK v : v = unit[local[r].unit].acts[local[r].i]
    OBVIOUS
  <1>2. /\ pc[r] = "read" /\ local' = [local EXCEPT ![r].val = v] /\ pc' = [pc EXCEPT ![r] = "place"]
        /\ UNCHANGED <<current, map, pool, unit, insertOrder, depth, windowEnd, asked, popped>>
    BY <1>1 DEF SortRead
  <1>3. r \in Threads /\ Reading(r) /\ Sorting(r)
    BY <1>0, <1>2, ThreadTypes DEF Reading, SortingInv
  <1>4. InSync
    BY <1>0, <1>3 DEF Roles
  <1>5. v \in Acts
    <2>1. local[r].unit \in Units /\ local[r].i \in 1 .. Len(unit[local[r].unit].acts)
      BY <1>0, <1>3, MapTimes, UnitTypes DEF Sorting
    <2> QED BY <1>0, <1>1, <2>1, UnitTypes
  <1>6. /\ pc'[r] = "place" /\ local'[r].unit = local[r].unit /\ local'[r].i = local[r].i
        /\ local'[r].val = v
        /\ \A t \in Threads \ {r} : pc'[t] = pc[t] /\ local'[t] = local[t]
        /\ pc' \in [Threads -> PCs] /\ local' \in [Threads -> Locals]
    <2> DEFINE l == [local[r] EXCEPT !.val = v]
    <2>1. local[r] \in Locals
      BY <1>0, <1>3, ThreadTypes
    <2>2. l \in Locals /\ l.unit = local[r].unit /\ l.i = local[r].i /\ l.val = v
      BY <1>5, <2>1 DEF Locals
    <2>3. local' = [local EXCEPT ![r] = l]
      BY <1>0, <1>2, <1>3, ThreadTypes
    <2> HIDE DEF l
    <2> QED BY <1>0, <1>2, <1>3, <2>2, <2>3, ThreadTypes DEF PCs
  <1>7. /\ \A t \in Threads : ~Flying(t) /\ ~Flying(t)' /\ pc'[t] # "pop"
        /\ \A t \in Threads : Reading(t)' <=> Reading(t)
    <2>1. \A t \in Threads : ~Flying(t) /\ pc[t] # "pop"
      BY <1>0, <1>4, SyncIsQuiet
    <2> QED BY <1>3, <1>6, <2>1 DEF Flying, Reading
  <1>8. TypeOK' /\ LocalTypes'
    BY <1>0, <1>2, <1>6 DEF TypeOK, LocalTypes
  <1>9. Roles'
    <2>1. InSync'
      <3>1. ~Due'
        BY <1>2, <1>4 DEF InSync, Due
      <3>2. \A t \in Writers \cup {Owner} : pc'[t] \in {"idle", "read", "place"}
        <4>1. \A t \in Writers \cup {Owner} : t \in Threads
          BY DEF Threads
        <4> QED BY <1>4, <1>6, <4>1 DEF InSync
      <3> QED BY <3>1, <3>2 DEF InSync
    <2> QED BY <1>0, <1>2, <1>7, <2>1 DEF Roles
  <1>10. UnitsInv' /\ BinsInv'
    BY <1>0, <1>2 DEF UnitsInv, BinsInv, InUse, InMap
  <1>11. FlyingInv'
    <2>1. \A x \in DOMAIN map : unit[map[x]].acts # <<>>
      BY <1>0, <1>7 DEF FlyingInv, Flying
    <2> QED BY <1>2, <1>7, <2>1 DEF FlyingInv
  <1>12. SortingInv'
    <2>1. InMap' = InMap
      BY <1>2 DEF InMap
    <2>2. Sorting(r)'
      BY <1>1, <1>2, <1>3, <1>6, <2>1 DEF Sorting
    <2>3. ASSUME NEW t \in Threads \ {r}, Reading(t)' PROVE Sorting(t)'
      <3>1. Sorting(t) /\ local'[t] = local[t] /\ pc'[t] = pc[t]
        BY <1>0, <1>6, <1>7, <2>3 DEF SortingInv
      <3> QED BY <1>2, <2>1, <3>1 DEF Sorting
    <2> QED BY <2>2, <2>3 DEF SortingInv
  <1>13. DepthInv'
    <2>1. Inside' = Inside /\ Coming' = Coming
      BY <1>2, <1>7 DEF Inside, In, Coming
    <2> QED BY <1>0, <1>2, <2>1 DEF DepthInv, Held
  <1> QED BY <1>8, <1>9, <1>10, <1>11, <1>12, <1>13 DEF BinInv

(* The only reader puts that activity where it belongs among those before  *)
(* it.                                                                     *)
LEMMA SortPlaceKeeps ==
  ASSUME BinInv, NEW r \in Readers, \A x, y \in Readers : x = y, SortPlace(r)
  PROVE  BinInv' /\ Inside' = Inside
  <1>0. /\ TypeOK /\ LocalTypes /\ Roles /\ UnitsInv /\ BinsInv /\ FlyingInv /\ SortingInv /\ DepthInv
    BY DEF BinInv
  <1>1. PICK u, i, s : u = local[r].unit /\ i = local[r].i /\ s = unit[u].acts
    OBVIOUS
  <1> DEFINE last == i = Len(s)
             q == Placed(s, i, s[i])
  <1>2. /\ pc[r] = "place"
        /\ unit' = [unit EXCEPT ![u].acts = Placed(s, i, local[r].val),
                                ![u].sorted = IF last THEN TRUE ELSE unit[u].sorted]
        /\ asked' = IF last THEN asked \cup {r} ELSE asked
        /\ pc' = [pc EXCEPT ![r] = IF last THEN "idle" ELSE "read"]
        /\ local' = [local EXCEPT ![r] = IF last THEN NoLocal ELSE [@ EXCEPT !.i = i + 1]]
        /\ UNCHANGED <<current, map, pool, insertOrder, depth, windowEnd, popped>>
    BY <1>1 DEF SortPlace
  <1>3. r \in Threads /\ Reading(r) /\ Sorting(r)
    BY <1>0, <1>2, ThreadTypes DEF Reading, SortingInv
  <1>4. InSync
    BY <1>0, <1>3 DEF Roles
  <1>5. /\ u \in InMap /\ u \in Units /\ u # current /\ ~unit[u].sorted
        /\ s \in Seq(Acts) /\ Len(s) \in Nat /\ DOMAIN s = 1 .. Len(s)
        /\ i \in 2 .. Len(s) /\ i \in 1 .. Len(s) /\ Decreasing(s, i - 1) /\ local[r].val = s[i]
    <2>1. u \in InMap /\ ~unit[u].sorted /\ i \in 2 .. Len(s) /\ Decreasing(s, i - 1) /\ local[r].val = s[i]
      BY <1>1, <1>2, <1>3 DEF Sorting
    <2>2. u \in Units /\ u # current
      BY <1>0, <2>1, MapTimes DEF UnitsInv
    <2>3. s \in Seq(Acts) /\ Len(s) \in Nat /\ DOMAIN s = 1 .. Len(s)
      BY <1>0, <1>1, <2>2, UnitTypes
    <2>4. i \in 1 .. Len(s)
      BY <2>1, <2>3
    <2> QED BY <2>1, <2>2, <2>3, <2>4
  <1>6. Permuted(q, s) /\ Decreasing(q, i)
    <2>1. Numbered(s)
      BY <1>0, <1>1, <1>5 DEF BinsInv, Numbered
    <2> HIDE DEF q
    <2> QED BY <1>5, <2>1, PlacedIs DEF q
  <1> HIDE DEF q
  <1>7. /\ q \in Seq(Acts) /\ Len(q) = Len(s) /\ DOMAIN q = 1 .. Len(s) /\ Numbered(q)
        /\ \A j \in DOMAIN q : \E k \in DOMAIN s : q[j] = s[k]
        /\ \A k \in DOMAIN s : \E j \in DOMAIN q : q[j] = s[k]
    BY <1>5, <1>6 DEF Permuted
  <1>8. /\ unit' \in [Units -> [time : Times, acts : Seq(Acts), sorted : BOOLEAN]]
        /\ unit'[u].acts = q /\ (unit'[u].sorted <=> last)
        /\ \A v \in Units \ {u} : unit'[v] = unit[v]
        /\ \A v \in Units : unit'[v].time = unit[v].time
    <2> DEFINE b == IF last THEN TRUE ELSE unit[u].sorted
    <2>1. b \in BOOLEAN /\ (b <=> last)
      BY <1>0, <1>5, UnitTypes
    <2>2. unit' = [unit EXCEPT ![u].acts = q, ![u].sorted = b]
      BY <1>2, <1>5 DEF q
    <2> HIDE DEF b, last
    <2> QED BY <1>0, <1>5, <1>7, <2>1, <2>2, UnitChange
  <1>9. /\ \A t \in Threads \ {r} : pc'[t] = pc[t] /\ local'[t] = local[t] /\ ~Reading(t)
        /\ pc' \in [Threads -> PCs] /\ local' \in [Threads -> Locals]
        /\ last => pc'[r] = "idle"
        /\ ~last => pc'[r] = "read" /\ local'[r].unit = u /\ local'[r].i = i + 1
    <2> DEFINE l == IF last THEN NoLocal ELSE [local[r] EXCEPT !.i = i + 1]
    <2>1. local[r] \in Locals /\ i + 1 \in Nat
      BY <1>0, <1>3, <1>5, ThreadTypes
    <2>2. [local[r] EXCEPT !.i = i + 1] \in Locals /\ [local[r] EXCEPT !.i = i + 1].unit = u
          /\ [local[r] EXCEPT !.i = i + 1].i = i + 1
      BY <1>1, <2>1 DEF Locals
    <2>3. l \in Locals /\ (~last => l.unit = u /\ l.i = i + 1)
      BY <2>2, NoLocalType
    <2>4. local' = [local EXCEPT ![r] = l]
      BY <1>2
    <2> HIDE DEF l, last
    <2>5. /\ \A t \in Threads \ {r} : local'[t] = local[t]
          /\ local' \in [Threads -> Locals] /\ local'[r] = l
      BY <1>0, <1>3, <2>3, <2>4, ThreadTypes
    <2>6. /\ \A t \in Threads \ {r} : pc'[t] = pc[t]
          /\ pc' \in [Threads -> PCs]
          /\ pc'[r] = IF last THEN "idle" ELSE "read"
      BY <1>0, <1>2, <1>3, ThreadTypes DEF PCs
    <2>7. \A t \in Threads \ {r} : ~Reading(t)
      BY <1>0 DEF Roles
    <2> QED BY <2>3, <2>5, <2>6, <2>7
  <1>10. /\ \A t \in Threads : ~Flying(t) /\ ~Flying(t)' /\ pc'[t] # "pop"
         /\ \A t \in Threads : Reading(t)' => t = r /\ ~last
    <2>1. \A t \in Threads : ~Flying(t) /\ pc[t] # "pop"
      BY <1>0, <1>4, SyncIsQuiet
    <2>2. pc'[r] \in {"idle", "read"}
      BY <1>9
    <2> QED BY <1>9, <2>1, <2>2 DEF Flying, Reading
  <1>11. InMap' = InMap /\ InUse' = InUse
    BY <1>2 DEF InMap, InUse
  <1>12. current \in Units /\ \A x \in DOMAIN map : map[x] \in Units
    BY <1>0 DEF TypeOK
  <1>13. TypeOK' /\ LocalTypes'
    <2>1. asked' \subseteq Readers
      BY <1>0, <1>2 DEF TypeOK
    <2> QED BY <1>0, <1>2, <1>8, <1>9, <2>1 DEF TypeOK, LocalTypes
  <1>14. Roles'
    <2>1. InSync'
      <3>1. unit'[current].acts = unit[current].acts
        BY <1>5, <1>8, <1>12
      <3>2. ~Due'
        BY <1>2, <1>4, <3>1 DEF InSync, Due
      <3>3. \A t \in Writers \cup {Owner} : pc'[t] \in {"idle", "read", "place"}
        <4>1. \A t \in Writers \cup {Owner} : t \in Threads
          BY DEF Threads
        <4> QED BY <1>4, <1>9, <4>1 DEF InSync
      <3> QED BY <3>2, <3>3 DEF InSync
    <2>2. \A t \in Threads : Reading(t)' => t \in Readers \ asked'
      BY <1>0, <1>2, <1>3, <1>10 DEF Roles
    <2> QED BY <1>10, <2>1, <2>2 DEF Roles
  <1>15. UnitsInv'
    <2>1. \A v \in pool : v \in Units \ {u}
      BY <1>0, <1>5, MapTimes DEF UnitsInv, TypeOK
    <2> QED BY <1>0, <1>2, <1>8, <1>11, <1>12, <2>1 DEF UnitsInv
  <1>16. \A v \in Units : \A j \in DOMAIN unit'[v].acts : \E k \in DOMAIN unit[v].acts :
           unit'[v].acts[j] = unit[v].acts[k]
    <2> TAKE v \in Units
    <2>1. CASE v = u
      <3>1. unit'[v].acts = q /\ unit[v].acts = s
        BY <1>1, <1>8, <2>1
      <3>2. \A j \in DOMAIN q : \E k \in DOMAIN s : q[j] = s[k]
        BY <1>7
      <3> QED BY <3>1, <3>2
    <2>2. CASE v # u
      <3>1. unit'[v] = unit[v]
        BY <1>8, <2>2
      <3> QED BY <3>1
    <2> QED BY <2>1, <2>2
  <1>17. BinsInv'
    <2>1. ASSUME NEW v \in Units, NEW j \in DOMAIN unit'[v].acts
          PROVE  unit'[v].acts[j].time = unit'[v].time /\ unit'[v].acts[j].order <= insertOrder
      <3>1. PICK k \in DOMAIN unit[v].acts : unit'[v].acts[j] = unit[v].acts[k]
        BY <1>16
      <3> QED BY <1>0, <1>8, <3>1 DEF BinsInv
    <2>2. ASSUME NEW v \in Units, NEW w \in Units, NEW j \in DOMAIN unit'[v].acts,
                 NEW m \in DOMAIN unit'[w].acts, unit'[v].acts[j].order = unit'[w].acts[m].order
          PROVE  v = w /\ j = m
      <3>1. PICK k \in DOMAIN unit[v].acts : unit'[v].acts[j] = unit[v].acts[k]
        BY <1>16
      <3>2. PICK l \in DOMAIN unit[w].acts : unit'[w].acts[m] = unit[w].acts[l]
        BY <1>16
      <3>3. v = w
        BY <1>0, <2>2, <3>1, <3>2 DEF BinsInv
      <3>4. CASE v = u
        <4>1. unit'[v].acts = q /\ unit'[w].acts = q
          BY <1>8, <3>3, <3>4
        <4>2. j \in DOMAIN q /\ m \in DOMAIN q /\ q[j].order = q[m].order
          BY <2>2, <4>1
        <4>3. Numbered(q)
          BY <1>7
        <4>4. j = m
          BY <4>2, <4>3 DEF Numbered
        <4> QED BY <3>3, <4>4
      <3>5. CASE v # u
        <4>1. unit'[v] = unit[v]
          BY <1>8, <3>5
        <4> QED BY <1>0, <2>2, <3>3, <4>1 DEF BinsInv
      <3> QED BY <3>3, <3>4, <3>5
    <2>3. ASSUME NEW v \in Units, unit'[v].sorted
          PROVE  Decreasing(unit'[v].acts, Len(unit'[v].acts))
      <3>1. CASE v = u
        <4>1. i = Len(q)
          BY <1>7, <1>8, <2>3, <3>1
        <4> QED BY <1>6, <1>8, <3>1, <4>1
      <3>2. CASE v # u
        <4>1. unit'[v] = unit[v]
          BY <1>8, <3>2
        <4> QED BY <1>0, <2>3, <4>1 DEF BinsInv
      <3> QED BY <3>1, <3>2
    <2>4. insertOrder' = insertOrder
      BY <1>2
    <2> QED BY <2>1, <2>2, <2>3, <2>4 DEF BinsInv, Decreasing
  <1>18. FlyingInv'
    <2>1. ASSUME NEW x \in DOMAIN map PROVE unit'[map[x]].acts # <<>>
      <3>1. unit[map[x]].acts # <<>>
        BY <1>0, <1>10 DEF FlyingInv, Flying
      <3>2. CASE map[x] = u
        <4>1. Len(q) # 0
          BY <1>5, <1>7
        <4> QED BY <1>8, <3>2, <4>1
      <3>3. CASE map[x] # u
        BY <1>8, <1>12, <3>1, <3>3
      <3> QED BY <3>2, <3>3
    <2> QED BY <1>2, <1>10, <2>1 DEF FlyingInv
  <1>19. SortingInv'
    <2> SUFFICES ASSUME NEW t \in Threads, Reading(t)' PROVE Sorting(t)'
      BY DEF SortingInv
    <2>1. t = r /\ ~last /\ pc'[r] = "read" /\ local'[r].unit = u /\ local'[r].i = i + 1
      BY <1>9, <1>10
    <2>2. PICK k : k = i + 1 /\ k \in 2 .. Len(q) /\ k - 1 = i
      <3>1. PICK n : n = Len(s)
        OBVIOUS
      <3>2. n \in Nat /\ i \in 2 .. n /\ Len(q) = n
        BY <1>5, <1>7, <3>1
      <3>3. i # n
        BY <2>1, <3>1
      <3>4. i + 1 \in 2 .. n /\ i + 1 - 1 = i
        BY <3>2, <3>3
      <3> QED BY <3>2, <3>4
    <2>4. u \in InMap' /\ ~unit'[u].sorted
      BY <1>5, <1>8, <1>11, <2>1
    <2> HIDE DEF last
    <2>5. unit'[u].acts = q
      BY <1>8
    <2>6. /\ local'[r].i \in 2 .. Len(unit'[u].acts)
          /\ Decreasing(unit'[u].acts, local'[r].i - 1)
      <3>2. local'[r].i = k
        BY <2>1, <2>2
      <3>4. Decreasing(q, k - 1)
        BY <1>6, <2>2
      <3> QED BY <2>2, <2>5, <3>2, <3>4
    <2>7. t = r /\ pc'[r] = "read" /\ local'[r].unit = u
      BY <2>1
    <2> QED BY <2>4, <2>6, <2>7 DEF Sorting
  <1>20. Inside' = Inside
    <2>1. \A v \in Units \ {u} : In(v)' = In(v)
      <3> TAKE v \in Units \ {u}
      <3>1. unit'[v].acts = unit[v].acts
        BY <1>8
      <3> QED BY <3>1 DEF In
    <2>2. In(u)' = In(u)
      <3>1. In(u)' = {q[j] : j \in DOMAIN q}
        BY <1>8 DEF In
      <3>2. In(u) = {s[k] : k \in DOMAIN s}
        BY <1>1 DEF In
      <3> QED BY <1>7, <3>1, <3>2
    <2>3. \A v \in Units : In(v)' = In(v)
      BY <2>1, <2>2
    <2> QED BY <2>3 DEF Inside
  <1>21. DepthInv'
    <2>1. Coming' = Coming
      BY <1>10 DEF Coming
    <2> QED BY <1>0, <1>2, <1>20, <2>1 DEF DepthInv, Held
  <1> QED BY <1>13, <1>14, <1>15, <1>17, <1>18, <1>19, <1>20, <1>21 DEF BinInv

(* The next window begins. *)
LEMMA MeetKeeps ==
  ASSUME BinInv, Meet PROVE BinInv'
  <1>0. /\ TypeOK /\ LocalTypes /\ Roles /\ UnitsInv /\ BinsInv /\ FlyingInv /\ SortingInv /\ DepthInv
    BY DEF BinInv
  <1>1. /\ InSync /\ asked = Readers /\ windowEnd' = windowEnd + Window /\ asked' = {}
        /\ UNCHANGED <<current, map, pool, unit, insertOrder, depth, pc, local, popped>>
    BY DEF Meet
  <1>2. windowEnd \in Nat /\ Window \in Nat
    BY <1>0, BinnedAssumption DEF TypeOK
  <1>3. /\ \A t \in Threads : ~Flying(t) /\ pc[t] # "pop" /\ ~Reading(t)
        /\ \A t \in Threads : ~Flying(t)' /\ pc'[t] # "pop" /\ ~Reading(t)'
    <2>1. \A t \in Threads : ~Flying(t) /\ pc[t] # "pop" /\ ~Reading(t)
      BY <1>0, <1>1, SyncIsQuiet DEF Roles
    <2> QED BY <1>1, <2>1 DEF Flying, Reading
  <1>4. TypeOK' /\ LocalTypes'
    <2>1. windowEnd' \in Nat
      BY <1>1, <1>2
    <2> QED BY <1>0, <1>1, <2>1 DEF TypeOK, LocalTypes
  <1>5. Roles'
    BY <1>1, <1>3 DEF Roles
  <1>6. UnitsInv'
    <2>1. \A u \in Units : unit[u].time < windowEnd => unit[u].time < windowEnd + Window
      BY <1>0, <1>2, UnitTypes
    <2>2. current \in Units /\ \A u \in pool : u \in Units
      BY <1>0 DEF TypeOK
    <2> QED BY <1>0, <1>1, <2>1, <2>2 DEF UnitsInv, InUse, InMap
  <1>7. BinsInv'
    BY <1>0, <1>1 DEF BinsInv
  <1>8. FlyingInv'
    <2>1. \A x \in DOMAIN map : unit[map[x]].acts # <<>>
      BY <1>0, <1>3 DEF FlyingInv, Flying
    <2> QED BY <1>1, <1>3, <2>1 DEF FlyingInv
  <1>9. SortingInv'
    BY <1>3 DEF SortingInv
  <1>10. DepthInv'
    <2>1. Inside' = Inside /\ Coming' = Coming
      BY <1>1, <1>3 DEF Inside, In, Coming
    <2> QED BY <1>0, <1>1, <2>1 DEF DepthInv, Held
  <1> QED BY <1>4, <1>5, <1>6, <1>7, <1>8, <1>9, <1>10 DEF BinInv

----------------------------------------------------------------------------
(* A step that moves no activity leaves what is inside as it is. *)
LEMMA InsideKept ==
  ASSUME \A u \in Units : unit'[u].acts = unit[u].acts PROVE Inside' = Inside
  <1>1. \A u \in Units : In(u)' = In(u)
    <2> TAKE u \in Units
    <2>1. unit'[u].acts = unit[u].acts
      OBVIOUS
    <2> QED BY <2>1 DEF In
  <1> QED BY <1>1 DEF Inside

(* What one step does to the bins: it puts one activity in that was not    *)
(* there, or takes the first one out, or does neither.                     *)
BagStep ==
  \/ \E a \in Acts : a \notin Inside /\ Inside' = Inside \cup {a} /\ popped' = popped
  \/ /\ popped' \in Inside /\ Inside' = Inside \ {popped'} /\ popped' \in Acts
     /\ \A b \in Inside \ {popped'} : Less(popped', b)
  \/ Inside' = Inside /\ popped' = popped

(* The steps of an insertion: only the last one puts something in. *)
LEMMA InsertSteps ==
  ASSUME BinInv, ~Rereads, NEW t \in {Owner} \cup Writers,
         InsertCall(t) \/ Look(t) \/ Find(t) \/ Push(t)
  PROVE  BinInv' /\ BagStep
  <1>0. t \in Inserters
    BY DEF Inserters
  <1>1. CASE InsertCall(t)
    <2>1. BinInv'
      BY <1>0, <1>1, InsertCallKeeps
    <2>2. unit' = unit /\ popped' = popped
      BY <1>1 DEF InsertCall
    <2> QED BY <2>1, <2>2, InsideKept DEF BagStep
  <1>2. CASE Look(t)
    <2>1. BinInv'
      BY <1>0, <1>2, LookKeeps
    <2>2. unit' = unit /\ popped' = popped
      BY <1>2 DEF Look
    <2> QED BY <2>1, <2>2, InsideKept DEF BagStep
  <1>3. CASE Find(t)
    <2>1. BinInv'
      BY <1>0, <1>3, FindNewKeeps, FindOldKeeps
    <2>2. popped' = popped
      BY <1>3 DEF Find
    <2>3. \A u \in Units : unit'[u].acts = unit[u].acts
      <3>1. CASE unit' = unit
        BY <3>1
      <3>2. ASSUME NEW v \in pool, NEW x, unit' = [unit EXCEPT ![v].time = x]
            PROVE  \A u \in Units : unit'[u].acts = unit[u].acts
        <4> TAKE u \in Units
        <4>1. unit \in [Units -> [time : Times, acts : Seq(Acts), sorted : BOOLEAN]]
          BY DEF BinInv, TypeOK
        <4>2. unit'[u] = IF u = v THEN [unit[u] EXCEPT !.time = x] ELSE unit[u]
          BY <3>2, <4>1
        <4>3. unit[u] \in [time : Times, acts : Seq(Acts), sorted : BOOLEAN]
          BY <4>1
        <4>4. [unit[u] EXCEPT !.time = x].acts = unit[u].acts
          BY <4>3
        <4> QED BY <4>2, <4>4
      <3>3. unit' = unit \/ \E v \in pool : unit' = [unit EXCEPT ![v].time = local[t].act.time]
        BY <1>3 DEF Find
      <3> QED BY <3>1, <3>2, <3>3
    <2>4. Inside' = Inside
      BY <2>3, InsideKept
    <2> QED BY <2>1, <2>2, <2>4 DEF BagStep
  <1>4. CASE Push(t)
    <2>1. /\ BinInv' /\ Inside' = Inside \cup {local[t].act} /\ local[t].act \notin Inside
          /\ local[t].act \in Acts /\ popped' = popped
      BY <1>0, <1>4, PushKeeps
    <2> QED BY <2>1 DEF BagStep
  <1> QED BY <1>1, <1>2, <1>3, <1>4

(* The steps of the owner. *)
LEMMA PopSteps ==
  ASSUME BinInv, PopCurrent \/ NextUnit
  PROVE  BinInv' /\ BagStep
  <1>1. CASE PopCurrent
    <2>1. BinInv'
      BY <1>1, PopCurrentKeeps
    <2>2. TypeOK /\ LocalTypes /\ BinsInv /\ UnitsInv
      BY DEF BinInv
    <2>3. PICK T : PopFrom(T)
      BY <1>1, <2>2, PopIs
    <2>4. /\ popped' \in Inside /\ Inside' = Inside \ {popped'}
          /\ \A b \in Inside \ {popped'} : Less(popped', b)
      BY <2>2, <2>3, PopTakesFirst
    <2>5. popped' \in Acts
      <3>1. popped' \in Held
        BY <2>4 DEF Held
      <3> QED BY <3>1, HeldOrder
    <2> QED BY <2>1, <2>4, <2>5 DEF BagStep
  <1>2. CASE NextUnit
    <2>1. BinInv'
      BY <1>2, NextUnitKeeps
    <2>2. unit' = unit /\ popped' = popped
      BY <1>2 DEF NextUnit
    <2> QED BY <2>1, <2>2, InsideKept DEF BagStep
  <1> QED BY <1>1, <1>2

(* The steps of a sync. *)
LEMMA SyncSteps ==
  ASSUME BinInv, \A x, y \in Readers : x = y,
         Meet \/ \E r \in Readers : FrontCall(r) \/ SortRead(r) \/ SortPlace(r)
  PROVE  BinInv' /\ BagStep
  <1>1. ASSUME NEW r \in Readers, FrontCall(r) PROVE BinInv' /\ BagStep
    <2>1. BinInv'
      BY <1>1, FrontCallKeeps
    <2>2. popped' = popped
      BY <1>1 DEF FrontCall
    <2>3. \A u \in Units : unit'[u].acts = unit[u].acts
      <3>1. unit' = unit \/ unit' = [unit EXCEPT ![FrontUnit].sorted = TRUE]
        BY <1>1 DEF FrontCall
      <3>2. unit \in [Units -> [time : Times, acts : Seq(Acts), sorted : BOOLEAN]]
        BY DEF BinInv, TypeOK
      <3>3. ASSUME NEW v, unit' = [unit EXCEPT ![v].sorted = TRUE]
            PROVE  \A u \in Units : unit'[u].acts = unit[u].acts
        <4> TAKE u \in Units
        <4>1. unit'[u] = IF u = v THEN [unit[u] EXCEPT !.sorted = TRUE] ELSE unit[u]
          BY <3>2, <3>3
        <4>2. unit[u] \in [time : Times, acts : Seq(Acts), sorted : BOOLEAN]
          BY <3>2
        <4>3. [unit[u] EXCEPT !.sorted = TRUE].acts = unit[u].acts
          BY <4>2
        <4> QED BY <4>1, <4>3
      <3> QED BY <3>1, <3>3
    <2>4. Inside' = Inside
      BY <2>3, InsideKept
    <2> QED BY <2>1, <2>2, <2>4 DEF BagStep
  <1>2. ASSUME NEW r \in Readers, SortRead(r) PROVE BinInv' /\ BagStep
    <2>1. BinInv'
      BY <1>2, SortReadKeeps
    <2>2. unit' = unit /\ popped' = popped
      BY <1>2 DEF SortRead
    <2> QED BY <2>1, <2>2, InsideKept DEF BagStep
  <1>3. ASSUME NEW r \in Readers, SortPlace(r) PROVE BinInv' /\ BagStep
    <2>1. BinInv' /\ Inside' = Inside
      BY <1>3, SortPlaceKeeps
    <2>2. popped' = popped
      BY <1>3 DEF SortPlace
    <2> QED BY <2>1, <2>2 DEF BagStep
  <1>4. CASE Meet
    <2>1. BinInv'
      BY <1>4, MeetKeeps
    <2>2. unit' = unit /\ popped' = popped
      BY <1>4 DEF Meet
    <2> QED BY <2>1, <2>2, InsideKept DEF BagStep
  <1> QED BY <1>1, <1>2, <1>3, <1>4

(* A step that changes nothing. *)
LEMMA StutterKeeps ==
  ASSUME BinInv, UNCHANGED vars PROVE BinInv' /\ BagStep
  <1>1. /\ UNCHANGED <<current, map, pool, unit, insertOrder, depth, pc, local>>
        /\ UNCHANGED <<windowEnd, asked, popped>>
    BY DEF vars
  <1>2. /\ \A t \in Threads : Flying(t)' = Flying(t) /\ Reading(t)' = Reading(t)
        /\ InMap' = InMap /\ InUse' = InUse
    BY <1>1 DEF Flying, Reading, InMap, InUse
  <1>3. TypeOK' /\ LocalTypes'
    BY <1>1 DEF BinInv, TypeOK, LocalTypes
  <1>4. InSync' = InSync
    BY <1>1 DEF InSync, Due
  <1>5. Roles'
    BY <1>1, <1>2, <1>4 DEF BinInv, Roles
  <1>6. UnitsInv'
    BY <1>1, <1>2 DEF BinInv, UnitsInv
  <1>7. BinsInv'
    BY <1>1 DEF BinInv, BinsInv
  <1>8. FlyingInv'
    <2>1. \A t \in Threads : Writing(t) => Writing(t)'
      BY <1>1, <1>2 DEF Writing
    <2> QED BY <1>1, <1>2, <2>1 DEF BinInv, FlyingInv
  <1>9. SortingInv'
    <2>1. \A t \in Threads : Sorting(t) => Sorting(t)'
      BY <1>1, <1>2 DEF Sorting
    <2> QED BY <1>2, <2>1 DEF BinInv, SortingInv
  <1>10. Inside' = Inside
    BY <1>1, InsideKept
  <1>11. DepthInv'
    <2>1. Coming' = Coming
      BY <1>1, <1>2 DEF Coming
    <2> QED BY <1>1, <1>10, <2>1 DEF BinInv, DepthInv, Held
  <1> QED BY <1>1, <1>3, <1>5, <1>6, <1>7, <1>8, <1>9, <1>10, <1>11 DEF BinInv, BagStep

(* All together. *)
LEMMA StepKeeps ==
  ASSUME BinInv, [Next]_vars, ~Rereads, \A x, y \in Readers : x = y
  PROVE  BinInv' /\ BagStep
  <1>1. CASE \E t \in {Owner} \cup Writers : InsertCall(t) \/ Look(t) \/ Find(t) \/ Push(t)
    BY <1>1, InsertSteps
  <1>2. CASE PopCurrent \/ NextUnit
    BY <1>2, PopSteps
  <1>3. CASE Meet \/ \E r \in Readers : FrontCall(r) \/ SortRead(r) \/ SortPlace(r)
    BY <1>3, SyncSteps
  <1>4. CASE UNCHANGED vars
    BY <1>4, StutterKeeps
  <1> QED BY <1>1, <1>2, <1>3, <1>4 DEF Next

(* The invariant: every step keeps it. *)
LEMMA BinInvariant ==
  ASSUME ~Rereads, \A x, y \in Readers : x = y PROVE Spec => []BinInv
  <1>1. BinInv /\ [Next]_vars => BinInv'
    BY StepKeeps
  <1> QED BY <1>1, InitKeeps, PTL DEF Spec

(* Units are either in use or handed back, there is one for each delivery  *)
(* time, and another thread never inserts into the unit the owner works on *)
(* without a lock (timeVortexBinnedMap.cc:90-95), nor into one that has    *)
(* been handed back: if current_time_unit is loaded once, and one thread   *)
(* at a time looks for the earliest activity.                              *)
THEOREM UnitsCorrect ==
  ASSUME ~Rereads, \A x, y \in Readers : x = y PROVE Spec => []UnitInv
  <1>1. ASSUME BinInv PROVE UnitInv
    <2>0. TypeOK /\ LocalTypes /\ UnitsInv /\ FlyingInv
      BY <1>1 DEF BinInv
    <2>1. InMap = {map[t] : t \in DOMAIN map}
      BY DEF InMap
    <2>2. ASSUME NEW w \in Writers, pc[w] = "push"
          PROVE  local[w].unit \in InUse \ {current} /\ unit[local[w].unit].time = local[w].act.time
      <3>1. w \in Threads /\ Flying(w)
        BY <2>0, <2>2, ThreadTypes DEF Flying
      <3>2. Writing(w)
        BY <2>0, <3>1 DEF FlyingInv
      <3>3. /\ local[w].unit \in InUse /\ unit[local[w].unit].time = local[w].act.time
            /\ windowEnd <= local[w].act.time
        BY <2>2, <3>2 DEF Writing
      <3>4. unit[current].time < windowEnd /\ unit[current].time \in Nat /\ windowEnd \in Nat
        <4>1. current \in Units /\ windowEnd \in Nat
          BY <2>0 DEF TypeOK
        <4> QED BY <2>0, <4>1, UnitTypes DEF UnitsInv
      <3>5. local[w].unit # current
        <4> SUFFICES ASSUME local[w].unit = current PROVE FALSE
          OBVIOUS
        <4>1. windowEnd <= unit[current].time
          BY <3>3
        <4> QED BY <3>4, <4>1
      <3> QED BY <3>3, <3>5
    <2> QED BY <2>0, <2>1, <2>2 DEF UnitInv, UnitsApart, UnitsInv
  <1> QED BY <1>1, BinInvariant, PTL

(* Each step of the bins is a step of the ordered bag, or nothing to it:   *)
(* what other threads insert while the owner pops comes out once, and      *)
(* always the least first (timeVortexBinnedMap.cc:90-95, :136).            *)
THEOREM QueueCorrect ==
  ASSUME ~Rereads, \A x, y \in Readers : x = y PROVE Spec => QueueRefined
  <1>1. Init => Bag!Init
    <2> SUFFICES ASSUME Init PROVE Contents \subseteq Acts
      BY DEF Bag!Init
    <2>1. BinInv
      BY InitKeeps
    <2>2. Contents = Inside
      BY <2>1, ContentsInside DEF BinInv
    <2>3. \A a \in Inside : a \in Acts
      BY <2>1, HeldOrder DEF Held
    <2> QED BY <2>2, <2>3
  <1>2. BinInv /\ [Next]_vars => [Bag!Next]_<<Contents, popped>>
    <2> SUFFICES ASSUME BinInv, [Next]_vars PROVE [Bag!Next]_<<Contents, popped>>
      OBVIOUS
    <2>1. BinInv' /\ BagStep
      BY StepKeeps
    <2>2. Contents = Inside
      BY ContentsInside DEF BinInv
    <2>3. Contents' = Inside'
      <3>1. TypeOK' /\ UnitsInv'
        BY <2>1 DEF BinInv
      <3>2. (TypeOK /\ UnitsInv => Contents = Inside)'
        BY ContentsInside, PTL
      <3> QED BY <3>1, <3>2
    <2>4. CASE \E a \in Acts : a \notin Inside /\ Inside' = Inside \cup {a} /\ popped' = popped
      BY <2>2, <2>3, <2>4 DEF Bag!Next, Bag!Insert
    <2>5. CASE /\ popped' \in Inside /\ Inside' = Inside \ {popped'} /\ popped' \in Acts
               /\ \A b \in Inside \ {popped'} : Less(popped', b)
      BY <2>2, <2>3, <2>5 DEF Bag!Next, Bag!Take
    <2>6. CASE Inside' = Inside /\ popped' = popped
      BY <2>2, <2>3, <2>6
    <2> QED BY <2>1, <2>4, <2>5, <2>6 DEF BagStep
  <1> QED BY <1>1, <1>2, BinInvariant, PTL DEF Spec, QueueRefined, Bag!Spec
=============================================================================
