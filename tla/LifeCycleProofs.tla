--------------------------- MODULE LifeCycleProofs ---------------------------
(***************************************************************************)
(* For any number of ranks, threads, components, links, keys and values:   *)
(*  - a shared map of which a rank is told that everything is published is *)
(*    complete in every replica, unless nobody wants values to be verified;*)
(*  - all threads of all ranks go through the rounds of init() and         *)
(*    complete() together;                                                 *)
(*  - what is sent in a round is read in the next, in the order in which   *)
(*    it was sent, and nothing is left when the rounds are over, unless    *)
(*    --stop-at cuts the run off.                                          *)
(*                                                                         *)
(* The first is about SharedInv.  The others are about LifeInv, in two     *)
(* parts.  Control says where the threads are: those of a rank in the same *)
(* stretch between two barriers, thread 0 of all ranks in the same stretch *)
(* between two collectives, and what the counts of messages then are.  On  *)
(* top of it, InChannel says where the data of one channel is.             *)
(***************************************************************************)
EXTENDS LifeCycle, FiniteSetTheorems, SequenceTheorems, WellFoundedInduction, TLAPS

(* A set of natural numbers that is not empty has a least one. *)
LEMMA LeastOf ==
  ASSUME NEW S \in SUBSET Nat, S # {}
  PROVE  \E t \in S : \A u \in S : t <= u
  <1> DEFINE R == OpToRel(<, Nat)
  <1>1. \E t \in S : \A u \in S : <<u, t>> \notin R
    <2>1. IsWellFoundedOn(R, Nat)
      BY NatLessThanWellFounded
    <2> HIDE DEF R
    <2> QED BY <2>1, WFMin
  <1>2. \A t, u \in Nat : <<u, t>> \notin R => t <= u
    BY DEF OpToRel
  <1> HIDE DEF R
  <1> QED BY <1>1, <1>2

(* The sum over the ranks, step by step. *)
Added(f, S) ==
  IF S = {} THEN 0
  ELSE LET r == CHOOSE s \in S : TRUE IN msgCount[r] + f[S \ {r}]
UpTo(n) == {S \in SUBSET Ranks : Cardinality(S) <= n}
Sums(f, n) == f \in [UpTo(n) -> Nat] /\ \A S \in UpTo(n) : f[S] = Added(f, S)

(* A set without one of its elements is smaller. *)
LEMMA SmallerSets ==
  ASSUME NEW S \in SUBSET Ranks, S # {}
  PROVE  LET r == CHOOSE s \in S : TRUE
         IN  /\ r \in S /\ S \ {r} \in SUBSET Ranks
             /\ IsFiniteSet(S) /\ Cardinality(S) \in Nat
             /\ Cardinality(S \ {r}) \in Nat /\ Cardinality(S) = Cardinality(S \ {r}) + 1
  <1>1. IsFiniteSet(Ranks)
    BY FS_Interval, BaseAssumption DEF Ranks
  <1>2. IsFiniteSet(S) /\ Cardinality(S) \in Nat
    BY <1>1, FS_Subset, FS_CardinalityType
  <1> DEFINE r == CHOOSE s \in S : TRUE
  <1>3. r \in S
    OBVIOUS
  <1> HIDE DEF r
  <1>4. /\ IsFiniteSet(S \ {r}) /\ Cardinality(S \ {r}) = Cardinality(S) - 1
        /\ Cardinality(S \ {r}) \in Nat
    BY <1>2, <1>3, FS_RemoveElement, FS_CardinalityType
  <1>5. Cardinality(S) = Cardinality(S \ {r}) + 1
    BY <1>2, <1>4
  <1> QED BY <1>2, <1>3, <1>4, <1>5 DEF r

(* There is a function that adds up the counts of the small sets of ranks. *)
LEMMA SumsExist ==
  ASSUME msgCount \in [Ranks -> Nat], NEW n \in Nat
  PROVE  \E f : Sums(f, n)
  <1> DEFINE Bad == {m \in Nat : ~\E f : Sums(f, m)}
  <1> SUFFICES ASSUME Bad # {} PROVE FALSE
    OBVIOUS
  <1>1. PICK m \in Bad : \A k \in Bad : m <= k
    BY LeastOf
  <1>2. m \in Nat /\ ~\E f : Sums(f, m)
    BY <1>1
  <1>3. m # 0
    <2> SUFFICES ASSUME m = 0 PROVE FALSE
      OBVIOUS
    <2> DEFINE f == [S \in UpTo(0) |-> 0]
    <2>1. ASSUME NEW S \in UpTo(0) PROVE S = {}
      <3> SUFFICES ASSUME S # {} PROVE FALSE
        OBVIOUS
      <3>1. S \in SUBSET Ranks /\ Cardinality(S) <= 0
        BY DEF UpTo
      <3>2. PICK k \in Nat : Cardinality(S) = k + 1
        BY <3>1, SmallerSets
      <3> QED BY <3>1, <3>2
    <2>2. \A S \in UpTo(0) : f[S] = Added(f, S)
      BY <2>1 DEF Added
    <2>3. Sums(f, 0)
      BY <2>2 DEF Sums
    <2> QED BY <2>3, <1>2
  <1>4. m - 1 \in Nat /\ m - 1 \notin Bad
    BY <1>1, <1>2, <1>3
  <1>5. PICK f : Sums(f, m - 1)
    BY <1>4
  <1> DEFINE g == [S \in UpTo(m) |-> Added(f, S)]
  <1>6. ASSUME NEW S \in UpTo(m), S # {}
        PROVE  LET r == CHOOSE s \in S : TRUE
               IN  /\ msgCount[r] \in Nat /\ S \ {r} \in UpTo(m - 1) /\ S \ {r} \in UpTo(m)
                   /\ f[S \ {r}] \in Nat
    <2> DEFINE r == CHOOSE s \in S : TRUE
    <2>1. S \in SUBSET Ranks /\ Cardinality(S) <= m
      BY DEF UpTo
    <2>2. /\ r \in S /\ S \ {r} \in SUBSET Ranks
          /\ Cardinality(S \ {r}) \in Nat /\ Cardinality(S) = Cardinality(S \ {r}) + 1
      BY <1>6, <2>1, SmallerSets
    <2> HIDE DEF r
    <2>3. Cardinality(S \ {r}) <= m - 1 /\ Cardinality(S \ {r}) <= m
      BY <1>2, <2>1, <2>2
    <2>4. S \ {r} \in UpTo(m - 1) /\ S \ {r} \in UpTo(m)
      BY <2>2, <2>3 DEF UpTo
    <2>5. msgCount[r] \in Nat
      BY <2>1, <2>2
    <2>6. f[S \ {r}] \in Nat
      BY <1>5, <2>4 DEF Sums
    <2> QED BY <2>4, <2>5, <2>6 DEF r
  <1>7. \A S \in UpTo(m) : Added(f, S) \in Nat
    BY <1>6 DEF Added
  <1>8. ASSUME NEW S \in UpTo(m - 1) PROVE S \in UpTo(m) /\ g[S] = f[S]
    <2>1. S \in UpTo(m)
      <3>1. S \in SUBSET Ranks /\ Cardinality(S) <= m - 1
        BY DEF UpTo
      <3>2. Cardinality(S) \in Nat
        <4>1. CASE S = {}
          BY <4>1, FS_EmptySet
        <4> QED BY <3>1, <4>1, SmallerSets
      <3> QED BY <1>2, <3>1, <3>2 DEF UpTo
    <2> QED BY <1>5, <2>1 DEF Sums
  <1>9. ASSUME NEW S \in UpTo(m) PROVE g[S] = Added(g, S)
    <2>1. CASE S = {}
      BY <2>1 DEF Added
    <2>2. CASE S # {}
      <3> DEFINE r == CHOOSE s \in S : TRUE
      <3>1. S \ {r} \in UpTo(m - 1)
        BY <1>6, <2>2
      <3>2. g[S \ {r}] = f[S \ {r}]
        BY <1>8, <3>1
      <3>3. Added(f, S) = msgCount[r] + f[S \ {r}] /\ Added(g, S) = msgCount[r] + g[S \ {r}]
        BY <2>2 DEF Added
      <3> QED BY <3>2, <3>3
    <2> QED BY <2>1, <2>2
  <1> HIDE DEF g
  <1>10. g \in [UpTo(m) -> Nat]
    BY <1>7 DEF g
  <1>11. Sums(g, m)
    BY <1>9, <1>10 DEF Sums
  <1> QED BY <1>2, <1>11

(* No rank has counted anything if the sum is 0, and only then. *)
LEMMA SumOfCounts ==
  ASSUME msgCount \in [Ranks -> Nat]
  PROVE  CountOf(Ranks) \in Nat /\ (CountOf(Ranks) = 0 <=> \A r \in Ranks : msgCount[r] = 0)
  <1> DEFINE Eq(f) == f = [S \in SUBSET Ranks |-> Added(f, S)]
             sum == CHOOSE f : Eq(f)
             N == Cardinality(Ranks)
  <1>1. IsFiniteSet(Ranks) /\ N \in Nat
    BY FS_Interval, FS_CardinalityType, BaseAssumption DEF Ranks
  <1>2. UpTo(N) = SUBSET Ranks
    <2>1. \A S \in SUBSET Ranks : Cardinality(S) <= N
      BY <1>1, FS_Subset
    <2> HIDE DEF N
    <2> QED BY <2>1 DEF UpTo
  <1>3. PICK h : Sums(h, N)
    BY <1>1, SumsExist
  <1>4. Eq(h)
    <2> HIDE DEF N
    <2>1. h \in [SUBSET Ranks -> Nat] /\ \A S \in SUBSET Ranks : h[S] = Added(h, S)
      BY <1>2, <1>3 DEF Sums
    <2> QED BY <2>1
  <1>5. Eq(sum)
    <2> HIDE DEF Eq
    <2> QED BY <1>4
  <1>6. CountOf(Ranks) = sum[Ranks]
    BY DEF CountOf, Added
  <1>7. \A S \in SUBSET Ranks : sum[S] = Added(sum, S)
    <2> HIDE DEF sum
    <2> QED BY <1>5
  <1> HIDE DEF sum
  <1> DEFINE Good(S) == sum[S] \in Nat /\ (sum[S] = 0 <=> \A r \in S : msgCount[r] = 0)
             Bad == {m \in Nat : \E S \in SUBSET Ranks : Cardinality(S) = m /\ ~Good(S)}
  <1>8. Bad = {}
    <2> SUFFICES ASSUME Bad # {} PROVE FALSE
      OBVIOUS
    <2>1. PICK m \in Bad : \A k \in Bad : m <= k
      BY LeastOf
    <2>2. PICK S \in SUBSET Ranks : Cardinality(S) = m /\ ~Good(S)
      BY <2>1
    <2>3. S # {}
      <3>1. sum[{}] = 0
        BY <1>7 DEF Added
      <3> QED BY <2>2, <3>1
    <2> DEFINE r == CHOOSE s \in S : TRUE
    <2>4. /\ r \in S /\ S \ {r} \in SUBSET Ranks
          /\ Cardinality(S \ {r}) \in Nat /\ m = Cardinality(S \ {r}) + 1
      BY <2>2, <2>3, SmallerSets
    <2>5. sum[S] = msgCount[r] + sum[S \ {r}]
      BY <1>7, <2>3 DEF Added
    <2> HIDE DEF r
    <2>6. Good(S \ {r})
      <3>1. Cardinality(S \ {r}) \notin Bad
        <4>1. m \in Nat
          BY <2>1
        <4> HIDE DEF Bad
        <4> QED BY <2>1, <2>4, <4>1
      <3> HIDE DEF Good
      <3> QED BY <2>4, <3>1
    <2>7. msgCount[r] \in Nat
      BY <2>4
    <2>8. /\ sum[S \ {r}] \in Nat
          /\ sum[S \ {r}] = 0 <=> \A s \in S \ {r} : msgCount[s] = 0
      BY <2>6
    <2>9. (\A s \in S : msgCount[s] = 0) <=> msgCount[r] = 0 /\ \A s \in S \ {r} : msgCount[s] = 0
      BY <2>4
    <2>10. Good(S)
      BY <2>5, <2>7, <2>8, <2>9
    <2> QED BY <2>2, <2>10
  <1>9. Good(Ranks)
    <2> HIDE DEF Good
    <2> QED BY <1>1, <1>8
  <1> QED BY <1>6, <1>9

----------------------------------------------------------------------------
(* The shared objects.                                                     *)

(* What was written is in all replicas, or in that of its rank and in the  *)
(* changes that go to the others.                                          *)
Settled(w) == \A r \in Ranks : replica[r][w.key] = w.value
Pending(w) ==
  /\ replica[Home[w.by][1]][w.key] = w.value
  /\ changes[Home[w.by][1]][w.key] = w.value

Told == \E r \in Ranks : fullyPublished[r]

(* From when a rank is told, the instances that were counted write no more *)
(* and nothing of theirs is on its way.                                    *)
SharedInv ==
  /\ SharedTypeOK
  /\ ~failed => \A w \in written : Settled(w) \/ Pending(w)
  /\ Told => counted \subseteq published \/ \A r \in Ranks : locked[r]
  /\ Told /\ ~failed => \A w \in written : w.by \in counted => Settled(w)

(* A sharer writes on a rank. *)
LEMMA SharerRank ==
  ASSUME NEW c \in Sharers PROVE Home[c][1] \in Ranks
  BY BaseAssumption, SharedAssumption DEF RankInfo

(* The least number of a set is in it. *)
LEMMA MinTimeIn ==
  ASSUME NEW S \in SUBSET Ranks, S # {} PROVE MinTime(S) \in S
  <1>1. S \in SUBSET Nat
    BY BaseAssumption DEF Ranks
  <1>2. \E t \in S : \A u \in S : t <= u
    BY <1>1, LeastOf
  <1> QED BY <1>2 DEF MinTime

(* The change of another rank that is applied first. *)
LEMMA FirstChangeIs ==
  ASSUME SharedTypeOK, NEW r \in Ranks, NEW k \in Keys
  PROVE  /\ FirstChange(r, k) \in Values \cup {Unset}
         /\ FirstChange(r, k) # Unset => FirstChange(r, k) \in Candidates(r, k)
         /\ \A s \in Ranks \ {r} : changes[s][k] # Unset => FirstChange(r, k) # Unset
  <1> DEFINE from == {s \in Ranks \ {r} : changes[s][k] # Unset}
  <1>1. CASE from = {}
    BY <1>1 DEF FirstChange
  <1>2. CASE from # {}
    <2>1. MinTime(from) \in from
      BY <1>2, MinTimeIn
    <2>2. FirstChange(r, k) = changes[MinTime(from)][k]
      BY <1>2 DEF FirstChange
    <2>3. changes[MinTime(from)][k] \in Values \cup {Unset}
      BY <2>1 DEF SharedTypeOK, Contents
    <2> QED BY <2>1, <2>2, <2>3 DEF Candidates
  <1> QED BY <1>1, <1>2

(* A write keeps the types of the shared objects. *)
LEMMA WriteTypes ==
  ASSUME SharedTypeOK, NEW c, NEW k \in Keys, NEW v \in Values, Write(c, k, v)
  PROVE  SharedTypeOK'
  <1> DEFINE h == Home[c][1]
  <1>1. c \in Sharers /\ h \in Ranks
    BY SharerRank DEF Write, SharedTypeOK
  <1> HIDE DEF h
  <1>2. /\ replica' = [replica EXCEPT ![h][k] = Kept(replica[h], k, v)]
        /\ failed' = Clash(replica[h], k, v)
        /\ changes' = [changes EXCEPT ![h][k] = v]
        /\ written' = written \cup {[by |-> c, key |-> k, value |-> v]}
        /\ UNCHANGED <<sharing, published, fullyPublished, locked, counted>>
    BY DEF Write, h
  <1>3. Kept(replica[h], k, v) \in Values \cup {Unset}
    BY <1>1 DEF SharedTypeOK, Kept, Contents
  <1>4. replica' \in [Ranks -> Contents]
    BY <1>1, <1>2, <1>3 DEF SharedTypeOK, Contents
  <1>5. changes' \in [Ranks -> Contents]
    BY <1>1, <1>2 DEF SharedTypeOK, Contents
  <1>6. written' \subseteq [by : Sharers, key : Keys, value : Values]
    BY <1>1, <1>2 DEF SharedTypeOK
  <1>7. failed' \in BOOLEAN
    BY <1>2 DEF Clash
  <1> QED BY <1>2, <1>4, <1>5, <1>6, <1>7 DEF SharedTypeOK

(* So do initialize() and publish(), ... *)
LEMMA CountTypes ==
  ASSUME SharedTypeOK, NEW c, Initialize(c) \/ Publish(c) PROVE SharedTypeOK'
  BY DEF SharedTypeOK, Initialize, Publish

(* ... and updateState. *)
LEMMA UpdateTypes ==
  ASSUME SharedTypeOK, NEW f \in BOOLEAN, UpdateState(f) PROVE SharedTypeOK'
  <1>1. \A r \in Ranks : Applied(r) \in Contents
    BY FirstChangeIs DEF Applied, SharedTypeOK, Contents
  <1>2. Empty \in Contents
    BY DEF Empty, Contents
  <1>3. \A r \in Ranks : locked[r] \in BOOLEAN
    BY DEF SharedTypeOK
  <1> QED BY <1>1, <1>2, <1>3 DEF UpdateState, SharedTypeOK

(* Initially nothing is written. *)
LEMMA SharedInvInit == SharedInit => SharedInv
  <1> SUFFICES ASSUME SharedInit PROVE SharedInv
    OBVIOUS
  <1>1. Empty \in Contents
    BY DEF Empty, Contents
  <1>2. SharedTypeOK
    BY <1>1, SharedAssumption DEF SharedInit, SharedTypeOK
  <1>3. ~Told
    BY DEF SharedInit, Told
  <1> QED BY <1>2, <1>3 DEF SharedInv, SharedInit

(* A write: the value that is there already is the same, or it would clash. *)
LEMMA SharedInvWrite ==
  ASSUME Verify, SharedInv, ~failed,
         NEW c, NEW k \in Keys, NEW v \in Values, Write(c, k, v)
  PROVE  SharedInv'
  <1> DEFINE h == Home[c][1]
  <1>1. /\ c \in Sharers /\ c \notin published /\ ~locked[h] /\ h \in Ranks
    BY SharerRank DEF Write, SharedInv, SharedTypeOK
  <1> HIDE DEF h
  <1>2. /\ replica' = [replica EXCEPT ![h][k] = Kept(replica[h], k, v)]
        /\ failed' = Clash(replica[h], k, v)
        /\ changes' = [changes EXCEPT ![h][k] = v]
        /\ written' = written \cup {[by |-> c, key |-> k, value |-> v]}
        /\ UNCHANGED <<sharing, published, fullyPublished, locked, counted>>
    BY DEF Write, h
  <1>3. SharedTypeOK
    BY DEF SharedInv
  <1>4. v # Unset /\ Kept(replica[h], k, v) \in Values \cup {Unset}
    BY <1>1, <1>3, SharedAssumption DEF SharedTypeOK, Kept, Contents
  <1>5. SharedTypeOK'
    BY <1>3, WriteTypes
  <1>6. Told' <=> Told
    BY <1>2 DEF Told
  <1>7. Told => counted \subseteq published /\ c \notin counted
    BY <1>1 DEF SharedInv
  <1>8. ASSUME ~failed', NEW w \in written'
        PROVE  /\ Settled(w)' \/ Pending(w)'
               /\ Told /\ w.by \in counted => Settled(w)'
    <2>1. replica[h][k] \in {Unset, v}
      BY <1>2, <1>8 DEF Clash
    <2>2. replica' = [replica EXCEPT ![h][k] = v]
      BY <1>2, <2>1, <1>4 DEF Kept
    <2>3. CASE w = [by |-> c, key |-> k, value |-> v]
      <3>1. replica'[h][k] = v /\ changes'[h][k] = v
        BY <1>1, <1>2, <1>3, <2>2 DEF SharedTypeOK, Contents
      <3> QED BY <1>7, <2>3, <3>1 DEF Pending, h
    <2>4. CASE w \in written
      <3>1. w.by \in Sharers /\ w.key \in Keys /\ w.value \in Values
        BY <1>3, <2>4 DEF SharedTypeOK
      <3>2. ASSUME NEW r \in Ranks, replica[r][w.key] = w.value
            PROVE  replica'[r][w.key] = w.value
        BY <1>1, <1>3, <1>4, <2>1, <2>2, <3>1, <3>2, SharedAssumption DEF SharedTypeOK, Contents
      <3>3. /\ Settled(w) \/ Pending(w)
            /\ Told /\ w.by \in counted => Settled(w)
        BY <2>4 DEF SharedInv
      <3>4. ASSUME Pending(w) PROVE Pending(w)'
        <4> DEFINE g == Home[w.by][1]
        <4>1. g \in Ranks
          BY <3>1, SharerRank
        <4>2. replica[g][w.key] = w.value /\ changes[g][w.key] = w.value
          BY <3>4 DEF Pending
        <4> HIDE DEF g
        <4>3. replica'[g][w.key] = w.value
          BY <3>2, <4>1, <4>2
        <4>4. changes'[g][w.key] = w.value
          <5>1. CASE g = h /\ w.key = k
            <6>1. w.value = v
              BY <2>1, <3>1, <4>2, <5>1, SharedAssumption
            <6> QED BY <1>1, <1>2, <1>3, <5>1, <6>1 DEF SharedTypeOK, Contents
          <5>2. CASE ~(g = h /\ w.key = k)
            BY <1>1, <1>2, <1>3, <3>1, <4>1, <4>2, <5>2 DEF SharedTypeOK, Contents
          <5> QED BY <5>1, <5>2
        <4> QED BY <4>3, <4>4 DEF Pending, g
      <3>5. Settled(w) => Settled(w)'
        BY <3>2 DEF Settled
      <3> QED BY <3>3, <3>4, <3>5
    <2> QED BY <1>2, <2>3, <2>4
  <1> QED BY <1>2, <1>5, <1>6, <1>7, <1>8 DEF SharedInv

(* An instance that is initialized or publishes writes nothing. *)
LEMMA SharedInvCount ==
  ASSUME SharedInv, NEW c, Initialize(c) \/ Publish(c) PROVE SharedInv'
  <1>1. /\ published \subseteq published'
        /\ UNCHANGED <<replica, changes, fullyPublished, locked, failed, counted, written>>
    BY DEF Initialize, Publish
  <1>2. SharedTypeOK'
    BY CountTypes DEF SharedInv
  <1>3. \A w : (Settled(w)' <=> Settled(w)) /\ (Pending(w)' <=> Pending(w))
    BY <1>1 DEF Settled, Pending
  <1>4. Told' <=> Told
    BY <1>1 DEF Told
  <1> QED BY <1>1, <1>2, <1>3, <1>4 DEF SharedInv

(* updateState: what was on its way is everywhere, unless two values met. *)
LEMMA SharedInvUpdate ==
  ASSUME Verify, SharedInv, ~failed, NEW f \in BOOLEAN, UpdateState(f)
  PROVE  SharedInv'
  <1>1. SharedTypeOK
    BY DEF SharedInv
  <1>2. /\ replica' = [r \in Ranks |-> Applied(r)]
        /\ failed' = \E r \in Ranks, k \in Keys :
                       \E v, w \in Candidates(r, k) : v # w
        /\ changes' = [r \in Ranks |-> Empty]
        /\ fullyPublished' = [r \in Ranks |-> f \/ (sharing # {} /\ published = sharing)]
        /\ locked' = [r \in Ranks |-> f \/ locked[r]]
        /\ counted' = sharing
        /\ UNCHANGED <<sharing, published, written>>
    BY DEF UpdateState
  <1>3. ASSUME NEW r \in Ranks, NEW k \in Keys
        PROVE  /\ FirstChange(r, k) # Unset => FirstChange(r, k) \in Candidates(r, k)
               /\ \A s \in Ranks \ {r} : changes[s][k] # Unset => FirstChange(r, k) # Unset
    BY <1>1, FirstChangeIs
  <1>4. SharedTypeOK'
    BY <1>1, UpdateTypes
  <1>5. ASSUME ~failed', NEW w \in written PROVE Settled(w)'
    <2>1. w.by \in Sharers /\ w.key \in Keys /\ w.value \in Values
      BY <1>1 DEF SharedTypeOK
    <2>2. ASSUME NEW r \in Ranks PROVE Applied(r)[w.key] = w.value
      <3>1. \A x, y \in Candidates(r, w.key) : x = y
        BY <1>2, <1>5, <2>1
      <3>2. Applied(r)[w.key] = IF replica[r][w.key] # Unset THEN replica[r][w.key]
                                ELSE FirstChange(r, w.key)
        BY <2>1 DEF Applied
      <3>3. w.value # Unset
        BY <2>1, SharedAssumption
      <3>4. CASE replica[r][w.key] = w.value
        BY <3>2, <3>3, <3>4
      <3>5. CASE replica[r][w.key] # w.value
        <4>1. Pending(w) /\ r # Home[w.by][1] /\ Home[w.by][1] \in Ranks
          BY <2>1, <3>5, SharerRank DEF SharedInv, Settled, Pending
        <4>2. w.value \in Candidates(r, w.key) /\ FirstChange(r, w.key) # Unset
          BY <1>3, <2>1, <3>3, <4>1 DEF Pending, Candidates
        <4>3. replica[r][w.key] # Unset => replica[r][w.key] \in Candidates(r, w.key)
          BY DEF Candidates
        <4>4. FirstChange(r, w.key) \in Candidates(r, w.key)
          BY <1>3, <2>1, <4>2
        <4> QED BY <3>1, <3>2, <4>2, <4>3, <4>4
      <3> QED BY <3>4, <3>5
    <2> QED BY <1>2, <2>2 DEF Settled
  <1>6. Told' => counted' \subseteq published' \/ \A r \in Ranks : locked'[r]
    BY <1>2 DEF Told
  <1> QED BY <1>2, <1>4, <1>5, <1>6 DEF SharedInv

(* The other steps leave the shared objects alone, and a run that has      *)
(* failed is over.                                                         *)
LEMMA SharedInvNext ==
  ASSUME Verify, SharedInv, [Next]_vars PROVE SharedInv'
  <1>1. CASE UNCHANGED sharedVars
    BY <1>1 DEF sharedVars, SharedInv, SharedTypeOK, Told, Settled, Pending
  <1>2. CASE UNCHANGED vars
    BY <1>1, <1>2 DEF vars
  <1>3. ASSUME ~failed, NEW r \in Ranks, Barrier(r) \/ Reset(r) PROVE SharedInv'
    BY <1>1, <1>3 DEF Barrier, Reset
  <1>4. ASSUME ~failed, NEW x \in RankInfo, Share(x) PROVE SharedInv'
    BY <1>4, SharedInvWrite, SharedInvCount DEF Share
  <1>5. ASSUME ~failed, NEW x \in RankInfo,
               Call(x) \/ Process(x) \/ Decide(x) \/ Finalize(x) \/ Setup(x) \/ Run(x) \/ Prepare(x)
        PROVE  SharedInv'
    BY <1>1, <1>5 DEF Call, Process, Decide, Finalize, Setup, Run, Prepare
  <1>6. ASSUME ~failed, ExchangeRanks PROVE SharedInv'
    BY <1>1, <1>6 DEF ExchangeRanks
  <1>7. ASSUME ~failed, Update PROVE SharedInv'
    <2>1. UpdateState(\A r \in Ranks : pc[Master(r)] = "lock")
      BY <1>7 DEF Update
    <2> QED BY <1>7, <2>1, SharedInvUpdate
  <1>8. CASE Ended
    BY <1>2, <1>8 DEF Ended
  <1> QED BY <1>2, <1>3, <1>4, <1>5, <1>6, <1>7, <1>8 DEF Next, Step

(* Every step keeps the types of the shared objects. *)
LEMMA SharedTypesNext ==
  ASSUME SharedTypeOK, [Next]_vars PROVE SharedTypeOK'
  <1>1. CASE UNCHANGED sharedVars
    BY <1>1 DEF sharedVars, SharedTypeOK
  <1>2. CASE UNCHANGED vars
    BY <1>1, <1>2 DEF vars
  <1>3. ASSUME NEW r \in Ranks, Barrier(r) \/ Reset(r) PROVE SharedTypeOK'
    BY <1>1, <1>3 DEF Barrier, Reset
  <1>4. ASSUME NEW x \in RankInfo, Share(x) PROVE SharedTypeOK'
    BY <1>4, WriteTypes, CountTypes DEF Share
  <1>5. ASSUME NEW x \in RankInfo,
               Call(x) \/ Process(x) \/ Decide(x) \/ Finalize(x) \/ Setup(x) \/ Run(x) \/ Prepare(x)
        PROVE  SharedTypeOK'
    BY <1>1, <1>5 DEF Call, Process, Decide, Finalize, Setup, Run, Prepare
  <1>6. CASE ExchangeRanks
    BY <1>1, <1>6 DEF ExchangeRanks
  <1>7. CASE Update
    <2>1. UpdateState(\A r \in Ranks : pc[Master(r)] = "lock")
      BY <1>7 DEF Update
    <2> QED BY <2>1, UpdateTypes
  <1>8. CASE Ended
    BY <1>2, <1>8 DEF Ended
  <1> QED BY <1>2, <1>3, <1>4, <1>5, <1>6, <1>7, <1>8 DEF Next, Step

(* A rank that is told that everything is published has everything of the  *)
(* instances that were counted, with any number of ranks, sharers, keys    *)
(* and values, and instances that come late, if values are verified        *)
(* (sharedObject.cc:85, sharedMap.h:264).                                  *)
THEOREM ReplicaComplete == Verify => (Spec => []PublishedComplete)
  <1> SUFFICES ASSUME Verify PROVE Spec => []PublishedComplete
    OBVIOUS
  <1>1. Init => SharedInv
    BY SharedInvInit DEF Init
  <1>2. SharedInv /\ [Next]_vars => SharedInv'
    BY SharedInvNext
  <1>3. SharedInv => PublishedComplete
    BY DEF SharedInv, PublishedComplete, Told, Settled
  <1> QED BY <1>1, <1>2, <1>3, PTL DEF Spec

----------------------------------------------------------------------------
(* Where the threads are.                                                  *)

(* The threads of a rank are in the same stretch between two barriers. *)
Meet(a, b) ==
  \/ a = b
  \/ a \in {"update0", "top"} /\ b \in {"update0", "top"}
  \/ a \in {"reset", "start"} /\ b \in {"reset", "start"}
  \/ a \in {"call", "called"} /\ b \in {"call", "called"}
  \/ a \in {"process", "processed"} /\ b \in {"process", "processed"}
  \/ a \in {"ranks", "exchanged"} /\ b \in {"ranks", "exchanged"}
  \/ a \in {"decide", "update", "top"} /\ b \in {"decide", "update", "top"}
  \/ a \in {"decide", "update", "finalize", "setup0"} /\ b \in {"decide", "update", "finalize", "setup0"}
  \/ a \in {"decide", "ended"} /\ b \in {"decide", "ended"}
  \/ a \in {"lock", "setup1"} /\ b \in {"lock", "setup1"}
  \/ a \in {"setup", "setup2"} /\ b \in {"setup", "setup2"}
  \/ a \in {"run", "complete0"} /\ b \in {"run", "complete0"}
  \/ a \in {"prepare", "top"} /\ b \in {"prepare", "top"}

InitOnly ==
  {"init0", "update0", "update", "finalize", "setup0", "lock", "setup1", "setup", "setup2", "run"}
CompleteOnly == {"complete0", "prepare", "ended", "end"}
MasterOnly == {"update0", "reset", "ranks", "update", "lock"}
Turns == {"complete0", "prepare"}

(* The rounds that x has been through. *)
Level(x) == IF pc[x] \in Turns THEN 0 ELSE IF pc[x] = "decide" THEN phase[x] + 1 ELSE phase[x]

RankInv ==
  /\ \A x \in RankInfo : /\ pc[x] \in InitOnly => stage[x] = "init"
                         /\ pc[x] \in CompleteOnly => stage[x] = "complete"
                         /\ pc[x] \in MasterOnly => x[2] = 0
  /\ \A x, y \in RankInfo : x[1] = y[1] =>
       /\ Meet(pc[x], pc[y])
       /\ (pc[x] = "run" <=> pc[y] = "run") => stage[x] = stage[y]
       /\ stage[x] = stage[y] => Level(x) = Level(y)

CalledInv ==
  \A x \in RankInfo : IF pc[x] = "call" THEN OnThread(x) \ called # {}
                      ELSE OnThread(x) \cap called = {}

(* What the counts say *)
Sending == {"call", "called", "process", "processed", "ranks"}
Exchanged(x) == pc[x] \in {"exchanged", "decide"} /\ pc[Master(x[1])] # "ranks"
CountInv ==
  /\ \A x \in RankInfo : /\ pc[x] = "start" /\ x[2] = 0 => msgCount[x[1]] = 0
                         /\ pc[x] \in {"finalize", "setup0", "ended", "end"} => msgCount[x[1]] = 0
  /\ \A x, y \in RankInfo :
       x[1] = y[1] /\ pc[x] \in {"decide", "update"} /\ pc[y] = "top" => msgCount[x[1]] # 0

(* The first threads of all ranks are in the same stretch between two *)
(* collectives.                                                       *)
Round == {"top", "reset", "start", "call", "called", "process", "processed", "ranks"}
Middle(x) ==
  \/ pc[x] \in {"setup1", "setup", "setup2", "run", "complete0", "prepare"}
  \/ stage[x] = "complete" /\ pc[x] \in Round /\ phase[x] = 0
Eras == 1 .. 6
AtEra(x, n) ==
  \/ n = 1 /\ pc[x] \in {"init0", "update0"}
  \/ n = 2 /\ stage[x] = "init" /\ pc[x] \in Round
  \/ n = 3 /\ stage[x] = "init" /\ pc[x] \in {"exchanged", "decide", "update"}
  \/ n = 4 /\ stage[x] = "init" /\ pc[x] \in {"finalize", "setup0", "lock"}
  \/ n = 5 /\ Middle(x)
  \/ n = 6 /\ stage[x] = "complete"
     /\ pc[x] \in Round \cup {"exchanged", "decide", "ended", "end"}
Era(x, y) == \E n \in Eras : AtEra(x, n) /\ AtEra(y, n)

Passed(x) == IF pc[x] = "exchanged" THEN phase[x] + 1 ELSE Level(x)
Post(x) == pc[x] \in {"exchanged", "decide", "update", "ended", "end"}

RanksInv ==
  \A x, y \in Masters :
    /\ Era(x, y)
    /\ stage[x] = stage[y] => Passed(x) = Passed(y)
    /\ Post(x) /\ msgCount[x[1]] = 0 => Post(y) /\ msgCount[y[1]] = 0

(* Every round but the last has a message. *)
SentInv ==
  \A x \in RankInfo :
    /\ phase[x] <= sent + 1
    /\ pc[x] \in {"init0", "update0", "exchanged", "decide"} \cup Round => phase[x] <= sent
    /\ pc[x] \in Sending \cup {"exchanged", "decide"} /\ msgCount[x[1]] # 0 => phase[x] < sent
    /\ pc[x] = "update" /\ msgCount[x[1]] # 0 => phase[x] <= sent

(* Channels *)
SendingNow(x) == pc[x] \in Sending \/ (pc[x] = "exchanged" /\ pc[Master(x[1])] = "ranks")
OnWay(ch) ==
  LET x == Home[ch[1]]  y == Home[ch[2]]
  IN  /\ SendingNow(x) /\ msgCount[x[1]] # 0
      /\ SameRank(ch) => pc[y] \in {"call", "called", "process"}
TransitAt(ch) ==
  /\ transit[ch] # <<>> => ~IsLocal(ch) /\ OnWay(ch)
  /\ \A i \in DOMAIN transit[ch] : transit[ch][i].time = phase[Home[ch[1]]] + 1

(* The data of this round is there. *)
Here(ch) ==
  LET y == Home[ch[2]]
  IN  \/ IsLocal(ch)
      \/ SameRank(ch) /\ pc[y] \in {"processed", "ranks", "exchanged", "decide"}
      \/ Exchanged(y)
Fresh(ch) == IF Here(ch) THEN {phase[Home[ch[2]]] + 1} ELSE {}
Waiting(ch) ==
  LET y == Home[ch[2]]
  IN  IF pc[y] \in {"init0", "update0", "update", "top", "reset", "start"} THEN {phase[y]}
      ELSE IF pc[y] = "call" /\ ch[2] \notin called THEN {phase[y]} \cup Fresh(ch)
      ELSE IF pc[y] \in Sending \cup {"exchanged", "decide"} THEN Fresh(ch)
      ELSE {}
Fits(ch, t) ==
  LET y == Home[ch[2]]
  IN  /\ t \in Waiting(ch)
      /\ pc[y] \in Sending \cup {"exchanged", "decide"} /\ t = phase[y] + 1 => msgCount[y[1]] # 0
      /\ pc[y] = "update" => msgCount[y[1]] # 0
InboxAt(ch) == \A i \in DOMAIN inbox[ch] : Fits(ch, inbox[ch][i].time)
InOrder(q) ==
  /\ \A i \in DOMAIN q : q[i].nth <= sent
  /\ \A i, j \in DOMAIN q : i < j => q[i].nth < q[j].nth /\ q[i].time <= q[j].time
InChannel(ch) == TransitAt(ch) /\ InboxAt(ch) /\ InOrder(transit[ch]) /\ InOrder(inbox[ch])
ChannelInv == ~stopped => \A ch \in Channels : InChannel(ch)

AllPCs ==
  {"init0", "update0", "top", "reset", "start", "call", "called", "process", "processed",
   "ranks", "exchanged", "decide", "update", "finalize", "setup0", "lock", "setup1", "setup",
   "setup2", "run", "complete0", "prepare", "ended", "end"}

ControlTypes ==
  /\ pc \in [RankInfo -> AllPCs] /\ stage \in [RankInfo -> {"init", "complete"}]
  /\ phase \in [RankInfo -> Nat]
  /\ called \subseteq Comps
  /\ mode \in [RankInfo -> {"INIT", "RUN", "COMPLETE"}]
  /\ msgCount \in [Ranks -> Nat]
  /\ sent \in 0 .. MaxSends /\ stopped \in BOOLEAN

Control ==
  ControlTypes /\ RankInv /\ CalledInv /\ CountInv /\ RanksInv /\ SentInv

(* The names of all places. *)
LEMMA PCNames == PCs = AllPCs
  BY DEF PCs, After, AllPCs

(* Thread 0 of a rank, and the threads of a rank. *)
LEMMA Layout ==
  /\ \A r \in Ranks : Master(r) \in RankInfo /\ Master(r)[1] = r /\ Master(r)[2] = 0
  /\ \A x \in RankInfo : /\ x[1] \in Ranks /\ Master(x[1]) \in Masters
                         /\ x[2] = 0 <=> x = Master(x[1])
                         /\ x = Master(x[1]) <=> x \in Masters
  /\ Masters \subseteq RankInfo
  /\ \A r \in Ranks : \A x \in ThreadsOf(r) : x \in RankInfo /\ x[1] = r
  /\ \A x \in RankInfo : x \in ThreadsOf(x[1])
  <1>1. NumRanks \in Nat \ {0} /\ NumThreads \in Nat \ {0}
    BY BaseAssumption
  <1>2. 0 \in TIds
    BY <1>1 DEF TIds
  <1> QED BY <1>2 DEF RankInfo, Master, Masters, ThreadsOf

(* Initially all threads are at the first barrier. *)
LEMMA ControlInit == Init => Control
  <1> SUFFICES ASSUME Init PROVE Control
    OBVIOUS
  <1>1. ControlTypes
    BY LifeAssumption DEF Init, ControlTypes, AllPCs
  <1>2. RankInv
    BY DEF Init, RankInv, Meet, InitOnly, CompleteOnly, MasterOnly, Level, Turns
  <1>3. CalledInv
    BY DEF Init, CalledInv
  <1>4. CountInv
    BY DEF Init, CountInv
  <1>5. RanksInv
    <2>1. \A x \in Masters : AtEra(x, 1)
      BY Layout DEF Init, AtEra
    <2>2. \A x, y \in Masters : Era(x, y)
      BY <2>1 DEF Era, Eras
    <2> QED BY <2>2, Layout DEF Init, RanksInv, Passed, Post, Level, Turns
  <1>6. SentInv
    BY DEF Init, SentInv, Round, Sending
  <1> QED BY <1>1, <1>2, <1>3, <1>4, <1>5, <1>6 DEF Control

(* A thread goes on by itself. *)
LEMMA RankInvStep ==
  ASSUME ControlTypes, RankInv, NEW x \in RankInfo, NEW l \in AllPCs, pc' = [pc EXCEPT ![x] = l],
         \A y \in RankInfo \ {x} : stage'[y] = stage[y] /\ phase'[y] = phase[y],
         l \in InitOnly => stage'[x] = "init", l \in CompleteOnly => stage'[x] = "complete",
         l \in MasterOnly => x[2] = 0,
         \A y \in RankInfo \ {x} : x[1] = y[1] =>
           /\ Meet(l, pc[y])
           /\ (l = "run" <=> pc[y] = "run") => stage'[x] = stage[y]
           /\ stage'[x] = stage[y] => Level(x)' = Level(y)
  PROVE  RankInv'
  <1>1. pc'[x] = l /\ \A y \in RankInfo \ {x} : pc'[y] = pc[y]
    BY DEF ControlTypes
  <1>2. \A y \in RankInfo \ {x} : Level(y)' = Level(y)
    BY <1>1 DEF Level
  <1>3. \A y \in RankInfo : /\ pc'[y] \in InitOnly => stage'[y] = "init"
                            /\ pc'[y] \in CompleteOnly => stage'[y] = "complete"
                            /\ pc'[y] \in MasterOnly => y[2] = 0
    BY <1>1 DEF RankInv
  <1>4. \A a, b : Meet(a, a) /\ (Meet(a, b) => Meet(b, a))
    BY DEF Meet
  <1>5. ASSUME NEW y \in RankInfo, NEW z \in RankInfo, y[1] = z[1]
        PROVE  /\ Meet(pc'[y], pc'[z])
               /\ (pc'[y] = "run" <=> pc'[z] = "run") => stage'[y] = stage'[z]
               /\ stage'[y] = stage'[z] => Level(y)' = Level(z)'
    <2>1. CASE y = z
      BY <1>4, <2>1
    <2>2. CASE y = x /\ z # x
      BY <1>1, <1>2, <1>5, <2>2
    <2>3. CASE z = x /\ y # x
      BY <1>1, <1>2, <1>4, <1>5, <2>3
    <2>4. CASE y # x /\ z # x
      BY <1>1, <1>2, <1>5, <2>4 DEF RankInv
    <2> QED BY <2>1, <2>2, <2>3, <2>4
  <1> QED BY <1>3, <1>5 DEF RankInv

(* Where a thread goes from the barrier at a. *)
Onward(x, a) ==
  CASE a = "init0" -> IF x[2] = 0 THEN {"update0"} ELSE {"top"}
    [] a = "top" -> IF x[2] = 0 THEN {"reset"} ELSE {"start"}
    [] a = "start" -> IF OnThread(x) = {} THEN {"called"} ELSE {"call"}
    [] a = "called" -> {"process"}
    [] a = "processed" -> IF x[2] = 0 THEN {"ranks"} ELSE {"exchanged"}
    [] a = "exchanged" -> {"decide"}
    [] a = "setup0" -> IF x[2] = 0 THEN {"lock"} ELSE {"setup1"}
    [] a = "setup1" -> {"setup"}
    [] a = "setup2" -> {"run"}
    [] a = "complete0" -> {"prepare"}
    [] a = "ended" -> {"end"}

(* A barrier moves the threads of one rank, from one place. *)
LEMMA BarrierEffect ==
  ASSUME NEW r \in Ranks, Barrier(r)
  PROVE  \E a \in {"init0", "top", "start", "called", "processed", "exchanged", "setup0", "setup1",
                   "setup2", "complete0", "ended"} :
           /\ \A x \in RankInfo : /\ x[1] = r => pc[x] = a /\ pc'[x] \in Onward(x, a)
                                  /\ x[1] # r => pc'[x] = pc[x]
           /\ pc' = [x \in RankInfo |-> pc'[x]]
           /\ UNCHANGED <<stage, phase, called, mode, linkVars, stopped>>
  <1> DEFINE a == pc[Master(r)]
  <1>1. /\ a \in DOMAIN After /\ \A x \in ThreadsOf(r) : pc[x] = a
        /\ pc' = [x \in RankInfo |-> IF x[1] = r THEN GoesTo(x, pc[x]) ELSE pc[x]]
        /\ UNCHANGED <<stage, phase, called, mode, linkVars, stopped>>
    BY Layout DEF Barrier, ThreadsOf
  <1> HIDE DEF a
  <1>2. \A x \in RankInfo : /\ x[1] = r => pc[x] = a /\ pc'[x] = GoesTo(x, a)
                            /\ x[1] # r => pc'[x] = pc[x]
    BY <1>1, Layout DEF ThreadsOf
  <1>3. \A x \in RankInfo : GoesTo(x, a) \in Onward(x, a)
    BY <1>1 DEF GoesTo, After, Past, Onward
  <1>4. a \in {"init0", "top", "start", "called", "processed", "exchanged", "setup0", "setup1",
               "setup2", "complete0", "ended"}
    BY <1>1 DEF After
  <1> QED BY <1>1, <1>2, <1>3, <1>4

(* The threads of a rank come to the same stretch. *)
LEMMA OnwardMeet ==
  ASSUME NEW x, NEW y,
         NEW a \in {"init0", "top", "start", "called", "processed", "exchanged", "setup0", "setup1",
                    "setup2", "complete0", "ended"},
         NEW k \in Onward(x, a), NEW l \in Onward(y, a)
  PROVE  Meet(k, l)
  BY DEF Onward, Meet

(* They were in the same stretch, and are in the next. *)
LEMMA BarrierControl ==
  ASSUME Control, NEW r \in Ranks, Barrier(r) PROVE Control'
  <1>1. PICK a \in {"init0", "top", "start", "called", "processed", "exchanged", "setup0", "setup1",
                    "setup2", "complete0", "ended"} :
           /\ \A x \in RankInfo : /\ x[1] = r => pc[x] = a /\ pc'[x] \in Onward(x, a)
                                  /\ x[1] # r => pc'[x] = pc[x]
           /\ pc' = [x \in RankInfo |-> pc'[x]]
           /\ UNCHANGED <<stage, phase, called, mode, linkVars, stopped>>
    BY BarrierEffect
  <1>2. ControlTypes'
    BY <1>1 DEF Control, ControlTypes, AllPCs, linkVars, Onward
  <1>3. RankInv'
    <2>1. \A x \in RankInfo : x[1] # r => Level(x)' = Level(x)
      BY <1>1 DEF Level
    <2>2. \A x \in RankInfo : x[1] = r => Level(x)' =
            IF a = "exchanged" THEN phase[x] + 1 ELSE IF a = "complete0" THEN 0 ELSE phase[x]
      BY <1>1 DEF Level, Turns, Onward
    <2>3. ASSUME NEW x \in RankInfo
          PROVE  /\ pc'[x] \in InitOnly => stage'[x] = "init"
                 /\ pc'[x] \in CompleteOnly => stage'[x] = "complete"
                 /\ pc'[x] \in MasterOnly => x[2] = 0
      BY <1>1 DEF Control, RankInv, InitOnly, CompleteOnly, MasterOnly, Onward
    <2>4. ASSUME NEW x \in RankInfo, NEW y \in RankInfo, x[1] = y[1]
          PROVE  /\ Meet(pc'[x], pc'[y])
                 /\ (pc'[x] = "run" <=> pc'[y] = "run") => stage'[x] = stage'[y]
                 /\ stage'[x] = stage'[y] => Level(x)' = Level(y)'
      <3>1. CASE x[1] # r
        BY <1>1, <2>1, <2>4, <3>1 DEF Control, RankInv
      <3>2. CASE x[1] = r
        <4>1. pc[x] = a /\ pc[y] = a /\ pc'[x] \in Onward(x, a) /\ pc'[y] \in Onward(y, a)
          BY <1>1, <2>4, <3>2
        <4>2. Meet(pc'[x], pc'[y])
          BY <4>1, OnwardMeet
        <4>3. stage[x] = stage[y] /\ Level(x) = Level(y)
          BY <2>4, <4>1 DEF Control, RankInv
        <4>4. Level(x)' = Level(y)'
          <5>1. a # "complete0" => phase[x] = phase[y]
            BY <4>1, <4>3 DEF Level, Turns
          <5>2. /\ Level(x)' = IF a = "exchanged" THEN phase[x] + 1 ELSE IF a = "complete0" THEN 0 ELSE phase[x]
                /\ Level(y)' = IF a = "exchanged" THEN phase[y] + 1 ELSE IF a = "complete0" THEN 0 ELSE phase[y]
            BY <2>2, <2>4, <3>2 DEF Level
          <5> QED BY <5>1, <5>2 DEF Level
        <4> QED BY <1>1, <4>2, <4>3, <4>4
      <3> QED BY <3>1, <3>2
    <2> QED BY <2>3, <2>4 DEF RankInv
  <1>4. CalledInv'
    <2>1. ASSUME NEW x \in RankInfo, x[1] = r
          PROVE  IF pc'[x] = "call" THEN OnThread(x) \ called # {} ELSE OnThread(x) \cap called = {}
      <3>1. OnThread(x) \cap called = {}
        BY <1>1, <2>1 DEF Control, CalledInv
      <3>2. pc'[x] = "call" => OnThread(x) # {}
        BY <1>1, <2>1 DEF Onward
      <3> QED BY <3>1, <3>2
    <2>2. ASSUME NEW x \in RankInfo, x[1] # r
          PROVE  IF pc'[x] = "call" THEN OnThread(x) \ called # {} ELSE OnThread(x) \cap called = {}
      BY <1>1, <2>2 DEF Control, CalledInv
    <2> QED BY <1>1, <2>1, <2>2 DEF CalledInv, OnThread
  <1>5. CountInv'
    <2>1. msgCount' = msgCount
      BY <1>1 DEF linkVars
    <2>2. ASSUME NEW x \in RankInfo
          PROVE  /\ pc'[x] = "start" /\ x[2] = 0 => msgCount[x[1]] = 0
                 /\ pc'[x] \in {"finalize", "setup0", "ended", "end"} => msgCount[x[1]] = 0
      BY <1>1 DEF Control, CountInv, Onward
    <2>3. ASSUME NEW x \in RankInfo, NEW y \in RankInfo,
                 x[1] = y[1], pc'[x] \in {"decide", "update"}, pc'[y] = "top"
          PROVE  msgCount[x[1]] # 0
      <3>1. x[1] # r
        BY <1>1, <2>3 DEF Onward
      <3> QED BY <1>1, <2>3, <3>1 DEF Control, CountInv
    <2> QED BY <2>1, <2>2, <2>3 DEF CountInv
  <1>6. RanksInv'
    <2>1. ASSUME NEW x \in Masters
          PROVE  /\ x \in RankInfo /\ x[2] = 0 /\ pc[x] \in AllPCs
                 /\ x[1] # r => pc'[x] = pc[x] /\ Passed(x)' = Passed(x) /\ Post(x)' = Post(x)
                                /\ Middle(x)' = Middle(x)
                 /\ x[1] = r => /\ pc[x] = a
                                /\ pc'[x] \in Onward(x, a)
                                /\ Passed(x)' = Passed(x) /\ Post(x)' = Post(x)
                                /\ Middle(x)' = Middle(x)
      <3>1. x \in RankInfo /\ x[2] = 0
        BY Layout
      <3>2. pc[x] \in AllPCs /\ stage'[x] = stage[x] /\ phase'[x] = phase[x]
        BY <1>1, <3>1 DEF Control, ControlTypes
      <3>3. CASE x[1] # r
        BY <1>1, <3>1, <3>2, <3>3 DEF Passed, Level, Post, Middle
      <3>4. CASE x[1] = r
        BY <1>1, <3>1, <3>2, <3>4 DEF Passed, Level, Turns, Post, Middle, Round, Onward
      <3> QED BY <3>1, <3>2, <3>3, <3>4
    <2>2. ASSUME NEW x \in Masters, NEW n \in Eras, AtEra(x, n) PROVE AtEra(x, n)'
      <3>1. x \in RankInfo /\ x[2] = 0 /\ stage'[x] = stage[x]
        BY <1>1, <2>1
      <3>2. CASE x[1] # r
        BY <2>1, <2>2, <3>1, <3>2 DEF AtEra
      <3>3. CASE x[1] = r
        <4>1. pc[x] = a /\ pc'[x] \in Onward(x, a)
          BY <1>1, <3>1, <3>3
        <4> QED BY <1>1, <2>1, <2>2, <3>1, <4>1 DEF AtEra, Round, Onward
      <3> QED BY <3>2, <3>3
    <2>3. \A x, y \in Masters : Era(x, y)'
      BY <2>2 DEF Control, RanksInv, Era
    <2> QED BY <1>1, <2>1, <2>3 DEF RanksInv, Control, linkVars
  <1>7. SentInv'
    <2>1. a = "start" => msgCount[r] = 0
      BY <1>1, Layout DEF Control, CountInv
    <2>2. ASSUME NEW x \in RankInfo, x[1] = r
          PROVE  /\ phase[x] <= sent + 1
                 /\ pc'[x] \in {"init0", "update0", "exchanged", "decide"} \cup Round => phase[x] <= sent
                 /\ pc'[x] \in Sending \cup {"exchanged", "decide"} /\ msgCount[x[1]] # 0
                      => phase[x] < sent
                 /\ pc'[x] # "update"
      BY <1>1, <2>1, <2>2 DEF Control, SentInv, Sending, Round, Onward
    <2> QED BY <1>1, <2>2 DEF Control, SentInv, linkVars
  <1> QED BY <1>2, <1>3, <1>4, <1>5, <1>6, <1>7 DEF Control

(* Thread 0 resets the count while the others wait for it. *)
LEMMA ResetControl ==
  ASSUME Control, NEW r \in Ranks, Reset(r) PROVE Control'
  <1> DEFINE m == Master(r)
  <1>1. /\ m \in RankInfo /\ m[1] = r /\ m[2] = 0 /\ pc[m] = "reset"
        /\ pc' = [pc EXCEPT ![m] = "start"] /\ msgCount' = [msgCount EXCEPT ![r] = 0]
        /\ UNCHANGED <<stage, phase, called, mode, sent, stopped>>
    BY Layout DEF Reset, Goto
  <1> HIDE DEF m
  <1>2. /\ pc'[m] = "start" /\ \A x \in RankInfo \ {m} : pc'[x] = pc[x]
        /\ msgCount'[r] = 0 /\ \A s \in Ranks \ {r} : msgCount'[s] = msgCount[s]
    BY <1>1 DEF Control, ControlTypes
  <1>3. ControlTypes'
    BY <1>1 DEF Control, ControlTypes, AllPCs
  <1>4. \A y \in RankInfo : y[1] = r => pc[y] \in {"reset", "start"}
    BY <1>1 DEF Control, RankInv, Meet
  <1>5. RankInv'
    <2>1. \A y \in RankInfo \ {m} : m[1] = y[1] =>
            /\ Meet("start", pc[y])
            /\ ("start" = "run" <=> pc[y] = "run") => stage'[m] = stage[y]
            /\ stage'[m] = stage[y] => Level(m)' = Level(y)
      BY <1>1, <1>2, <1>4 DEF Control, RankInv, Meet, Level, Turns
    <2>2. "start" \in AllPCs /\ "start" \notin InitOnly \cup CompleteOnly \cup MasterOnly
      BY DEF AllPCs, InitOnly, CompleteOnly, MasterOnly
    <2>3. ControlTypes /\ RankInv
      BY DEF Control
    <2> QED BY <1>1, <2>1, <2>2, <2>3, RankInvStep
  <1>6. CalledInv'
    BY <1>1, <1>2 DEF Control, CalledInv, OnThread
  <1>7. CountInv'
    BY <1>1, <1>2, <1>4, Layout DEF Control, CountInv
  <1>8. RanksInv'
    <2>1. ASSUME NEW x \in Masters
          PROVE  /\ x \in RankInfo
                 /\ x = m => x[1] = r /\ ~Post(x) /\ ~Post(x)'
                 /\ x # m => x[1] \in Ranks \ {r} /\ Post(x)' = Post(x)
                 /\ Passed(x)' = Passed(x)
                 /\ Middle(x)' = Middle(x)
      BY <1>1, <1>2, Layout DEF Post, Passed, Level, Turns, Middle, Round
    <2>2. ASSUME NEW x \in Masters, NEW n \in Eras, AtEra(x, n) PROVE AtEra(x, n)'
      BY <1>1, <1>2, <2>1, <2>2 DEF AtEra, Round
    <2>3. \A x, y \in Masters : Era(x, y)'
      BY <2>2 DEF Control, RanksInv, Era
    <2> QED BY <1>1, <1>2, <2>1, <2>3 DEF Control, RanksInv
  <1>9. SentInv'
    BY <1>1, <1>2, <1>4, Layout DEF Control, ControlTypes, SentInv, Sending, Round
  <1> QED BY <1>3, <1>5, <1>6, <1>7, <1>8, <1>9 DEF Control

(* The next component that is called is one of the thread that has not     *)
(* been.                                                                   *)
LEMMA NextIs ==
  ASSUME Control, NEW x \in RankInfo, pc[x] = "call"
  PROVE  NextCalled(x) \in OnThread(x) \ called
  <1> DEFINE left == {i \in DOMAIN CompOrder : CompOrder[i] \in OnThread(x) \ called}
  <1>1. PICK c \in OnThread(x) \ called : TRUE
    BY DEF Control, CalledInv
  <1>2. c \in Comps
    BY DEF OnThread
  <1>3. left # {}
    BY <1>1, <1>2, LifeAssumption
  <1>4. CompOrder \in Seq(Comps)
    BY LifeAssumption
  <1>5. left \in SUBSET Nat
    BY <1>4, LenProperties
  <1> HIDE DEF left
  <1>6. \E t \in left : \A u \in left : t <= u
    BY <1>3, <1>5, LeastOf
  <1>7. MinTime(left) \in left
    BY <1>6 DEF MinTime
  <1> QED BY <1>7 DEF NextCalled, left

(* A component that is called has sent nothing, or a message on each of    *)
(* some links.                                                             *)
LEMMA CallEffect ==
  ASSUME Control, NEW x \in RankInfo, Call(x)
  PROVE  LET c == NextCalled(x) IN
         /\ pc[x] = "call" /\ c \in OnThread(x) \ called /\ Home[c] = x
         /\ \E S \in SUBSET From(c) :
              /\ Exchange(c, S)
              /\ IF S = {} THEN sent' = sent /\ msgCount' = msgCount
                 ELSE /\ sent < MaxSends /\ sent' = sent + 1
                      /\ \E n \in Nat \ {0} : msgCount' = [msgCount EXCEPT ![x[1]] = @ + n]
         /\ IF OnThread(x) \ called = {c}
            THEN called' = called \ OnThread(x) /\ pc' = [pc EXCEPT ![x] = "called"]
            ELSE called' = called \cup {c} /\ pc' = pc
         /\ UNCHANGED <<stage, phase, mode, stopped>>
  <1> DEFINE c == NextCalled(x)
  <1>1. pc[x] = "call" /\ c \in OnThread(x) \ called
    BY NextIs DEF Call
  <1>2. Home[c] = x
    BY <1>1 DEF OnThread
  <1>3. PICK S \in SUBSET From(c) : Exchange(c, S)
    BY DEF Call
  <1>4. IsFiniteSet(Channels)
    BY BaseAssumption, LifeAssumption, FS_Product, FS_Subset
  <1>5. IsFiniteSet(S) /\ Cardinality(S) \in Nat /\ (Cardinality(S) = 0 <=> S = {})
    <2>1. S \subseteq Channels
      BY DEF From
    <2> QED BY <1>4, <2>1, FS_Subset, FS_CardinalityType, FS_EmptySet
  <1>6. /\ S # {} => sent < MaxSends
        /\ sent' = IF S = {} THEN sent ELSE sent + 1
        /\ msgCount' = [msgCount EXCEPT ![x[1]] = @ + Cardinality(S)]
    BY <1>2, <1>3 DEF Exchange
  <1>7. IF S = {} THEN sent' = sent /\ msgCount' = msgCount
        ELSE /\ sent < MaxSends /\ sent' = sent + 1
             /\ \E n \in Nat \ {0} : msgCount' = [msgCount EXCEPT ![x[1]] = @ + n]
    <2>1. CASE S = {}
      BY <1>5, <1>6, <2>1, Layout DEF Control, ControlTypes
    <2>2. CASE S # {}
      BY <1>5, <1>6, <2>2
    <2> QED BY <2>1, <2>2
  <1>8. /\ IF OnThread(x) \ called = {c}
           THEN called' = called \ OnThread(x) /\ pc' = [pc EXCEPT ![x] = "called"]
           ELSE called' = called \cup {c} /\ pc' = pc
        /\ UNCHANGED <<stage, phase, mode, stopped>>
    BY DEF Call
  <1> HIDE DEF c
  <1>9. \E T \in SUBSET From(c) :
          /\ Exchange(c, T)
          /\ IF T = {} THEN sent' = sent /\ msgCount' = msgCount
             ELSE /\ sent < MaxSends /\ sent' = sent + 1
                  /\ \E n \in Nat \ {0} : msgCount' = [msgCount EXCEPT ![x[1]] = @ + n]
    BY <1>3, <1>7
  <1> QED BY <1>1, <1>2, <1>8, <1>9 DEF c

(* A component that sends makes the count of its rank differ from 0. *)
LEMMA CallControl ==
  ASSUME Control, NEW x \in RankInfo, Call(x) PROVE Control'
  <1> DEFINE c == NextCalled(x)
             r == x[1]
  <1>1. /\ pc[x] = "call" /\ c \in OnThread(x) \ called /\ r \in Ranks
        /\ \/ sent' = sent /\ msgCount' = msgCount
           \/ /\ sent < MaxSends /\ sent' = sent + 1
              /\ \E n \in Nat \ {0} : msgCount' = [msgCount EXCEPT ![r] = @ + n]
        /\ IF OnThread(x) \ called = {c}
           THEN called' = called \ OnThread(x) /\ pc' = [pc EXCEPT ![x] = "called"]
           ELSE called' = called \cup {c} /\ pc' = pc
        /\ UNCHANGED <<stage, phase, mode, stopped>>
    BY CallEffect, Layout
  <1> HIDE DEF c
  <1>2. /\ pc'[x] \in {"call", "called"} /\ \A y \in RankInfo \ {x} : pc'[y] = pc[y]
        /\ msgCount' \in [Ranks -> Nat] /\ \A s \in Ranks \ {r} : msgCount'[s] = msgCount[s]
        /\ sent' \in 0 .. MaxSends /\ sent <= sent'
        /\ msgCount'[r] = msgCount[r] \/ sent' = sent + 1
        /\ msgCount'[r] # 0 \/ msgCount'[r] = msgCount[r]
    <2>1. \A y \in RankInfo \ {x} : pc'[y] = pc[y]
      BY <1>1 DEF Control, ControlTypes
    <2>2. pc'[x] \in {"call", "called"}
      BY <1>1 DEF Control, ControlTypes
    <2>3. MaxSends \in Nat /\ sent \in Nat /\ msgCount \in [Ranks -> Nat] /\ sent <= MaxSends
      BY LifeAssumption DEF Control, ControlTypes
    <2>4. CASE sent' = sent /\ msgCount' = msgCount
      BY <2>1, <2>2, <2>3, <2>4
    <2>5. CASE /\ sent < MaxSends /\ sent' = sent + 1
               /\ \E n \in Nat \ {0} : msgCount' = [msgCount EXCEPT ![r] = @ + n]
      <3>1. PICK n \in Nat \ {0} : msgCount' = [msgCount EXCEPT ![r] = @ + n]
        BY <2>5
      <3>2. msgCount[r] \in Nat
        BY <1>1, <2>3
      <3>3. /\ msgCount'[r] = msgCount[r] + n /\ msgCount'[r] \in Nat \ {0}
            /\ msgCount' \in [Ranks -> Nat] /\ \A s \in Ranks \ {r} : msgCount'[s] = msgCount[s]
        BY <1>1, <2>3, <3>1, <3>2
      <3>4. sent' \in 0 .. MaxSends /\ sent <= sent'
        BY <2>3, <2>5
      <3> QED BY <2>1, <2>2, <2>5, <3>3, <3>4
    <2> QED BY <1>1, <2>4, <2>5
  <1>3. ControlTypes'
    BY <1>1, <1>2 DEF Control, ControlTypes, AllPCs, OnThread
  <1>4. \A y \in RankInfo : y[1] = r => pc[y] \in {"call", "called"}
    BY <1>1 DEF Control, RankInv, Meet
  <1>5. RankInv'
    <2>1. ASSUME pc' = [pc EXCEPT ![x] = "called"] PROVE RankInv'
      <3>1. \A y \in RankInfo \ {x} : x[1] = y[1] =>
              /\ Meet("called", pc[y])
              /\ ("called" = "run" <=> pc[y] = "run") => stage'[x] = stage[y]
              /\ stage'[x] = stage[y] => Level(x)' = Level(y)
        BY <1>1, <1>2, <1>4 DEF Control, RankInv, Meet, Level, Turns
      <3>2. "called" \in AllPCs /\ "called" \notin InitOnly \cup CompleteOnly \cup MasterOnly
        BY DEF AllPCs, InitOnly, CompleteOnly, MasterOnly
      <3>3. ControlTypes /\ RankInv
        BY DEF Control
      <3> QED BY <1>1, <2>1, <3>1, <3>2, <3>3, RankInvStep
    <2>2. ASSUME pc' = pc PROVE RankInv'
      BY <1>1, <2>2 DEF Control, RankInv, Level
    <2> QED BY <1>1, <2>1, <2>2
  <1>6. CalledInv'
    <2>1. \A y \in RankInfo \ {x} : OnThread(y) \cap OnThread(x) = {} /\ c \notin OnThread(y)
      BY <1>1 DEF OnThread
    <2>2. \A y \in RankInfo : OnThread(y)' = OnThread(y)
      BY DEF OnThread
    <2>3. CASE OnThread(x) \ called = {c}
      BY <1>1, <2>1, <2>2, <2>3 DEF Control, CalledInv, ControlTypes
    <2>4. CASE OnThread(x) \ called # {c}
      BY <1>1, <2>1, <2>2, <2>4 DEF Control, CalledInv
    <2> QED BY <2>3, <2>4
  <1>7. CountInv'
    BY <1>1, <1>2, <1>4, Layout DEF Control, CountInv
  <1>8. RanksInv'
    <2>1. ASSUME NEW y \in Masters
          PROVE  /\ y \in RankInfo /\ y[1] \in Ranks
                 /\ y[1] = r => ~Post(y) /\ ~Post(y)'
                 /\ y[1] # r => Post(y)' = Post(y) /\ msgCount'[y[1]] = msgCount[y[1]]
                 /\ Passed(y)' = Passed(y)
                 /\ Middle(y)' = Middle(y)
      BY <1>1, <1>2, <1>4, Layout DEF Post, Passed, Level, Turns, Middle, Round
    <2>2. ASSUME NEW y \in Masters, NEW n \in Eras, AtEra(y, n) PROVE AtEra(y, n)'
      BY <1>1, <1>2, <1>4, <2>1, <2>2 DEF AtEra, Round
    <2>3. \A y, z \in Masters : Era(y, z)'
      BY <2>2 DEF Control, RanksInv, Era
    <2> QED BY <1>1, <2>1, <2>3 DEF Control, RanksInv
  <1>9. SentInv'
    <2>1. ASSUME NEW y \in RankInfo
          PROVE  /\ phase[y] \in Nat /\ sent \in Nat /\ sent' \in Nat /\ y[1] \in Ranks
                 /\ y[1] = r => pc[y] \in {"call", "called"} /\ pc'[y] \in {"call", "called"}
                 /\ y[1] # r => pc'[y] = pc[y] /\ msgCount'[y[1]] = msgCount[y[1]]
      BY <1>1, <1>2, <1>4, Layout, LifeAssumption DEF Control, ControlTypes
    <2>2. ASSUME NEW y \in RankInfo, y[1] = r
          PROVE  phase[y] <= sent' /\ (msgCount'[r] # 0 => phase[y] < sent')
      BY <1>1, <1>2, <2>1, <2>2 DEF Control, SentInv, Sending, Round
    <2>3. ASSUME NEW y \in RankInfo, y[1] # r
          PROVE  /\ phase[y] <= sent' + 1
                 /\ pc'[y] \in {"init0", "update0", "exchanged", "decide"} \cup Round => phase[y] <= sent'
                 /\ pc'[y] \in Sending \cup {"exchanged", "decide"} /\ msgCount'[y[1]] # 0
                      => phase[y] < sent'
                 /\ pc'[y] = "update" /\ msgCount'[y[1]] # 0 => phase[y] <= sent'
      BY <1>1, <1>2, <2>1, <2>3 DEF Control, SentInv
    <2> QED BY <1>1, <2>1, <2>2, <2>3 DEF SentInv
  <1> QED BY <1>3, <1>5, <1>6, <1>7, <1>8, <1>9 DEF Control

(* A step of thread x on its own, to l. *)
Moves(x, l) ==
  /\ l \in AllPCs \ {"call", "start"} /\ pc[x] # "call" /\ pc' = [pc EXCEPT ![x] = l]
  /\ stage' \in [RankInfo -> {"init", "complete"}] /\ phase' \in [RankInfo -> Nat]
  /\ mode' \in [RankInfo -> {"INIT", "RUN", "COMPLETE"}]
  /\ UNCHANGED <<called, msgCount, sent, stopped>>
  /\ \A y \in RankInfo \ {x} : stage'[y] = stage[y] /\ phase'[y] = phase[y]
  /\ l \in InitOnly => stage'[x] = "init"
  /\ l \in CompleteOnly => stage'[x] = "complete"
  /\ l \in MasterOnly => x[2] = 0
  /\ l \in {"finalize", "setup0", "ended", "end"} => msgCount[x[1]] = 0

(* Then the threads of its rank, *)
MatesFit(x, l) ==
  \A y \in RankInfo \ {x} : x[1] = y[1] =>
    /\ Meet(l, pc[y])
    /\ (l = "run" <=> pc[y] = "run") => stage'[x] = stage[y]
    /\ stage'[x] = stage[y] => Level(x)' = Level(y)
    /\ l = "top" /\ pc[y] \in {"decide", "update"} => msgCount[x[1]] # 0
    /\ l \in {"decide", "update"} /\ pc[y] = "top" => msgCount[x[1]] # 0

(* the messages sent *)
SentFits(x, l) ==
  /\ phase'[x] <= sent + 1
  /\ l \in {"init0", "update0", "exchanged", "decide"} \cup Round => phase'[x] <= sent
  /\ l \in Sending \cup {"exchanged", "decide"} /\ msgCount[x[1]] # 0 => phase'[x] < sent
  /\ l = "update" /\ msgCount[x[1]] # 0 => phase'[x] <= sent

(* and the other ranks still fit. *)
RanksFit(x) ==
  x \in Masters =>
    /\ Era(x, x)'
    /\ \A y \in Masters \ {x} :
         /\ Era(x, y)' /\ Era(y, x)'
         /\ stage'[x] = stage[y] => Passed(x)' = Passed(y)
         /\ Post(x)' /\ msgCount[x[1]] = 0 => Post(y) /\ msgCount[y[1]] = 0
         /\ Post(y) /\ msgCount[y[1]] = 0 => Post(x)' /\ msgCount[x[1]] = 0

(* A step with a place that fits keeps the invariant. *)
LEMMA StepControl ==
  ASSUME Control, NEW x \in RankInfo, NEW l,
         Moves(x, l), MatesFit(x, l), SentFits(x, l), RanksFit(x)
  PROVE  Control'
  <1>0. l \in AllPCs /\ pc' = [pc EXCEPT ![x] = l] /\ l # "call" /\ l # "start"
    BY DEF Moves
  <1>1. pc'[x] = l /\ \A y \in RankInfo \ {x} : pc'[y] = pc[y]
    BY <1>0 DEF Control, ControlTypes
  <1>2. ControlTypes'
    BY <1>0 DEF Control, ControlTypes, Moves
  <1>3. RankInv'
    <2>1. ControlTypes /\ RankInv
      BY DEF Control
    <2>2. /\ \A y \in RankInfo \ {x} : stage'[y] = stage[y] /\ phase'[y] = phase[y]
          /\ l \in InitOnly => stage'[x] = "init"
          /\ l \in CompleteOnly => stage'[x] = "complete"
          /\ l \in MasterOnly => x[2] = 0
      BY DEF Moves
    <2>3. \A y \in RankInfo \ {x} : x[1] = y[1] =>
            /\ Meet(l, pc[y])
            /\ (l = "run" <=> pc[y] = "run") => stage'[x] = stage[y]
            /\ stage'[x] = stage[y] => Level(x)' = Level(y)
      BY DEF MatesFit
    <2> QED BY <1>0, <2>1, <2>2, <2>3, RankInvStep
  <1>4. CalledInv'
    BY <1>0, <1>1 DEF Control, CalledInv, OnThread, Moves
  <1>5. CountInv'
    BY <1>0, <1>1 DEF Control, CountInv, Moves, MatesFit
  <1>6. RanksInv'
    <2>0. msgCount' = msgCount /\ \A y \in RankInfo \ {x} : stage'[y] = stage[y] /\ phase'[y] = phase[y]
      BY DEF Moves
    <2>1. \A y \in Masters \ {x} :
            /\ y \in RankInfo /\ pc'[y] = pc[y] /\ stage'[y] = stage[y]
            /\ Passed(y)' = Passed(y) /\ Post(y)' = Post(y)
            /\ \A n \in Eras : AtEra(y, n)' = AtEra(y, n)
      BY <1>1, <2>0, Layout DEF Passed, Post, Middle, Level, AtEra
    <2>2. \A y, z \in Masters \ {x} : Era(y, z)'
      BY <2>1 DEF Control, RanksInv, Era
    <2>3. ASSUME NEW y \in Masters, NEW z \in Masters
          PROVE  /\ Era(y, z)'
                 /\ stage'[y] = stage'[z] => Passed(y)' = Passed(z)'
                 /\ Post(y)' /\ msgCount[y[1]] = 0 => Post(z)' /\ msgCount[z[1]] = 0
      <3>1. CASE y = x /\ z = x
        BY <3>1 DEF RanksFit
      <3>2. CASE y = x /\ z # x
        BY <2>1, <3>2 DEF RanksFit
      <3>3. CASE y # x /\ z = x
        BY <2>1, <3>3 DEF RanksFit
      <3>4. CASE y # x /\ z # x
        BY <2>1, <2>2, <3>4 DEF Control, RanksInv
      <3> QED BY <3>1, <3>2, <3>3, <3>4
    <2> QED BY <2>0, <2>3 DEF RanksInv
  <1>7. SentInv'
    BY <1>1 DEF Control, SentInv, Moves, SentFits
  <1> QED BY <1>2, <1>3, <1>4, <1>5, <1>6, <1>7 DEF Control

(* What a master does between two collectives is nothing to other ranks. *)
LEMMA RanksStay ==
  ASSUME Control, NEW x \in RankInfo, NEW l \in AllPCs, pc' = [pc EXCEPT ![x] = l],
         msgCount' = msgCount,
         \A y \in RankInfo \ {x} : stage'[y] = stage[y] /\ phase'[y] = phase[y],
         x \in Masters =>
           /\ \A n \in Eras : AtEra(x, n) => AtEra(x, n)'
           /\ \/ stage'[x] = stage[x] /\ Passed(x)' = Passed(x)
              \/ \A y \in Masters \ {x} : stage'[x] = stage[y] => Passed(x)' = Passed(y)
           /\ Post(x)' = Post(x) \/ msgCount[x[1]] # 0
  PROVE  RanksFit(x)
  <1> SUFFICES ASSUME x \in Masters PROVE RanksFit(x)
    BY DEF RanksFit
  <1>1. \A y \in Masters \ {x} : pc'[y] = pc[y] /\ stage'[y] = stage[y] /\ phase'[y] = phase[y]
    BY Layout DEF Control, ControlTypes
  <1>2. \A y \in Masters : \A n \in Eras : AtEra(y, n) => AtEra(y, n)'
    <2>1. \A y \in Masters \ {x} : \A n \in Eras : AtEra(y, n) => AtEra(y, n)'
      BY <1>1 DEF AtEra, Middle
    <2> QED BY <2>1
  <1>3. \A y \in Masters : Era(x, y)' /\ Era(y, x)'
    BY <1>2 DEF Control, RanksInv, Era
  <1>4. ASSUME NEW y \in Masters \ {x}
        PROVE  /\ stage'[x] = stage[y] => Passed(x)' = Passed(y)
               /\ Post(x)' /\ msgCount[x[1]] = 0 => Post(y) /\ msgCount[y[1]] = 0
               /\ Post(y) /\ msgCount[y[1]] = 0 => Post(x)' /\ msgCount[x[1]] = 0
    BY DEF Control, RanksInv
  <1> QED BY <1>3, <1>4 DEF RanksFit

(* The steps of a single thread are of this kind. *)
LEMMA ProcessControl ==
  ASSUME Control, NEW x \in RankInfo, Process(x) PROVE Control'
  <1> DEFINE l == "processed"
  <1>1. /\ pc[x] = "process" /\ pc' = [pc EXCEPT ![x] = l]
        /\ UNCHANGED <<stage, phase, called, mode, msgCount, sent, stopped>>
    BY DEF Process, Goto
  <1>2. pc'[x] = l /\ l \in AllPCs
    BY <1>1 DEF Control, ControlTypes, AllPCs
  <1>3. Moves(x, l)
    BY <1>1 DEF Moves, Control, ControlTypes, AllPCs, InitOnly, CompleteOnly, MasterOnly
  <1>4. MatesFit(x, l)
    BY <1>1, <1>2 DEF MatesFit, Control, RankInv, Meet, Level, Turns
  <1>5. SentFits(x, l)
    BY <1>1 DEF SentFits, Control, SentInv, Sending, Round
  <1>6. RanksFit(x)
    <2>1. Passed(x)' = Passed(x) /\ Post(x)' = Post(x)
      BY <1>1, <1>2 DEF Passed, Level, Turns, Post
    <2>2. \A n \in Eras : AtEra(x, n) => AtEra(x, n)'
      BY <1>1, <1>2 DEF AtEra, Middle, Round
    <2> QED BY <1>1, <1>2, <2>1, <2>2, RanksStay
  <1> QED BY <1>3, <1>4, <1>5, <1>6, StepControl

(* A thread leaves init() when its rank has counted nothing. *)
LEMMA FinalizeControl ==
  ASSUME Control, NEW x \in RankInfo, Finalize(x) PROVE Control'
  <1> DEFINE l == "setup0"
  <1>1. /\ pc[x] = "finalize" /\ pc' = [pc EXCEPT ![x] = l] /\ stage[x] = "init"
        /\ mode' = [mode EXCEPT ![x] = "RUN"]
        /\ UNCHANGED <<stage, phase, called, msgCount, sent, stopped>>
    BY DEF Finalize, Goto, Control, RankInv, InitOnly
  <1>2. pc'[x] = l /\ l \in AllPCs
    BY <1>1 DEF Control, ControlTypes, AllPCs
  <1>3. Moves(x, l)
    BY <1>1 DEF Moves, Control, ControlTypes, CountInv, AllPCs, InitOnly, CompleteOnly, MasterOnly
  <1>4. MatesFit(x, l)
    BY <1>1, <1>2 DEF MatesFit, Control, RankInv, Meet, Level, Turns
  <1>5. SentFits(x, l)
    BY <1>1 DEF SentFits, Control, SentInv, Sending, Round
  <1>6. RanksFit(x)
    <2>1. Passed(x)' = Passed(x) /\ Post(x)' = Post(x)
      BY <1>1, <1>2 DEF Passed, Level, Turns, Post
    <2>2. \A n \in Eras : AtEra(x, n) => AtEra(x, n)'
      BY <1>1, <1>2 DEF AtEra, Middle, Round
    <2> QED BY <1>1, <1>2, <2>1, <2>2, RanksStay
  <1> QED BY <1>3, <1>4, <1>5, <1>6, StepControl

(* Thread by thread through setup(), *)
LEMMA SetupControl ==
  ASSUME Control, NEW x \in RankInfo, Setup(x) PROVE Control'
  <1> DEFINE l == "setup2"
  <1>1. /\ pc[x] = "setup" /\ pc' = [pc EXCEPT ![x] = l] /\ stage[x] = "init"
        /\ UNCHANGED <<stage, phase, called, mode, msgCount, sent, stopped>>
    BY DEF Setup, Goto, Control, RankInv, InitOnly, linkVars
  <1>2. pc'[x] = l /\ l \in AllPCs
    BY <1>1 DEF Control, ControlTypes, AllPCs
  <1>3. Moves(x, l)
    BY <1>1 DEF Moves, Control, ControlTypes, CountInv, AllPCs, InitOnly, CompleteOnly, MasterOnly
  <1>4. MatesFit(x, l)
    BY <1>1, <1>2 DEF MatesFit, Control, RankInv, Meet, Level, Turns
  <1>5. SentFits(x, l)
    BY <1>1 DEF SentFits, Control, SentInv, Sending, Round
  <1>6. RanksFit(x)
    <2>1. Passed(x)' = Passed(x) /\ Post(x)' = Post(x)
      BY <1>1, <1>2 DEF Passed, Level, Turns, Post
    <2>2. \A n \in Eras : AtEra(x, n) => AtEra(x, n)'
      BY <1>1, <1>2 DEF AtEra, Middle, Round
    <2> QED BY <1>1, <1>2, <2>1, <2>2, RanksStay
  <1> QED BY <1>3, <1>4, <1>5, <1>6, StepControl

(* the run, *)
LEMMA RunControl ==
  ASSUME Control, NEW x \in RankInfo, Run(x) PROVE Control'
  <1> DEFINE l == "complete0"
  <1>1. /\ pc[x] = "run" /\ pc' = [pc EXCEPT ![x] = l] /\ stage[x] = "init"
        /\ stage' = [stage EXCEPT ![x] = "complete"]
        /\ UNCHANGED <<phase, called, mode, msgCount, sent, stopped>>
    BY DEF Run, Goto, Control, RankInv, InitOnly
  <1>2. pc'[x] = l /\ l \in AllPCs /\ stage'[x] = "complete"
    BY <1>1 DEF Control, ControlTypes, AllPCs
  <1>3. Moves(x, l)
    BY <1>1, <1>2 DEF Moves, Control, ControlTypes, CountInv, AllPCs, InitOnly, CompleteOnly, MasterOnly
  <1>4. MatesFit(x, l)
    <2>1. ASSUME NEW y \in RankInfo \ {x}, x[1] = y[1]
          PROVE  /\ pc[y] \in {"run", "complete0"}
                 /\ IF pc[y] = "run" THEN stage[y] = "init" ELSE stage[y] = "complete" /\ Level(y) = 0
      BY <1>1, <2>1 DEF Control, RankInv, Meet, InitOnly, CompleteOnly, Level, Turns
    <2>2. Level(x)' = 0
      BY <1>2 DEF Level, Turns
    <2> QED BY <1>2, <2>1, <2>2 DEF MatesFit, Meet
  <1>5. SentFits(x, l)
    BY <1>1 DEF SentFits, Control, SentInv, Sending, Round
  <1>6. RanksFit(x)
    <2>1. Post(x)' = Post(x) /\ Passed(x)' = 0
      BY <1>1, <1>2 DEF Post, Passed, Level, Turns
    <2>2. \A n \in Eras : AtEra(x, n) => n = 5 /\ AtEra(x, n)'
      BY <1>1, <1>2 DEF AtEra, Middle, Round
    <2>3. ASSUME x \in Masters, NEW y \in Masters \ {x}, stage'[x] = stage[y] PROVE Passed(y) = 0
      <3>1. Era(x, y) /\ y \in RankInfo
        BY <2>3, Layout DEF Control, RanksInv
      <3>2. Middle(y) /\ stage[y] = "complete"
        <4>1. AtEra(y, 5)
          BY <2>2, <3>1 DEF Era
        <4> QED BY <1>2, <2>3, <4>1 DEF AtEra
      <3>3. pc[y] \notin {"setup1", "setup", "setup2", "run"}
        BY <3>1, <3>2 DEF Control, RankInv, InitOnly
      <3> QED BY <3>2, <3>3 DEF Middle, Passed, Level, Turns, Round
    <2>4. \A y \in RankInfo \ {x} : stage'[y] = stage[y] /\ phase'[y] = phase[y]
      BY <1>3 DEF Moves
    <2>5. x \in Masters =>
            \A y \in Masters \ {x} : stage'[x] = stage[y] => Passed(x)' = Passed(y)
      BY <2>1, <2>3
    <2> QED BY <1>1, <1>2, <2>1, <2>2, <2>4, <2>5, RanksStay
  <1> QED BY <1>3, <1>4, <1>5, <1>6, StepControl

(* and into complete(). *)
LEMMA PrepareControl ==
  ASSUME Control, NEW x \in RankInfo, Prepare(x) PROVE Control'
  <1> DEFINE l == "top"
  <1>1. /\ pc[x] = "prepare" /\ pc' = [pc EXCEPT ![x] = l] /\ stage[x] = "complete"
        /\ phase' = [phase EXCEPT ![x] = 0] /\ mode' = [mode EXCEPT ![x] = "COMPLETE"]
        /\ UNCHANGED <<stage, called, msgCount, sent, stopped>>
    BY DEF Prepare, Goto, Control, RankInv, CompleteOnly
  <1>2. pc'[x] = l /\ l \in AllPCs /\ phase'[x] = 0 /\ sent \in Nat
    BY <1>1, LifeAssumption DEF Control, ControlTypes, AllPCs
  <1>3. Moves(x, l)
    BY <1>1, <1>2 DEF Moves, Control, ControlTypes, AllPCs, InitOnly, CompleteOnly, MasterOnly
  <1>4. MatesFit(x, l)
    BY <1>1, <1>2 DEF MatesFit, Control, RankInv, Meet, Level, Turns
  <1>5. SentFits(x, l)
    BY <1>1, <1>2 DEF SentFits, Control, SentInv, Sending, Round
  <1>6. RanksFit(x)
    <2>1. Passed(x)' = Passed(x) /\ Post(x)' = Post(x)
      BY <1>1, <1>2 DEF Passed, Level, Turns, Post
    <2>2. \A n \in Eras : AtEra(x, n) => AtEra(x, n)'
      BY <1>1, <1>2 DEF AtEra, Middle, Round
    <2>4. \A y \in RankInfo \ {x} : stage'[y] = stage[y] /\ phase'[y] = phase[y]
      BY <1>3 DEF Moves
    <2> QED BY <1>1, <1>2, <2>1, <2>2, <2>4, RanksStay
  <1> QED BY <1>3, <1>4, <1>5, <1>6, StepControl

(* Every thread of a rank decides by the same count. *)
LEMMA DecideControl ==
  ASSUME Control, NEW x \in RankInfo, Decide(x) PROVE Control'
  <1> DEFINE l == IF stage[x] = "init" /\ x[2] = 0 THEN "update"
                  ELSE IF msgCount[x[1]] # 0 THEN "top"
                  ELSE IF stage[x] = "init" THEN "finalize" ELSE "ended"
  <1>1. /\ pc[x] = "decide" /\ pc' = [pc EXCEPT ![x] = l]
        /\ phase' = [phase EXCEPT ![x] = @ + 1]
        /\ UNCHANGED <<stage, called, mode, msgCount, sent, stopped>>
    BY DEF Decide, Goto, linkVars
  <1>2. /\ pc'[x] = l /\ l \in AllPCs /\ phase[x] \in Nat /\ phase'[x] = phase[x] + 1 /\ sent \in Nat
        /\ l \in {"update", "top", "finalize", "ended"}
        /\ stage[x] \in {"init", "complete"}
    BY <1>1, LifeAssumption DEF Control, ControlTypes, AllPCs
  <1>9. /\ l = "update" => stage[x] = "init" /\ x[2] = 0
        /\ l = "top" => msgCount[x[1]] # 0 /\ (stage[x] = "init" => x[2] # 0)
        /\ l = "finalize" => stage[x] = "init" /\ x[2] # 0 /\ msgCount[x[1]] = 0
        /\ l = "ended" => stage[x] = "complete" /\ msgCount[x[1]] = 0
    BY <1>2
  <1> HIDE DEF l
  <1>3. Moves(x, l)
    BY <1>1, <1>2, <1>9 DEF Moves, Control, ControlTypes, AllPCs, InitOnly, CompleteOnly, MasterOnly
  <1>4. MatesFit(x, l)
    <2>1. ASSUME NEW y \in RankInfo \ {x}, x[1] = y[1]
          PROVE  /\ pc[y] \in {"decide", "update", "top", "finalize", "setup0", "ended"}
                 /\ pc[y] = "top" => msgCount[x[1]] # 0
                 /\ pc[y] \in {"finalize", "setup0", "ended"} => msgCount[x[1]] = 0
                 /\ pc[y] \in {"update", "finalize", "setup0"} => stage[y] = "init"
                 /\ pc[y] = "ended" => stage[y] = "complete"
                 /\ pc[y] = "update" => y[2] = 0
                 /\ stage[y] = stage[x] /\ Level(y) = Level(x)
      BY <1>1, <2>1 DEF Control, RankInv, CountInv, Meet, InitOnly, CompleteOnly, MasterOnly
    <2>2. ASSUME NEW y \in RankInfo \ {x}, x[1] = y[1] PROVE ~(l = "update" /\ pc[y] = "update")
      BY <1>9, <2>1, <2>2, Layout
    <2>3. Level(x)' = Level(x)
      BY <1>1, <1>2 DEF Level, Turns
    <2>4. ASSUME NEW y \in RankInfo \ {x}, x[1] = y[1] PROVE Meet(l, pc[y])
      BY <1>2, <1>9, <2>1, <2>4 DEF Meet
    <2>5. stage'[x] = stage[x]
      BY <1>1
    <2> QED BY <1>2, <1>9, <2>1, <2>3, <2>4, <2>5 DEF MatesFit
  <1>5. SentFits(x, l)
    BY <1>1, <1>2, <1>9 DEF SentFits, Control, SentInv, Sending, Round
  <1>6. RanksFit(x)
    <2>2. Passed(x)' = Passed(x)
      <3>1. l \notin Turns /\ l \notin {"exchanged", "decide"}
        BY <1>2 DEF Turns
      <3> QED BY <1>1, <1>2, <3>1 DEF Passed, Level, Turns
    <2>3. x \in Masters => l # "finalize" /\ (l # "update" => stage[x] = "complete")
      BY <1>2, <1>9, Layout
    <2>4. x \in Masters => \A n \in Eras : AtEra(x, n) => AtEra(x, n)'
      BY <1>1, <1>2, <1>9, <2>3 DEF AtEra, Middle, Round
    <2>5. \A y \in RankInfo \ {x} : stage'[y] = stage[y] /\ phase'[y] = phase[y]
      BY <1>3 DEF Moves
    <2>6. x \in Masters => Post(x)' = Post(x) \/ msgCount[x[1]] # 0
      <3>1. Post(x) /\ (l \in {"update", "ended"} => Post(x)')
        BY <1>1, <1>2 DEF Post
      <3>2. x \in Masters => l \in {"update", "ended"} \/ msgCount[x[1]] # 0
        BY <1>2, <1>9, <2>3
      <3> QED BY <3>1, <3>2
    <2> QED BY <1>1, <1>2, <2>2, <2>4, <2>5, <2>6, RanksStay
  <1> QED BY <1>3, <1>4, <1>5, <1>6, StepControl

(* Thread 0 of every rank comes from a to l, the others stay. *)
Together(a, l) ==
  /\ \A x \in Masters : pc[x] = a
  /\ pc' = [x \in RankInfo |-> IF x[2] = 0 THEN l ELSE pc[x]]
  /\ UNCHANGED <<stage, phase, called, mode, sent, stopped>>

(* Thread 0 of every rank goes on, and the threads of its rank fit. *)
LEMMA TogetherControl ==
  ASSUME Control, NEW a \in MasterOnly, NEW l \in AllPCs \ {"call", "start", "run"}, Together(a, l),
         msgCount' \in [Ranks -> Nat],
         NEW n \in Eras, \A x \in Masters : AtEra(x, n)',
         \A x \in RankInfo : x[2] = 0 =>
           /\ l \in InitOnly => stage[x] = "init"
           /\ l \in CompleteOnly => stage[x] = "complete"
           /\ Level(x)' = Level(x),
         \A x, y \in RankInfo : x[1] = y[1] /\ x[2] = 0 /\ y[2] # 0 => Meet(l, pc[y]) /\ pc[y] # "run",
         CountInv', SentInv',
         \A x, y \in Masters :
           /\ stage[x] = stage[y] => Passed(x)' = Passed(y)'
           /\ Post(x)' /\ msgCount'[x[1]] = 0 => Post(y)' /\ msgCount'[y[1]] = 0
  PROVE  Control'
  <1>1. /\ \A x \in RankInfo : x[2] = 0 => pc[x] = a /\ pc'[x] = l
        /\ \A x \in RankInfo : x[2] # 0 => pc'[x] = pc[x]
        /\ UNCHANGED <<stage, phase, called, mode, sent, stopped>>
    BY Layout DEF Together
  <1>2. ControlTypes'
    BY <1>1 DEF Control, ControlTypes, Together
  <1>3. \A x \in RankInfo : Level(x)' = Level(x)
    BY <1>1 DEF Level
  <1>4. \A x \in RankInfo : /\ pc'[x] \in InitOnly => stage[x] = "init"
                            /\ pc'[x] \in CompleteOnly => stage[x] = "complete"
                            /\ pc'[x] \in MasterOnly => x[2] = 0
    BY <1>1 DEF Control, RankInv
  <1>5. \A b, c : Meet(b, b) /\ (Meet(b, c) => Meet(c, b))
    BY DEF Meet
  <1>6. \A x, y \in RankInfo : x[1] = y[1] => Meet(pc'[x], pc'[y])
    <2> SUFFICES ASSUME NEW x \in RankInfo, NEW y \in RankInfo, x[1] = y[1]
                 PROVE  Meet(pc'[x], pc'[y])
      OBVIOUS
    <2>1. CASE x[2] = 0 /\ y[2] = 0
      BY <1>1, <1>5, <2>1
    <2>2. CASE x[2] = 0 /\ y[2] # 0
      BY <1>1, <2>2
    <2>3. CASE x[2] # 0 /\ y[2] = 0
      BY <1>1, <1>5, <2>3
    <2>4. CASE x[2] # 0 /\ y[2] # 0
      BY <1>1, <2>4 DEF Control, RankInv
    <2> QED BY <2>1, <2>2, <2>3, <2>4
  <1>7. \A x, y \in RankInfo : x[1] = y[1] =>
          /\ (pc'[x] = "run" <=> pc'[y] = "run") => stage[x] = stage[y]
          /\ stage[x] = stage[y] => Level(x) = Level(y)
    <2>1. a # "run"
      BY DEF MasterOnly
    <2>2. \A x, y \in RankInfo : x[1] = y[1] /\ x[2] = 0 /\ y[2] # 0 => pc[y] # "run"
      OBVIOUS
    <2>3. \A x \in RankInfo : pc'[x] = "run" <=> pc[x] = "run"
      BY <1>1, <2>1
    <2> QED BY <2>3 DEF Control, RankInv
  <1>8. RankInv'
    BY <1>1, <1>3, <1>4, <1>6, <1>7 DEF RankInv
  <1>9. CalledInv'
    <2>1. a # "call" /\ l # "call"
      BY DEF MasterOnly
    <2> QED BY <1>1, <2>1 DEF Control, CalledInv, OnThread
  <1>10. RanksInv'
    <2>1. \A x, y \in Masters : Era(x, y)'
      BY DEF Era
    <2> QED BY <1>1, <2>1 DEF RanksInv
  <1> QED BY <1>2, <1>8, <1>9, <1>10 DEF Control

(* After the exchange all ranks have the same count. *)
LEMMA ExchangeControl ==
  ASSUME Control, ExchangeRanks PROVE Control'
  <1>1. /\ \A x \in Masters : pc[x] = "ranks"
        /\ msgCount' = [r \in Ranks |-> CountOf(Ranks)]
        /\ Together("ranks", "exchanged")
    BY Layout DEF ExchangeRanks, Masters, Together
  <1>2. CountOf(Ranks) \in Nat /\ (CountOf(Ranks) = 0 <=> \A r \in Ranks : msgCount[r] = 0)
    BY SumOfCounts DEF Control, ControlTypes
  <1> DEFINE total == CountOf(Ranks)
  <1> HIDE DEF total
  <1>3. total \in Nat /\ (total = 0 <=> \A r \in Ranks : msgCount[r] = 0) /\ msgCount' = [r \in Ranks |-> total]
    BY <1>1, <1>2 DEF total
  <1>4. \A x \in RankInfo : IF x[2] = 0 THEN pc[x] = "ranks" ELSE pc[x] = "exchanged"
    <2> TAKE x \in RankInfo
    <2>1. pc[Master(x[1])] = "ranks" /\ Master(x[1]) \in RankInfo /\ Master(x[1])[1] = x[1]
          /\ (x[2] = 0 <=> x = Master(x[1]))
      BY <1>1, Layout
    <2>2. pc[x] \in {"ranks", "exchanged"}
      BY <2>1 DEF Control, RankInv, Meet
    <2> QED BY <2>1, <2>2 DEF Control, RankInv, MasterOnly
  <1>5. \A x \in RankInfo : pc'[x] = "exchanged"
    BY <1>1, <1>4 DEF Together
  <1>6. UNCHANGED <<stage, phase, called, mode, sent, stopped>>
    BY <1>1 DEF Together
  <1>7. ASSUME NEW x \in Masters, NEW y \in Masters
        PROVE  stage[x] = stage[y] /\ phase[x] = phase[y]
    <2>1. Era(x, y) /\ (stage[x] = stage[y] => Passed(x) = Passed(y))
      BY DEF Control, RanksInv
    <2>2. stage[x] = stage[y]
      BY <1>1, <2>1 DEF Era, AtEra, Middle
    <2> QED BY <1>1, <2>1, <2>2 DEF Passed, Level, Turns
  <1>8. ASSUME NEW x \in RankInfo PROVE stage[x] = stage[Master(x[1])] /\ phase[x] = phase[Master(x[1])]
    <2>1. /\ Master(x[1]) \in RankInfo /\ Master(x[1])[1] = x[1]
          /\ pc[x] \in {"ranks", "exchanged"} /\ pc[Master(x[1])] \in {"ranks", "exchanged"}
      BY <1>4, Layout
    <2>2. stage[x] = stage[Master(x[1])] /\ Level(x) = Level(Master(x[1]))
      BY <2>1 DEF Control, RankInv
    <2> QED BY <2>1, <2>2 DEF Level, Turns
  <1>9. PICK n \in Eras : \A x \in Masters : AtEra(x, n)'
    <2>1. Masters \subseteq RankInfo
      BY Layout
    <2>2. CASE \A x \in Masters : stage[x] = "init"
      <3>1. \A x \in Masters : AtEra(x, 3)'
        BY <1>5, <1>6, <2>1, <2>2 DEF AtEra
      <3> QED BY <3>1 DEF Eras
    <2>3. CASE \A x \in Masters : stage[x] = "complete"
      <3>1. \A x \in Masters : AtEra(x, 6)'
        BY <1>5, <1>6, <2>1, <2>3 DEF AtEra
      <3> QED BY <3>1 DEF Eras
    <2>4. \A x \in Masters : stage[x] \in {"init", "complete"}
      BY <2>1 DEF Control, ControlTypes
    <2> QED BY <1>7, <2>2, <2>3, <2>4
  <1>10. \A x \in RankInfo : Level(x)' = Level(x)
    BY <1>4, <1>5, <1>6 DEF Level, Turns
  <1>11. CountInv'
    BY <1>5 DEF CountInv
  <1>12. SentInv'
    <2>1. ASSUME NEW x \in RankInfo PROVE phase[x] <= sent /\ phase[x] <= sent + 1
      BY <1>4 DEF Control, SentInv, Round
    <2>2. ASSUME NEW x \in RankInfo, total # 0 PROVE phase[x] < sent
      <3>1. PICK r \in Ranks : msgCount[r] # 0
        BY <1>3, <2>2
      <3>2. Master(r) \in RankInfo /\ pc[Master(r)] = "ranks" /\ Master(r)[1] = r
        BY <1>1, Layout DEF Masters
      <3>3. phase[Master(r)] < sent
        BY <3>1, <3>2 DEF Control, SentInv, Sending
      <3>4. Master(r) \in Masters /\ Master(x[1]) \in Masters
        BY Layout DEF Masters
      <3> QED BY <1>7, <1>8, <3>3, <3>4
    <2>3. \A x \in RankInfo : x[1] \in Ranks
      BY Layout
    <2> QED BY <1>3, <1>5, <1>6, <2>1, <2>2, <2>3 DEF SentInv
  <1>13. \A x, y \in Masters :
           /\ stage[x] = stage[y] => Passed(x)' = Passed(y)'
           /\ Post(x)' /\ msgCount'[x[1]] = 0 => Post(y)' /\ msgCount'[y[1]] = 0
    BY <1>3, <1>5, <1>6, <1>7, Layout DEF Passed, Post
  <1>14. \A x, y \in RankInfo : x[1] = y[1] /\ x[2] = 0 /\ y[2] # 0 => Meet("exchanged", pc[y]) /\ pc[y] # "run"
    BY <1>4 DEF Meet
  <1>15. /\ "ranks" \in MasterOnly /\ "exchanged" \in AllPCs \ {"call", "start", "run"}
         /\ "exchanged" \notin InitOnly /\ "exchanged" \notin CompleteOnly
    BY DEF MasterOnly, AllPCs, InitOnly, CompleteOnly
  <1>16. msgCount' \in [Ranks -> Nat]
    BY <1>3
  <1> QED BY <1>1, <1>9, <1>10, <1>11, <1>12, <1>13, <1>14, <1>15, <1>16, TogetherControl

(* updateState is met by thread 0 of all ranks at the same place. *)
LEMMA UpdateControl ==
  ASSUME Control, Update PROVE Control'
  <1>1. /\ \A x \in Masters : pc[x] \in {"update0", "update", "lock"}
        /\ pc' = [x \in RankInfo |->
                    IF x[2] # 0 THEN pc[x]
                    ELSE CASE pc[x] = "update0" -> "top"
                           [] pc[x] = "update" -> IF Done(x[1]) THEN "finalize" ELSE "top"
                           [] pc[x] = "lock" -> "setup1"]
        /\ UNCHANGED <<stage, phase, called, mode, msgCount, sent, stopped>>
    BY DEF Update, Updating, Masters, linkVars
  <1>2. \A x \in RankInfo : x[2] = 0 => x \in Masters
    BY Layout
  <1>3. Masters \subseteq RankInfo /\ Master(0) \in Masters
    BY Layout, BaseAssumption DEF Ranks, Masters
  <1> DEFINE m == Master(0)
             a == pc[m]
  <1> HIDE DEF m
  <1>4. m \in Masters /\ m \in RankInfo /\ a \in {"update0", "update", "lock"}
    BY <1>1, <1>3 DEF m
  <1>5. \A x \in Masters : stage[x] = "init"
    BY <1>1, <1>3 DEF Control, RankInv, InitOnly
  <1>6. ASSUME NEW x \in Masters PROVE pc[x] = a /\ phase[x] = phase[m]
               /\ (a = "update" => (Done(x[1]) <=> Done(m[1])))
    <2>1. Era(x, m)
      BY <1>4 DEF Control, RanksInv
    <2>2. pc[x] = a
      BY <1>1, <1>4, <1>5, <2>1 DEF Era, AtEra, Middle, Round
    <2>3. Passed(x) = Passed(m)
      BY <1>4, <1>5 DEF Control, RanksInv
    <2>4. phase[x] = phase[m]
      BY <1>4, <2>2, <2>3 DEF Passed, Level, Turns
    <2>5. a = "update" => Post(x) /\ Post(m)
      BY <2>2 DEF Post
    <2>6. /\ Post(x) /\ msgCount[x[1]] = 0 => msgCount[m[1]] = 0
          /\ Post(m) /\ msgCount[m[1]] = 0 => msgCount[x[1]] = 0
      BY <1>4 DEF Control, RanksInv
    <2> QED BY <2>2, <2>4, <2>5, <2>6 DEF Done
  <1> DEFINE l == IF a = "update0" THEN "top"
                  ELSE IF a = "update" THEN IF Done(m[1]) THEN "finalize" ELSE "top"
                  ELSE "setup1"
  <1>7. /\ a = "update0" => l = "top"
        /\ a = "update" => l = IF Done(m[1]) THEN "finalize" ELSE "top"
        /\ a = "lock" => l = "setup1"
    BY <1>4
  <1> HIDE DEF a, l
  <1>8. \A x \in RankInfo : x[2] = 0 => pc[x] = a /\ pc'[x] = l /\ stage[x] = "init" /\ phase[x] = phase[m]
    <2> SUFFICES ASSUME NEW x \in RankInfo, x[2] = 0
                 PROVE  pc[x] = a /\ pc'[x] = l /\ stage[x] = "init" /\ phase[x] = phase[m]
      OBVIOUS
    <2>1. x \in Masters
      BY <1>2
    <2>2. /\ pc'[x] = CASE pc[x] = "update0" -> "top"
                         [] pc[x] = "update" -> IF Done(x[1]) THEN "finalize" ELSE "top"
                         [] pc[x] = "lock" -> "setup1"
      BY <1>1
    <2>3. pc[x] = a /\ (a = "update" => (Done(x[1]) <=> Done(m[1])))
      BY <1>6, <2>1
    <2>4. pc'[x] = l
      BY <1>4, <1>7, <2>2, <2>3
    <2> QED BY <1>5, <1>6, <2>1, <2>3, <2>4
  <1>9. Together(a, l)
    <2>1. \A x \in Masters : pc[x] = a
      BY <1>6
    <2>2. DOMAIN pc' = RankInfo /\ \A x \in RankInfo : pc'[x] = IF x[2] = 0 THEN l ELSE pc[x]
      BY <1>1, <1>8
    <2>3. pc' = [x \in RankInfo |-> IF x[2] = 0 THEN l ELSE pc[x]]
      BY <1>1, <2>2
    <2> QED BY <1>1, <2>1, <2>3 DEF Together
  <1>10. ASSUME NEW x \in RankInfo, NEW y \in RankInfo, x[1] = y[1], x[2] = 0, y[2] # 0
         PROVE  /\ Meet(a, pc[y]) /\ pc[y] \notin MasterOnly /\ pc'[y] = pc[y]
                /\ pc[y] \in {"decide", "top", "finalize", "setup0", "setup1"}
    <2>1. Meet(a, pc[y]) /\ pc[y] \notin MasterOnly
      BY <1>8, <1>10 DEF Control, RankInv
    <2> QED BY <1>1, <1>4, <1>10, <2>1 DEF Meet, MasterOnly
  <1>11. l \in {"top", "finalize", "setup1"}
    BY <1>4, <1>7
  <1>12. \A x \in RankInfo : x[2] = 0 => Level(x)' = Level(x)
    BY <1>1, <1>4, <1>8, <1>11 DEF Level, Turns
  <1>13. \A x, y \in RankInfo : x[1] = y[1] /\ x[2] = 0 /\ y[2] # 0 => Meet(l, pc[y]) /\ pc[y] # "run"
    <2> SUFFICES ASSUME NEW x \in RankInfo, NEW y \in RankInfo, x[1] = y[1], x[2] = 0, y[2] # 0
                 PROVE  Meet(l, pc[y]) /\ pc[y] # "run"
      OBVIOUS
    <2>1. Meet(a, pc[y]) /\ pc[y] \in {"decide", "top", "finalize", "setup0", "setup1"}
      BY <1>10
    <2>2. CASE a = "update0" \/ a = "lock"
      BY <1>7, <2>1, <2>2 DEF Meet
    <2>3. CASE a = "update"
      <3>1. pc[y] = "top" => ~Done(m[1])
        <4>1. pc[x] = "update" /\ x \in Masters
          BY <1>2, <1>8, <2>3
        <4>2. pc[y] = "top" => msgCount[x[1]] # 0
          BY <4>1 DEF Control, CountInv
        <4> QED BY <1>6, <2>3, <4>1, <4>2 DEF Done
      <3>2. pc[y] \in {"finalize", "setup0"} => Done(m[1])
        <4>1. pc[x] = "update" /\ x \in Masters
          BY <1>2, <1>8, <2>3
        <4>2. pc[y] \in {"finalize", "setup0"} => msgCount[x[1]] = 0
          BY DEF Control, CountInv
        <4> QED BY <1>6, <2>3, <4>1, <4>2 DEF Done
      <3>3. pc[y] \in {"decide", "top", "finalize", "setup0"}
        BY <2>1, <2>3 DEF Meet
      <3> QED BY <1>7, <2>3, <3>1, <3>2, <3>3 DEF Meet
    <2> QED BY <1>4, <2>1, <2>2, <2>3
  <1>14. PICK n \in Eras : \A x \in Masters : AtEra(x, n)'
    <2>1. \A x \in Masters : pc'[x] = l /\ stage'[x] = "init"
      BY <1>1, <1>3, <1>8, Layout
    <2>2. CASE l = "top"
      <3>1. \A x \in Masters : AtEra(x, 2)'
        BY <2>1, <2>2 DEF AtEra, Round
      <3> QED BY <3>1 DEF Eras
    <2>3. CASE l = "finalize"
      <3>1. \A x \in Masters : AtEra(x, 4)'
        BY <2>1, <2>3 DEF AtEra
      <3> QED BY <3>1 DEF Eras
    <2>4. CASE l = "setup1"
      <3>1. \A x \in Masters : AtEra(x, 5)'
        BY <2>1, <2>4 DEF AtEra, Middle
      <3> QED BY <3>1 DEF Eras
    <2> QED BY <1>11, <2>2, <2>3, <2>4
  <1>15. CountInv'
    <2>1. ASSUME NEW x \in RankInfo
          PROVE  /\ pc'[x] = "start" /\ x[2] = 0 => msgCount[x[1]] = 0
                 /\ pc'[x] \in {"finalize", "setup0", "ended", "end"} => msgCount[x[1]] = 0
      <3>1. CASE x[2] # 0
        BY <1>1, <3>1 DEF Control, CountInv
      <3>2. CASE x[2] = 0
        <4>1. pc'[x] = l /\ x \in Masters
          BY <1>2, <1>8, <3>2
        <4>2. l = "finalize" => Done(x[1])
          BY <1>4, <1>6, <1>7, <4>1
        <4> QED BY <1>11, <4>1, <4>2 DEF Done
      <3> QED BY <3>1, <3>2
    <2>2. ASSUME NEW x \in RankInfo, NEW y \in RankInfo,
                 x[1] = y[1], pc'[x] \in {"decide", "update"}, pc'[y] = "top"
          PROVE  msgCount[x[1]] # 0
      <3>1. x[2] # 0 /\ pc[x] = pc'[x]
        BY <1>1, <1>8, <1>11, <2>2
      <3>2. CASE y[2] # 0
        BY <1>1, <2>2, <3>1, <3>2 DEF Control, CountInv
      <3>3. CASE y[2] = 0
        <4>1. l = "top" /\ y \in Masters /\ pc[y] = a
          BY <1>2, <1>8, <2>2, <3>3
        <4>2. Meet(a, pc[x]) /\ pc[x] = "decide"
          BY <1>10, <2>2, <3>1, <3>3
        <4>3. a = "update"
          BY <1>4, <4>2 DEF Meet
        <4>4. ~Done(m[1])
          BY <1>7, <4>1, <4>3
        <4> QED BY <1>6, <2>2, <4>1, <4>3, <4>4 DEF Done
      <3> QED BY <3>2, <3>3
    <2> QED BY <1>1, <2>1, <2>2 DEF CountInv
  <1>16. SentInv'
    <2> SUFFICES ASSUME NEW x \in RankInfo
                 PROVE  /\ phase[x] <= sent + 1
                        /\ pc'[x] \in {"init0", "update0", "exchanged", "decide"} \cup Round => phase[x] <= sent
                        /\ pc'[x] \in Sending \cup {"exchanged", "decide"} /\ msgCount[x[1]] # 0 => phase[x] < sent
                        /\ pc'[x] = "update" /\ msgCount[x[1]] # 0 => phase[x] <= sent
      BY <1>1 DEF SentInv
    <2>1. CASE x[2] # 0
      BY <1>1, <2>1 DEF Control, SentInv
    <2>2. CASE x[2] = 0
      <3>1. pc[x] = a /\ pc'[x] = l /\ x \in Masters
        BY <1>2, <1>8, <2>2
      <3>2. l = "top" => a = "update0" \/ (a = "update" /\ msgCount[x[1]] # 0)
        BY <1>4, <1>6, <1>7, <3>1 DEF Done
      <3>3. l = "top" => phase[x] <= sent
        BY <3>1, <3>2 DEF Control, SentInv
      <3> QED BY <1>11, <3>1, <3>3 DEF Control, SentInv, Round, Sending
    <2> QED BY <2>1, <2>2
  <1>17. \A x, y \in Masters :
           /\ stage[x] = stage[y] => Passed(x)' = Passed(y)'
           /\ Post(x)' /\ msgCount'[x[1]] = 0 => Post(y)' /\ msgCount'[y[1]] = 0
    <2>1. \A x \in Masters : pc'[x] = l /\ phase'[x] = phase[m]
      BY <1>1, <1>3, <1>8, Layout
    <2> QED BY <1>11, <2>1 DEF Passed, Level, Turns, Post
  <1>18. /\ a \in MasterOnly /\ l \in AllPCs \ {"call", "start", "run"}
         /\ l \notin CompleteOnly
    BY <1>4, <1>11 DEF MasterOnly, AllPCs, CompleteOnly
  <1>19. msgCount' \in [Ranks -> Nat]
    BY <1>1 DEF Control, ControlTypes
  <1>20. \A x \in RankInfo : x[2] = 0 =>
           /\ l \in InitOnly => stage[x] = "init"
           /\ l \in CompleteOnly => stage[x] = "complete"
           /\ Level(x)' = Level(x)
    BY <1>8, <1>12, <1>18
  <1> QED BY <1>9, <1>13, <1>14, <1>15, <1>16, <1>17, <1>18, <1>19, <1>20, TogetherControl

(* Every step keeps the threads together. *)
LEMMA ControlNext ==
  ASSUME Control, Next \/ UNCHANGED vars PROVE Control'
  <1>1. ASSUME UNCHANGED <<pc, stage, phase, called, mode, linkVars, stopped>>
        PROVE  Control'
    BY <1>1 DEF linkVars, Control, ControlTypes, RankInv, CalledInv, CountInv, RanksInv, SentInv,
                OnThread, Level, Era, AtEra, Middle, Passed, Post
  <1>2. ASSUME NEW r \in Ranks, Barrier(r) \/ Reset(r) PROVE Control'
    BY <1>2, BarrierControl, ResetControl
  <1>3. ASSUME NEW x \in RankInfo, Step(x) PROVE Control'
    BY <1>1, <1>3, CallControl, ProcessControl, DecideControl, FinalizeControl, SetupControl, RunControl,
       PrepareControl DEF Step, Share
  <1> QED BY <1>1, <1>2, <1>3, ExchangeControl, UpdateControl DEF Next, Ended, vars

----------------------------------------------------------------------------
(* Where the data is.                                                      *)

(* What a component has not read yet. *)
LEMMA LeftIs ==
  ASSUME NEW q \in Seq(Msgs), NEW x \in RankInfo, phase[x] \in Nat
  PROVE  \E n \in 0 .. Len(q) :
           /\ Left(x, q) \in Seq(Msgs) /\ Len(Left(x, q)) = Len(q) - n
           /\ \A i \in 1 .. Len(q) - n : Left(x, q)[i] = q[n + i]
           /\ n < Len(q) => q[n + 1].time > phase[x]
  <1> DEFINE Good(i) == /\ \A j \in 1 .. i : q[j].time <= phase[x]
                        /\ i < Len(q) => q[i + 1].time > phase[x]
             late == {i \in 0 .. Len(q) : i < Len(q) => q[i + 1].time > phase[x]}
  <1>1. Len(q) \in Nat /\ \A i \in 1 .. Len(q) : q[i] \in Msgs /\ q[i].time \in Nat
    <2>1. Len(q) \in Nat /\ \A i \in 1 .. Len(q) : q[i] \in Msgs
      OBVIOUS
    <2>2. \A e \in Msgs : e.time \in Nat
      BY DEF Msgs
    <2> QED BY <2>1, <2>2
  <1>2. \E i \in 0 .. Len(q) : Good(i)
    <2>1. late \in SUBSET Nat /\ Len(q) \in late
      BY <1>1
    <2> HIDE DEF late
    <2>2. PICK m \in late : \A u \in late : m <= u
      BY <2>1, LeastOf
    <2> USE DEF late
    <2>3. m \in 0 .. Len(q) /\ (m < Len(q) => q[m + 1].time > phase[x])
      BY <2>2
    <2>4. ASSUME NEW j \in 1 .. m PROVE q[j].time <= phase[x]
      <3>1. j - 1 \in 0 .. Len(q) /\ j - 1 \notin late
        <4>1. m \in Nat /\ Len(q) \in Nat /\ m <= Len(q)
          BY <1>1, <2>3
        <4>2. j - 1 \in 0 .. Len(q) /\ ~(m <= j - 1)
          BY <4>1
        <4> HIDE DEF late
        <4> QED BY <2>2, <4>2
      <3>2. j - 1 < Len(q) /\ ~(q[(j - 1) + 1].time > phase[x])
        BY <3>1
      <3>3. (j - 1) + 1 = j /\ j \in 1 .. Len(q)
        BY <1>1, <2>3, <3>2
      <3>4. q[j].time \in Nat /\ ~(q[j].time > phase[x])
        BY <1>1, <3>2, <3>3
      <3> QED BY <3>4
    <2> QED BY <2>3, <2>4
  <1> DEFINE n == CHOOSE i \in 0 .. Len(q) : Good(i)
  <1>3. n \in 0 .. Len(q) /\ Good(n)
    <2> HIDE DEF Good
    <2> QED BY <1>2
  <1>4. Readable(x, q) = SubSeq(q, 1, n)
    BY DEF Readable
  <1> HIDE DEF n
  <1>5. Len(Readable(x, q)) = n
    BY <1>1, <1>3, <1>4, SubSeqProperties
  <1>6. Left(x, q) = SubSeq(q, n + 1, Len(q))
    BY <1>5 DEF Left
  <1>7. n + 1 \in 1 .. Len(q) + 1 /\ Len(q) \in n .. Len(q)
    BY <1>1, <1>3
  <1>8. /\ SubSeq(q, n + 1, Len(q)) \in Seq(Msgs)
        /\ Len(SubSeq(q, n + 1, Len(q))) = Len(q) - n
        /\ \A i \in 1 .. Len(q) - n : SubSeq(q, n + 1, Len(q))[i] = q[n + i]
    BY <1>1, <1>3, <1>7, SubSeqProperties
  <1> QED BY <1>3, <1>6, <1>8

ChannelTypes == transit \in [Channels -> Seq(Msgs)] /\ inbox \in [Channels -> Seq(Msgs)]

(* The threads at the two ends of a channel. *)
LEMMA Ends ==
  ASSUME NEW ch \in Channels
  PROVE  /\ ch[1] \in Comps /\ ch[2] \in Comps
         /\ Home[ch[1]] \in RankInfo /\ Home[ch[2]] \in RankInfo
         /\ Home[ch[1]][1] \in Ranks /\ Home[ch[2]][1] \in Ranks
         /\ IsLocal(ch) <=> Home[ch[1]] = Home[ch[2]]
         /\ SameRank(ch) <=> Home[ch[1]][1] = Home[ch[2]][1]
         /\ ch[2] \in OnThread(Home[ch[2]])
  <1>1. ch[1] \in Comps /\ ch[2] \in Comps
    BY LifeAssumption
  <1> QED BY <1>1, BaseAssumption DEF RankInfo, IsLocal, SameRank, OnThread

(* The rounds are bounded by the messages, and come before the run. *)
LEMMA PhaseBound ==
  ASSUME Control PROVE phase \in [RankInfo -> 0 .. Late - 1]
  <1>1. ASSUME NEW x \in RankInfo PROVE phase[x] \in 0 .. Late - 1
    <2>1. phase[x] \in Nat /\ phase[x] <= sent + 1 /\ sent \in Nat /\ sent <= MaxSends
      BY LifeAssumption DEF Control, ControlTypes, SentInv
    <2>2. MaxSends \in Nat /\ Late \in Nat /\ Late > MaxSends + 1
      BY LifeAssumption
    <2> QED BY <2>1, <2>2
  <1> QED BY <1>1 DEF Control, ControlTypes

(* What the elements of a queue are. *)
LEMMA ElementsAre ==
  ASSUME NEW q \in Seq(Msgs)
  PROVE  /\ Len(q) \in Nat /\ DOMAIN q = 1 .. Len(q)
         /\ \A i \in DOMAIN q : q[i] \in Msgs /\ q[i].time \in Nat /\ q[i].nth \in Int
  <1>1. Len(q) \in Nat /\ DOMAIN q = 1 .. Len(q) /\ \A i \in DOMAIN q : q[i] \in Msgs
    OBVIOUS
  <1>2. \A e \in Msgs : e.time \in Nat /\ e.nth \in Int
    BY LifeAssumption DEF Msgs
  <1> QED BY <1>1, <1>2

(* A queue without elements is empty. *)
LEMMA NoElements ==
  ASSUME NEW q \in Seq(Msgs), DOMAIN q = {} PROVE q = <<>>
  <1>1. Len(q) \in Nat /\ DOMAIN q = 1 .. Len(q)
    BY ElementsAre
  <1>2. Len(q) = 0
    <2>1. Len(q) > 0 => 1 \in DOMAIN q
      BY <1>1
    <2> QED BY <1>1, <2>1
  <1> QED BY <1>2

(* All data of an InitQueue fits after a step if each does. *)
LEMMA FitsAll ==
  ASSUME NEW ch \in Channels,
         \A i \in DOMAIN inbox'[ch] : \A t : t = inbox'[ch][i].time => Fits(ch, t)'
  PROVE  InboxAt(ch)'
  BY DEF InboxAt, Fits

(* The data stays where it is. *)
LEMMA TransitStays ==
  ASSUME NEW ch \in Channels, TransitAt(ch), InOrder(transit[ch]), transit'[ch] = transit[ch],
         sent \in Nat, sent' \in Nat, sent <= sent',
         transit[ch] \in Seq(Msgs),
         transit[ch] # <<>> /\ OnWay(ch) => OnWay(ch)' /\ phase'[Home[ch[1]]] = phase[Home[ch[1]]]
  PROVE  TransitAt(ch)' /\ InOrder(transit[ch])'
  <1>1. TransitAt(ch)'
    <2>1. CASE transit[ch] = <<>>
      BY <2>1 DEF TransitAt
    <2>2. CASE transit[ch] # <<>>
      <3>1. OnWay(ch) /\ ~IsLocal(ch)
        BY <2>2 DEF TransitAt
      <3>2. OnWay(ch)' /\ phase'[Home[ch[1]]] = phase[Home[ch[1]]]
        BY <2>2, <3>1
      <3>3. ~IsLocal(ch)'
        BY <3>1 DEF IsLocal
      <3> QED BY <3>2, <3>3 DEF TransitAt
    <2> QED BY <2>1, <2>2
  <1>2. \A i \in DOMAIN transit[ch] : transit[ch][i].nth \in Int
    BY ElementsAre
  <1> QED BY <1>1, <1>2 DEF InOrder

(* The same for what is at the receiver, *)
LEMMA InboxStays ==
  ASSUME NEW ch \in Channels, InboxAt(ch), InOrder(inbox[ch]), inbox'[ch] = inbox[ch],
         sent \in Nat, sent' \in Nat, sent <= sent',
         inbox[ch] \in Seq(Msgs),
         \A t : Fits(ch, t) => Fits(ch, t)'
  PROVE  InboxAt(ch)' /\ InOrder(inbox[ch])'
  <1>1. InboxAt(ch)'
    <2>1. \A i \in DOMAIN inbox[ch] : Fits(ch, inbox[ch][i].time)
      BY DEF InboxAt
    <2>2. ASSUME NEW i \in DOMAIN inbox'[ch], NEW t, t = inbox'[ch][i].time PROVE Fits(ch, t)'
      <3>1. Fits(ch, t)
        BY <2>1, <2>2
      <3> QED BY <3>1
    <2> QED BY <2>2, FitsAll
  <1>2. \A i \in DOMAIN inbox[ch] : inbox[ch][i].nth \in Int
    BY ElementsAre
  <1> QED BY <1>1, <1>2 DEF InOrder

(* and for both, by a step that sends nothing. *)
LEMMA DataStays ==
  ASSUME Control, ChannelTypes, sent' = sent,
         NEW ch \in Channels, InChannel(ch), transit'[ch] = transit[ch], inbox'[ch] = inbox[ch],
         transit[ch] # <<>> /\ OnWay(ch) => OnWay(ch)' /\ phase'[Home[ch[1]]] = phase[Home[ch[1]]],
         \A t : Fits(ch, t) => Fits(ch, t)'
  PROVE  InChannel(ch)'
  <1>1. sent \in Nat
    BY LifeAssumption DEF Control, ControlTypes
  <1>2. transit[ch] \in Seq(Msgs) /\ inbox[ch] \in Seq(Msgs)
    BY DEF ChannelTypes
  <1>3. TransitAt(ch)' /\ InOrder(transit[ch])'
    BY <1>1, <1>2, TransitStays DEF InChannel
  <1>4. InboxAt(ch)' /\ InOrder(inbox[ch])'
    BY <1>1, <1>2, InboxStays DEF InChannel
  <1> QED BY <1>3, <1>4 DEF InChannel

(* A barrier moves no data, and the data stays where it belongs. *)
LEMMA BarrierChannels ==
  ASSUME Control, ChannelTypes, NEW r \in Ranks, Barrier(r), NEW ch \in Channels, InChannel(ch)
  PROVE  InChannel(ch)'
  <1> DEFINE x == Home[ch[1]]
             y == Home[ch[2]]
  <1>1. PICK a \in {"init0", "top", "start", "called", "processed", "exchanged", "setup0", "setup1",
                    "setup2", "complete0", "ended"} :
           /\ \A z \in RankInfo : /\ z[1] = r => pc[z] = a /\ pc'[z] \in Onward(z, a)
                                  /\ z[1] # r => pc'[z] = pc[z]
           /\ UNCHANGED <<stage, phase, called, mode, linkVars, stopped>>
    BY BarrierEffect
  <1>2. UNCHANGED <<phase, called, msgCount, transit, inbox, sent>>
    BY <1>1 DEF linkVars
  <1>3. /\ x \in RankInfo /\ y \in RankInfo /\ ch[2] \in OnThread(y)
        /\ Master(x[1]) \in RankInfo /\ Master(x[1])[1] = x[1] /\ Master(x[1])[2] = 0
        /\ Master(y[1]) \in RankInfo /\ Master(y[1])[1] = y[1] /\ Master(y[1])[2] = 0
        /\ SameRank(ch) <=> x[1] = y[1]
    BY Ends, Layout
  <1> HIDE DEF x, y
  <1>4. ASSUME OnWay(ch) PROVE OnWay(ch)'
    <2>0. /\ SendingNow(x) /\ msgCount[x[1]] # 0
          /\ SameRank(ch) => pc[y] \in {"call", "called", "process"}
      BY <1>4 DEF OnWay, x, y
    <2>1. SendingNow(x)' /\ (SameRank(ch) => pc'[y] \in {"call", "called", "process"})
      <3>1. CASE x[1] = r
        <4>1. pc[x] = a /\ pc[Master(x[1])] = a
          BY <1>1, <1>3, <3>1
        <4>2. a \in {"called", "processed"}
          BY <1>1, <2>0, <4>1 DEF SendingNow, Sending
        <4>3. SendingNow(x)'
          BY <1>1, <1>3, <3>1, <4>2 DEF SendingNow, Sending, Onward
        <4>4. ASSUME SameRank(ch) PROVE pc'[y] \in {"call", "called", "process"}
          <5>1. y[1] = r /\ pc[y] = a
            BY <1>1, <1>3, <3>1, <4>4
          <5>2. a = "called"
            BY <2>0, <4>2, <4>4, <5>1
          <5> QED BY <1>1, <1>3, <5>1, <5>2 DEF Onward
        <4> QED BY <4>3, <4>4
      <3>2. CASE x[1] # r
        BY <1>1, <1>3, <2>0, <3>2 DEF SendingNow
      <3> QED BY <3>1, <3>2
    <2>2. SameRank(ch)' = SameRank(ch)
      BY DEF SameRank
    <2> QED BY <1>2, <2>0, <2>1, <2>2 DEF OnWay, x, y
  <1>5. ASSUME NEW t, Fits(ch, t) PROVE Fits(ch, t)'
    <2>0. /\ t \in Waiting(ch)
          /\ pc[y] \in Sending \cup {"exchanged", "decide"} /\ t = phase[y] + 1 => msgCount[y[1]] # 0
          /\ pc[y] = "update" => msgCount[y[1]] # 0
      BY <1>5 DEF Fits, y
    <2>1. CASE y[1] # r
      <3>1. pc'[y] = pc[y] /\ pc'[Master(y[1])] = pc[Master(y[1])]
        BY <1>1, <1>3, <2>1
      <3>2. Waiting(ch)' = Waiting(ch)
        BY <1>2, <3>1 DEF Waiting, Fresh, Here, Exchanged, IsLocal, SameRank, y
      <3> QED BY <1>2, <2>0, <3>1, <3>2 DEF Fits, y
    <2>2. CASE y[1] = r
      <3>1. pc[y] = a /\ pc'[y] \in Onward(y, a)
            /\ pc[Master(y[1])] = a /\ pc'[Master(y[1])] \in Onward(Master(y[1]), a)
        BY <1>1, <1>3, <2>2
      <3>2. OnThread(y) # {} /\ (a = "start" => ch[2] \notin called)
        BY <1>3, <3>1 DEF Control, CalledInv
      <3>3. Fresh(ch) \subseteq Fresh(ch)'
        <4>1. Here(ch) => Here(ch)'
          BY <1>1, <3>1, <1>3 DEF Here, Exchanged, IsLocal, SameRank, Onward, y
        <4> QED BY <1>2, <4>1 DEF Fresh
      <3>4. t \in Waiting(ch)'
        BY <1>1, <1>2, <2>0, <3>1, <3>2, <3>3 DEF Waiting, Onward, Sending, y
      <3>5. a = "start" => t = phase[y]
        BY <2>0, <3>1 DEF Waiting, y
      <3>6. phase[y] \in Nat
        BY <1>3 DEF Control, ControlTypes
      <3>7. pc'[y] \in Sending \cup {"exchanged", "decide"} /\ t = phase[y] + 1 => msgCount[y[1]] # 0
        BY <1>1, <2>0, <3>1, <3>5, <3>6 DEF Onward, Sending
      <3>8. pc'[y] # "update"
        BY <1>1, <3>1 DEF Onward
      <3> QED BY <1>2, <3>4, <3>7, <3>8 DEF Fits, y
    <2> QED BY <2>1, <2>2
  <1> QED BY <1>2, <1>4, <1>5, DataStays

(* A thread that sends nothing goes to l; the data of others is as before. *)
Quietly(x, l) ==
  /\ pc' = [pc EXCEPT ![x] = l] /\ pc[x] \notin Sending \cup {"exchanged"}
  /\ l \notin Sending \cup {"exchanged"}
  /\ \A z \in RankInfo \ {x} : phase'[z] = phase[z]
  /\ UNCHANGED <<called, msgCount, sent, transit>>

(* Such a step changes what is at its own InitQueues at most. *)
LEMMA QuietChannels ==
  ASSUME Control, ChannelTypes, NEW x \in RankInfo, NEW l, Quietly(x, l),
         NEW ch \in Channels, InChannel(ch),
         IF ch \in Into(x) THEN InboxAt(ch)' /\ InOrder(inbox[ch])' ELSE inbox'[ch] = inbox[ch]
  PROVE  InChannel(ch)'
  <1> DEFINE s == Home[ch[1]]
             y == Home[ch[2]]
  <1>1. /\ pc[x] \notin Sending \cup {"exchanged"} /\ l \notin Sending \cup {"exchanged"}
        /\ \A z \in RankInfo \ {x} : phase'[z] = phase[z] /\ pc'[z] = pc[z]
        /\ pc'[x] = l
        /\ UNCHANGED <<called, msgCount, sent, transit>>
    BY DEF Quietly, Control, ControlTypes
  <1>2. /\ s \in RankInfo /\ y \in RankInfo /\ ch[2] \in OnThread(y)
        /\ Master(s[1]) \in RankInfo /\ Master(y[1]) \in RankInfo
        /\ (ch \in Into(x) <=> y = x)
    BY Ends, Layout DEF Into
  <1>3. sent \in Nat /\ transit[ch] \in Seq(Msgs) /\ inbox[ch] \in Seq(Msgs)
    BY LifeAssumption DEF Control, ControlTypes, ChannelTypes
  <1> HIDE DEF s, y
  <1>4. \A z \in RankInfo : (pc[z] = "ranks" <=> pc'[z] = "ranks")
    BY <1>1 DEF Sending
  <1>5. ASSUME OnWay(ch) PROVE OnWay(ch)' /\ phase'[s] = phase[s]
    <2>0. /\ SendingNow(s) /\ msgCount[s[1]] # 0
          /\ SameRank(ch) => pc[y] \in {"call", "called", "process"}
      BY <1>5 DEF OnWay, s, y
    <2>1. s # x
      BY <1>1, <2>0 DEF SendingNow
    <2>2. pc'[s] = pc[s] /\ phase'[s] = phase[s]
      BY <1>1, <1>2, <2>1
    <2>3. SendingNow(s)'
      BY <1>2, <1>4, <2>0, <2>2 DEF SendingNow
    <2>4. SameRank(ch) => pc'[y] \in {"call", "called", "process"}
      BY <1>1, <1>2, <2>0 DEF Sending
    <2>5. SameRank(ch)' = SameRank(ch)
      BY DEF SameRank
    <2> QED BY <1>1, <2>0, <2>2, <2>3, <2>4, <2>5 DEF OnWay, s, y
  <1>6. TransitAt(ch)' /\ InOrder(transit[ch])'
    <2>1. transit[ch] # <<>> /\ OnWay(ch) => OnWay(ch)' /\ phase'[Home[ch[1]]] = phase[Home[ch[1]]]
      BY <1>5 DEF s
    <2> QED BY <1>1, <1>3, <2>1, TransitStays DEF InChannel
  <1>7. InboxAt(ch)' /\ InOrder(inbox[ch])'
    <2>1. CASE y = x
      BY <1>2, <2>1
    <2>2. CASE y # x
      <3>1. pc'[y] = pc[y] /\ phase'[y] = phase[y]
        BY <1>1, <1>2, <2>2
      <3>2. Waiting(ch)' = Waiting(ch)
        BY <1>1, <1>2, <1>4, <3>1 DEF Waiting, Fresh, Here, Exchanged, IsLocal, SameRank, y
      <3>3. \A t : Fits(ch, t) => Fits(ch, t)'
        BY <1>1, <3>1, <3>2 DEF Fits, y
      <3> QED BY <1>1, <1>2, <1>3, <2>2, <3>3, InboxStays DEF InChannel
    <2> QED BY <2>1, <2>2
  <1> QED BY <1>6, <1>7 DEF InChannel

(* In an empty InitQueue everything is in order. *)
LEMMA EmptyInbox ==
  ASSUME NEW ch \in Channels, inbox'[ch] = <<>> PROVE InboxAt(ch)' /\ InOrder(inbox[ch])'
  BY DEF InboxAt, InOrder

(* finalizeLinkConfiguration and prepareForComplete empty the InitQueues.  *)
LEMMA EmptyChannels ==
  ASSUME Control, ChannelTypes, NEW x \in RankInfo, Finalize(x) \/ Prepare(x),
         NEW ch \in Channels, InChannel(ch)
  PROVE  InChannel(ch)'
  <1>1. inbox' = [c \in Channels |-> IF c \in Into(x) THEN <<>> ELSE inbox[c]]
    BY DEF Finalize, Prepare
  <1>2. IF ch \in Into(x) THEN InboxAt(ch)' /\ InOrder(inbox[ch])' ELSE inbox'[ch] = inbox[ch]
    BY <1>1, EmptyInbox
  <1>3. CASE Finalize(x)
    <2>1. Quietly(x, "setup0")
      BY <1>3 DEF Finalize, Goto, Quietly, Sending
    <2> QED BY <1>2, <2>1, QuietChannels
  <1>4. CASE Prepare(x)
    <2>1. Quietly(x, "top")
      BY <1>4 DEF Prepare, Goto, Quietly, Sending, Control, ControlTypes
    <2> QED BY <1>2, <2>1, QuietChannels
  <1> QED BY <1>3, <1>4

(* After setup() and the run nobody finds anything in an InitQueue.        *)
LEMMA SetupChannels ==
  ASSUME Control, ChannelTypes, NEW x \in RankInfo, Setup(x) \/ (Run(x) /\ ~stopped),
         NEW ch \in Channels, InChannel(ch)
  PROVE  InChannel(ch)'
  <1>1. /\ pc[x] \in {"setup", "run"} /\ inbox' = inbox /\ sent' = sent
        /\ (Quietly(x, "setup2") \/ Quietly(x, "complete0"))
    <2>1. CASE Setup(x)
      BY <2>1 DEF Setup, Goto, Quietly, Sending, linkVars
    <2>2. CASE Run(x) /\ ~stopped
      <3>1. transit' = transit
        BY <2>2 DEF Run, ChannelTypes
      <3> QED BY <2>2, <3>1 DEF Run, Goto, Quietly, Sending
    <2> QED BY <2>1, <2>2
  <1>2. ASSUME ch \in Into(x) PROVE inbox[ch] = <<>>
    <2>1. Home[ch[2]] = x /\ inbox[ch] \in Seq(Msgs)
      BY <1>2 DEF Into, ChannelTypes
    <2>2. Waiting(ch) = {}
      BY <1>1, <2>1 DEF Waiting, Sending
    <2>3. DOMAIN inbox[ch] = {}
      BY <2>2 DEF InChannel, InboxAt, Fits
    <2> QED BY <2>1, <2>3, NoElements
  <1>3. IF ch \in Into(x) THEN InboxAt(ch)' /\ InOrder(inbox[ch])' ELSE inbox'[ch] = inbox[ch]
    BY <1>1, <1>2, EmptyInbox
  <1> QED BY <1>1, <1>3, QuietChannels

(* The end of a round: what is there is for the next one. *)
LEMMA DecideChannels ==
  ASSUME Control, ChannelTypes, NEW x \in RankInfo, Decide(x), NEW ch \in Channels, InChannel(ch)
  PROVE  InChannel(ch)'
  <1> DEFINE l == IF stage[x] = "init" /\ x[2] = 0 THEN "update"
                  ELSE IF msgCount[x[1]] # 0 THEN "top"
                  ELSE IF stage[x] = "init" THEN "finalize" ELSE "ended"
  <1>1. /\ pc[x] = "decide" /\ pc' = [pc EXCEPT ![x] = l]
        /\ phase' = [phase EXCEPT ![x] = @ + 1]
        /\ UNCHANGED <<stage, called, mode, msgCount, sent, stopped, transit, inbox>>
    BY DEF Decide, Goto, linkVars
  <1>2. /\ pc'[x] = l /\ phase[x] \in Nat /\ phase'[x] = phase[x] + 1
        /\ \A z \in RankInfo \ {x} : phase'[z] = phase[z]
        /\ l \in {"update", "top", "finalize", "ended"}
        /\ l \in {"finalize", "ended"} => msgCount[x[1]] = 0
    BY <1>1 DEF Control, ControlTypes
  <1>9. l \in {"finalize", "ended"} => msgCount[x[1]] = 0
    BY <1>2
  <1> HIDE DEF l
  <1>3. Quietly(x, l)
    BY <1>1, <1>2 DEF Quietly, Sending
  <1>4. ASSUME ch \in Into(x) PROVE InboxAt(ch)' /\ InOrder(inbox[ch])'
    <2>1. Home[ch[2]] = x
      BY <1>4 DEF Into
    <2>2. ASSUME NEW t, Fits(ch, t) PROVE Fits(ch, t)'
      <3>1. t = phase[x] + 1
        BY <1>1, <2>1, <2>2 DEF Fits, Waiting, Fresh, Sending
      <3>2. msgCount[x[1]] # 0
        BY <1>1, <2>1, <2>2, <3>1 DEF Fits
      <3>3. l \in {"update", "top"}
        BY <1>2, <1>9, <3>2
      <3>4. t \in Waiting(ch)'
        BY <1>2, <2>1, <3>1, <3>3 DEF Waiting
      <3> QED BY <1>1, <1>2, <2>1, <3>2, <3>3, <3>4 DEF Fits, Sending
    <2>3. sent \in Nat /\ inbox[ch] \in Seq(Msgs)
      BY LifeAssumption DEF Control, ControlTypes, ChannelTypes
    <2> QED BY <1>1, <2>2, <2>3, InboxStays DEF InChannel
  <1> QED BY <1>1, <1>3, <1>4, QuietChannels

(* The count is reset when nothing is on its way. *)
LEMMA ResetChannels ==
  ASSUME Control, ChannelTypes, NEW r \in Ranks, Reset(r), NEW ch \in Channels, InChannel(ch)
  PROVE  InChannel(ch)'
  <1> DEFINE s == Home[ch[1]]
             y == Home[ch[2]]
             m == Master(r)
  <1>1. /\ m \in RankInfo /\ m[1] = r /\ pc[m] = "reset"
        /\ pc' = [pc EXCEPT ![m] = "start"] /\ msgCount' = [msgCount EXCEPT ![r] = 0]
        /\ UNCHANGED <<phase, called, sent, transit, inbox>>
    BY Layout DEF Reset, Goto
  <1>2. /\ s \in RankInfo /\ y \in RankInfo /\ s[1] \in Ranks /\ y[1] \in Ranks
        /\ Master(s[1]) \in RankInfo /\ Master(y[1]) \in RankInfo
    BY Ends, Layout
  <1> HIDE DEF s, y, m
  <1>3. /\ pc'[m] = "start" /\ \A z \in RankInfo \ {m} : pc'[z] = pc[z]
        /\ \A q \in Ranks \ {r} : msgCount'[q] = msgCount[q]
    BY <1>1 DEF Control, ControlTypes
  <1>4. \A z \in RankInfo : z[1] = r => pc[z] \in {"reset", "start"} /\ pc'[z] \in {"reset", "start"}
    BY <1>1, <1>3 DEF Control, RankInv, Meet
  <1>5. ASSUME OnWay(ch) PROVE OnWay(ch)'
    <2>0. /\ SendingNow(s) /\ msgCount[s[1]] # 0
          /\ SameRank(ch) => pc[y] \in {"call", "called", "process"}
      BY <1>5 DEF OnWay, s, y
    <2>1. s[1] # r
      BY <1>2, <1>4, <2>0 DEF SendingNow, Sending
    <2>2. pc'[s] = pc[s] /\ msgCount'[s[1]] = msgCount[s[1]]
      BY <1>1, <1>2, <1>3, <2>1
    <2>3. SendingNow(s)'
      BY <1>1, <1>2, <1>3, <2>0, <2>2 DEF SendingNow
    <2>4. SameRank(ch) => pc'[y] \in {"call", "called", "process"}
      BY <1>1, <1>2, <1>3, <2>0
    <2>5. SameRank(ch)' = SameRank(ch)
      BY DEF SameRank
    <2> QED BY <2>0, <2>2, <2>3, <2>4, <2>5 DEF OnWay, s, y
  <1>6. ASSUME NEW t, Fits(ch, t) PROVE Fits(ch, t)'
    <2>0. /\ t \in Waiting(ch)
          /\ pc[y] \in Sending \cup {"exchanged", "decide"} /\ t = phase[y] + 1 => msgCount[y[1]] # 0
          /\ pc[y] = "update" => msgCount[y[1]] # 0
      BY <1>6 DEF Fits, y
    <2>1. CASE y[1] = r
      <3>1. t \in Waiting(ch)'
        BY <1>1, <1>2, <1>4, <2>0, <2>1 DEF Waiting, y
      <3> QED BY <1>2, <1>4, <2>1, <3>1 DEF Fits, Sending, y
    <2>2. CASE y[1] # r
      <3>1. pc'[y] = pc[y] /\ msgCount'[y[1]] = msgCount[y[1]]
        BY <1>1, <1>2, <1>3, <2>2
      <3>2. pc[Master(y[1])] = "ranks" <=> pc'[Master(y[1])] = "ranks"
        BY <1>1, <1>2, <1>3
      <3>3. Waiting(ch)' = Waiting(ch)
        BY <1>1, <3>1, <3>2 DEF Waiting, Fresh, Here, Exchanged, IsLocal, SameRank, y
      <3> QED BY <1>1, <2>0, <3>1, <3>3 DEF Fits, y
    <2> QED BY <2>1, <2>2
  <1> QED BY <1>1, <1>5, <1>6, DataStays

(* updateState moves no data. *)
LEMMA UpdateChannels ==
  ASSUME Control, ChannelTypes, Update, NEW ch \in Channels, InChannel(ch)
  PROVE  InChannel(ch)'
  <1> DEFINE s == Home[ch[1]]
             y == Home[ch[2]]
  <1>1. /\ \A x \in Masters : pc[x] \in {"update0", "update", "lock"}
        /\ pc' = [x \in RankInfo |->
                    IF x[2] # 0 THEN pc[x]
                    ELSE CASE pc[x] = "update0" -> "top"
                           [] pc[x] = "update" -> IF Done(x[1]) THEN "finalize" ELSE "top"
                           [] pc[x] = "lock" -> "setup1"]
        /\ UNCHANGED <<phase, called, msgCount, sent, transit, inbox>>
    BY DEF Update, Updating, Masters, linkVars
  <1>2. /\ s \in RankInfo /\ y \in RankInfo /\ Master(s[1]) \in RankInfo /\ Master(y[1]) \in RankInfo
    BY Ends, Layout
  <1> HIDE DEF s, y
  <1>3. \A x \in RankInfo : x[2] # 0 => pc'[x] = pc[x]
    BY <1>1
  <1>4. \A x \in RankInfo : x[2] = 0 =>
          /\ pc[x] = "update0" => pc'[x] = "top"
          /\ pc[x] = "update" => pc'[x] = IF Done(x[1]) THEN "finalize" ELSE "top"
          /\ pc[x] = "lock" => pc'[x] = "setup1"
          /\ pc[x] \in {"update0", "update", "lock"}
    BY <1>1, Layout
  <1>5. \A x \in RankInfo : pc'[x] = pc[x] \/ pc[x] \in {"update0", "update", "lock"}
    BY <1>3, <1>4
  <1>6. \A x \in RankInfo : pc[x] # "ranks" <=> pc'[x] # "ranks"
    BY <1>3, <1>4
  <1>7. ASSUME OnWay(ch) PROVE OnWay(ch)'
    <2>0. /\ SendingNow(s) /\ msgCount[s[1]] # 0
          /\ SameRank(ch) => pc[y] \in {"call", "called", "process"}
      BY <1>7 DEF OnWay, s, y
    <2>1. pc'[s] = pc[s]
      BY <1>2, <1>5, <2>0 DEF SendingNow, Sending
    <2>2. SendingNow(s)'
      BY <1>2, <1>6, <2>0, <2>1 DEF SendingNow
    <2>3. SameRank(ch) => pc'[y] \in {"call", "called", "process"}
      BY <1>2, <1>5, <2>0
    <2>4. SameRank(ch)' = SameRank(ch)
      BY DEF SameRank
    <2> QED BY <1>1, <2>0, <2>2, <2>3, <2>4 DEF OnWay, s, y
  <1>8. ASSUME NEW t, Fits(ch, t) PROVE Fits(ch, t)'
    <2>0. /\ t \in Waiting(ch)
          /\ pc[y] \in Sending \cup {"exchanged", "decide"} /\ t = phase[y] + 1 => msgCount[y[1]] # 0
          /\ pc[y] = "update" => msgCount[y[1]] # 0
      BY <1>8 DEF Fits, y
    <2>1. CASE pc'[y] = pc[y]
      <3>1. Waiting(ch)' = Waiting(ch)
        BY <1>1, <1>2, <1>6, <2>1 DEF Waiting, Fresh, Here, Exchanged, IsLocal, SameRank, y
      <3> QED BY <1>1, <2>0, <2>1, <3>1 DEF Fits, y
    <2>2. CASE pc'[y] # pc[y]
      <3>1. y[2] = 0 /\ pc[y] \in {"update0", "update", "lock"}
        BY <1>2, <1>3, <1>5, <2>2
      <3>2. pc[y] # "lock" /\ t = phase[y]
        BY <2>0, <3>1 DEF Waiting, Sending, y
      <3>3. pc'[y] = "top"
        BY <1>2, <1>4, <2>0, <3>1, <3>2 DEF Done
      <3>4. t \in Waiting(ch)'
        BY <1>1, <3>2, <3>3 DEF Waiting, y
      <3> QED BY <3>3, <3>4 DEF Fits, Sending, y
    <2> QED BY <2>1, <2>2
  <1> QED BY <1>1, <1>7, <1>8, DataStays

(* What was on its way arrives in an empty InitQueue. *)
LEMMA Arrives ==
  ASSUME Control, ChannelTypes, sent' = sent,
         NEW ch \in Channels, InChannel(ch), inbox[ch] = <<>>,
         inbox'[ch] = inbox[ch] \o transit[ch], transit'[ch] = <<>>,
         \A t : transit[ch] # <<>> /\ OnWay(ch) /\ ~IsLocal(ch) /\ t = phase[Home[ch[1]]] + 1
                  => Fits(ch, t)'
  PROVE  InChannel(ch)'
  <1>1. transit[ch] \in Seq(Msgs)
    BY DEF ChannelTypes
  <1>2. inbox'[ch] = transit[ch]
    BY <1>1
  <1>3. TransitAt(ch)' /\ InOrder(transit[ch])'
    BY DEF TransitAt, InOrder
  <1>4. InOrder(inbox[ch])'
    BY <1>2 DEF InChannel, InOrder
  <1>5. ASSUME NEW i \in DOMAIN inbox'[ch], NEW t, t = inbox'[ch][i].time PROVE Fits(ch, t)'
    <2>1. i \in DOMAIN transit[ch] /\ t = transit[ch][i].time
      BY <1>2, <1>5
    <2>2. transit[ch] # <<>> /\ t = phase[Home[ch[1]]] + 1
      BY <2>1 DEF InChannel, TransitAt
    <2> QED BY <2>2 DEF InChannel, TransitAt
  <1>6. InboxAt(ch)'
    BY <1>5, FitsAll
  <1> QED BY <1>3, <1>4, <1>6 DEF InChannel

(* The data from the threads of the rank arrives, *)
LEMMA ProcessChannels ==
  ASSUME Control, ChannelTypes, NEW x \in RankInfo, Process(x), NEW ch \in Channels, InChannel(ch)
  PROVE  InChannel(ch)'
  <1> DEFINE s == Home[ch[1]]
             y == Home[ch[2]]
             D == {c \in Into(x) : SameRank(c) /\ ~IsLocal(c)}
  <1>1. /\ pc[x] = "process" /\ pc' = [pc EXCEPT ![x] = "processed"]
        /\ inbox' = [c \in Channels |-> IF c \in D THEN inbox[c] \o transit[c] ELSE inbox[c]]
        /\ transit' = [c \in Channels |-> IF c \in D THEN <<>> ELSE transit[c]]
        /\ UNCHANGED <<phase, called, msgCount, sent>>
    BY DEF Process, Goto, Delivered
  <1>2. /\ s \in RankInfo /\ y \in RankInfo /\ s[1] \in Ranks /\ y[1] \in Ranks
        /\ Master(s[1]) \in RankInfo /\ Master(y[1]) \in RankInfo
        /\ (SameRank(ch) <=> s[1] = y[1]) /\ (IsLocal(ch) <=> s = y)
        /\ (ch \in D <=> y = x /\ SameRank(ch) /\ ~IsLocal(ch))
    BY Ends, Layout DEF Into
  <1>3. /\ inbox'[ch] = (IF ch \in D THEN inbox[ch] \o transit[ch] ELSE inbox[ch])
        /\ transit'[ch] = (IF ch \in D THEN <<>> ELSE transit[ch])
    BY <1>1
  <1> HIDE DEF s, y, D
  <1>4. pc'[x] = "processed" /\ \A z \in RankInfo \ {x} : pc'[z] = pc[z]
    BY <1>1 DEF Control, ControlTypes
  <1>5. \A z \in RankInfo : pc[z] = "ranks" <=> pc'[z] = "ranks"
    BY <1>1, <1>4
  <1>6. CASE ch \in D
    <2>1. y = x /\ s[1] = x[1] /\ ~IsLocal(ch)
      BY <1>2, <1>6
    <2>2. inbox[ch] = <<>>
      <3>1. Waiting(ch) = {}
        BY <1>1, <2>1 DEF Waiting, Fresh, Here, Exchanged, Sending, y
      <3>2. DOMAIN inbox[ch] = {} /\ inbox[ch] \in Seq(Msgs)
        BY <3>1 DEF InChannel, InboxAt, Fits, ChannelTypes
      <3> QED BY <3>2, NoElements
    <2>3. ASSUME NEW t, OnWay(ch), t = phase[s] + 1 PROVE Fits(ch, t)'
      <3>1. SendingNow(s) /\ msgCount[s[1]] # 0
        BY <2>3 DEF OnWay, s
      <3>2. pc[s] \in {"process", "processed"}
        <4>1. Meet(pc[x], pc[s])
          BY <1>2, <2>1 DEF Control, RankInv
        <4> QED BY <1>1, <4>1 DEF Meet
      <3>3. phase[s] = phase[x]
        <4>1. stage[s] = stage[x] /\ Level(s) = Level(x)
          BY <1>1, <1>2, <2>1, <3>2 DEF Control, RankInv
        <4> QED BY <1>1, <3>2, <4>1 DEF Level, Turns
      <3>4. Here(ch)'
        BY <1>2, <1>4, <1>6, <2>1 DEF Here, SameRank, y
      <3>5. t \in Waiting(ch)'
        BY <1>1, <1>4, <2>1, <2>3, <3>3, <3>4 DEF Waiting, Fresh, Sending, y
      <3> QED BY <1>1, <1>4, <2>1, <3>1, <3>5 DEF Fits, y
    <2> QED BY <1>1, <1>3, <1>6, <2>2, <2>3, Arrives DEF s
  <1>7. CASE ch \notin D
    <2>1. ASSUME OnWay(ch), ~IsLocal(ch) PROVE OnWay(ch)'
      <3>0. /\ SendingNow(s) /\ msgCount[s[1]] # 0
            /\ SameRank(ch) => pc[y] \in {"call", "called", "process"}
        BY <2>1 DEF OnWay, s, y
      <3>1. SendingNow(s)'
        BY <1>1, <1>2, <1>4, <1>5, <3>0 DEF SendingNow, Sending
      <3>2. SameRank(ch) => pc'[y] \in {"call", "called", "process"}
        BY <1>2, <1>4, <1>7, <2>1, <3>0
      <3>3. SameRank(ch)' = SameRank(ch)
        BY DEF SameRank
      <3> QED BY <1>1, <3>0, <3>1, <3>2, <3>3 DEF OnWay, s, y
    <2>2. ASSUME NEW t, Fits(ch, t) PROVE Fits(ch, t)'
      <3>0. /\ t \in Waiting(ch)
            /\ pc[y] \in Sending \cup {"exchanged", "decide"} /\ t = phase[y] + 1 => msgCount[y[1]] # 0
            /\ pc[y] = "update" => msgCount[y[1]] # 0
        BY <2>2 DEF Fits, y
      <3>1. Fresh(ch) \subseteq Fresh(ch)'
        BY <1>1, <1>2, <1>4, <1>5 DEF Fresh, Here, Exchanged, IsLocal, SameRank, y
      <3>2. t \in Waiting(ch)'
        BY <1>1, <1>2, <1>4, <3>0, <3>1 DEF Waiting, Sending, y
      <3> QED BY <1>1, <1>2, <1>4, <3>0, <3>2 DEF Fits, Sending, y
    <2>3. transit'[ch] = transit[ch] /\ inbox'[ch] = inbox[ch]
      BY <1>3, <1>7
    <2>4. transit[ch] # <<>> /\ OnWay(ch) => OnWay(ch)' /\ phase'[Home[ch[1]]] = phase[Home[ch[1]]]
      BY <1>1, <2>1 DEF InChannel, TransitAt
    <2> QED BY <1>1, <2>2, <2>3, <2>4, DataStays
  <1> QED BY <1>6, <1>7

(* and that from the other ranks. *)
LEMMA ExchangeChannels ==
  ASSUME Control, Control', ChannelTypes, ExchangeRanks, NEW ch \in Channels, InChannel(ch)
  PROVE  InChannel(ch)'
  <1> DEFINE s == Home[ch[1]]
             y == Home[ch[2]]
             D == {c \in Channels : ~SameRank(c)}
             total == CountOf(Ranks)
  <1>1. /\ \A x \in Masters : pc[x] = "ranks"
        /\ msgCount' = [r \in Ranks |-> total]
        /\ pc' = [x \in RankInfo |-> IF x[2] = 0 THEN "exchanged" ELSE pc[x]]
        /\ inbox' = [c \in Channels |-> IF c \in D THEN inbox[c] \o transit[c] ELSE inbox[c]]
        /\ transit' = [c \in Channels |-> IF c \in D THEN <<>> ELSE transit[c]]
        /\ UNCHANGED <<stage, phase, called, sent>>
    BY Layout DEF ExchangeRanks, Masters, Delivered
  <1>2. /\ s \in RankInfo /\ y \in RankInfo /\ s[1] \in Ranks /\ y[1] \in Ranks
        /\ Master(s[1]) \in RankInfo /\ Master(y[1]) \in RankInfo
        /\ (SameRank(ch) <=> s[1] = y[1]) /\ (IsLocal(ch) <=> s = y)
        /\ (ch \in D <=> ~SameRank(ch))
    BY Ends, Layout
  <1>3. /\ inbox'[ch] = (IF ch \in D THEN inbox[ch] \o transit[ch] ELSE inbox[ch])
        /\ transit'[ch] = (IF ch \in D THEN <<>> ELSE transit[ch])
    BY <1>1
  <1>4. (total = 0 <=> \A r \in Ranks : msgCount[r] = 0)
    BY SumOfCounts DEF Control, ControlTypes
  <1> HIDE DEF s, y, D, total
  <1>5. \A x \in RankInfo : /\ pc[x] \in {"ranks", "exchanged"} /\ pc[Master(x[1])] = "ranks"
                            /\ pc'[x] = "exchanged" /\ pc'[Master(x[1])] = "exchanged"
    <2> TAKE x \in RankInfo
    <2>1. pc[Master(x[1])] = "ranks" /\ Master(x[1]) \in RankInfo /\ Master(x[1])[1] = x[1]
          /\ (x[2] = 0 <=> x = Master(x[1])) /\ Master(x[1])[2] = 0
      BY <1>1, Layout
    <2>2. pc[x] \in {"ranks", "exchanged"}
      BY <2>1 DEF Control, RankInv, Meet
    <2>3. x[2] # 0 => pc[x] = "exchanged"
      BY <2>2 DEF Control, RankInv, MasterOnly
    <2> QED BY <1>1, <2>1, <2>2, <2>3
  <1>6. \A r \in Ranks : msgCount[r] # 0 => \A q \in Ranks : msgCount'[q] # 0
    BY <1>1, <1>4
  <1>7. ASSUME msgCount[s[1]] # 0 PROVE phase[s] = phase[y]
    <2>1. ASSUME NEW z \in RankInfo
          PROVE  /\ Master(z[1]) \in Masters /\ Master(z[1]) \in RankInfo
                 /\ stage[z] = stage[Master(z[1])] /\ phase[z] = phase[Master(z[1])]
      <3>1. Master(z[1]) \in Masters /\ Master(z[1]) \in RankInfo /\ Master(z[1])[1] = z[1]
        BY Layout
      <3>2. pc[z] \in {"ranks", "exchanged"} /\ pc[Master(z[1])] = "ranks"
        BY <1>5
      <3>3. stage[z] = stage[Master(z[1])] /\ Level(z) = Level(Master(z[1]))
        BY <3>1, <3>2 DEF Control, RankInv
      <3> QED BY <3>1, <3>2, <3>3 DEF Level, Turns
    <2> DEFINE a == Master(s[1])
               b == Master(y[1])
    <2>2. a \in Masters /\ b \in Masters /\ pc[a] = "ranks" /\ pc[b] = "ranks"
      BY <1>2, <1>5, <2>1
    <2> HIDE DEF a, b
    <2>3. Era(a, b) /\ (stage[a] = stage[b] => Passed(a) = Passed(b))
      BY <2>2 DEF Control, RanksInv
    <2>4. stage[a] = stage[b]
      BY <2>2, <2>3 DEF Era, AtEra, Middle
    <2>5. phase[a] = phase[b]
      BY <2>2, <2>3, <2>4 DEF Passed, Level, Turns
    <2> QED BY <1>2, <2>1, <2>5 DEF a, b
  <1>8. CASE ch \in D
    <2>1. ~SameRank(ch) /\ ~IsLocal(ch)
      BY <1>2, <1>8
    <2>2. inbox[ch] = <<>>
      <3>1. Waiting(ch) = {}
        BY <1>2, <1>5, <2>1 DEF Waiting, Fresh, Here, Exchanged, Sending, y
      <3>2. DOMAIN inbox[ch] = {} /\ inbox[ch] \in Seq(Msgs)
        BY <3>1 DEF InChannel, InboxAt, Fits, ChannelTypes
      <3> QED BY <3>2, NoElements
    <2>3. ASSUME NEW t, OnWay(ch), t = phase[s] + 1 PROVE Fits(ch, t)'
      <3>1. msgCount[s[1]] # 0
        BY <2>3 DEF OnWay, s
      <3>2. phase[s] = phase[y] /\ msgCount'[y[1]] # 0
        BY <1>2, <1>6, <1>7, <3>1
      <3>3. Here(ch)'
        BY <1>2, <1>5 DEF Here, Exchanged, y
      <3>4. t \in Waiting(ch)'
        BY <1>1, <1>2, <1>5, <2>3, <3>2, <3>3 DEF Waiting, Fresh, Sending, y
      <3> QED BY <1>1, <1>2, <1>5, <3>2, <3>4 DEF Fits, y
    <2> QED BY <1>1, <1>3, <1>8, <2>2, <2>3, Arrives DEF s
  <1>9. CASE ch \notin D
    <2>1. transit[ch] = <<>>
      <3>1. ASSUME OnWay(ch) PROVE FALSE
        <4>1. pc[y] \in {"call", "called", "process"}
          BY <1>2, <1>9, <3>1 DEF OnWay, y
        <4> QED BY <1>2, <1>5, <4>1
      <3> QED BY <3>1 DEF InChannel, TransitAt
    <2>2. ASSUME NEW t, Fits(ch, t) PROVE Fits(ch, t)'
      <3>0. /\ t \in Waiting(ch)
            /\ pc[y] \in Sending \cup {"exchanged", "decide"} /\ t = phase[y] + 1 => msgCount[y[1]] # 0
        BY <2>2 DEF Fits, y
      <3>1. pc[y] \in Sending \cup {"exchanged", "decide"}
        BY <1>2, <1>5 DEF Sending
      <3>2. t = phase[y] + 1
        BY <1>2, <1>5, <3>0 DEF Waiting, Fresh, y
      <3>3. msgCount'[y[1]] # 0
        BY <1>2, <1>6, <3>0, <3>1, <3>2
      <3>4. Here(ch)'
        BY <1>2, <1>5 DEF Here, Exchanged, y
      <3>5. t \in Waiting(ch)'
        BY <1>1, <1>2, <1>5, <3>2, <3>4 DEF Waiting, Fresh, Sending, y
      <3> QED BY <1>2, <1>5, <3>3, <3>5 DEF Fits, y
    <2>3. transit'[ch] = transit[ch] /\ inbox'[ch] = inbox[ch]
      BY <1>3, <1>9
    <2> QED BY <1>1, <2>1, <2>2, <2>3, DataStays
  <1> QED BY <1>8, <1>9

(* A message at the end of a queue of older ones. *)
LEMMA Appended ==
  ASSUME NEW q \in Seq(Msgs), NEW p \in Nat, NEW n \in Nat, n < MaxSends,
         \A i \in DOMAIN q : q[i].nth <= n /\ q[i].time <= p,
         \A i, j \in DOMAIN q : i < j => q[i].nth < q[j].nth /\ q[i].time <= q[j].time
  PROVE  LET a == Append(q, Data(p, n + 1)) IN
         /\ a \in Seq(Msgs)
         /\ \A i \in DOMAIN a : (i \in DOMAIN q /\ a[i] = q[i]) \/ a[i] = Data(p, n + 1)
         /\ \A i \in DOMAIN a : a[i].nth <= n + 1
         /\ \A i, j \in DOMAIN a : i < j => a[i].nth < a[j].nth /\ a[i].time <= a[j].time
  <1> DEFINE m == Data(p, n + 1)
             a == Append(q, m)
  <1>1. m \in Msgs /\ m.nth = n + 1 /\ m.time = p
    <2>1. n + 1 \in 0 .. MaxSends
      BY LifeAssumption
    <2> QED BY <2>1 DEF Data, Msgs
  <1>2. /\ Len(q) \in Nat /\ DOMAIN q = 1 .. Len(q)
        /\ \A i \in DOMAIN q : q[i].nth \in Int /\ q[i].time \in Nat
    BY ElementsAre
  <1> HIDE DEF m
  <1>3. /\ a \in Seq(Msgs) /\ DOMAIN a = 1 .. Len(q) + 1
        /\ \A i \in 1 .. Len(q) : a[i] = q[i]
        /\ a[Len(q) + 1] = m
    BY <1>1, AppendProperties
  <1> HIDE DEF a
  <1>4. \A i \in DOMAIN a : (i \in DOMAIN q /\ a[i] = q[i]) \/ (i = Len(q) + 1 /\ a[i] = m)
    BY <1>2, <1>3
  <1>5. \A i \in DOMAIN a : a[i].nth <= n + 1
    <2> TAKE i \in DOMAIN a
    <2>1. CASE i \in DOMAIN q /\ a[i] = q[i]
      BY <1>2, <2>1
    <2>2. CASE a[i] = m
      BY <1>1, <2>2
    <2> QED BY <1>4, <2>1, <2>2
  <1>6. ASSUME NEW i \in DOMAIN a, NEW j \in DOMAIN a, i < j
        PROVE  a[i].nth < a[j].nth /\ a[i].time <= a[j].time
    <2>1. i \in DOMAIN q /\ a[i] = q[i]
      BY <1>2, <1>3, <1>4, <1>6
    <2>2. CASE j \in DOMAIN q /\ a[j] = q[j]
      BY <1>6, <2>1, <2>2
    <2>3. CASE a[j] = m
      BY <1>1, <1>2, <2>1, <2>3
    <2> QED BY <1>4, <2>2, <2>3
  <1> QED BY <1>3, <1>4, <1>5, <1>6 DEF a, m

(* What stays in a queue after reading is in order, and for the next round. *)
LEMMA LeftStays ==
  ASSUME NEW x \in RankInfo, phase[x] \in Nat, NEW q \in Seq(Msgs), InOrder(q)
  PROVE  /\ Left(x, q) \in Seq(Msgs)
         /\ \A i \in DOMAIN Left(x, q) :
              \E j \in DOMAIN q : Left(x, q)[i] = q[j] /\ q[j].time > phase[x]
         /\ InOrder(Left(x, q))
  <1>1. /\ Len(q) \in Nat /\ DOMAIN q = 1 .. Len(q)
        /\ \A i \in DOMAIN q : q[i].nth \in Int /\ q[i].time \in Nat
    BY ElementsAre
  <1>2. PICK n \in 0 .. Len(q) :
           /\ Left(x, q) \in Seq(Msgs) /\ Len(Left(x, q)) = Len(q) - n
           /\ \A i \in 1 .. Len(q) - n : Left(x, q)[i] = q[n + i]
           /\ n < Len(q) => q[n + 1].time > phase[x]
    BY LeftIs
  <1>3. PICK z : z = Left(x, q)
    OBVIOUS
  <1>4. z \in Seq(Msgs) /\ DOMAIN z = 1 .. Len(q) - n
    <2>1. z \in Seq(Msgs) /\ Len(z) = Len(q) - n
      BY <1>2, <1>3
    <2> QED BY <2>1, ElementsAre
  <1>5. \A i \in DOMAIN z : n + i \in DOMAIN q /\ z[i] = q[n + i]
    BY <1>1, <1>2, <1>3, <1>4
  <1>6. ASSUME NEW i \in DOMAIN z PROVE q[n + i].time > phase[x]
    <2>1. n < Len(q) /\ n + 1 \in DOMAIN q /\ n + i \in DOMAIN q /\ (i = 1 \/ n + 1 < n + i)
      BY <1>1, <1>2, <1>4, <1>6
    <2>2. i = 1 \/ q[n + 1].time <= q[n + i].time
      BY <2>1 DEF InOrder
    <2>3. q[n + 1].time > phase[x] /\ q[n + 1].time \in Nat /\ q[n + i].time \in Nat
      BY <1>1, <1>2, <2>1
    <2> QED BY <2>2, <2>3
  <1>7. InOrder(z)
    <2>1. \A i \in DOMAIN z : z[i].nth <= sent
      BY <1>5 DEF InOrder
    <2>2. ASSUME NEW i \in DOMAIN z, NEW j \in DOMAIN z, i < j
          PROVE  z[i].nth < z[j].nth /\ z[i].time <= z[j].time
      <3>1. n + i \in DOMAIN q /\ n + j \in DOMAIN q /\ n + i < n + j
        BY <1>2, <1>4, <1>5, <2>2
      <3>2. q[n + i].nth < q[n + j].nth /\ q[n + i].time <= q[n + j].time
        BY <3>1 DEF InOrder
      <3> QED BY <1>5, <3>2
    <2> QED BY <2>1, <2>2 DEF InOrder
  <1>8. \A i \in DOMAIN z : \E j \in DOMAIN q : z[i] = q[j] /\ q[j].time > phase[x]
    BY <1>5, <1>6
  <1> QED BY <1>3, <1>4, <1>7, <1>8

(* A component that is called reads what was there, and sends. *)
LEMMA CallChannels ==
  ASSUME Control, ChannelTypes, NEW x \in RankInfo, Call(x), NEW ch \in Channels, InChannel(ch)
  PROVE  InChannel(ch)'
  <1> DEFINE s == Home[ch[1]]
             y == Home[ch[2]]
             p == phase[x]
  <1>1. PICK c : /\ c = NextCalled(x)
                 /\ pc[x] = "call" /\ c \in OnThread(x) \ called /\ Home[c] = x
                 /\ IF OnThread(x) \ called = {c}
                    THEN called' = called \ OnThread(x) /\ pc' = [pc EXCEPT ![x] = "called"]
                    ELSE called' = called \cup {c} /\ pc' = pc
                 /\ UNCHANGED <<stage, phase, mode, stopped>>
                 /\ \E S \in SUBSET From(c) :
                      /\ Exchange(c, S)
                      /\ IF S = {} THEN sent' = sent /\ msgCount' = msgCount
                         ELSE /\ sent < MaxSends /\ sent' = sent + 1
                              /\ \E n \in Nat \ {0} : msgCount' = [msgCount EXCEPT ![x[1]] = @ + n]
    BY CallEffect
  <1>2. PICK S \in SUBSET From(c) :
                      /\ Exchange(c, S)
                      /\ IF S = {} THEN sent' = sent /\ msgCount' = msgCount
                         ELSE /\ sent < MaxSends /\ sent' = sent + 1
                              /\ \E n \in Nat \ {0} : msgCount' = [msgCount EXCEPT ![x[1]] = @ + n]
    BY <1>1
  <1> DEFINE Q == IF ch[2] = c THEN Left(x, inbox[ch]) ELSE inbox[ch]
  <1>3. /\ inbox'[ch] = (IF ch \in S /\ IsLocal(ch) THEN Append(Q, Data(p + 1, sent + 1)) ELSE Q)
        /\ transit'[ch] = (IF ch \in S /\ ~IsLocal(ch) THEN Append(transit[ch], Data(p + 1, sent + 1))
                           ELSE transit[ch])
    BY <1>1, <1>2 DEF Exchange, To
  <1>4. /\ s \in RankInfo /\ y \in RankInfo /\ s[1] \in Ranks /\ y[1] \in Ranks /\ x[1] \in Ranks
        /\ Master(s[1]) \in RankInfo /\ Master(y[1]) \in RankInfo
        /\ (SameRank(ch) <=> s[1] = y[1]) /\ (IsLocal(ch) <=> s = y)
        /\ (ch \in S => s = x) /\ (ch[2] = c => y = x) /\ ch[2] \in OnThread(y)
        /\ ch[2] \in Comps
    BY <1>1, Ends, Layout DEF From
  <1>5. /\ sent \in Nat /\ sent' \in Nat /\ sent <= sent' /\ p \in Nat
        /\ S # {} => sent < MaxSends /\ sent' = sent + 1
        /\ transit[ch] \in Seq(Msgs) /\ inbox[ch] \in Seq(Msgs)
    <2>1. MaxSends \in Nat
      BY LifeAssumption
    <2>2. sent \in Nat /\ p \in Nat
      BY <2>1 DEF Control, ControlTypes
    <2> QED BY <1>2, <2>2 DEF ChannelTypes
  <1>6. /\ S # {} => msgCount'[x[1]] # 0
        /\ \A r \in Ranks : msgCount[r] # 0 => msgCount'[r] # 0
    <2>1. CASE S = {}
      BY <1>2, <2>1
    <2>2. CASE S # {}
      <3>1. PICK n \in Nat \ {0} : msgCount' = [msgCount EXCEPT ![x[1]] = @ + n]
        BY <1>2, <2>2
      <3>2. msgCount \in [Ranks -> Nat] /\ msgCount[x[1]] \in Nat
        BY <1>4 DEF Control, ControlTypes
      <3>3. msgCount'[x[1]] = msgCount[x[1]] + n /\ \A r \in Ranks \ {x[1]} : msgCount'[r] = msgCount[r]
        BY <1>4, <3>1, <3>2
      <3> QED BY <3>2, <3>3
    <2> QED BY <2>1, <2>2
  <1>7. /\ pc'[x] \in {"call", "called"} /\ \A z \in RankInfo \ {x} : pc'[z] = pc[z]
        /\ \A z \in RankInfo : pc[z] = "ranks" <=> pc'[z] = "ranks"
        /\ UNCHANGED phase
    BY <1>1 DEF Control, ControlTypes
  <1> HIDE DEF s, y, p, Q
  <1>8. p = phase[x] /\ phase'[x] = p
    BY <1>7 DEF p
  <1>9. TransitAt(ch)' /\ InOrder(transit[ch])'
    <2>1. CASE ch \in S /\ ~IsLocal(ch)
      <3>1. PICK a : a = Append(transit[ch], Data(p + 1, sent + 1))
        OBVIOUS
      <3>2. transit'[ch] = a /\ s = x /\ y # x /\ sent < MaxSends /\ sent' = sent + 1
        BY <1>3, <1>4, <1>5, <2>1, <3>1
      <3>3. /\ \A i \in DOMAIN transit[ch] : transit[ch][i].time = p + 1 /\ transit[ch][i].nth <= sent
            /\ \A i, j \in DOMAIN transit[ch] : i < j =>
                 transit[ch][i].nth < transit[ch][j].nth /\ transit[ch][i].time <= transit[ch][j].time
        BY <1>8, <3>2 DEF InChannel, TransitAt, InOrder, s
      <3>4. /\ \A i \in DOMAIN a : (i \in DOMAIN transit[ch] /\ a[i] = transit[ch][i])
                                    \/ a[i] = Data(p + 1, sent + 1)
            /\ \A i \in DOMAIN a : a[i].nth <= sent + 1
            /\ \A i, j \in DOMAIN a : i < j => a[i].nth < a[j].nth /\ a[i].time <= a[j].time
        <4>0. PICK q, k : q = transit[ch] /\ k = p + 1
          OBVIOUS
        <4>1. /\ q \in Seq(Msgs) /\ k \in Nat /\ sent \in Nat /\ sent < MaxSends
              /\ \A i \in DOMAIN q : q[i].nth <= sent /\ q[i].time <= k
              /\ \A i, j \in DOMAIN q : i < j => q[i].nth < q[j].nth /\ q[i].time <= q[j].time
          BY <1>5, <3>2, <3>3, <4>0
        <4>2. LET b == Append(q, Data(k, sent + 1)) IN
              /\ \A i \in DOMAIN b : (i \in DOMAIN q /\ b[i] = q[i]) \/ b[i] = Data(k, sent + 1)
              /\ \A i \in DOMAIN b : b[i].nth <= sent + 1
              /\ \A i, j \in DOMAIN b : i < j => b[i].nth < b[j].nth /\ b[i].time <= b[j].time
          BY <4>1, Appended
        <4> QED BY <3>1, <4>0, <4>2
      <3>5. InOrder(transit[ch])'
        BY <3>2, <3>4 DEF InOrder
      <3>6. \A i \in DOMAIN a : a[i].time = p + 1
        BY <3>3, <3>4 DEF Data
      <3>7. SendingNow(x)' /\ msgCount'[x[1]] # 0
        BY <1>6, <1>7, <2>1 DEF SendingNow, Sending
      <3>8. SameRank(ch) => pc'[y] \in {"call", "called"}
        <4>1. x[1] = y[1] => Meet(pc[x], pc[y])
          BY <1>4 DEF Control, RankInv
        <4> QED BY <1>1, <1>4, <1>7, <3>2, <4>1 DEF Meet
      <3>9. SameRank(ch)' = SameRank(ch) /\ IsLocal(ch)' = IsLocal(ch)
        BY DEF SameRank, IsLocal
      <3>10. OnWay(ch)'
        BY <3>2, <3>7, <3>8, <3>9 DEF OnWay, s, y
      <3>11. TransitAt(ch)'
        BY <1>8, <2>1, <3>2, <3>6, <3>9, <3>10 DEF TransitAt, s
      <3> QED BY <3>5, <3>11
    <2>2. CASE ~(ch \in S /\ ~IsLocal(ch))
      <3>1. transit'[ch] = transit[ch]
        BY <1>3, <2>2
      <3>2. ASSUME OnWay(ch) PROVE OnWay(ch)' /\ phase'[s] = phase[s]
        <4>0. /\ SendingNow(s) /\ msgCount[s[1]] # 0
              /\ SameRank(ch) => pc[y] \in {"call", "called", "process"}
          BY <3>2 DEF OnWay, s, y
        <4>1. SendingNow(s)'
          BY <1>1, <1>4, <1>7, <4>0 DEF SendingNow, Sending
        <4>2. SameRank(ch) => pc'[y] \in {"call", "called", "process"}
          BY <1>4, <1>7, <4>0
        <4>3. SameRank(ch)' = SameRank(ch)
          BY DEF SameRank
        <4> QED BY <1>4, <1>6, <1>7, <4>0, <4>1, <4>2, <4>3 DEF OnWay, s, y
      <3>3. transit[ch] # <<>> /\ OnWay(ch) => OnWay(ch)' /\ phase'[Home[ch[1]]] = phase[Home[ch[1]]]
        BY <3>2 DEF s
      <3> QED BY <1>5, <3>1, <3>3, TransitStays DEF InChannel
    <2> QED BY <2>1, <2>2
  <1>10. CASE y # x
    <2>1. inbox'[ch] = inbox[ch]
      BY <1>3, <1>4, <1>10 DEF Q
    <2>2. pc'[y] = pc[y] /\ phase'[y] = phase[y] /\ (ch[2] \in called' <=> ch[2] \in called)
      <3>1. ch[2] \notin OnThread(x) /\ ch[2] # c
        BY <1>4, <1>10 DEF OnThread
      <3> QED BY <1>1, <1>4, <1>7, <1>10, <3>1
    <2>3. Waiting(ch)' = Waiting(ch)
      BY <1>4, <1>7, <2>2 DEF Waiting, Fresh, Here, Exchanged, IsLocal, SameRank, y
    <2>4. \A t : Fits(ch, t) => Fits(ch, t)'
      BY <1>4, <1>6, <2>2, <2>3 DEF Fits, y
    <2>5. InboxAt(ch)' /\ InOrder(inbox[ch])'
      BY <1>5, <2>1, <2>4, InboxStays DEF InChannel
    <2> QED BY <1>9, <2>5 DEF InChannel
  <1>11. CASE y = x
    <2>1. Fresh(ch) = (IF IsLocal(ch) THEN {p + 1} ELSE {})
      BY <1>1, <1>8, <1>11 DEF Fresh, Here, Exchanged, y
    <2>2. Waiting(ch) = Fresh(ch) \cup (IF ch[2] \notin called THEN {p} ELSE {})
      BY <1>1, <1>8, <1>11 DEF Waiting, Sending, y
    <2>3. Fresh(ch) \subseteq Fresh(ch)'
      BY <1>7, <1>8, <1>11, <2>1 DEF Fresh, Here, IsLocal, y
    <2>4. Fresh(ch)' \subseteq Waiting(ch)'
      BY <1>7, <1>11 DEF Waiting, Sending, y
    <2>5. ASSUME NEW t, t = p + 1, IsLocal(ch), msgCount'[x[1]] # 0 PROVE Fits(ch, t)'
      <3>1. t \in Waiting(ch)'
        BY <2>1, <2>3, <2>4, <2>5
      <3> QED BY <1>7, <1>11, <2>5, <3>1 DEF Fits, y
    <2>6. ASSUME NEW t, Fits(ch, t)
          PROVE  /\ t = p + 1 => IsLocal(ch) /\ msgCount'[x[1]] # 0
                 /\ t = p + 1 \/ (t = p /\ ch[2] \notin called)
      <3>1. /\ t \in Waiting(ch)
            /\ pc[y] \in Sending \cup {"exchanged", "decide"} /\ t = phase[y] + 1 => msgCount[y[1]] # 0
        BY <2>6 DEF Fits, y
      <3> QED BY <1>1, <1>4, <1>5, <1>6, <1>8, <1>11, <2>1, <2>2, <3>1 DEF Sending
    <2>7. PICK z : z = Q
      OBVIOUS
    <2>8. /\ z \in Seq(Msgs) /\ InOrder(z)
          /\ \A i \in DOMAIN z : \A t : t = z[i].time => Fits(ch, t)' /\ t <= p + 1
      <3>1. CASE ch[2] = c
        <4>0. PICK q : q = inbox[ch]
          OBVIOUS
        <4>1. /\ z \in Seq(Msgs) /\ InOrder(z)
              /\ \A i \in DOMAIN z : \E j \in DOMAIN inbox[ch] :
                   z[i] = inbox[ch][j] /\ inbox[ch][j].time > p
          <5>1. q \in Seq(Msgs) /\ InOrder(q) /\ phase[x] \in Nat
            BY <1>5, <1>8, <4>0 DEF InChannel
          <5>2. /\ Left(x, q) \in Seq(Msgs)
                /\ \A i \in DOMAIN Left(x, q) :
                     \E j \in DOMAIN q : Left(x, q)[i] = q[j] /\ q[j].time > phase[x]
                /\ InOrder(Left(x, q))
            BY <5>1, LeftStays
          <5>3. z = Left(x, q)
            BY <2>7, <3>1, <4>0 DEF Q
          <5> QED BY <1>8, <4>0, <5>2, <5>3
        <4>2. ASSUME NEW i \in DOMAIN z, NEW t, t = z[i].time PROVE Fits(ch, t)' /\ t <= p + 1
          <5>1. PICK j \in DOMAIN inbox[ch] : z[i] = inbox[ch][j] /\ inbox[ch][j].time > p
            BY <4>1
          <5>2. Fits(ch, t) /\ t > p
            BY <4>2, <5>1 DEF InChannel, InboxAt
          <5>3. t = p + 1 /\ IsLocal(ch) /\ msgCount'[x[1]] # 0
            BY <1>5, <2>6, <5>2
          <5> QED BY <1>5, <2>5, <5>3
        <4> QED BY <4>1, <4>2
      <3>2. CASE ch[2] # c
        <4>1. z = inbox[ch] /\ z \in Seq(Msgs) /\ InOrder(z)
          BY <1>5, <2>7, <3>2 DEF Q, InChannel
        <4>2. ASSUME NEW i \in DOMAIN z, NEW t, t = z[i].time PROVE Fits(ch, t)' /\ t <= p + 1
          <5>1. Fits(ch, t)
            BY <4>1, <4>2 DEF InChannel, InboxAt
          <5>2. CASE t = p + 1
            BY <1>5, <2>5, <2>6, <5>1, <5>2
          <5>3. CASE t = p /\ ch[2] \notin called
            <6>1. ch[2] \in OnThread(x) \ called
              BY <1>4, <1>11, <5>3
            <6>2. pc'[x] = "call" /\ ch[2] \notin called'
              BY <1>1, <3>2, <6>1
            <6>3. t \in Waiting(ch)'
              BY <1>8, <1>11, <5>3, <6>2 DEF Waiting, y
            <6>4. Fits(ch, t)'
              BY <1>5, <1>8, <1>11, <5>3, <6>2, <6>3 DEF Fits, y
            <6> QED BY <1>5, <5>3, <6>4
          <5> QED BY <2>6, <5>1, <5>2, <5>3
        <4> QED BY <4>1, <4>2
      <3> QED BY <3>1, <3>2
    <2>9. CASE ~(ch \in S /\ IsLocal(ch))
      <3>1. inbox'[ch] = z
        BY <1>3, <2>7, <2>9
      <3>2. InboxAt(ch)'
        BY <2>8, <3>1, FitsAll
      <3>3. InOrder(inbox[ch])'
        <4>1. \A i \in DOMAIN z : z[i].nth \in Int
          BY <2>8, ElementsAre
        <4> QED BY <1>5, <2>8, <3>1, <4>1 DEF InOrder
      <3> QED BY <1>9, <3>2, <3>3 DEF InChannel
    <2>10. CASE ch \in S /\ IsLocal(ch)
      <3>1. PICK a : a = Append(z, Data(p + 1, sent + 1))
        OBVIOUS
      <3>2. inbox'[ch] = a /\ sent < MaxSends /\ sent' = sent + 1 /\ msgCount'[x[1]] # 0
        BY <1>3, <1>5, <1>6, <2>7, <2>10, <3>1
      <3>3. /\ p + 1 \in Nat
            /\ \A i \in DOMAIN z : z[i].nth <= sent /\ z[i].time <= p + 1
            /\ \A i, j \in DOMAIN z : i < j => z[i].nth < z[j].nth /\ z[i].time <= z[j].time
        BY <1>5, <2>8 DEF InOrder
      <3>4. /\ \A i \in DOMAIN a : (i \in DOMAIN z /\ a[i] = z[i]) \/ a[i] = Data(p + 1, sent + 1)
            /\ \A i \in DOMAIN a : a[i].nth <= sent + 1
            /\ \A i, j \in DOMAIN a : i < j => a[i].nth < a[j].nth /\ a[i].time <= a[j].time
        <4>0. PICK q, k : q = z /\ k = p + 1
          OBVIOUS
        <4>1. /\ q \in Seq(Msgs) /\ k \in Nat /\ sent \in Nat /\ sent < MaxSends
              /\ \A i \in DOMAIN q : q[i].nth <= sent /\ q[i].time <= k
              /\ \A i, j \in DOMAIN q : i < j => q[i].nth < q[j].nth /\ q[i].time <= q[j].time
          BY <1>5, <3>2, <3>3, <4>0, <2>8
        <4>2. LET b == Append(q, Data(k, sent + 1)) IN
              /\ \A i \in DOMAIN b : (i \in DOMAIN q /\ b[i] = q[i]) \/ b[i] = Data(k, sent + 1)
              /\ \A i \in DOMAIN b : b[i].nth <= sent + 1
              /\ \A i, j \in DOMAIN b : i < j => b[i].nth < b[j].nth /\ b[i].time <= b[j].time
          BY <4>1, Appended
        <4> QED BY <3>1, <4>0, <4>2
      <3>5. InOrder(inbox[ch])'
        BY <3>2, <3>4 DEF InOrder
      <3>7. ASSUME NEW i \in DOMAIN inbox'[ch], NEW t, t = inbox'[ch][i].time PROVE Fits(ch, t)'
        <4>1. CASE i \in DOMAIN z /\ a[i] = z[i]
          BY <2>8, <3>2, <3>7, <4>1
        <4>2. CASE a[i] = Data(p + 1, sent + 1)
          <5>1. t = p + 1
            BY <3>2, <3>7, <4>2 DEF Data
          <5> QED BY <2>5, <2>10, <3>2, <5>1
        <4> QED BY <3>2, <3>4, <3>7, <4>1, <4>2
      <3>8. InboxAt(ch)'
        BY <3>7, FitsAll
      <3> QED BY <1>9, <3>5, <3>8 DEF InChannel
    <2> QED BY <2>9, <2>10
  <1> QED BY <1>10, <1>11

----------------------------------------------------------------------------
(* What follows from it.                                                   *)

(* A thread is in the same stretch as thread 0 of its rank. *)
LEMMA WithMaster ==
  ASSUME Control, NEW x \in RankInfo
  PROVE  LET a == Master(x[1]) IN
         /\ a \in Masters /\ a \in RankInfo /\ a[1] = x[1] /\ x[1] \in Ranks
         /\ Meet(pc[x], pc[a])
         /\ (pc[x] = "run" <=> pc[a] = "run") => stage[x] = stage[a]
         /\ stage[x] = stage[a] => Level(x) = Level(a)
  BY Layout DEF Control, RankInv

(* While a thread is in a round, so is thread 0 of its rank. *)
LEMMA MasterSends ==
  ASSUME Control, NEW x \in RankInfo, SendingNow(x)
  PROVE  LET a == Master(x[1]) IN
         a \in Masters /\ pc[a] \in Sending /\ stage[a] = stage[x] /\ phase[a] = phase[x]
  <1>1. PICK a : a = Master(x[1])
    OBVIOUS
  <1>2. /\ a \in Masters /\ Meet(pc[x], pc[a])
        /\ (pc[x] = "run" <=> pc[a] = "run") => stage[x] = stage[a]
        /\ stage[x] = stage[a] => Level(x) = Level(a)
    BY <1>1, WithMaster
  <1>3. pc[x] \in Sending \/ (pc[x] = "exchanged" /\ pc[a] = "ranks")
    BY <1>1 DEF SendingNow
  <1>4. CASE pc[x] = "exchanged" /\ pc[a] = "ranks"
    BY <1>1, <1>2, <1>4 DEF Sending, Level, Turns
  <1>5. CASE pc[x] \in Sending
    <2>1. pc[a] \in Sending \cup {"exchanged"}
      BY <1>2, <1>5 DEF Meet, Sending
    <2>2. pc[a] # "exchanged" \/ a # x
      BY <1>5 DEF Sending
    <2>3. pc[a] # "exchanged"
      <3> SUFFICES ASSUME pc[a] = "exchanged" PROVE FALSE
        OBVIOUS
      <3>1. pc[x] = "ranks"
        BY <1>2, <1>5 DEF Meet, Sending
      <3>2. x[2] = 0
        BY <3>1 DEF Control, RankInv, MasterOnly
      <3>3. x = a
        BY <1>1, <3>2, Layout
      <3> QED BY <2>2, <3>3
    <2>4. stage[x] = stage[a]
      BY <1>2, <1>5, <2>1 DEF Sending
    <2> QED BY <1>1, <1>2, <1>5, <2>1, <2>3, <2>4 DEF Sending, Level, Turns
  <1> QED BY <1>3, <1>4, <1>5

(* Two threads that are in a round are in the same round. *)
LEMMA SameRound ==
  ASSUME Control, NEW x \in RankInfo, NEW y \in RankInfo, SendingNow(x), SendingNow(y)
  PROVE  stage[x] = stage[y] /\ phase[x] = phase[y]
  <1>1. PICK a \in Masters : pc[a] \in Sending /\ stage[a] = stage[x] /\ phase[a] = phase[x]
    BY MasterSends
  <1>2. PICK b \in Masters : pc[b] \in Sending /\ stage[b] = stage[y] /\ phase[b] = phase[y]
    BY MasterSends
  <1>3. Era(a, b) /\ (stage[a] = stage[b] => Passed(a) = Passed(b))
    BY DEF Control, RanksInv
  <1>4. stage[a] = stage[b]
    BY <1>1, <1>2, <1>3 DEF Era, AtEra, Middle, Sending
  <1>5. phase[a] = phase[b]
    BY <1>1, <1>2, <1>3, <1>4 DEF Passed, Level, Turns, Sending
  <1> QED BY <1>1, <1>2, <1>4, <1>5

(* Nobody has left the loop that another thread is in. *)
LEMMA NobodyBeyond ==
  ASSUME Control, NEW x \in RankInfo, NEW y \in RankInfo, SendingNow(x)
  PROVE  ~BeyondLoop(y, stage[x])
  <1>1. PICK a \in Masters : pc[a] \in Sending /\ stage[a] = stage[x]
    BY MasterSends
  <1>2. PICK b : /\ b \in Masters /\ b \in RankInfo /\ b[1] = y[1]
                 /\ Meet(pc[y], pc[b])
                 /\ (pc[y] = "run" <=> pc[b] = "run") => stage[y] = stage[b]
    BY WithMaster
  <1>3. Era(a, b) /\ (Post(b) /\ msgCount[b[1]] = 0 => Post(a)) /\ ~Post(a)
    BY <1>1, <1>2 DEF Control, RanksInv, Post, Sending
  <1>4. ASSUME pc[y] \in {"ended", "end"} PROVE FALSE
    <2>1. msgCount[b[1]] = 0
      BY <1>2, <1>4 DEF Control, CountInv
    <2>2. pc[b] \in {"decide", "ended", "end"}
      BY <1>2, <1>4 DEF Meet
    <2> QED BY <1>3, <2>1, <2>2 DEF Post
  <1>5. ASSUME stage[x] = "init",
               \/ stage[y] # "init"
               \/ pc[y] \in {"finalize", "setup0", "lock", "setup1", "setup", "setup2", "run"}
        PROVE  FALSE
    <2>1. stage[b] = "init" /\ pc[b] \in Round
      BY <1>1, <1>3, <1>5 DEF Era, AtEra, Middle, Sending
    <2>2. pc[y] \notin {"finalize", "setup0", "lock", "setup1", "setup", "setup2", "run"}
      BY <1>2, <2>1 DEF Meet, Round
    <2>3. stage[y] = "init"
      BY <1>2, <2>1, <2>2 DEF Round
    <2> QED BY <1>5, <2>2, <2>3
  <1> QED BY <1>4, <1>5 DEF BeyondLoop

(* The invariant implies that all threads are in the same round, *)
LEMMA AgreeInRounds == ASSUME Control PROVE RoundsAgree
  <1>1. \A x \in RankInfo : Calling(x) => SendingNow(x)
    BY DEF Calling, SendingNow, Sending
  <1> QED BY <1>1, SameRound, NobodyBeyond DEF RoundsAgree

(* that data is read in the round after the one it was sent in, *)
LEMMA ReadInNextRound ==
  ASSUME Control, \A ch \in Channels : InChannel(ch) PROVE ReadNextRound
  <1> SUFFICES ASSUME NEW x \in RankInfo, pc[x] = "call", NEW ch \in Into(x)
        PROVE  /\ \A i \in DOMAIN transit[ch] : transit[ch][i].time = phase[x] + 1
               /\ \A i \in DOMAIN inbox[ch] :
                    inbox[ch][i].time \in
                      {phase[x]} \cup (IF IsLocal(ch) THEN {phase[x] + 1} ELSE {})
               /\ \A i, j \in DOMAIN inbox[ch] : i < j => inbox[ch][i].nth < inbox[ch][j].nth
    BY DEF ReadNextRound, Calling
  <1>1. ch \in Channels /\ Home[ch[2]] = x
    BY DEF Into
  <1>2. InChannel(ch)
    BY <1>1
  <1>3. ASSUME NEW i \in DOMAIN transit[ch] PROVE transit[ch][i].time = phase[x] + 1
    <2> DEFINE s == Home[ch[1]]
    <2>1. transit[ch] # <<>>
      BY <1>3
    <2>2. SendingNow(s) /\ transit[ch][i].time = phase[s] + 1
      BY <1>2, <1>3, <2>1 DEF InChannel, TransitAt, OnWay
    <2>3. SendingNow(x) /\ s \in RankInfo
      BY <1>1, Ends DEF SendingNow, Sending
    <2> HIDE DEF s
    <2>4. phase[s] = phase[x]
      BY <2>2, <2>3, SameRound
    <2> QED BY <2>2, <2>4
  <1>4. ASSUME NEW i \in DOMAIN inbox[ch]
        PROVE  inbox[ch][i].time \in
                 {phase[x]} \cup (IF IsLocal(ch) THEN {phase[x] + 1} ELSE {})
    <2>1. inbox[ch][i].time \in Waiting(ch)
      BY <1>2, <1>4 DEF InChannel, InboxAt, Fits
    <2>2. Fresh(ch) \subseteq (IF IsLocal(ch) THEN {phase[x] + 1} ELSE {})
      BY <1>1 DEF Fresh, Here, Exchanged
    <2>3. Waiting(ch) \subseteq {phase[x]} \cup Fresh(ch)
      BY <1>1 DEF Waiting, Sending
    <2> QED BY <2>1, <2>2, <2>3
  <1> QED BY <1>2, <1>3, <1>4 DEF InChannel, InOrder

(* and that nothing is left when the rounds are over. *)
LEMMA LeftNothing ==
  ASSUME Control, ChannelTypes, \A ch \in Channels : InChannel(ch) PROVE NothingLost
  <1> SUFFICES ASSUME NEW x \in RankInfo, pc[x] \in {"finalize", "ended", "end"}, NEW ch \in Into(x)
               PROVE  transit[ch] = <<>> /\ inbox[ch] = <<>>
    BY DEF NothingLost
  <1>1. ch \in Channels /\ Home[ch[2]] = x
    BY DEF Into
  <1>2. InChannel(ch) /\ inbox[ch] \in Seq(Msgs)
    BY <1>1 DEF ChannelTypes
  <1>3. inbox[ch] = <<>>
    <2>1. Waiting(ch) = {}
      BY <1>1 DEF Waiting, Sending
    <2>2. DOMAIN inbox[ch] = {}
      BY <1>2, <2>1 DEF InChannel, InboxAt, Fits
    <2> QED BY <1>2, <2>2, NoElements
  <1>4. ASSUME transit[ch] # <<>> PROVE FALSE
    <2> DEFINE s == Home[ch[1]]
    <2>1. SendingNow(s) /\ s \in RankInfo
      BY <1>1, <1>2, <1>4, Ends DEF InChannel, TransitAt, OnWay
    <2> HIDE DEF s
    <2>2. ~BeyondLoop(x, stage[s])
      BY <2>1, NobodyBeyond
    <2>3. pc[x] = "finalize" /\ stage[x] = "init" /\ stage[s] = "complete"
      <3>1. stage[s] \in {"init", "complete"}
        BY <2>1 DEF Control, ControlTypes
      <3>2. pc[x] = "finalize" => stage[x] = "init"
        BY DEF Control, RankInv, InitOnly
      <3> QED BY <2>2, <3>1, <3>2 DEF BeyondLoop
    <2>4. PICK a \in Masters : pc[a] \in Sending /\ stage[a] = stage[s]
      BY <2>1, MasterSends
    <2>5. PICK b : /\ b \in Masters /\ Meet(pc[x], pc[b])
                   /\ (pc[x] = "run" <=> pc[b] = "run") => stage[x] = stage[b]
      BY WithMaster
    <2>6. stage[b] = "init" /\ pc[b] \in {"decide", "update", "finalize", "setup0"}
      BY <2>3, <2>5 DEF Meet
    <2>7. Era(a, b)
      BY <2>5 DEF Control, RanksInv
    <2> QED BY <2>3, <2>4, <2>6, <2>7 DEF Era, AtEra, Middle, Sending
  <1> QED BY <1>3, <1>4

(* Delivering data keeps the types. *)
LEMMA DeliveredTypes ==
  ASSUME ChannelTypes, NEW D, Delivered(D) PROVE ChannelTypes'
  <1>1. \A ch \in Channels : /\ inbox[ch] \o transit[ch] \in Seq(Msgs) /\ inbox[ch] \in Seq(Msgs)
                             /\ transit[ch] \in Seq(Msgs)
    BY ConcatProperties DEF ChannelTypes
  <1>2. <<>> \in Seq(Msgs)
    OBVIOUS
  <1> QED BY <1>1, <1>2 DEF Delivered, ChannelTypes

(* So does a component that is called. *)
LEMMA CallTypes ==
  ASSUME Control, ChannelTypes, NEW x \in RankInfo, Call(x) PROVE ChannelTypes'
  <1>1. PICK c, S : /\ Home[c] = x /\ Exchange(c, S)
                    /\ S # {} => sent < MaxSends
    <2>1. PICK c : c = NextCalled(x) /\ Home[c] = x
      BY CallEffect
    <2>2. PICK S \in SUBSET From(c) : Exchange(c, S) /\ (S # {} => sent < MaxSends)
      BY <2>1, CallEffect
    <2> QED BY <2>1, <2>2
  <1>2. phase[x] \in Nat /\ sent \in Nat
    BY LifeAssumption DEF Control, ControlTypes
  <1> DEFINE m == Data(phase[x] + 1, sent + 1)
             Read(ch) == IF ch \in To(c) THEN Left(x, inbox[ch]) ELSE inbox[ch]
  <1>3. /\ inbox' = [ch \in Channels |-> IF ch \in S /\ IsLocal(ch) THEN Append(Read(ch), m) ELSE Read(ch)]
        /\ transit' = [ch \in Channels |-> IF ch \in S /\ ~IsLocal(ch)
                                           THEN Append(transit[ch], m) ELSE transit[ch]]
    BY <1>1 DEF Exchange
  <1>4. S # {} => m \in Msgs
    BY <1>1, <1>2, LifeAssumption DEF Data, Msgs
  <1> HIDE DEF m
  <1>5. ASSUME NEW ch \in Channels PROVE Read(ch) \in Seq(Msgs) /\ transit[ch] \in Seq(Msgs)
    <2>1. inbox[ch] \in Seq(Msgs) /\ transit[ch] \in Seq(Msgs)
      BY DEF ChannelTypes
    <2>2. Left(x, inbox[ch]) \in Seq(Msgs)
      BY <1>2, <2>1, LeftIs
    <2> QED BY <2>1, <2>2
  <1> HIDE DEF Read
  <1>6. ASSUME NEW ch \in Channels PROVE inbox'[ch] \in Seq(Msgs) /\ transit'[ch] \in Seq(Msgs)
    <2>1. CASE ch \in S
      <3>1. Append(Read(ch), m) \in Seq(Msgs) /\ Append(transit[ch], m) \in Seq(Msgs)
        BY <1>4, <1>5, <2>1, AppendProperties
      <3> QED BY <1>3, <1>5, <3>1
    <2>2. CASE ch \notin S
      BY <1>3, <1>5, <2>2
    <2> QED BY <2>1, <2>2
  <1> QED BY <1>3, <1>6 DEF ChannelTypes

(* And every other step. *)
LEMMA ChannelTypesNext ==
  ASSUME Control, ChannelTypes, Next \/ UNCHANGED vars PROVE ChannelTypes'
  <1>1. CASE UNCHANGED <<transit, inbox>>
    BY <1>1 DEF ChannelTypes
  <1>2. ASSUME NEW r \in Ranks, Barrier(r) \/ Reset(r) PROVE ChannelTypes'
    BY <1>1, <1>2 DEF Barrier, Reset, linkVars
  <1>3. ASSUME NEW x \in RankInfo, Share(x) \/ Decide(x) \/ Setup(x) PROVE ChannelTypes'
    BY <1>1, <1>3 DEF Share, Decide, Setup, linkVars
  <1>4. ASSUME NEW x \in RankInfo, Process(x) PROVE ChannelTypes'
    BY <1>4, DeliveredTypes DEF Process
  <1>5. ASSUME NEW x \in RankInfo, Finalize(x) \/ Prepare(x) PROVE ChannelTypes'
    <2>1. /\ transit' = transit
          /\ inbox' = [ch \in Channels |-> IF ch \in Into(x) THEN <<>> ELSE inbox[ch]]
      BY <1>5 DEF Finalize, Prepare
    <2> QED BY <2>1 DEF ChannelTypes
  <1>6. ASSUME NEW x \in RankInfo, Run(x) PROVE ChannelTypes'
    <2>1. PICK S : transit' = [ch \in Channels |-> IF ch \in S THEN <<Data(Late, 0)>> ELSE transit[ch]]
      BY <1>6 DEF Run
    <2>2. Data(Late, 0) \in Msgs
      BY LifeAssumption DEF Data, Msgs
    <2>3. <<Data(Late, 0)>> \in Seq(Msgs)
      BY <2>2
    <2>4. inbox' = inbox
      BY <1>6 DEF Run
    <2> QED BY <2>1, <2>3, <2>4 DEF ChannelTypes
  <1>7. CASE ExchangeRanks
    BY <1>7, DeliveredTypes DEF ExchangeRanks
  <1>8. CASE Update
    BY <1>1, <1>8 DEF Update, linkVars
  <1>9. CASE UNCHANGED vars
    BY <1>1, <1>9 DEF vars, linkVars
  <1> QED BY <1>2, <1>3, <1>4, <1>5, <1>6, <1>7, <1>8, <1>9, CallTypes DEF Next, Step, Ended

(* Initially nothing has been sent. *)
LEMMA ChannelsInit == Init => ChannelTypes /\ ChannelInv
  <1> SUFFICES ASSUME Init PROVE ChannelTypes /\ ChannelInv
    OBVIOUS
  <1>1. transit = [ch \in Channels |-> <<>>] /\ inbox = [ch \in Channels |-> <<>>]
    BY DEF Init
  <1>2. ChannelTypes
    BY <1>1 DEF ChannelTypes
  <1>3. ASSUME NEW ch \in Channels PROVE InChannel(ch)
    <2>1. transit[ch] = <<>> /\ inbox[ch] = <<>>
      BY <1>1
    <2> QED BY <2>1 DEF InChannel, TransitAt, InboxAt, InOrder
  <1> QED BY <1>2, <1>3 DEF ChannelInv

(* Every step keeps what is said of a channel, if --stop-at does not cut    *)
(* the run off.                                                            *)
LEMMA ChannelNext ==
  ASSUME Control, ChannelTypes, ~stopped, NEW ch \in Channels, InChannel(ch), Next \/ UNCHANGED vars
  PROVE  InChannel(ch)'
  <1>1. ASSUME UNCHANGED <<pc, stage, phase, called, mode, linkVars, stopped>>
        PROVE  InChannel(ch)'
    BY <1>1 DEF linkVars, InChannel, TransitAt, OnWay, SendingNow, IsLocal, SameRank, InboxAt,
                Fits, Waiting, Fresh, Here, Exchanged, InOrder
  <1>2. ASSUME NEW r \in Ranks, Barrier(r) \/ Reset(r) PROVE InChannel(ch)'
    BY <1>2, BarrierChannels, ResetChannels
  <1>3. ASSUME NEW x \in RankInfo, Step(x) PROVE InChannel(ch)'
    BY <1>1, <1>3, CallChannels, ProcessChannels, DecideChannels, EmptyChannels, SetupChannels DEF Step, Share
  <1>4. CASE ExchangeRanks
    BY <1>4, ExchangeControl, ExchangeChannels
  <1> QED BY <1>1, <1>2, <1>3, <1>4, UpdateChannels DEF Next, Ended, vars

(* The invariant, and what it is for. *)
LifeInv == SharedTypeOK /\ Control /\ ChannelTypes /\ ChannelInv

(* It holds initially, *)
LEMMA LifeInvInit == Init => LifeInv
  <1>1. ASSUME SharedInit PROVE SharedTypeOK
    <2>1. Empty \in Contents
      BY DEF Empty, Contents
    <2>2. replica \in [Ranks -> Contents] /\ changes \in [Ranks -> Contents]
      BY <1>1, <2>1 DEF SharedInit
    <2>3. fullyPublished \in [Ranks -> BOOLEAN] /\ locked \in [Ranks -> BOOLEAN]
      BY <1>1 DEF SharedInit
    <2>4. /\ sharing \subseteq Sharers /\ published = {} /\ counted = {} /\ written = {}
          /\ failed \in BOOLEAN
      BY <1>1, SharedAssumption DEF SharedInit
    <2> QED BY <2>2, <2>3, <2>4 DEF SharedTypeOK
  <1>2. Init => SharedInit
    BY DEF Init
  <1> QED BY <1>1, <1>2, ControlInit, ChannelsInit DEF LifeInv

(* every step keeps it, *)
LEMMA LifeInvNext == LifeInv /\ [Next]_vars => LifeInv'
  <1> SUFFICES ASSUME LifeInv, [Next]_vars PROVE LifeInv'
    OBVIOUS
  <1>1. SharedTypeOK' /\ Control' /\ ChannelTypes'
    BY SharedTypesNext, ControlNext, ChannelTypesNext DEF LifeInv
  <1>2. stopped' = stopped
    BY DEF Next, Step, Ended, vars, Barrier, Reset, Share, Call, Process, Decide, Finalize, Setup, Run, Prepare,
           ExchangeRanks, Update
  <1>3. ChannelInv'
    <2> SUFFICES ASSUME ~stopped, NEW ch \in Channels PROVE InChannel(ch)'
      BY <1>2 DEF ChannelInv
    <2>1. InChannel(ch)
      BY DEF LifeInv, ChannelInv
    <2> QED BY <2>1, ChannelNext DEF LifeInv
  <1> QED BY <1>1, <1>3 DEF LifeInv

(* and it implies the types. *)
LEMMA LifeInvTypes == LifeInv => TypeOK
  <1> SUFFICES ASSUME LifeInv PROVE TypeOK
    OBVIOUS
  <1>1. phase \in [RankInfo -> 0 .. Late - 1]
    BY PhaseBound DEF LifeInv
  <1> QED BY <1>1, PCNames DEF LifeInv, Control, ControlTypes, ChannelTypes, TypeOK

(* All threads of all ranks are in the same round of init() or complete(), *)
(* and leave the loop together, however many there are and whatever the    *)
(* components send (simulation.cc:554, :606).                              *)
THEOREM RoundsTogether == Spec => []RoundInv
  <1>1. LifeInv => RoundInv
    BY LifeInvTypes, AgreeInRounds DEF LifeInv, RoundInv
  <1> QED BY <1>1, LifeInvInit, LifeInvNext, PTL DEF Spec

(* Untimed data is read in the round after the one it was sent in, in the  *)
(* order in which it was sent, on every kind of link, if the run was not   *)
(* cut off by --stop-at (link.cc:295, :322).                               *)
THEOREM DataInNextRound == Spec => [](~stopped => ReadNextRound)
  <1>1. LifeInv => (~stopped => ReadNextRound)
    BY ReadInNextRound DEF LifeInv, ChannelInv
  <1> QED BY <1>1, LifeInvInit, LifeInvNext, PTL DEF Spec

(* Under the same condition nothing is on its way or unread when a loop of *)
(* rounds is over (simulation.cc:554, :606).                               *)
THEOREM NothingLeft == Spec => [](~stopped => NothingLost)
  <1>1. LifeInv => (~stopped => NothingLost)
    BY LeftNothing DEF LifeInv, ChannelInv
  <1> QED BY <1>1, LifeInvInit, LifeInvNext, PTL DEF Spec
=============================================================================
