---------------------------- MODULE NetworkProofs ----------------------------
(***************************************************************************)
(* For any number of ports, virtual networks, channels and flows: no port  *)
(* of the router sleeps on a packet it may send, and the router's clock is *)
(* off only while no port has a packet.  Every step that may change what a *)
(* stopped port may send (a credit from the endpoint, a packet from the    *)
(* crossbar) starts its timer, and the timer alone stops itself, where it  *)
(* has found nothing to send.                                              *)
(*                                                                         *)
(* The network is a queue for every flow: a packet stays with the others   *)
(* of its source, virtual network and destination in each of the six       *)
(* places it passes, each place is left at the front and entered at the    *)
(* back, and a place is entered only from the one behind it.  So what is   *)
(* on the way of a flow, place after place, changes only where a packet    *)
(* is sent or read.                                                        *)
(*                                                                         *)
(* And credits are conserved: flits on a link, in the buffer behind it and *)
(* on their way back as credits add up with what the sender has left to    *)
(* the size of the buffer, through every step.                             *)
(***************************************************************************)
EXTENDS Network, FiniteSetTheorems, SequenceTheorems, FunctionTheorems,
        WellFoundedInduction, TLAPS

(* What the ports' variables are, as far as the argument needs it. *)
IsSeq(s) == \E S : s \in Seq(S)
RouterTypes ==
  /\ portWaiting \in [Ports -> BOOLEAN] /\ portTimer \in [Ports -> Nat]
  /\ arbVc \in [Ports -> Nat]
  /\ DOMAIN portCredits = Ports /\ DOMAIN outBuf = Ports
  /\ \A p \in Ports : DOMAIN outBuf[p] = VCs /\ \A c \in VCs : IsSeq(outBuf[p][c])

AwakeInv == RouterTypes /\ RouterAwake

(* There are so many ports and channels. *)
LEMMA Sizes ==
  /\ NumPorts \in Nat /\ NumVNs * VcsPerVn \in Nat \ {0} /\ IsFiniteSet(Ports)
  /\ VCs = 0 .. NumVNs * VcsPerVn - 1 /\ \A c \in VCs : c \in Nat
  <1>1. NumPorts \in Nat \ {0} /\ NumVNs \in Nat \ {0} /\ VcsPerVn \in Nat \ {0}
    BY MerlinAssumption
  <1>2. NumVNs * VcsPerVn \in Nat \ {0}
    <2>1. \A a, b \in Nat \ {0} : a * b \in Nat \ {0}
      OBVIOUS
    <2> QED BY <1>1, <2>1
  <1>3. IsFiniteSet(Ports)
    BY <1>1, FS_Interval DEF Ports
  <1> QED BY <1>1, <1>2, <1>3 DEF VCs

(* Going round from start one meets a member of the set first. *)
LEMMA FirstFromIs ==
  ASSUME NEW n \in Nat \ {0}, NEW start \in 0 .. n - 1, NEW S \in SUBSET (0 .. n - 1), S # {}
  PROVE  FirstFrom(start, n, S) \in S
  <1> DEFINE Distance(v) == (v + n - start) % n
             D == {Distance(v) : v \in S}
             R == OpToRel(<, Nat)
  <1>1. \A v \in S : Distance(v) \in Nat
    <2> TAKE v \in S
    <2>1. v + n - start \in Nat
      OBVIOUS
    <2> QED BY <2>1
  <1>2. PICK d \in D : \A e \in D : <<e, d>> \notin R
    <2>1. IsWellFoundedOn(R, Nat)
      BY NatLessThanWellFounded
    <2>2. D \in SUBSET Nat /\ D # {}
      BY <1>1
    <2> HIDE DEF R, D
    <2> QED BY <2>1, <2>2, WFMin
  <1>3. PICK v \in S : d = Distance(v)
    BY <1>2
  <1>4. ASSUME NEW w \in S PROVE Distance(v) <= Distance(w)
    <2>1. Distance(v) \in Nat /\ Distance(w) \in Nat /\ Distance(w) \in D
      BY <1>1
    <2>2. <<Distance(w), Distance(v)>> \notin R
      BY <1>2, <1>3, <2>1
    <2> HIDE DEF Distance, D
    <2> QED BY <2>1, <2>2 DEF OpToRel
  <1> QED BY <1>4 DEF FirstFrom

(* A finite set as a sequence. *)
LEMMA SetToSeqIs ==
  ASSUME NEW S, IsFiniteSet(S) PROVE SetToSeq(S) \in Seq(S)
  <1>0. Cardinality(S) \in Nat /\ Bijection(1 .. Cardinality(S), S) # {}
    BY FS_CardinalityType DEF ExistsBijection
  <1>1. PICK f : f \in Bijection(1 .. Cardinality(S), S)
    BY <1>0
  <1>2. f \in [1 .. Cardinality(S) -> S] /\ IsInjective(f)
    BY <1>1 DEF Bijection, Injection, IsInjective
  <1>3. SetToSeq(S) \in [1 .. Cardinality(S) -> S]
    BY <1>2 DEF SetToSeq
  <1> QED BY <1>0, <1>3

(* What comes over the crossbar is a sequence. *)
LEMMA IntoIs ==
  ASSUME NEW p, NEW c, NEW moves PROVE IsSeq(Into(p, c, moves))
  <1> DEFINE X == {q \in Ports : <<q, c>> \in moves /\ NextPort(q, c) = p}
             S == {HeadOf(q, c) : q \in X}
  <1>1. IsFiniteSet(X)
    BY Sizes, FS_Subset
  <1>2. IsFiniteSet(S)
    <2> DEFINE f == [q \in X |-> HeadOf(q, c)]
    <2>1. f \in Surjection(X, S)
      BY DEF Surjection
    <2> HIDE DEF f, X, S
    <2> QED BY <1>1, <2>1, FS_Surjection
  <1>3. SetToSeq(S) \in Seq(S)
    BY <1>2, SetToSeqIs
  <1> QED BY <1>3 DEF Into, IsSeq

(* Sequences stay sequences. *)
LEMMA SeqSteps ==
  ASSUME NEW s, IsSeq(s)
  PROVE  /\ s \o <<>> = s
         /\ s # <<>> => IsSeq(Tail(s))
         /\ \A t : IsSeq(t) => IsSeq(s \o t)
  <1>1. PICK S : s \in Seq(S)
    BY DEF IsSeq
  <1>2. s \o <<>> = s
    BY <1>1
  <1>3. s # <<>> => IsSeq(Tail(s))
    BY <1>1 DEF IsSeq
  <1>4. ASSUME NEW t, IsSeq(t) PROVE IsSeq(s \o t)
    <2>1. PICK T : t \in Seq(T)
      BY <1>4 DEF IsSeq
    <2>2. s \in Seq(S \cup T) /\ t \in Seq(S \cup T)
      BY <1>1, <2>1
    <2>3. s \o t \in Seq(S \cup T)
      BY <2>2
    <2> QED BY <2>3 DEF IsSeq
  <1> QED BY <1>2, <1>3, <1>4

(* At first all timers have stopped and there is nothing to send. *)
LEMMA InitAwake == Init => AwakeInv
  <1> SUFFICES ASSUME Init PROVE AwakeInv
    OBVIOUS
  <1>1. /\ outBuf = [p \in Ports |-> [c \in VCs |-> <<>>]]
        /\ portCredits = [p \in Ports |-> [c \in VCs |-> IF c \in VNs THEN HostInSize ELSE 0]]
        /\ arbVc = [p \in Ports |-> NumVNs * VcsPerVn - 1]
        /\ portWaiting = [p \in Ports |-> TRUE] /\ portTimer = [p \in Ports |-> 0]
        /\ notify = FALSE
    BY DEF Init, PortInit
  <1>2. IsSeq(<<>>)
    <2>1. <<>> \in Seq({})
      OBVIOUS
    <2> QED BY <2>1 DEF IsSeq
  <1>3. NumVNs * VcsPerVn - 1 \in Nat
    BY Sizes
  <1>4. RouterTypes
    BY <1>1, <1>2, <1>3 DEF RouterTypes
  <1>5. RouterAwake
    BY <1>1 DEF RouterAwake, Eligible
  <1> QED BY <1>4, <1>5 DEF AwakeInv

(* A step that leaves a port's output buffers and credits alone.           *)
LEMMA EligibleKept ==
  ASSUME NEW p \in Ports, outBuf'[p] = outBuf[p], portCredits'[p] = portCredits[p]
  PROVE  Eligible(p)' = Eligible(p)
  BY DEF Eligible

(* The endpoints do nothing to the router; the clock is turned off only    *)
(* when there is nothing to do.                                            *)
LEMMA QuietAwake ==
  ASSUME AwakeInv, UNCHANGED portVars,
         notify' => notify \/ VcsWithData = 0
  PROVE  AwakeInv'
  <1>1. UNCHANGED <<inBuf, outBuf, portCredits, arbVc, portWaiting, portTimer>>
    BY DEF portVars
  <1>2. RouterTypes'
    BY <1>1 DEF AwakeInv, RouterTypes
  <1>3. \A p \in Ports : Eligible(p)' = Eligible(p)
    BY <1>1 DEF Eligible
  <1>4. VcsWithData' = VcsWithData
    BY <1>1 DEF VcsWithData
  <1>5. RouterAwake'
    BY <1>1, <1>3, <1>4 DEF AwakeInv, RouterAwake
  <1> QED BY <1>2, <1>5 DEF AwakeInv

(* A packet that arrives from an endpoint turns the clock on. *)
LEMMA PacketAwake ==
  ASSUME AwakeInv, NEW p \in Ports, PacketFromHost(p) PROVE AwakeInv'
  <1>1. UNCHANGED <<outBuf, portCredits, arbVc, portWaiting, portTimer>>
    BY DEF PacketFromHost
  <1>2. ~notify'
    BY DEF PacketFromHost, NotifyEvent, xbarVars
  <1>3. RouterTypes'
    BY <1>1 DEF AwakeInv, RouterTypes
  <1>4. \A q \in Ports : Eligible(q)' = Eligible(q)
    BY <1>1 DEF Eligible
  <1>5. RouterAwake'
    BY <1>1, <1>2, <1>4 DEF AwakeInv, RouterAwake
  <1> QED BY <1>3, <1>5 DEF AwakeInv

(* A credit that arrives from an endpoint starts the timer. *)
LEMMA CreditAwake ==
  ASSUME AwakeInv, NEW p \in Ports, CreditFromHost(p) PROVE AwakeInv'
  <1>1. /\ portTimer' = [portTimer EXCEPT ![p] = IF portWaiting[p] THEN @ + 1 ELSE @]
        /\ portWaiting' = [portWaiting EXCEPT ![p] = FALSE]
        /\ UNCHANGED <<inBuf, outBuf, arbVc, notify>>
    BY DEF CreditFromHost, WakePort, xbarVars
  <1>2. DOMAIN portCredits' = Ports /\ \A q \in Ports \ {p} : portCredits'[q] = portCredits[q]
    BY DEF CreditFromHost, AwakeInv, RouterTypes
  <1>3. /\ portWaiting' \in [Ports -> BOOLEAN] /\ ~portWaiting'[p]
        /\ \A q \in Ports \ {p} : portWaiting'[q] = portWaiting[q]
    BY <1>1 DEF AwakeInv, RouterTypes
  <1>4. /\ portTimer' \in [Ports -> Nat] /\ portTimer'[p] = 1
        /\ \A q \in Ports \ {p} : portTimer'[q] = portTimer[q]
    BY <1>1 DEF AwakeInv, RouterTypes, RouterAwake
  <1>5. RouterTypes'
    BY <1>1, <1>2, <1>3, <1>4 DEF AwakeInv, RouterTypes
  <1>6. \A q \in Ports \ {p} : Eligible(q)' = Eligible(q)
    BY <1>1, <1>2, EligibleKept
  <1>7. VcsWithData' = VcsWithData
    BY <1>1 DEF VcsWithData
  <1>8. RouterAwake'
    BY <1>1, <1>3, <1>4, <1>6, <1>7 DEF AwakeInv, RouterAwake
  <1> QED BY <1>5, <1>8 DEF AwakeInv

(* A port that sends has its timer running. *)
LEMMA OutputAwake ==
  ASSUME AwakeInv, NEW p \in Ports, Output(p) PROVE AwakeInv'
  <1> DEFINE n == NumVNs * VcsPerVn
  <1>1. PICK c : /\ c = FirstFrom((arbVc[p] + 1) % n, n, Eligible(p))
                 /\ portTimer[p] > 0 /\ Eligible(p) # {}
                 /\ arbVc' = [arbVc EXCEPT ![p] = c]
                 /\ outBuf' = [outBuf EXCEPT ![p][c] = Tail(@)]
                 /\ \E k : portCredits' = [portCredits EXCEPT ![p][c] = k]
                 /\ UNCHANGED <<inBuf, portWaiting, portTimer, notify>>
    BY DEF Output, xbarVars
  <1>2. n \in Nat \ {0} /\ VCs = 0 .. n - 1
    BY Sizes
  <1>3. c \in Eligible(p)
    <2>1. Eligible(p) \in SUBSET (0 .. n - 1)
      BY <1>2 DEF Eligible
    <2>2. (arbVc[p] + 1) % n \in 0 .. n - 1
      <3>1. arbVc[p] + 1 \in Nat
        BY DEF AwakeInv, RouterTypes
      <3> HIDE DEF n
      <3> QED BY <1>2, <3>1
    <2> HIDE DEF n
    <2> QED BY <1>1, <1>2, <2>1, <2>2, FirstFromIs
  <1>4. c \in VCs /\ c \in Nat /\ outBuf[p][c] # <<>>
    BY <1>3, Sizes DEF Eligible
  <1>5. /\ DOMAIN outBuf' = Ports /\ \A q \in Ports \ {p} : outBuf'[q] = outBuf[q]
        /\ DOMAIN outBuf'[p] = VCs /\ outBuf'[p][c] = Tail(outBuf[p][c])
        /\ \A d \in VCs \ {c} : outBuf'[p][d] = outBuf[p][d]
    BY <1>1, <1>4 DEF AwakeInv, RouterTypes
  <1>6. DOMAIN portCredits' = Ports /\ \A q \in Ports \ {p} : portCredits'[q] = portCredits[q]
    BY <1>1 DEF AwakeInv, RouterTypes
  <1>7. IsSeq(Tail(outBuf[p][c]))
    BY <1>4, SeqSteps DEF AwakeInv, RouterTypes
  <1>8. RouterTypes'
    <2>1. arbVc' \in [Ports -> Nat]
      BY <1>1, <1>4 DEF AwakeInv, RouterTypes
    <2>2. ASSUME NEW q \in Ports
          PROVE  DOMAIN outBuf'[q] = VCs /\ \A d \in VCs : IsSeq(outBuf'[q][d])
      BY <1>5, <1>7 DEF AwakeInv, RouterTypes
    <2> QED BY <1>1, <1>5, <1>6, <2>1, <2>2 DEF AwakeInv, RouterTypes
  <1>9. ~portWaiting[p]
    BY <1>1 DEF AwakeInv, RouterAwake
  <1>10. \A q \in Ports \ {p} : Eligible(q)' = Eligible(q)
    BY <1>5, <1>6, EligibleKept
  <1>11. VcsWithData' = VcsWithData
    BY <1>1 DEF VcsWithData
  <1>12. RouterAwake'
    BY <1>1, <1>9, <1>10, <1>11 DEF AwakeInv, RouterAwake
  <1> QED BY <1>8, <1>12 DEF AwakeInv

(* A timer stops where there is nothing to send. *)
LEMMA IdleAwake ==
  ASSUME AwakeInv, NEW p \in Ports, PortIdle(p) PROVE AwakeInv'
  <1>1. /\ portTimer[p] > 0 /\ Eligible(p) = {}
        /\ portTimer' = [portTimer EXCEPT ![p] = @ - 1]
        /\ portWaiting' = [portWaiting EXCEPT ![p] = TRUE]
        /\ UNCHANGED <<inBuf, outBuf, portCredits, arbVc, notify>>
    BY DEF PortIdle, xbarVars
  <1>2. /\ portWaiting' \in [Ports -> BOOLEAN] /\ portWaiting'[p]
        /\ \A q \in Ports \ {p} : portWaiting'[q] = portWaiting[q]
    BY <1>1 DEF AwakeInv, RouterTypes
  <1>3. /\ portTimer' \in [Ports -> Nat] /\ portTimer'[p] = 0
        /\ \A q \in Ports \ {p} : portTimer'[q] = portTimer[q]
    BY <1>1 DEF AwakeInv, RouterTypes, RouterAwake
  <1>4. RouterTypes'
    BY <1>1, <1>2, <1>3 DEF AwakeInv, RouterTypes
  <1>5. \A q \in Ports : Eligible(q)' = Eligible(q)
    BY <1>1 DEF Eligible
  <1>6. VcsWithData' = VcsWithData
    BY <1>1 DEF VcsWithData
  <1>7. RouterAwake'
    BY <1>1, <1>2, <1>3, <1>5, <1>6 DEF AwakeInv, RouterAwake
  <1> QED BY <1>4, <1>7 DEF AwakeInv

(* The crossbar starts the timer of every port it brings a packet to.      *)
LEMMA ClockAwake ==
  ASSUME AwakeInv, ClockHandler PROVE AwakeInv'
  <1> DEFINE m == Arbitration.moves
             Reached(p) == \E c \in VCs : Into(p, c, m) # <<>>
  <1>1. /\ ~notify
        /\ outBuf' = [p \in Ports |-> [c \in VCs |-> outBuf[p][c] \o Into(p, c, m)]]
        /\ portTimer' = [p \in Ports |-> IF portWaiting[p] /\ Reached(p)
                                         THEN portTimer[p] + 1 ELSE portTimer[p]]
        /\ portWaiting' = [p \in Ports |-> portWaiting[p] /\ ~Reached(p)]
        /\ UNCHANGED <<portCredits, arbVc, notify>>
    <2>1. PICK a \in {Arbitration} :
            /\ ~notify
            /\ outBuf' = [p \in Ports |-> [c \in VCs |-> outBuf[p][c] \o Into(p, c, a.moves)]]
            /\ portTimer' = [p \in Ports |->
                 IF portWaiting[p] /\ \E c \in VCs : Into(p, c, a.moves) # <<>>
                 THEN portTimer[p] + 1 ELSE portTimer[p]]
            /\ portWaiting' = [p \in Ports |->
                 portWaiting[p] /\ ~\E c \in VCs : Into(p, c, a.moves) # <<>>]
            /\ UNCHANGED <<portCredits, arbVc, notify>>
      BY Zenon DEF ClockHandler
    <2>2. a = Arbitration
      OBVIOUS
    <2> QED BY <2>1, <2>2
  <1> HIDE DEF m
  <1>2. \A p \in Ports, c \in VCs : IsSeq(outBuf[p][c]) /\ IsSeq(Into(p, c, m))
    BY IntoIs DEF AwakeInv, RouterTypes
  <1>3. RouterTypes'
    <2>1. \A p \in Ports, c \in VCs : IsSeq(outBuf[p][c] \o Into(p, c, m))
      BY <1>2, SeqSteps
    <2>2. DOMAIN outBuf' = Ports /\ \A p \in Ports : DOMAIN outBuf'[p] = VCs
      BY <1>1
    <2>3. \A p \in Ports, c \in VCs : IsSeq(outBuf'[p][c])
      BY <1>1, <2>1
    <2> HIDE DEF Reached
    <2>4. portWaiting' \in [Ports -> BOOLEAN] /\ portTimer' \in [Ports -> Nat]
      BY <1>1 DEF AwakeInv, RouterTypes
    <2> QED BY <1>1, <2>2, <2>3, <2>4 DEF AwakeInv, RouterTypes
  <1>4. ASSUME NEW p \in Ports, ~Reached(p) PROVE Eligible(p)' = Eligible(p)
    <2>1. \A c \in VCs : outBuf'[p][c] = outBuf[p][c] \o <<>>
      BY <1>1, <1>4
    <2>2. \A c \in VCs : outBuf'[p][c] = outBuf[p][c]
      BY <1>2, <2>1, SeqSteps
    <2> QED BY <1>1, <2>2 DEF Eligible
  <1> HIDE DEF Reached
  <1>5. RouterAwake'
    <2>1. ASSUME NEW p \in Ports, portWaiting'[p] PROVE Eligible(p)' = {} /\ portTimer'[p] = 0
      <3>1. portWaiting[p] /\ ~Reached(p)
        BY <1>1, <2>1
      <3>2. portTimer'[p] = portTimer[p]
        BY <1>1, <3>1
      <3> QED BY <1>4, <3>1, <3>2 DEF AwakeInv, RouterAwake
    <2>2. ASSUME NEW p \in Ports, ~portWaiting'[p] PROVE portTimer'[p] = 1
      <3>1. ~portWaiting[p] \/ Reached(p)
        BY <1>1, <2>2
      <3>2. portTimer[p] = IF portWaiting[p] THEN 0 ELSE 1
        BY DEF AwakeInv, RouterAwake
      <3>3. portTimer'[p] = IF portWaiting[p] /\ Reached(p) THEN portTimer[p] + 1 ELSE portTimer[p]
        BY <1>1
      <3> QED BY <3>1, <3>2, <3>3
    <2> QED BY <1>1, <2>1, <2>2 DEF RouterAwake
  <1> QED BY <1>3, <1>5 DEF AwakeInv

(* Every step keeps that. *)
LEMMA AwakeKept ==
  ASSUME AwakeInv, [Next]_vars
  PROVE  AwakeInv'
  <1>1. CASE HostStep /\ UNCHANGED <<portVars, xbarVars>>
    BY <1>1, QuietAwake DEF xbarVars
  <1>2. CASE PortStep
    BY <1>2, PacketAwake, CreditAwake, OutputAwake, IdleAwake DEF PortStep
  <1>3. CASE ClockOff
    BY <1>3, QuietAwake DEF ClockOff
  <1>4. CASE ClockHandler
    BY <1>4, ClockAwake
  <1>5. CASE UNCHANGED vars
    BY <1>5, QuietAwake DEF vars, xbarVars
  <1> QED BY <1>1, <1>2, <1>3, <1>4, <1>5 DEF Next, RouterStep, Quiet

(* No port of the router sleeps on a packet it may send, there is never a  *)
(* second timer, and the clock is off only while no port has a packet.     *)
THEOREM NeverAsleep == Spec => []RouterAwake
  <1>1. AwakeInv /\ [Next]_vars => AwakeInv'
    BY AwakeKept
  <1>2. AwakeInv => RouterAwake
    BY DEF AwakeInv
  <1> QED BY <1>1, <1>2, InitAwake, PTL DEF Spec

----------------------------------------------------------------------------
(* What is computed from the first to the last: sums, sequences that are   *)
(* joined, and the arbitration.                                            *)

(* A set of natural numbers that is not empty has a least one. *)
LEMMA LeastOf ==
  ASSUME NEW S \in SUBSET Nat, S # {}
  PROVE  \E t \in S : \A u \in S : t <= u
  <1> DEFINE R == OpToRel(<, Nat)
  <1>1. \E t \in S : \A u \in S : <<u, t>> \notin R
    <2>1. IsWellFoundedOn(R, Nat)
      BY NatLessThanWellFounded
    <2> HIDE DEF R
    <2> QED BY <2>1, WFMin
  <1>2. \A t, u \in Nat : <<u, t>> \notin R => t <= u
    BY DEF OpToRel
  <1> HIDE DEF R
  <1> QED BY <1>1, <1>2

(* n steps that lead from e to other members of T, and F that does them.   *)
Steps(n, T, e, step) == n \in Nat /\ e \in T /\ step \in [(1 .. n) \X T -> T]
DoesSteps(F, n, T, e, step) ==
  F \in [0 .. n -> T] /\ F[0] = e /\ \A k \in 1 .. n : F[k] = step[<<k, F[k - 1]>>]

(* There is such a function. *)
LEMMA StepsExist ==
  ASSUME NEW n, NEW T, NEW e, NEW step, Steps(n, T, e, step)
  PROVE  \E F : DoesSteps(F, n, T, e, step)
  <1> USE DEF Steps
  <1> DEFINE Does(F, m) == /\ F \in [0 .. m -> T] /\ F[0] = e
                           /\ \A k \in 1 .. m : F[k] = step[<<k, F[k - 1]>>]
             Bad == {m \in 0 .. n : ~\E F : Does(F, m)}
  <1> SUFFICES Bad = {}
    <2>1. n \in 0 .. n
      OBVIOUS
    <2>2. PICK F : Does(F, n)
      BY <2>1
    <2> QED BY <2>2 DEF DoesSteps
  <1> SUFFICES ASSUME Bad # {} PROVE FALSE
    OBVIOUS
  <1>1. PICK m \in Bad : \A k \in Bad : m <= k
    <2>1. Bad \in SUBSET Nat
      OBVIOUS
    <2> HIDE DEF Bad
    <2> QED BY <2>1, LeastOf
  <1>2. m \in 0 .. n /\ ~\E F : Does(F, m)
    BY <1>1
  <1>3. m # 0
    <2> SUFFICES ASSUME m = 0 PROVE FALSE
      OBVIOUS
    <2>1. Does([k \in 0 .. 0 |-> e], 0)
      OBVIOUS
    <2> HIDE DEF Does
    <2> QED BY <1>2, <2>1
  <1>4. m \in 1 .. n /\ m - 1 \in 0 .. n /\ m - 1 \notin Bad
    <2>1. m \in 1 .. n /\ m - 1 \in 0 .. n /\ ~(m <= m - 1)
      BY <1>2, <1>3
    <2> HIDE DEF Bad
    <2> QED BY <1>1, <2>1
  <1>5. PICK F : Does(F, m - 1)
    <2> HIDE DEF Does
    <2> QED BY <1>4
  <1> DEFINE G == [k \in 0 .. m |-> IF k = m THEN step[<<m, F[m - 1]>>] ELSE F[k]]
  <1>6. F[m - 1] \in T /\ step[<<m, F[m - 1]>>] \in T
    BY <1>4, <1>5
  <1>7. \A k \in 0 .. m : k # m => k \in 0 .. (m - 1)
    BY <1>4
  <1>8. G \in [0 .. m -> T]
    BY <1>5, <1>6, <1>7
  <1>9. G[0] = e
    BY <1>4, <1>5
  <1>10. ASSUME NEW k \in 1 .. m PROVE G[k] = step[<<k, G[k - 1]>>]
    <2>1. k \in 0 .. m /\ k - 1 \in 0 .. m /\ k - 1 # m
      BY <1>4
    <2>2. G[k - 1] = F[k - 1]
      BY <2>1
    <2>3. CASE k = m
      BY <2>1, <2>2, <2>3
    <2>4. CASE k # m
      <3>1. k \in 1 .. (m - 1)
        BY <1>4, <2>4
      <3>2. F[k] = step[<<k, F[k - 1]>>]
        BY <1>5, <3>1
      <3> QED BY <2>1, <2>2, <2>4, <3>2
    <2> QED BY <2>3, <2>4
  <1> HIDE DEF G
  <1>11. Does(G, m)
    BY <1>8, <1>9, <1>10
  <1> HIDE DEF Does
  <1> QED BY <1>2, <1>11

(* op is associative, with e that changes nothing. *)
Monoid(T, e, op) ==
  /\ e \in T /\ op \in [T \X T -> T]
  /\ \A a, b, c \in T : op[<<op[<<a, b>>], c>>] = op[<<a, op[<<b, c>>]>>]
  /\ \A a \in T : op[<<a, e>>] = a

(* F goes through s from e on with the operation op. *)
Through(F, s, T, e, op) ==
  /\ F \in [0 .. Len(s) -> T] /\ F[0] = e
  /\ \A k \in 1 .. Len(s) : F[k] = op[<<F[k - 1], s[k]>>]

(* What goes through one sequence after the other. *)
LEMMA ThroughBoth ==
  ASSUME NEW T, NEW e, NEW op, Monoid(T, e, op),
         NEW s \in Seq(T), NEW t \in Seq(T), NEW F, NEW G, NEW H,
         Through(F, s, T, e, op), Through(G, t, T, e, op), Through(H, s \o t, T, e, op)
  PROVE  H[Len(s \o t)] = op[<<F[Len(s)], G[Len(t)]>>]
  <1> USE DEF Monoid
  <1> DEFINE l == Len(s)  n == Len(t)  u == s \o t
  <1>1. l \in Nat /\ n \in Nat /\ Len(s \o t) = l + n
    OBVIOUS
  <1>2. /\ \A k \in 1 .. l : u[k] = s[k] /\ s[k] \in T
        /\ \A k \in 1 .. n : u[l + k] = t[k] /\ t[k] \in T
    OBVIOUS
  <1>3. /\ F \in [0 .. l -> T] /\ F[0] = e /\ \A k \in 1 .. l : F[k] = op[<<F[k - 1], s[k]>>]
        /\ G \in [0 .. n -> T] /\ G[0] = e /\ \A k \in 1 .. n : G[k] = op[<<G[k - 1], t[k]>>]
        /\ H \in [0 .. (l + n) -> T] /\ H[0] = e
        /\ \A k \in 1 .. (l + n) : H[k] = op[<<H[k - 1], u[k]>>]
    BY <1>1 DEF Through
  <1> HIDE DEF l, n, u
  <1>4. ASSUME NEW k \in 0 .. l PROVE H[k] = F[k]
    <2> DEFINE Bad == {m \in 0 .. l : H[m] # F[m]}
    <2> SUFFICES ASSUME Bad # {} PROVE FALSE
      OBVIOUS
    <2>1. PICK m \in Bad : \A j \in Bad : m <= j
      <3>1. Bad \in SUBSET Nat
        BY <1>1
      <3> HIDE DEF Bad
      <3> QED BY <3>1, LeastOf
    <2>2. m \in 1 .. l /\ m - 1 \in 0 .. l /\ H[m] # F[m]
      BY <1>1, <1>3, <2>1
    <2>3. H[m - 1] = F[m - 1]
      <3>1. m - 1 \notin Bad
        <4>1. ~(m <= m - 1)
          BY <1>1, <2>2
        <4> HIDE DEF Bad
        <4> QED BY <2>1, <4>1
      <3> QED BY <2>2, <3>1
    <2>4. m \in 1 .. (l + n)
      BY <1>1, <2>2
    <2>5. H[m] = op[<<H[m - 1], u[m]>>] /\ F[m] = op[<<F[m - 1], s[m]>>]
      BY <1>3, <2>2, <2>4
    <2>6. u[m] = s[m]
      BY <1>2, <2>2
    <2> HIDE DEF Bad
    <2> QED BY <2>2, <2>3, <2>5, <2>6
  <1>5. ASSUME NEW k \in 0 .. n PROVE H[l + k] = op[<<F[l], G[k]>>]
    <2> DEFINE Bad == {m \in 0 .. n : H[l + m] # op[<<F[l], G[m]>>]}
    <2> SUFFICES ASSUME Bad # {} PROVE FALSE
      OBVIOUS
    <2>1. PICK m \in Bad : \A j \in Bad : m <= j
      <3>1. Bad \in SUBSET Nat
        BY <1>1
      <3> HIDE DEF Bad
      <3> QED BY <3>1, LeastOf
    <2>2. m \in 0 .. n /\ H[l + m] # op[<<F[l], G[m]>>]
      BY <2>1
    <2>3. F[l] \in T /\ l \in 0 .. l
      BY <1>1, <1>3
    <2>4. m # 0
      <3> SUFFICES ASSUME m = 0 PROVE FALSE
        OBVIOUS
      <3>1. l + m = l
        BY <1>1
      <3> QED BY <1>3, <1>4, <2>2, <2>3, <3>1
    <2>5. /\ m \in 1 .. n /\ m - 1 \in 0 .. n /\ ~(m <= m - 1)
          /\ l + m \in 1 .. (l + n) /\ (l + m) - 1 = l + (m - 1)
      BY <1>1, <2>2, <2>4
    <2>6. H[l + (m - 1)] = op[<<F[l], G[m - 1]>>]
      <3>1. m - 1 \notin Bad
        <4> HIDE DEF Bad
        <4> QED BY <2>1, <2>5
      <3> QED BY <2>5, <3>1
    <2>7. H[l + m] = op[<<op[<<F[l], G[m - 1]>>], t[m]>>]
      <3>1. H[l + m] = op[<<H[(l + m) - 1], u[l + m]>>]
        BY <1>3, <2>5
      <3>2. u[l + m] = t[m]
        BY <1>2, <2>5
      <3> HIDE DEF Bad
      <3> QED BY <2>5, <2>6, <3>1, <3>2
    <2>8. G[m - 1] \in T /\ t[m] \in T /\ G[m] = op[<<G[m - 1], t[m]>>]
      BY <1>2, <1>3, <2>5
    <2> HIDE DEF Bad
    <2> QED BY <2>2, <2>3, <2>7, <2>8
  <1>6. n \in 0 .. n
    BY <1>1
  <1> QED BY <1>1, <1>5, <1>6 DEF l, n

Plus == [p \in Nat \X Nat |-> p[1] + p[2]]

(* The sum goes through its summands. *)
LEMMA TotalThrough ==
  ASSUME NEW s \in Seq(Nat)
  PROVE  \E F : Through(F, s, Nat, 0, Plus) /\ Total(s) = F[Len(s)]
  <1> DEFINE n == Len(s)
             Eq(f) == f = [k \in 0 .. n |-> IF k = 0 THEN 0 ELSE f[k - 1] + s[k]]
             F == CHOOSE f : Eq(f)
             step == [p \in (1 .. n) \X Nat |-> p[2] + s[p[1]]]
  <1>1. n \in Nat /\ \A k \in 1 .. n : s[k] \in Nat
    OBVIOUS
  <1>2. Total(s) = F[n]
    BY DEF Total
  <1> HIDE DEF n
  <1>3. step \in [(1 .. n) \X Nat -> Nat]
    BY <1>1
  <1>4. \A k \in 1 .. n, x \in Nat : step[<<k, x>>] = x + s[k]
    OBVIOUS
  <1> HIDE DEF step
  <1>5. PICK f \in [0 .. n -> Nat] : f[0] = 0 /\ \A k \in 1 .. n : f[k] = step[<<k, f[k - 1]>>]
    <2>1. Steps(n, Nat, 0, step)
      BY <1>1, <1>3 DEF Steps
    <2>2. PICK f : DoesSteps(f, n, Nat, 0, step)
      BY <2>1, StepsExist
    <2> QED BY <2>2 DEF DoesSteps
  <1>6. ASSUME NEW k \in 1 .. n PROVE f[k] = f[k - 1] + s[k] /\ f[k - 1] \in Nat
    <2>1. k - 1 \in 0 .. n
      BY <1>1
    <2> QED BY <1>4, <1>5, <2>1
  <1>7. Eq(f)
    <2>1. \A k \in 0 .. n : k # 0 => k \in 1 .. n
      BY <1>1
    <2>2. \A k \in 0 .. n : f[k] = IF k = 0 THEN 0 ELSE f[k - 1] + s[k]
      BY <1>5, <1>6, <2>1
    <2> QED BY <1>5, <2>2
  <1>8. Eq(F)
    <2> HIDE DEF Eq
    <2> QED BY <1>7
  <1> HIDE DEF F
  <1>9. DOMAIN F = 0 .. n /\ F[0] = 0 /\ \A k \in 1 .. n : F[k] = F[k - 1] + s[k]
    <2>1. /\ 0 \in 0 .. n /\ \A k \in 1 .. n : k \in 0 .. n /\ k # 0
      BY <1>1
    <2> QED BY <1>8, <2>1
  <1>10. \A k \in 0 .. n : F[k] \in Nat
    <2> DEFINE Bad == {m \in 0 .. n : F[m] \notin Nat}
    <2> SUFFICES ASSUME Bad # {} PROVE FALSE
      OBVIOUS
    <2>1. PICK m \in Bad : \A j \in Bad : m <= j
      <3>1. Bad \in SUBSET Nat
        BY <1>1
      <3> HIDE DEF Bad
      <3> QED BY <3>1, LeastOf
    <2>2. m \in 1 .. n /\ m - 1 \in 0 .. n /\ F[m] \notin Nat
      BY <1>1, <1>9, <2>1
    <2>3. F[m - 1] \in Nat
      <3>1. m - 1 \notin Bad
        <4>1. ~(m <= m - 1)
          BY <1>1, <2>2
        <4> HIDE DEF Bad
        <4> QED BY <2>1, <4>1
      <3> QED BY <2>2, <3>1
    <2>4. F[m] = F[m - 1] + s[m] /\ s[m] \in Nat
      BY <1>1, <1>9, <2>2
    <2> HIDE DEF Bad
    <2> QED BY <2>2, <2>3, <2>4
  <1>11. F \in [0 .. n -> Nat]
    <2>1. F = [k \in 0 .. n |-> F[k]]
      BY <1>8
    <2> QED BY <1>10, <2>1
  <1>12. \A k \in 1 .. n : F[k] = Plus[<<F[k - 1], s[k]>>]
    <2> TAKE k \in 1 .. n
    <2>1. F[k - 1] \in Nat /\ s[k] \in Nat
      <3>1. k - 1 \in 0 .. n
        BY <1>1
      <3> QED BY <1>1, <1>10, <3>1
    <2> QED BY <1>9, <2>1 DEF Plus
  <1>13. Through(F, s, Nat, 0, Plus)
    BY <1>9, <1>11, <1>12 DEF Through, n
  <1> QED BY <1>2, <1>13 DEF n
Join(X) == [p \in Seq(X) \X Seq(X) |-> p[1] \o p[2]]

(* What is joined goes through what it is made of. *)
LEMMA JoinedThrough ==
  ASSUME NEW X, NEW s \in Seq(Seq(X))
  PROVE  \E F : Through(F, s, Seq(X), <<>>, Join(X)) /\ Joined(s) = F[Len(s)]
  <1> DEFINE n == Len(s)
             Eq(f) == f = [k \in 0 .. n |-> IF k = 0 THEN <<>> ELSE f[k - 1] \o s[k]]
             F == CHOOSE f : Eq(f)
             step == [p \in (1 .. n) \X Seq(X) |-> p[2] \o s[p[1]]]
  <1>1. n \in Nat /\ \A k \in 1 .. n : s[k] \in Seq(X)
    OBVIOUS
  <1>2. Joined(s) = F[n]
    BY DEF Joined
  <1> HIDE DEF n
  <1>3. step \in [(1 .. n) \X Seq(X) -> Seq(X)]
    BY <1>1
  <1>4. \A k \in 1 .. n, x \in Seq(X) : step[<<k, x>>] = x \o s[k]
    OBVIOUS
  <1> HIDE DEF step
  <1>5. PICK f \in [0 .. n -> Seq(X)] : f[0] = <<>> /\ \A k \in 1 .. n : f[k] = step[<<k, f[k - 1]>>]
    <2>1. Steps(n, Seq(X), <<>>, step)
      BY <1>1, <1>3 DEF Steps
    <2>2. PICK f : DoesSteps(f, n, Seq(X), <<>>, step)
      BY <2>1, StepsExist
    <2> QED BY <2>2 DEF DoesSteps
  <1>6. ASSUME NEW k \in 1 .. n PROVE f[k] = f[k - 1] \o s[k] /\ f[k - 1] \in Seq(X)
    <2>1. k - 1 \in 0 .. n
      BY <1>1
    <2> QED BY <1>4, <1>5, <2>1
  <1>7. Eq(f)
    <2>1. \A k \in 0 .. n : k # 0 => k \in 1 .. n
      BY <1>1
    <2>2. \A k \in 0 .. n : f[k] = IF k = 0 THEN <<>> ELSE f[k - 1] \o s[k]
      BY <1>5, <1>6, <2>1
    <2> QED BY <1>5, <2>2
  <1>8. Eq(F)
    <2> HIDE DEF Eq
    <2> QED BY <1>7
  <1> HIDE DEF F
  <1>9. DOMAIN F = 0 .. n /\ F[0] = <<>> /\ \A k \in 1 .. n : F[k] = F[k - 1] \o s[k]
    <2>1. /\ 0 \in 0 .. n /\ \A k \in 1 .. n : k \in 0 .. n /\ k # 0
      BY <1>1
    <2> QED BY <1>8, <2>1
  <1>10. \A k \in 0 .. n : F[k] \in Seq(X)
    <2> DEFINE Bad == {m \in 0 .. n : F[m] \notin Seq(X)}
    <2> SUFFICES ASSUME Bad # {} PROVE FALSE
      OBVIOUS
    <2>1. PICK m \in Bad : \A j \in Bad : m <= j
      <3>1. Bad \in SUBSET Nat
        BY <1>1
      <3> HIDE DEF Bad
      <3> QED BY <3>1, LeastOf
    <2>2. m \in 1 .. n /\ m - 1 \in 0 .. n /\ F[m] \notin Seq(X)
      <3>1. m \in 0 .. n /\ F[m] \notin Seq(X)
        BY <2>1
      <3>2. F[0] \in Seq(X)
        BY <1>9
      <3> HIDE DEF Bad
      <3> QED BY <1>1, <3>1, <3>2
    <2>3. F[m - 1] \in Seq(X)
      <3>1. m - 1 \notin Bad
        <4>1. ~(m <= m - 1)
          BY <1>1, <2>2
        <4> HIDE DEF Bad
        <4> QED BY <2>1, <4>1
      <3> QED BY <2>2, <3>1
    <2>4. F[m] = F[m - 1] \o s[m] /\ s[m] \in Seq(X)
      BY <1>1, <1>9, <2>2
    <2> HIDE DEF Bad
    <2> QED BY <2>2, <2>3, <2>4
  <1>11. F \in [0 .. n -> Seq(X)]
    <2>1. F = [k \in 0 .. n |-> F[k]]
      BY <1>8
    <2> QED BY <1>10, <2>1
  <1>12. \A k \in 1 .. n : F[k] = Join(X)[<<F[k - 1], s[k]>>]
    <2> TAKE k \in 1 .. n
    <2>1. F[k - 1] \in Seq(X) /\ s[k] \in Seq(X)
      <3>1. k - 1 \in 0 .. n
        BY <1>1
      <3> QED BY <1>1, <1>10, <3>1
    <2> QED BY <1>9, <2>1 DEF Join
  <1>13. Through(F, s, Seq(X), <<>>, Join(X))
    BY <1>9, <1>11, <1>12 DEF Through, n
  <1> QED BY <1>2, <1>13 DEF n
(* What sums are, and sequences that are joined. *)
LEMMA Totals ==
  /\ \A s \in Seq(Nat) : Total(s) \in Nat
  /\ Total(<<>>) = 0 /\ \A n \in Nat : Total(<<n>>) = n
  /\ \A s, t \in Seq(Nat) : Total(s \o t) = Total(s) + Total(t)
  <1>1. ASSUME NEW s \in Seq(Nat)
        PROVE  /\ Total(s) \in Nat
               /\ (s = <<>> => Total(s) = 0) /\ (Len(s) = 1 => Total(s) = s[1])
    <2>1. PICK F : Through(F, s, Nat, 0, Plus) /\ Total(s) = F[Len(s)]
      BY TotalThrough
    <2>2. /\ F \in [0 .. Len(s) -> Nat] /\ F[0] = 0
          /\ \A k \in 1 .. Len(s) : F[k] = Plus[<<F[k - 1], s[k]>>]
      BY <2>1 DEF Through
    <2>3. s = <<>> => Total(s) = 0
      BY <2>1, <2>2
    <2>4. ASSUME Len(s) = 1 PROVE Total(s) = s[1]
      <3>1. s[1] \in Nat /\ 1 \in 1 .. Len(s) /\ 1 - 1 = 0
        <4>1. 1 \in 1 .. Len(s) /\ 1 - 1 = 0
          BY <2>4
        <4>2. s[1] \in Nat
          BY <4>1
        <4> QED BY <4>1, <4>2
      <3>2. F[1] = Plus[<<F[1 - 1], s[1]>>]
        BY <2>2, <3>1
      <3>3. Plus[<<0, s[1]>>] = s[1]
        BY <3>1 DEF Plus
      <3> QED BY <2>1, <2>2, <2>4, <3>1, <3>2, <3>3
    <2>5. Len(s) \in 0 .. Len(s)
      OBVIOUS
    <2> QED BY <2>1, <2>2, <2>3, <2>4, <2>5
  <1>2. ASSUME NEW s \in Seq(Nat), NEW t \in Seq(Nat) PROVE Total(s \o t) = Total(s) + Total(t)
    <2>1. PICK F : Through(F, s, Nat, 0, Plus) /\ Total(s) = F[Len(s)]
      BY TotalThrough
    <2>2. PICK G : Through(G, t, Nat, 0, Plus) /\ Total(t) = G[Len(t)]
      BY TotalThrough
    <2>3. s \o t \in Seq(Nat)
      OBVIOUS
    <2>4. PICK H : Through(H, s \o t, Nat, 0, Plus) /\ Total(s \o t) = H[Len(s \o t)]
      BY <2>3, TotalThrough
    <2>5. Monoid(Nat, 0, Plus)
      <3>1. Plus \in [Nat \X Nat -> Nat] /\ \A a, b \in Nat : Plus[<<a, b>>] = a + b
        BY DEF Plus
      <3>2. \A a, b \in Nat : a + b \in Nat
        OBVIOUS
      <3>3. ASSUME NEW a \in Nat, NEW b \in Nat, NEW c \in Nat
            PROVE  Plus[<<Plus[<<a, b>>], c>>] = Plus[<<a, Plus[<<b, c>>]>>]
        <4>1. Plus[<<a, b>>] = a + b /\ Plus[<<b, c>>] = b + c
          BY <3>1
        <4>2. Plus[<<a + b, c>>] = (a + b) + c /\ Plus[<<a, b + c>>] = a + (b + c)
          BY <3>1, <3>2
        <4>3. (a + b) + c = a + (b + c)
          OBVIOUS
        <4> QED BY <4>1, <4>2, <4>3
      <3>4. \A a \in Nat : Plus[<<a, 0>>] = a
        <4>1. 0 \in Nat /\ \A a \in Nat : a + 0 = a
          OBVIOUS
        <4> QED BY <3>1, <4>1
      <3> QED BY <3>1, <3>3, <3>4 DEF Monoid
    <2>6. H[Len(s \o t)] = Plus[<<F[Len(s)], G[Len(t)]>>]
      BY <2>1, <2>2, <2>4, <2>5, ThroughBoth
    <2>7. Total(s) \in Nat /\ Total(t) \in Nat
      BY <1>1
    <2> QED BY <2>1, <2>2, <2>4, <2>6, <2>7 DEF Plus
  <1>3. <<>> \in Seq(Nat) /\ \A n \in Nat : <<n>> \in Seq(Nat)
    OBVIOUS
  <1>4. Total(<<>>) = 0
    BY <1>1, <1>3
  <1>5. ASSUME NEW n \in Nat PROVE Total(<<n>>) = n
    <2> DEFINE s == <<n>>
    <2>1. s \in Seq(Nat) /\ Len(s) = 1 /\ s[1] = n
      OBVIOUS
    <2> HIDE DEF s
    <2>2. Total(s) = n
      BY <1>1, <2>1
    <2> QED BY <2>2 DEF s
  <1>6. \A s \in Seq(Nat) : Total(s) \in Nat
    BY <1>1
  <1> QED BY <1>2, <1>4, <1>5, <1>6

(* All the members of a sequence of sequences as one sequence. *)
LEMMA JoinedParts ==
  ASSUME NEW X
  PROVE  /\ \A s \in Seq(Seq(X)) : Joined(s) \in Seq(X)
         /\ Joined(<<>>) = <<>> /\ \A x \in Seq(X) : Joined(<<x>>) = x
         /\ \A s, t \in Seq(Seq(X)) : Joined(s \o t) = Joined(s) \o Joined(t)
  <1>1. ASSUME NEW s \in Seq(Seq(X))
        PROVE  /\ Joined(s) \in Seq(X)
               /\ s = <<>> => Joined(s) = <<>>
               /\ Len(s) = 1 => Joined(s) = s[1]
    <2>1. PICK F : Through(F, s, Seq(X), <<>>, Join(X)) /\ Joined(s) = F[Len(s)]
      BY JoinedThrough
    <2>2. /\ F \in [0 .. Len(s) -> Seq(X)] /\ F[0] = <<>>
          /\ \A k \in 1 .. Len(s) : F[k] = Join(X)[<<F[k - 1], s[k]>>]
      BY <2>1 DEF Through
    <2>3. s = <<>> => Joined(s) = <<>>
      BY <2>1, <2>2
    <2>4. ASSUME Len(s) = 1 PROVE Joined(s) = s[1]
      <3>1. s[1] \in Seq(X) /\ 1 \in 1 .. Len(s) /\ 1 - 1 = 0
        <4>1. 1 \in 1 .. Len(s) /\ 1 - 1 = 0
          BY <2>4
        <4>2. s[1] \in Seq(X)
          BY <4>1
        <4> QED BY <4>1, <4>2
      <3>2. F[1] = Join(X)[<<F[1 - 1], s[1]>>]
        BY <2>2, <3>1
      <3>3. <<>> \in Seq(X) /\ <<>> \o s[1] = s[1]
        BY <3>1
      <3>4. Join(X)[<<<<>>, s[1]>>] = <<>> \o s[1]
        BY <3>1, <3>3 DEF Join
      <3> QED BY <2>1, <2>2, <2>4, <3>1, <3>2, <3>3, <3>4
    <2>5. Len(s) \in 0 .. Len(s)
      OBVIOUS
    <2> QED BY <2>1, <2>2, <2>3, <2>4, <2>5
  <1>2. ASSUME NEW s \in Seq(Seq(X)), NEW t \in Seq(Seq(X))
        PROVE  Joined(s \o t) = Joined(s) \o Joined(t)
    <2>1. PICK F : Through(F, s, Seq(X), <<>>, Join(X)) /\ Joined(s) = F[Len(s)]
      BY JoinedThrough
    <2>2. PICK G : Through(G, t, Seq(X), <<>>, Join(X)) /\ Joined(t) = G[Len(t)]
      BY JoinedThrough
    <2>3. s \o t \in Seq(Seq(X))
      OBVIOUS
    <2>4. PICK H : Through(H, s \o t, Seq(X), <<>>, Join(X)) /\ Joined(s \o t) = H[Len(s \o t)]
      BY <2>3, JoinedThrough
    <2>5. Monoid(Seq(X), <<>>, Join(X))
      <3>1. <<>> \in Seq(X) /\ Join(X) \in [Seq(X) \X Seq(X) -> Seq(X)]
        BY DEF Join
      <3>2. ASSUME NEW a \in Seq(X), NEW b \in Seq(X)
            PROVE  Join(X)[<<a, b>>] = a \o b /\ a \o b \in Seq(X)
        <4>1. <<a, b>> \in Seq(X) \X Seq(X) /\ a \o b \in Seq(X)
          OBVIOUS
        <4> QED BY <4>1 DEF Join
      <3>3. \A a, b, c \in Seq(X) : (a \o b) \o c = a \o (b \o c)
        OBVIOUS
      <3>4. \A a \in Seq(X) : a \o <<>> = a
        OBVIOUS
      <3>5. ASSUME NEW a \in Seq(X), NEW b \in Seq(X), NEW c \in Seq(X)
            PROVE  Join(X)[<<Join(X)[<<a, b>>], c>>] = Join(X)[<<a, Join(X)[<<b, c>>]>>]
        <4>1. /\ Join(X)[<<a, b>>] = a \o b /\ a \o b \in Seq(X)
              /\ Join(X)[<<b, c>>] = b \o c /\ b \o c \in Seq(X)
          BY <3>2
        <4>2. /\ Join(X)[<<a \o b, c>>] = (a \o b) \o c
              /\ Join(X)[<<a, b \o c>>] = a \o (b \o c)
          BY <3>2, <4>1
        <4> QED BY <3>3, <4>1, <4>2
      <3>6. \A a \in Seq(X) : Join(X)[<<a, <<>>>>] = a
        BY <3>1, <3>2, <3>4
      <3> QED BY <3>1, <3>5, <3>6 DEF Monoid
    <2>6. H[Len(s \o t)] = Join(X)[<<F[Len(s)], G[Len(t)]>>]
      BY <2>1, <2>2, <2>4, <2>5, ThroughBoth
    <2>7. Joined(s) \in Seq(X) /\ Joined(t) \in Seq(X)
      BY <1>1
    <2> QED BY <2>1, <2>2, <2>4, <2>6, <2>7 DEF Join
  <1>3. <<>> \in Seq(Seq(X))
    OBVIOUS
  <1>4. Joined(<<>>) = <<>>
    BY <1>1, <1>3
  <1>5. ASSUME NEW x \in Seq(X) PROVE Joined(<<x>>) = x
    <2> DEFINE s == <<x>>
    <2>1. s \in Seq(Seq(X)) /\ Len(s) = 1 /\ s[1] = x
      OBVIOUS
    <2> HIDE DEF s
    <2>2. Joined(s) = x
      BY <1>1, <2>1
    <2> QED BY <2>2 DEF s
  <1>6. \A s \in Seq(Seq(X)) : Joined(s) \in Seq(X)
    BY <1>1
  <1> QED BY <1>2, <1>4, <1>5, <1>6

(* A sequence is its first element and the rest. *)
LEMMA HeadAndTail ==
  ASSUME NEW X, NEW s \in Seq(X)
  PROVE  /\ \A x \in X : Append(s, x) = s \o <<x>> /\ <<x>> \in Seq(X) /\ Append(s, x) \in Seq(X)
         /\ s # <<>> => /\ Head(s) \in X /\ Tail(s) \in Seq(X) /\ <<Head(s)>> \in Seq(X)
                        /\ s = <<Head(s)>> \o Tail(s)
  OBVIOUS

(* The sequence of the values that w gives the elements of s. *)
IsWeight(w, X, T) == w \in [X -> T]
Values(s, w) == [i \in DOMAIN s |-> w[s[i]]]

(* The values of a sequence are those of its parts. *)
LEMMA ValuesOf ==
  ASSUME NEW X, NEW T, NEW w, IsWeight(w, X, T)
  PROVE  /\ Values(<<>>, w) = <<>>
         /\ \A s \in Seq(X) : Values(s, w) \in Seq(T)
         /\ \A x \in X : Values(<<x>>, w) = <<w[x]>> /\ w[x] \in T
         /\ \A s, t \in Seq(X) : Values(s \o t, w) = Values(s, w) \o Values(t, w)
  <1> USE DEF IsWeight, Values
  <1>1. Values(<<>>, w) = <<>>
    OBVIOUS
  <1>2. ASSUME NEW s \in Seq(X) PROVE Values(s, w) \in Seq(T)
    <2>1. DOMAIN s = 1 .. Len(s) /\ Len(s) \in Nat /\ \A i \in 1 .. Len(s) : w[s[i]] \in T
      OBVIOUS
    <2>2. [i \in 1 .. Len(s) |-> w[s[i]]] \in Seq(T)
      BY <2>1
    <2> QED BY <2>1, <2>2
  <1>3. ASSUME NEW x \in X PROVE Values(<<x>>, w) = <<w[x]>> /\ w[x] \in T
    OBVIOUS
  <1>4. ASSUME NEW s \in Seq(X), NEW t \in Seq(X)
        PROVE  Values(s \o t, w) = Values(s, w) \o Values(t, w)
    <2>1. /\ Len(s \o t) = Len(s) + Len(t) /\ DOMAIN (s \o t) = 1 .. Len(s) + Len(t)
          /\ DOMAIN s = 1 .. Len(s) /\ DOMAIN t = 1 .. Len(t)
          /\ Len(s) \in Nat /\ Len(t) \in Nat
      OBVIOUS
    <2>2. /\ Values(s, w) \in Seq(T) /\ Values(t, w) \in Seq(T)
          /\ Len(Values(s, w)) = Len(s) /\ Len(Values(t, w)) = Len(t)
      <3>1. Values(s, w) \in Seq(T) /\ Values(t, w) \in Seq(T)
        BY <1>2
      <3>2. DOMAIN Values(s, w) = 1 .. Len(s) /\ DOMAIN Values(t, w) = 1 .. Len(t)
        BY <2>1
      <3> HIDE DEF Values, IsWeight
      <3> QED BY <2>1, <3>1, <3>2
    <2>3. ASSUME NEW i \in 1 .. Len(s) + Len(t)
          PROVE  w[(s \o t)[i]] = (Values(s, w) \o Values(t, w))[i]
      <3>1. CASE i <= Len(s)
        <4>1. i \in 1 .. Len(s) /\ (s \o t)[i] = s[i]
          BY <2>1, <3>1
        <4>2. (Values(s, w) \o Values(t, w))[i] = Values(s, w)[i]
          BY <2>2, <4>1
        <4> QED BY <4>1, <4>2, <2>1
      <3>2. CASE i > Len(s)
        <4>1. i - Len(s) \in 1 .. Len(t) /\ (s \o t)[i] = t[i - Len(s)]
          BY <2>1, <3>2
        <4>2. (Values(s, w) \o Values(t, w))[i] = Values(t, w)[i - Len(s)]
          BY <2>1, <2>2, <3>2
        <4> QED BY <4>1, <4>2, <2>1
      <3> QED BY <2>1, <3>1, <3>2
    <2>4. Values(s \o t, w) = [i \in 1 .. Len(s) + Len(t) |-> w[(s \o t)[i]]]
      BY <2>1
    <2> DEFINE u == Values(s, w) \o Values(t, w)
    <2>5. u \in Seq(T) /\ Len(u) = Len(s) + Len(t)
      <3> DEFINE a == Values(s, w)  b == Values(t, w)
      <3>1. a \in Seq(T) /\ b \in Seq(T) /\ Len(a) = Len(s) /\ Len(b) = Len(t)
        BY <2>2
      <3> HIDE DEF a, b
      <3>2. a \o b \in Seq(T) /\ Len(a \o b) = Len(s) + Len(t)
        BY <3>1
      <3> QED BY <3>2 DEF a, b
    <2>6. u = [i \in 1 .. Len(s) + Len(t) |-> u[i]]
      <3> HIDE DEF u
      <3> QED BY <2>5
    <2> QED BY <2>3, <2>4, <2>6
  <1> QED BY <1>1, <1>2, <1>3, <1>4

(* The sum of them. *)
Weight(s, w) == Total(Values(s, w))

(* The weight of a sequence is that of its parts. *)
LEMMA WeightOf ==
  ASSUME NEW X, NEW w, IsWeight(w, X, Nat)
  PROVE  /\ Weight(<<>>, w) = 0
         /\ \A s \in Seq(X) : Weight(s, w) \in Nat
         /\ \A x \in X : w[x] \in Nat /\ Weight(<<x>>, w) = w[x]
         /\ \A s, t \in Seq(X) : Weight(s \o t, w) = Weight(s, w) + Weight(t, w)
         /\ \A s \in Seq(X), x \in X : Weight(Append(s, x), w) = Weight(s, w) + w[x]
         /\ \A s \in Seq(X) : s # <<>> => Weight(s, w) = w[Head(s)] + Weight(Tail(s), w)
  <1>1. Weight(<<>>, w) = 0
    BY ValuesOf, Totals DEF Weight
  <1>2. \A s \in Seq(X) : Weight(s, w) \in Nat
    BY ValuesOf, Totals DEF Weight
  <1>3. ASSUME NEW x \in X PROVE w[x] \in Nat /\ Weight(<<x>>, w) = w[x]
    <2>1. Values(<<x>>, w) = <<w[x]>> /\ w[x] \in Nat
      BY ValuesOf
    <2> QED BY <2>1, Totals DEF Weight
  <1>4. ASSUME NEW s \in Seq(X), NEW t \in Seq(X) PROVE Weight(s \o t, w) = Weight(s, w) + Weight(t, w)
    <2>1. /\ Values(s \o t, w) = Values(s, w) \o Values(t, w)
          /\ Values(s, w) \in Seq(Nat) /\ Values(t, w) \in Seq(Nat)
      BY ValuesOf
    <2> QED BY <2>1, Totals DEF Weight
  <1>5. ASSUME NEW s \in Seq(X), NEW x \in X PROVE Weight(Append(s, x), w) = Weight(s, w) + w[x]
    <2>1. Append(s, x) = s \o <<x>> /\ <<x>> \in Seq(X)
      BY HeadAndTail
    <2> QED BY <1>3, <1>4, <2>1
  <1>6. ASSUME NEW s \in Seq(X), s # <<>> PROVE Weight(s, w) = w[Head(s)] + Weight(Tail(s), w)
    <2>1. Head(s) \in X /\ Tail(s) \in Seq(X) /\ <<Head(s)>> \in Seq(X) /\ s = <<Head(s)>> \o Tail(s)
      BY <1>6, HeadAndTail
    <2>2. Weight(<<Head(s)>> \o Tail(s), w) = Weight(<<Head(s)>>, w) + Weight(Tail(s), w)
      BY <1>4, <2>1
    <2> QED BY <1>3, <2>1, <2>2
  <1> QED BY <1>1, <1>2, <1>3, <1>4, <1>5, <1>6

(* All of them as one sequence. *)
Strung(s, w) == Joined(Values(s, w))

Stringing(X, w) ==
  /\ Strung(<<>>, w) = <<>>
  /\ \A s \in Seq(X) : Strung(s, w) \in Seq(X)
  /\ \A x \in X : w[x] \in Seq(X) /\ Strung(<<x>>, w) = w[x]
  /\ \A s, t \in Seq(X) : Strung(s \o t, w) = Strung(s, w) \o Strung(t, w)
  /\ \A s \in Seq(X), x \in X : Strung(Append(s, x), w) = Strung(s, w) \o w[x]
  /\ \A s \in Seq(X) : s # <<>> => Strung(s, w) = w[Head(s)] \o Strung(Tail(s), w)

(* What is strung together is, for a sequence, what it is for its parts. *)
LEMMA StrungOf ==
  ASSUME NEW X, NEW w, IsWeight(w, X, Seq(X))
  PROVE  Stringing(X, w)
  <1>1. Strung(<<>>, w) = <<>>
    BY ValuesOf, JoinedParts DEF Strung
  <1>2. \A s \in Seq(X) : Strung(s, w) \in Seq(X)
    BY ValuesOf, JoinedParts DEF Strung
  <1>3. ASSUME NEW x \in X PROVE w[x] \in Seq(X) /\ Strung(<<x>>, w) = w[x]
    <2>1. Values(<<x>>, w) = <<w[x]>> /\ w[x] \in Seq(X)
      BY ValuesOf
    <2> QED BY <2>1, JoinedParts DEF Strung
  <1>4. ASSUME NEW s \in Seq(X), NEW t \in Seq(X) PROVE Strung(s \o t, w) = Strung(s, w) \o Strung(t, w)
    <2>1. /\ Values(s \o t, w) = Values(s, w) \o Values(t, w)
          /\ Values(s, w) \in Seq(Seq(X)) /\ Values(t, w) \in Seq(Seq(X))
      BY ValuesOf
    <2> QED BY <2>1, JoinedParts DEF Strung
  <1>5. ASSUME NEW s \in Seq(X), NEW x \in X PROVE Strung(Append(s, x), w) = Strung(s, w) \o w[x]
    <2>1. Append(s, x) = s \o <<x>> /\ <<x>> \in Seq(X)
      BY HeadAndTail
    <2> QED BY <1>3, <1>4, <2>1
  <1>6. ASSUME NEW s \in Seq(X), s # <<>> PROVE Strung(s, w) = w[Head(s)] \o Strung(Tail(s), w)
    <2>1. Head(s) \in X /\ Tail(s) \in Seq(X) /\ <<Head(s)>> \in Seq(X) /\ s = <<Head(s)>> \o Tail(s)
      BY <1>6, HeadAndTail
    <2>2. Strung(<<Head(s)>> \o Tail(s), w) = Strung(<<Head(s)>>, w) \o Strung(Tail(s), w)
      BY <1>4, <2>1
    <2> QED BY <1>3, <2>1, <2>2
  <1> QED BY <1>1, <1>2, <1>3, <1>4, <1>5, <1>6 DEF Stringing

CreditMsgs == [vc : VNs, flits : Nat]

(* Flits of packets, of those on one virtual network, and credits. *)
LEMMA FlitsOf ==
  /\ Flits(<<>>) = 0
  /\ \A s \in Seq(Packets) : Flits(s) \in Nat
  /\ \A e \in Packets : Flits(<<e>>) = e.flits
  /\ \A s, t \in Seq(Packets) : Flits(s \o t) = Flits(s) + Flits(t)
  /\ \A s \in Seq(Packets), e \in Packets : Flits(Append(s, e)) = Flits(s) + e.flits
  /\ \A s \in Seq(Packets) : s # <<>> => Flits(s) = Head(s).flits + Flits(Tail(s))
  <1> DEFINE w == [e \in Packets |-> e.flits]
  <1>1. IsWeight(w, Packets, Nat)
    <2>1. \A e \in Packets : e.flits \in 1 .. MaxFlits
      BY DEF Packets
    <2>2. \A e \in Packets : e.flits \in Nat
      BY <2>1
    <2> QED BY <2>2 DEF IsWeight
  <1>2. \A e \in Packets : w[e] = e.flits
    OBVIOUS
  <1> HIDE DEF w
  <1>3. ASSUME NEW s \in Seq(Packets) PROVE Flits(s) = Weight(s, w)
    <2>1. \A i \in DOMAIN s : s[i] \in Packets
      OBVIOUS
    <2>2. [i \in DOMAIN s |-> s[i].flits] = [i \in DOMAIN s |-> w[s[i]]]
      BY <1>2, <2>1
    <2> QED BY <2>2 DEF Flits, Weight, Values
  <1>4. <<>> \in Seq(Packets) /\ \A e \in Packets : <<e>> \in Seq(Packets)
    OBVIOUS
  <1>5. \A s \in Seq(Packets), e \in Packets : Append(s, e) \in Seq(Packets)
    OBVIOUS
  <1>6. \A s \in Seq(Packets) : s # <<>> => Head(s) \in Packets /\ Tail(s) \in Seq(Packets)
    OBVIOUS
  <1>7. \A s, t \in Seq(Packets) : s \o t \in Seq(Packets)
    OBVIOUS
  <1>8. /\ Weight(<<>>, w) = 0
        /\ \A s \in Seq(Packets) : Weight(s, w) \in Nat
        /\ \A x \in Packets : Weight(<<x>>, w) = w[x]
        /\ \A s, t \in Seq(Packets) : Weight(s \o t, w) = Weight(s, w) + Weight(t, w)
        /\ \A s \in Seq(Packets), x \in Packets : Weight(Append(s, x), w) = Weight(s, w) + w[x]
        /\ \A s \in Seq(Packets) : s # <<>> => Weight(s, w) = w[Head(s)] + Weight(Tail(s), w)
    BY <1>1, WeightOf
  <1>9. Flits(<<>>) = 0 /\ \A s \in Seq(Packets) : Flits(s) \in Nat
    BY <1>3, <1>4, <1>8
  <1>10. \A e \in Packets : Flits(<<e>>) = e.flits
    BY <1>2, <1>3, <1>4, <1>8
  <1>11. \A s, t \in Seq(Packets) : Flits(s \o t) = Flits(s) + Flits(t)
    BY <1>3, <1>7, <1>8
  <1>12. ASSUME NEW s \in Seq(Packets), NEW e \in Packets
         PROVE  Flits(Append(s, e)) = Flits(s) + e.flits
    <2>1. Flits(Append(s, e)) = Weight(Append(s, e), w) /\ Flits(s) = Weight(s, w)
      BY <1>3, <1>5
    <2>2. Weight(Append(s, e), w) = Weight(s, w) + w[e]
      BY <1>8
    <2> QED BY <1>2, <2>1, <2>2
  <1>13. ASSUME NEW s \in Seq(Packets), s # <<>>
         PROVE  Flits(s) = Head(s).flits + Flits(Tail(s))
    <2>1. Head(s) \in Packets /\ Tail(s) \in Seq(Packets)
      BY <1>6, <1>13
    <2>2. Flits(Tail(s)) = Weight(Tail(s), w) /\ Flits(s) = Weight(s, w)
      BY <1>3, <2>1
    <2>3. Weight(s, w) = w[Head(s)] + Weight(Tail(s), w)
      BY <1>8, <1>13
    <2> QED BY <1>2, <2>1, <2>2, <2>3
  <1> QED BY <1>9, <1>10, <1>11, <1>12, <1>13

(* The flits of virtual network v in a sequence of packets. *)
LEMMA FlitsOnOf ==
  ASSUME NEW v
  PROVE  /\ FlitsOn(<<>>, v) = 0
         /\ \A s \in Seq(Packets) : FlitsOn(s, v) \in Nat
         /\ \A e \in Packets : FlitsOn(<<e>>, v) = IF e.flow.vn = v THEN e.flits ELSE 0
         /\ \A s, t \in Seq(Packets) : FlitsOn(s \o t, v) = FlitsOn(s, v) + FlitsOn(t, v)
         /\ \A s \in Seq(Packets), e \in Packets : FlitsOn(Append(s, e), v) = FlitsOn(s, v) + (IF e.flow.vn = v THEN e.flits ELSE 0)
         /\ \A s \in Seq(Packets) : s # <<>> => FlitsOn(s, v) = (IF Head(s).flow.vn = v THEN Head(s).flits ELSE 0) + FlitsOn(Tail(s), v)
  <1> DEFINE w == [e \in Packets |-> IF e.flow.vn = v THEN e.flits ELSE 0]
  <1>1. IsWeight(w, Packets, Nat)
    <2>1. \A e \in Packets : e.flits \in 1 .. MaxFlits
      BY DEF Packets
    <2>2. \A e \in Packets : (IF e.flow.vn = v THEN e.flits ELSE 0) \in Nat
      BY <2>1
    <2> QED BY <2>2 DEF IsWeight
  <1>2. \A e \in Packets : w[e] = IF e.flow.vn = v THEN e.flits ELSE 0
    OBVIOUS
  <1> HIDE DEF w
  <1>3. ASSUME NEW s \in Seq(Packets) PROVE FlitsOn(s, v) = Weight(s, w)
    <2>1. \A i \in DOMAIN s : s[i] \in Packets
      OBVIOUS
    <2>2. [i \in DOMAIN s |-> IF s[i].flow.vn = v THEN s[i].flits ELSE 0] = [i \in DOMAIN s |-> w[s[i]]]
      BY <1>2, <2>1
    <2> QED BY <2>2 DEF FlitsOn, Weight, Values
  <1>4. <<>> \in Seq(Packets) /\ \A e \in Packets : <<e>> \in Seq(Packets)
    OBVIOUS
  <1>5. \A s \in Seq(Packets), e \in Packets : Append(s, e) \in Seq(Packets)
    OBVIOUS
  <1>6. \A s \in Seq(Packets) : s # <<>> => Head(s) \in Packets /\ Tail(s) \in Seq(Packets)
    OBVIOUS
  <1>7. \A s, t \in Seq(Packets) : s \o t \in Seq(Packets)
    OBVIOUS
  <1>8. /\ Weight(<<>>, w) = 0
        /\ \A s \in Seq(Packets) : Weight(s, w) \in Nat
        /\ \A x \in Packets : Weight(<<x>>, w) = w[x]
        /\ \A s, t \in Seq(Packets) : Weight(s \o t, w) = Weight(s, w) + Weight(t, w)
        /\ \A s \in Seq(Packets), x \in Packets : Weight(Append(s, x), w) = Weight(s, w) + w[x]
        /\ \A s \in Seq(Packets) : s # <<>> => Weight(s, w) = w[Head(s)] + Weight(Tail(s), w)
    BY <1>1, WeightOf
  <1>9. FlitsOn(<<>>, v) = 0 /\ \A s \in Seq(Packets) : FlitsOn(s, v) \in Nat
    BY <1>3, <1>4, <1>8
  <1>10. ASSUME NEW e \in Packets PROVE FlitsOn(<<e>>, v) = IF e.flow.vn = v THEN e.flits ELSE 0
    <2>1. FlitsOn(<<e>>, v) = Weight(<<e>>, w)
      BY <1>3, <1>4
    <2>2. Weight(<<e>>, w) = w[e]
      BY <1>8
    <2> QED BY <1>2, <2>1, <2>2
  <1>11. \A s, t \in Seq(Packets) : FlitsOn(s \o t, v) = FlitsOn(s, v) + FlitsOn(t, v)
    BY <1>3, <1>7, <1>8
  <1>12. ASSUME NEW s \in Seq(Packets), NEW e \in Packets
         PROVE  FlitsOn(Append(s, e), v) = FlitsOn(s, v) + (IF e.flow.vn = v THEN e.flits ELSE 0)
    <2>1. FlitsOn(Append(s, e), v) = Weight(Append(s, e), w) /\ FlitsOn(s, v) = Weight(s, w)
      BY <1>3, <1>5
    <2>2. Weight(Append(s, e), w) = Weight(s, w) + w[e]
      BY <1>8
    <2> QED BY <1>2, <2>1, <2>2
  <1>13. ASSUME NEW s \in Seq(Packets), s # <<>>
         PROVE  FlitsOn(s, v) = (IF Head(s).flow.vn = v THEN Head(s).flits ELSE 0) + FlitsOn(Tail(s), v)
    <2>1. Head(s) \in Packets /\ Tail(s) \in Seq(Packets)
      BY <1>6, <1>13
    <2>2. FlitsOn(Tail(s), v) = Weight(Tail(s), w) /\ FlitsOn(s, v) = Weight(s, w)
      BY <1>3, <2>1
    <2>3. Weight(s, w) = w[Head(s)] + Weight(Tail(s), w)
      BY <1>8, <1>13
    <2> QED BY <1>2, <2>1, <2>2, <2>3
  <1> QED BY <1>9, <1>10, <1>11, <1>12, <1>13

(* The credits of channel c in a sequence of credits. *)
LEMMA CreditsOf ==
  ASSUME NEW c
  PROVE  /\ Credits(<<>>, c) = 0
         /\ \A s \in Seq(CreditMsgs) : Credits(s, c) \in Nat
         /\ \A e \in CreditMsgs : Credits(<<e>>, c) = IF e.vc = c THEN e.flits ELSE 0
         /\ \A s, t \in Seq(CreditMsgs) : Credits(s \o t, c) = Credits(s, c) + Credits(t, c)
         /\ \A s \in Seq(CreditMsgs), e \in CreditMsgs : Credits(Append(s, e), c) = Credits(s, c) + (IF e.vc = c THEN e.flits ELSE 0)
         /\ \A s \in Seq(CreditMsgs) : s # <<>> => Credits(s, c) = (IF Head(s).vc = c THEN Head(s).flits ELSE 0) + Credits(Tail(s), c)
  <1> DEFINE w == [e \in CreditMsgs |-> IF e.vc = c THEN e.flits ELSE 0]
  <1>1. IsWeight(w, CreditMsgs, Nat)
    <2>1. \A e \in CreditMsgs : e.flits \in Nat
      BY DEF CreditMsgs
    <2>2. \A e \in CreditMsgs : (IF e.vc = c THEN e.flits ELSE 0) \in Nat
      BY <2>1
    <2> QED BY <2>2 DEF IsWeight
  <1>2. \A e \in CreditMsgs : w[e] = IF e.vc = c THEN e.flits ELSE 0
    OBVIOUS
  <1> HIDE DEF w
  <1>3. ASSUME NEW s \in Seq(CreditMsgs) PROVE Credits(s, c) = Weight(s, w)
    <2>1. \A i \in DOMAIN s : s[i] \in CreditMsgs
      OBVIOUS
    <2>2. [i \in DOMAIN s |-> IF s[i].vc = c THEN s[i].flits ELSE 0] = [i \in DOMAIN s |-> w[s[i]]]
      BY <1>2, <2>1
    <2> QED BY <2>2 DEF Credits, Weight, Values
  <1>4. <<>> \in Seq(CreditMsgs) /\ \A e \in CreditMsgs : <<e>> \in Seq(CreditMsgs)
    OBVIOUS
  <1>5. \A s \in Seq(CreditMsgs), e \in CreditMsgs : Append(s, e) \in Seq(CreditMsgs)
    OBVIOUS
  <1>6. \A s \in Seq(CreditMsgs) : s # <<>> => Head(s) \in CreditMsgs /\ Tail(s) \in Seq(CreditMsgs)
    OBVIOUS
  <1>7. \A s, t \in Seq(CreditMsgs) : s \o t \in Seq(CreditMsgs)
    OBVIOUS
  <1>8. /\ Weight(<<>>, w) = 0
        /\ \A s \in Seq(CreditMsgs) : Weight(s, w) \in Nat
        /\ \A x \in CreditMsgs : Weight(<<x>>, w) = w[x]
        /\ \A s, t \in Seq(CreditMsgs) : Weight(s \o t, w) = Weight(s, w) + Weight(t, w)
        /\ \A s \in Seq(CreditMsgs), x \in CreditMsgs : Weight(Append(s, x), w) = Weight(s, w) + w[x]
        /\ \A s \in Seq(CreditMsgs) : s # <<>> => Weight(s, w) = w[Head(s)] + Weight(Tail(s), w)
    BY <1>1, WeightOf
  <1>9. Credits(<<>>, c) = 0 /\ \A s \in Seq(CreditMsgs) : Credits(s, c) \in Nat
    BY <1>3, <1>4, <1>8
  <1>10. ASSUME NEW e \in CreditMsgs PROVE Credits(<<e>>, c) = IF e.vc = c THEN e.flits ELSE 0
    <2>1. Credits(<<e>>, c) = Weight(<<e>>, w)
      BY <1>3, <1>4
    <2>2. Weight(<<e>>, w) = w[e]
      BY <1>8
    <2> QED BY <1>2, <2>1, <2>2
  <1>11. \A s, t \in Seq(CreditMsgs) : Credits(s \o t, c) = Credits(s, c) + Credits(t, c)
    BY <1>3, <1>7, <1>8
  <1>12. ASSUME NEW s \in Seq(CreditMsgs), NEW e \in CreditMsgs
         PROVE  Credits(Append(s, e), c) = Credits(s, c) + (IF e.vc = c THEN e.flits ELSE 0)
    <2>1. Credits(Append(s, e), c) = Weight(Append(s, e), w) /\ Credits(s, c) = Weight(s, w)
      BY <1>3, <1>5
    <2>2. Weight(Append(s, e), w) = Weight(s, w) + w[e]
      BY <1>8
    <2> QED BY <1>2, <2>1, <2>2
  <1>13. ASSUME NEW s \in Seq(CreditMsgs), s # <<>>
         PROVE  Credits(s, c) = (IF Head(s).vc = c THEN Head(s).flits ELSE 0) + Credits(Tail(s), c)
    <2>1. Head(s) \in CreditMsgs /\ Tail(s) \in Seq(CreditMsgs)
      BY <1>6, <1>13
    <2>2. Credits(Tail(s), c) = Weight(Tail(s), w) /\ Credits(s, c) = Weight(s, w)
      BY <1>3, <2>1
    <2>3. Weight(s, w) = w[Head(s)] + Weight(Tail(s), w)
      BY <1>8, <1>13
    <2> QED BY <1>2, <2>1, <2>2, <2>3
  <1> QED BY <1>9, <1>10, <1>11, <1>12, <1>13
(* The packets of a flow. *)
LEMMA OnlyOf ==
  ASSUME NEW f
  PROVE  /\ Only(<<>>, f) = <<>>
         /\ \A s \in Seq(Packets) : Only(s, f) \in Seq(Packets)
         /\ \A e \in Packets : Only(<<e>>, f) = IF e.flow = f THEN <<e>> ELSE <<>>
         /\ \A s, t \in Seq(Packets) : Only(s \o t, f) = Only(s, f) \o Only(t, f)
         /\ \A s \in Seq(Packets), e \in Packets : Only(Append(s, e), f) = Only(s, f) \o (IF e.flow = f THEN <<e>> ELSE <<>>)
         /\ \A s \in Seq(Packets) : s # <<>> => Only(s, f) = (IF Head(s).flow = f THEN <<Head(s)>> ELSE <<>>) \o Only(Tail(s), f)
  <1> DEFINE w == [e \in Packets |-> IF e.flow = f THEN <<e>> ELSE <<>>]
  <1>1. IsWeight(w, Packets, Seq(Packets))
    <2>2. \A e \in Packets : (IF e.flow = f THEN <<e>> ELSE <<>>) \in Seq(Packets)
      OBVIOUS
    <2> QED BY <2>2 DEF IsWeight
  <1>2. \A e \in Packets : w[e] = IF e.flow = f THEN <<e>> ELSE <<>>
    OBVIOUS
  <1> HIDE DEF w
  <1>3. ASSUME NEW s \in Seq(Packets) PROVE Only(s, f) = Strung(s, w)
    <2>1. \A i \in DOMAIN s : s[i] \in Packets
      OBVIOUS
    <2>2. [i \in DOMAIN s |-> IF s[i].flow = f THEN <<s[i]>> ELSE <<>>] = [i \in DOMAIN s |-> w[s[i]]]
      BY <1>2, <2>1
    <2> QED BY <2>2 DEF Only, Strung, Values
  <1>4. <<>> \in Seq(Packets) /\ \A e \in Packets : <<e>> \in Seq(Packets)
    OBVIOUS
  <1>5. \A s \in Seq(Packets), e \in Packets : Append(s, e) \in Seq(Packets)
    OBVIOUS
  <1>6. \A s \in Seq(Packets) : s # <<>> => Head(s) \in Packets /\ Tail(s) \in Seq(Packets)
    OBVIOUS
  <1>7. \A s, t \in Seq(Packets) : s \o t \in Seq(Packets)
    OBVIOUS
  <1>8. /\ Strung(<<>>, w) = <<>>
        /\ \A s \in Seq(Packets) : Strung(s, w) \in Seq(Packets)
        /\ \A x \in Packets : Strung(<<x>>, w) = w[x]
        /\ \A s, t \in Seq(Packets) : Strung(s \o t, w) = Strung(s, w) \o Strung(t, w)
        /\ \A s \in Seq(Packets), x \in Packets : Strung(Append(s, x), w) = Strung(s, w) \o w[x]
        /\ \A s \in Seq(Packets) : s # <<>> => Strung(s, w) = w[Head(s)] \o Strung(Tail(s), w)
    <2>1. Stringing(Packets, w)
      BY <1>1, StrungOf
    <2> QED BY <2>1 DEF Stringing
  <1>9. Only(<<>>, f) = <<>> /\ \A s \in Seq(Packets) : Only(s, f) \in Seq(Packets)
    BY <1>3, <1>4, <1>8
  <1>10. ASSUME NEW e \in Packets PROVE Only(<<e>>, f) = IF e.flow = f THEN <<e>> ELSE <<>>
    <2>1. Only(<<e>>, f) = Strung(<<e>>, w)
      BY <1>3, <1>4
    <2>2. Strung(<<e>>, w) = w[e] /\ w[e] = IF e.flow = f THEN <<e>> ELSE <<>>
      BY <1>2, <1>8
    <2> QED BY <2>1, <2>2
  <1>11. \A s, t \in Seq(Packets) : Only(s \o t, f) = Only(s, f) \o Only(t, f)
    BY <1>3, <1>7, <1>8
  <1>12. ASSUME NEW s \in Seq(Packets), NEW e \in Packets
         PROVE  Only(Append(s, e), f) = Only(s, f) \o (IF e.flow = f THEN <<e>> ELSE <<>>)
    <2>1. Only(Append(s, e), f) = Strung(Append(s, e), w) /\ Only(s, f) = Strung(s, w)
      BY <1>3, <1>5
    <2>2. Strung(Append(s, e), w) = Strung(s, w) \o w[e] /\ w[e] = IF e.flow = f THEN <<e>> ELSE <<>>
      BY <1>2, <1>8
    <2> QED BY <2>1, <2>2
  <1>13. ASSUME NEW s \in Seq(Packets), s # <<>>
         PROVE  Only(s, f) = (IF Head(s).flow = f THEN <<Head(s)>> ELSE <<>>) \o Only(Tail(s), f)
    <2>1. Head(s) \in Packets /\ Tail(s) \in Seq(Packets)
      BY <1>6, <1>13
    <2>2. Only(Tail(s), f) = Strung(Tail(s), w) /\ Only(s, f) = Strung(s, w)
      BY <1>3, <2>1
    <2>3. Strung(s, w) = w[Head(s)] \o Strung(Tail(s), w)
      BY <1>8, <1>13
    <2> QED BY <1>2, <2>1, <2>2, <2>3
  <1> QED BY <1>9, <1>10, <1>11, <1>12, <1>13

----------------------------------------------------------------------------
(* Types.                                                                  *)

QueueTypes ==
  /\ outQueue \in [Ports -> [VNs -> Seq(Packets)]] /\ inQueue \in [Ports -> [VNs -> Seq(Packets)]]
  /\ inBuf \in [Ports -> [VCs -> Seq(Packets)]] /\ outBuf \in [Ports -> [VCs -> Seq(Packets)]]
  /\ up \in [Ports -> Seq(Packets)] /\ down \in [Ports -> Seq(Packets)]
TurnTypes ==
  /\ currOut \in [Ports -> VNs] /\ arbVc \in [Ports -> VCs]
  /\ rrPort \in Ports /\ rrVc \in [Ports -> VCs] /\ notify \in BOOLEAN
  /\ inBusy \in [Ports -> 0 .. MaxFlits] /\ outBusy \in [Ports -> 0 .. MaxFlits]
CountTypes == sent \in [Flows -> Nat] /\ received \in [Flows -> Nat]

(* A packet goes from a port to a port, on a virtual network. *)
LEMMA PacketIs ==
  ASSUME NEW e \in Packets
  PROVE  /\ e.flow \in Flows /\ e.flow.src \in Ports /\ e.flow.dest \in Ports /\ e.flow.vn \in VNs
         /\ e.nth \in Nat \ {0} /\ e.flits \in 1 .. MaxFlits /\ e.flits \in Nat \ {0}
  <1>1. e.flow \in Flows /\ e.nth \in Nat \ {0} /\ e.flits \in 1 .. MaxFlits
    BY DEF Packets
  <1>2. Flows \subseteq [src : Ports, dest : Ports, vn : VNs] /\ MaxFlits \in Nat \ {0}
    BY MerlinAssumption
  <1>3. e.flow \in [src : Ports, dest : Ports, vn : VNs]
    BY <1>1, <1>2
  <1> QED BY <1>1, <1>2, <1>3

----------------------------------------------------------------------------
(* The arbitration: what it chooses may all be moved at once.              *)

ArbStates ==
  [moves : SUBSET (Ports \X VCs), in : [Ports -> 0 .. MaxFlits], out : [Ports -> 0 .. MaxFlits],
   vc : [Ports -> VCs]]
NextOf(m) == NextPort(m[1], m[2])
Chosen(a) ==
  /\ \A m \in a.moves : /\ a.in[m[1]] > 0 /\ a.out[NextOf(m)] > 0
                        /\ inBuf[m[1]][m[2]] # <<>>
                        /\ xbarCredits[NextOf(m)][m[2]] >= HeadOf(m[1], m[2]).flits
  /\ \A m, n \in a.moves : m[1] = n[1] \/ NextOf(m) = NextOf(n) => m = n
ArbChosen == {a \in ArbStates : Chosen(a)}

(* A state of the arbitration with one field set. *)
MoveAdded(a, x, p, n, q) == [a EXCEPT !.moves = @ \cup x, !.in[p] = n, !.out[q] = n]
MoveIsAdded(b, a, x, p, n, q) ==
  /\ b.moves = a.moves \cup x /\ b.in = [a.in EXCEPT ![p] = n]
  /\ b.out = [a.out EXCEPT ![q] = n] /\ b.vc = a.vc
  /\ b = [moves |-> b.moves, in |-> b.in, out |-> b.out, vc |-> b.vc]

(* The fields of what an arbitration is after a move. *)
LEMMA Fields ==
  ASSUME NEW a \in ArbStates, NEW p, NEW q, NEW n, NEW x
  PROVE  MoveIsAdded(MoveAdded(a, x, p, n, q), a, x, p, n, q)
  <1> DEFINE one == [a EXCEPT !.moves = @ \cup x]
             two == [one EXCEPT !.in[p] = n]
             b == MoveAdded(a, x, p, n, q)
  <1>0. a = [moves |-> a.moves, in |-> a.in, out |-> a.out, vc |-> a.vc]
    BY DEF ArbStates
  <1>1. one = [moves |-> a.moves \cup x, in |-> a.in, out |-> a.out, vc |-> a.vc]
    BY <1>0
  <1>2. two = [moves |-> a.moves \cup x, in |-> [a.in EXCEPT ![p] = n], out |-> a.out, vc |-> a.vc]
    <2> HIDE DEF one
    <2> QED BY <1>1
  <1>3. [two EXCEPT !.out[q] = n]
          = [moves |-> a.moves \cup x, in |-> [a.in EXCEPT ![p] = n], out |-> [a.out EXCEPT ![q] = n],
             vc |-> a.vc]
    <2>1. \A r : r = [moves |-> r.moves, in |-> r.in, out |-> r.out, vc |-> r.vc] =>
            [r EXCEPT !.out[q] = n] = [moves |-> r.moves, in |-> r.in,
                                       out |-> [r.out EXCEPT ![q] = n], vc |-> r.vc]
      OBVIOUS
    <2> HIDE DEF one, two
    <2>2. two.moves = a.moves \cup x /\ two.in = [a.in EXCEPT ![p] = n] /\ two.out = a.out /\ two.vc = a.vc
      BY <1>2
    <2>3. two = [moves |-> two.moves, in |-> two.in, out |-> two.out, vc |-> two.vc]
      BY <1>2
    <2>4. [two EXCEPT !.out[q] = n] = [moves |-> two.moves, in |-> two.in,
                                       out |-> [two.out EXCEPT ![q] = n], vc |-> two.vc]
      BY <2>1, <2>3
    <2> QED BY <2>2, <2>4
  <1>4. b = [two EXCEPT !.out[q] = n]
    BY DEF MoveAdded
  <1> HIDE DEF b, one, two
  <1>5. b = [moves |-> a.moves \cup x, in |-> [a.in EXCEPT ![p] = n], out |-> [a.out EXCEPT ![q] = n],
             vc |-> a.vc]
    BY <1>3, <1>4
  <1>6. /\ b.moves = a.moves \cup x /\ b.in = [a.in EXCEPT ![p] = n]
        /\ b.out = [a.out EXCEPT ![q] = n] /\ b.vc = a.vc
        /\ b = [moves |-> b.moves, in |-> b.in, out |-> b.out, vc |-> b.vc]
    BY <1>5
  <1> QED BY <1>6 DEF b, MoveIsAdded

(* A packet at the head of an input buffer knows its port. *)
LEMMA HeadIs ==
  ASSUME QueueTypes, NEW p \in Ports, NEW c \in VCs, inBuf[p][c] # <<>>
  PROVE  HeadOf(p, c) \in Packets /\ NextPort(p, c) \in Ports /\ HeadOf(p, c).flits \in 1 .. MaxFlits
  <1>1. inBuf[p][c] \in Seq(Packets)
    BY DEF QueueTypes
  <1>2. HeadOf(p, c) \in Packets
    BY <1>1, HeadAndTail DEF HeadOf
  <1> QED BY <1>2, PacketIs DEF NextPort

(* One port of the arbitration adds at most a move of its own. *)
LEMMA ArbitrateChooses ==
  ASSUME QueueTypes, NEW p \in Ports, NEW a \in ArbChosen
  PROVE  Arbitrate(p, a) \in ArbChosen
  <1> DEFINE N == NumVNs * VcsPerVn
             go == Movable(p, a.out)
             c == FirstFrom(a.vc[p], N, go)
             n == HeadOf(p, c).flits
             next == [a EXCEPT !.vc[p] = (@ + 1) % N]
             b == [next EXCEPT !.moves = @ \cup {<<p, c>>}, !.in[p] = n, !.out[NextPort(p, c)] = n]
  <1>1. a \in ArbStates /\ Chosen(a)
    BY DEF ArbChosen
  <1>2. N \in Nat \ {0} /\ VCs = 0 .. N - 1
    BY Sizes
  <1>3. Arbitrate(p, a) = IF a.in[p] > 0 THEN a ELSE IF go = {} THEN next ELSE b
    BY DEF Arbitrate
  <1> HIDE DEF N
  <1>4. next \in ArbStates /\ next.moves = a.moves /\ next.in = a.in /\ next.out = a.out
    <2>1. a.vc \in [Ports -> VCs] /\ a.vc[p] \in VCs
      BY <1>1 DEF ArbStates
    <2>2. (a.vc[p] + 1) % N \in VCs
      BY <1>2, <2>1
    <2>3. [a.vc EXCEPT ![p] = (@ + 1) % N] \in [Ports -> VCs]
      BY <2>1, <2>2
    <2>4. next = [moves |-> a.moves, in |-> a.in, out |-> a.out,
                  vc |-> [a.vc EXCEPT ![p] = (@ + 1) % N]]
      BY <1>1 DEF ArbStates
    <2> QED BY <1>1, <2>3, <2>4 DEF ArbStates
  <1>5. Chosen(next)
    BY <1>1, <1>4 DEF Chosen
  <1>6. ASSUME ~(a.in[p] > 0), go # {} PROVE b \in ArbStates /\ Chosen(b)
    <2>1. go \in SUBSET (0 .. N - 1) /\ a.vc[p] \in 0 .. N - 1
      BY <1>1, <1>2 DEF Movable, ArbStates
    <2>2. c \in go
      BY <1>2, <1>6, <2>1, FirstFromIs
    <2>3. /\ c \in VCs /\ inBuf[p][c] # <<>> /\ a.out[NextPort(p, c)] = 0
          /\ xbarCredits[NextPort(p, c)][c] >= n
      BY <2>2 DEF Movable
    <2>4. NextPort(p, c) \in Ports /\ n \in 1 .. MaxFlits /\ MaxFlits \in Nat
      BY <2>3, HeadIs, MerlinAssumption
    <2> HIDE DEF c, n, go, next
    <2>5. /\ b.moves = a.moves \cup {<<p, c>>} /\ b.in = [a.in EXCEPT ![p] = n]
          /\ b.out = [a.out EXCEPT ![NextPort(p, c)] = n] /\ b.vc = next.vc
          /\ b = [moves |-> b.moves, in |-> b.in, out |-> b.out, vc |-> b.vc]
      <3>1. b = MoveAdded(next, {<<p, c>>}, p, n, NextPort(p, c))
        BY DEF b, MoveAdded
      <3> HIDE DEF b
      <3> DEFINE q == NextPort(p, c)  x == {<<p, c>>}
      <3> HIDE DEF q, x
      <3>2. b = MoveAdded(next, x, p, n, q) /\ next \in ArbStates
        BY <1>4, <3>1 DEF q, x
      <3>3. /\ b.moves = next.moves \cup x /\ b.in = [next.in EXCEPT ![p] = n]
            /\ b.out = [next.out EXCEPT ![q] = n] /\ b.vc = next.vc
            /\ b = [moves |-> b.moves, in |-> b.in, out |-> b.out, vc |-> b.vc]
        <4>1. MoveIsAdded(b, next, x, p, n, q)
          BY <3>2, Fields
        <4> QED BY <4>1 DEF MoveIsAdded
      <3> QED BY <1>4, <3>3 DEF q, x
    <2> HIDE DEF b
    <2>6. a.in \in [Ports -> 0 .. MaxFlits] /\ a.out \in [Ports -> 0 .. MaxFlits]
          /\ a.moves \in SUBSET (Ports \X VCs)
      BY <1>1 DEF ArbStates
    <2>7. b \in ArbStates
      <3>1. n \in 0 .. MaxFlits
        BY <2>4
      <3>2. b.in \in [Ports -> 0 .. MaxFlits] /\ b.out \in [Ports -> 0 .. MaxFlits]
        BY <2>4, <2>5, <2>6, <3>1
      <3>3. b.moves \in SUBSET (Ports \X VCs)
        BY <2>3, <2>5, <2>6
      <3>4. b.vc \in [Ports -> VCs]
        BY <1>4, <2>5 DEF ArbStates
      <3> QED BY <2>5, <3>2, <3>3, <3>4 DEF ArbStates
    <2>8. \A m \in a.moves : /\ m[1] \in Ports /\ a.in[m[1]] > 0 /\ m[1] # p
                             /\ a.out[NextOf(m)] > 0 /\ NextOf(m) \in Ports /\ NextOf(m) # NextPort(p, c)
      <3> TAKE m \in a.moves
      <3>1. m[1] \in Ports /\ m[2] \in VCs /\ inBuf[m[1]][m[2]] # <<>>
        BY <1>1, <2>6 DEF Chosen
      <3>2. NextOf(m) \in Ports
        BY <3>1, HeadIs DEF NextOf
      <3>3. a.in[m[1]] > 0 /\ a.out[NextOf(m)] > 0
        BY <1>1 DEF Chosen
      <3>4. m[1] # p /\ NextOf(m) # NextPort(p, c)
        BY <1>6, <2>3, <3>3
      <3> QED BY <3>1, <3>2, <3>3, <3>4
    <2>9. NextOf(<<p, c>>) = NextPort(p, c)
      BY DEF NextOf
    <2>10. ASSUME NEW m \in b.moves
           PROVE  /\ b.in[m[1]] > 0 /\ b.out[NextOf(m)] > 0 /\ inBuf[m[1]][m[2]] # <<>>
                  /\ xbarCredits[NextOf(m)][m[2]] >= HeadOf(m[1], m[2]).flits
      <3>1. CASE m \in a.moves
        <4>1. b.in[m[1]] = a.in[m[1]] /\ b.out[NextOf(m)] = a.out[NextOf(m)]
          BY <2>5, <2>6, <2>8, <3>1
        <4> QED BY <1>1, <3>1, <4>1 DEF Chosen
      <3>2. CASE m = <<p, c>>
        <4>1. b.in[p] = n /\ b.out[NextPort(p, c)] = n /\ n > 0
          BY <2>4, <2>5, <2>6
        <4>2. m[1] = p /\ m[2] = c /\ NextOf(m) = NextPort(p, c)
          BY <2>9, <3>2
        <4> QED BY <2>3, <4>1, <4>2 DEF n
      <3> QED BY <2>5, <3>1, <3>2
    <2>11. ASSUME NEW m \in b.moves, NEW o \in b.moves, m[1] = o[1] \/ NextOf(m) = NextOf(o) PROVE m = o
      <3>1. CASE m \in a.moves /\ o \in a.moves
        BY <1>1, <2>11, <3>1 DEF Chosen
      <3>2. CASE m = <<p, c>> /\ o \in a.moves
        BY <2>8, <2>9, <2>11, <3>2
      <3>3. CASE m \in a.moves /\ o = <<p, c>>
        BY <2>8, <2>9, <2>11, <3>3
      <3> QED BY <2>5, <3>1, <3>2, <3>3
    <2> QED BY <2>7, <2>10, <2>11 DEF Chosen
  <1> HIDE DEF go, c, n, next, b
  <1> QED BY <1>1, <1>3, <1>4, <1>5, <1>6 DEF ArbChosen

(* The arbitration chooses at most one packet from a port and for a port. *)
LEMMA ArbitrationChooses ==
  ASSUME QueueTypes, TurnTypes PROVE Arbitration \in ArbChosen
  <1> DEFINE first == [moves |-> {}, in |-> inBusy, out |-> outBusy, vc |-> rrVc]
             turn(k) == (rrPort + k - 1) % NumPorts
             Eq(f) == f = [k \in 0 .. NumPorts |-> IF k = 0 THEN first ELSE Arbitrate(turn(k), f[k - 1])]
             F == CHOOSE f : Eq(f)
             step == [x \in (1 .. NumPorts) \X ArbChosen |-> Arbitrate(turn(x[1]), x[2])]
  <1>1. NumPorts \in Nat
    BY Sizes
  <1>2. Arbitration = F[NumPorts]
    BY DEF Arbitration
  <1>3. \A k \in 1 .. NumPorts : turn(k) \in Ports
    <2> TAKE k \in 1 .. NumPorts
    <2>1. rrPort + k - 1 \in Nat /\ NumPorts > 0
      BY <1>1 DEF TurnTypes, Ports
    <2> QED BY <1>1, <2>1 DEF Ports
  <1>4. first \in ArbChosen
    <2>1. first \in ArbStates
      BY DEF TurnTypes, ArbStates
    <2>2. Chosen(first)
      BY DEF Chosen
    <2> QED BY <2>1, <2>2 DEF ArbChosen
  <1> HIDE DEF first, turn
  <1>5. \A k \in 1 .. NumPorts, a \in ArbChosen : Arbitrate(turn(k), a) \in ArbChosen
    BY <1>3, ArbitrateChooses
  <1>6. /\ step \in [(1 .. NumPorts) \X ArbChosen -> ArbChosen]
        /\ \A k \in 1 .. NumPorts, a \in ArbChosen : step[<<k, a>>] = Arbitrate(turn(k), a)
    BY <1>5
  <1> HIDE DEF step
  <1>7. PICK f \in [0 .. NumPorts -> ArbChosen] :
          f[0] = first /\ \A k \in 1 .. NumPorts : f[k] = step[<<k, f[k - 1]>>]
    <2>1. Steps(NumPorts, ArbChosen, first, step)
      BY <1>1, <1>4, <1>6 DEF Steps
    <2>2. PICK f : DoesSteps(f, NumPorts, ArbChosen, first, step)
      BY <2>1, StepsExist
    <2> QED BY <2>2 DEF DoesSteps
  <1>8. ASSUME NEW k \in 1 .. NumPorts
        PROVE  f[k] = Arbitrate(turn(k), f[k - 1]) /\ f[k - 1] \in ArbChosen
    <2>1. k - 1 \in 0 .. NumPorts
      BY <1>1
    <2>2. f[k - 1] \in ArbChosen /\ f[k] = step[<<k, f[k - 1]>>]
      BY <1>7, <2>1
    <2> QED BY <1>6, <2>2
  <1>9. Eq(f)
    <2>1. \A k \in 0 .. NumPorts : k # 0 => k \in 1 .. NumPorts
      BY <1>1
    <2>2. \A k \in 0 .. NumPorts : f[k] = IF k = 0 THEN first ELSE Arbitrate(turn(k), f[k - 1])
      BY <1>7, <1>8, <2>1
    <2> QED BY <1>7, <2>2
  <1>10. Eq(F)
    <2> HIDE DEF Eq
    <2> QED BY <1>9
  <1> HIDE DEF F
  <1>11. F[0] = first /\ \A k \in 1 .. NumPorts : F[k] = Arbitrate(turn(k), F[k - 1])
    <2>1. 0 \in 0 .. NumPorts /\ \A k \in 1 .. NumPorts : k \in 0 .. NumPorts /\ k # 0
      BY <1>1
    <2> QED BY <1>10, <2>1
  <1>12. \A k \in 0 .. NumPorts : F[k] \in ArbChosen
    <2> DEFINE Bad == {m \in 0 .. NumPorts : F[m] \notin ArbChosen}
    <2> SUFFICES ASSUME Bad # {} PROVE FALSE
      OBVIOUS
    <2>1. PICK m \in Bad : \A j \in Bad : m <= j
      <3>1. Bad \in SUBSET Nat
        BY <1>1
      <3> HIDE DEF Bad
      <3> QED BY <3>1, LeastOf
    <2>2. m \in 1 .. NumPorts /\ m - 1 \in 0 .. NumPorts /\ F[m] \notin ArbChosen
      <3>1. m \in 0 .. NumPorts /\ F[m] \notin ArbChosen
        BY <2>1
      <3>2. F[0] \in ArbChosen
        BY <1>4, <1>11
      <3> HIDE DEF Bad
      <3> QED BY <1>1, <3>1, <3>2
    <2>3. F[m - 1] \in ArbChosen
      <3>1. m - 1 \notin Bad
        <4>1. ~(m <= m - 1)
          BY <1>1, <2>2
        <4> HIDE DEF Bad
        <4> QED BY <2>1, <4>1
      <3> QED BY <2>2, <3>1
    <2> HIDE DEF Bad
    <2>4. F[m] = Arbitrate(turn(m), F[m - 1])
      BY <1>11, <2>2
    <2> QED BY <1>5, <2>2, <2>3, <2>4
  <1>13. NumPorts \in 0 .. NumPorts
    BY <1>1
  <1> QED BY <1>2, <1>12, <1>13

(* Sequences are put together in any order. *)
Cat(s, t) == s \o t
IsCat(T) ==
  /\ \A s, t \in T : Cat(s, t) \in T
  /\ \A s, t, u \in T : Cat(Cat(s, t), u) = Cat(s, Cat(t, u))
  /\ \A s, t, u, v \in T : Cat(Cat(s, Cat(t, u)), v) = Cat(Cat(s, t), Cat(u, v))

(* Sequences over one set are put together so. *)
LEMMA CatIs == ASSUME NEW X PROVE IsCat(Seq(X))
  <1>1. ASSUME NEW s \in Seq(X), NEW t \in Seq(X), NEW u \in Seq(X)
        PROVE  (s \o t) \o u = s \o (t \o u)
    OBVIOUS
  <1>2. ASSUME NEW s \in Seq(X), NEW t \in Seq(X) PROVE s \o t \in Seq(X)
    OBVIOUS
  <1>3. ASSUME NEW s \in Seq(X), NEW t \in Seq(X), NEW u \in Seq(X), NEW v \in Seq(X)
        PROVE  (s \o (t \o u)) \o v = (s \o t) \o (u \o v)
    <2>1. s \o t \in Seq(X) /\ s \o (t \o u) = (s \o t) \o u
      BY <1>1, <1>2
    <2>2. ((s \o t) \o u) \o v = (s \o t) \o (u \o v)
      <3> DEFINE w == s \o t
      <3> HIDE DEF w
      <3>1. w \in Seq(X)
        BY <2>1 DEF w
      <3>2. (w \o u) \o v = w \o (u \o v)
        BY <1>1, <3>1
      <3> QED BY <3>2 DEF w
    <2> QED BY <2>1, <2>2
  <1> QED BY <1>1, <1>2, <1>3 DEF IsCat, Cat

Stretch(a, b, c, d, e, f) == Cat(Cat(Cat(Cat(Cat(a, b), c), d), e), f)

(* The packets of a flow on their way, the oldest first. *)
WayOf(a, b, c, d, e, g, f) == Only(Stretch(a, b, c, d, e, g), f)
Places(a, b, c, d, e, g) ==
  /\ a \in Seq(Packets) /\ b \in Seq(Packets) /\ c \in Seq(Packets)
  /\ d \in Seq(Packets) /\ e \in Seq(Packets) /\ g \in Seq(Packets)

(* The packets of a flow on all of its way: those in each place. *)
LEMMA OnlyOfStretch ==
  ASSUME NEW f, NEW a, NEW b, NEW c, NEW d, NEW e, NEW g, Places(a, b, c, d, e, g)
  PROVE  WayOf(a, b, c, d, e, g, f)
           = Stretch(Only(a, f), Only(b, f), Only(c, f), Only(d, f), Only(e, f), Only(g, f))
  <1> DEFINE T == Seq(Packets)
  <1>1. \A s, t \in T : Cat(s, t) \in T
    BY CatIs DEF IsCat
  <1>2. \A s, t \in T : Only(Cat(s, t), f) = Cat(Only(s, f), Only(t, f))
    BY OnlyOf DEF Cat
  <1> HIDE DEF T
  <1>3. a \in T /\ b \in T /\ c \in T /\ d \in T /\ e \in T /\ g \in T
    BY DEF T, Places
  <1> DEFINE s1 == Cat(a, b)  s2 == Cat(s1, c)  s3 == Cat(s2, d)  s4 == Cat(s3, e)
  <1>4. s1 \in T /\ s2 \in T /\ s3 \in T /\ s4 \in T
    BY <1>1, <1>3
  <1>5. Only(s1, f) = Cat(Only(a, f), Only(b, f))
    BY <1>2, <1>3
  <1>6. Only(s2, f) = Cat(Only(s1, f), Only(c, f))
    BY <1>2, <1>3, <1>4
  <1>7. Only(s3, f) = Cat(Only(s2, f), Only(d, f))
    BY <1>2, <1>3, <1>4
  <1>8. Only(s4, f) = Cat(Only(s3, f), Only(e, f))
    BY <1>2, <1>3, <1>4
  <1>9. Only(Cat(s4, g), f) = Cat(Only(s4, f), Only(g, f))
    BY <1>2, <1>3, <1>4
  <1> QED BY <1>5, <1>6, <1>7, <1>8, <1>9 DEF Stretch, WayOf

(* What a packet adds to a flow: itself, or nothing. *)
Bit(e, f) == IF e.flow = f THEN <<e>> ELSE <<>>

(* A packet that leaves the front of one place for the back of another, of *)
(* whatever flow it is.                                                    *)
Shifted(from, from2, to, to2, f) ==
  \E x \in Seq(Packets) : Only(from, f) = Cat(x, Only(from2, f)) /\ Only(to2, f) = Cat(Only(to, f), x)

(* The head of one place goes to the back of the other. *)
LEMMA ShiftOne ==
  ASSUME NEW f, NEW from \in Seq(Packets), NEW to \in Seq(Packets), from # <<>>
  PROVE  Shifted(from, Tail(from), to, Append(to, Head(from)), f)
  <1> DEFINE e == Head(from)  x == Bit(e, f)
  <1>1. e \in Packets
    BY HeadAndTail
  <1>2. x \in Seq(Packets)
    BY <1>1 DEF Bit
  <1>3. Only(from, f) = x \o Only(Tail(from), f) /\ Only(Append(to, e), f) = Only(to, f) \o x
    BY <1>1, OnlyOf DEF Bit
  <1> HIDE DEF x
  <1> QED BY <1>2, <1>3 DEF Shifted, Cat

(* Nothing of f moves where the packet is of another flow. *)
LEMMA OnlyOther ==
  ASSUME NEW f, NEW s \in Seq(Packets)
  PROVE  /\ s # <<>> /\ Head(s).flow # f => Only(Tail(s), f) = Only(s, f)
         /\ \A e \in Packets : e.flow # f => Only(Append(s, e), f) = Only(s, f)
  <1>1. ASSUME s # <<>>, Head(s).flow # f PROVE Only(Tail(s), f) = Only(s, f)
    <2>1. Only(s, f) = <<>> \o Only(Tail(s), f) /\ Only(Tail(s), f) \in Seq(Packets)
      BY <1>1, OnlyOf, HeadAndTail
    <2> QED BY <2>1
  <1>2. ASSUME NEW e \in Packets, e.flow # f PROVE Only(Append(s, e), f) = Only(s, f)
    <2>1. Only(Append(s, e), f) = Only(s, f) \o <<>> /\ Only(s, f) \in Seq(Packets)
      BY <1>2, OnlyOf
    <2> QED BY <2>1
  <1> QED BY <1>1, <1>2

(* Nothing of the flow moves. *)
LEMMA ShiftNone ==
  ASSUME NEW f, NEW from \in Seq(Packets), NEW to \in Seq(Packets),
         NEW from2, NEW to2, Only(from2, f) = Only(from, f), Only(to2, f) = Only(to, f)
  PROVE  Shifted(from, from2, to, to2, f)
  <1>1. Only(from, f) \in Seq(Packets) /\ Only(to, f) \in Seq(Packets)
    BY OnlyOf
  <1>2. Only(from, f) = <<>> \o Only(from2, f) /\ Only(to2, f) = Only(to, f) \o <<>>
    BY <1>1
  <1>3. <<>> \in Seq(Packets)
    OBVIOUS
  <1> QED BY <1>2, <1>3 DEF Shifted, Cat

(* Where the packets of each place come from and go to. *)
From(p) == {e \in Packets : e.flow.src = p}
FromOn(p, v) == {e \in Packets : e.flow.src = p /\ e.flow.vn = v}
FromVC(p, c) == {e \in Packets : e.flow.src = p /\ EntryVC(e.flow.vn) = c}
To(p) == {e \in Packets : e.flow.dest = p}
ToOn(p, v) == {e \in Packets : e.flow.dest = p /\ e.flow.vn = v}
ToVC(p, c) == {e \in Packets : e.flow.dest = p /\ EntryVC(e.flow.vn) = c}

Routed ==
  \A p \in Ports :
    /\ up[p] \in Seq(From(p)) /\ down[p] \in Seq(To(p))
    /\ \A v \in VNs : outQueue[p][v] \in Seq(FromOn(p, v)) /\ inQueue[p][v] \in Seq(ToOn(p, v))
    /\ \A c \in VCs : inBuf[p][c] \in Seq(FromVC(p, c)) /\ outBuf[p][c] \in Seq(ToVC(p, c))

QueueInv == QueueTypes /\ TurnTypes /\ Routed

(* A flow on its way from its source to its destination. *)
Line(f) ==
  WayOf(inQueue[f.dest][f.vn], down[f.dest], outBuf[f.dest][EntryVC(f.vn)],
        inBuf[f.src][EntryVC(f.vn)], up[f.src], outQueue[f.src][f.vn], f)

(* The channel a virtual network enters by is one of the channels. *)
LEMMA EntryIs ==
  ASSUME NEW v \in VNs PROVE EntryVC(v) \in VCs
  <1>1. NumVNs \in Nat \ {0} /\ VcsPerVn \in Nat \ {0} /\ v \in Nat /\ v <= NumVNs - 1
    BY MerlinAssumption DEF VNs
  <1>2. \A a, b, k \in Nat : a <= b => a * k <= b * k
    OBVIOUS
  <1>3. v * VcsPerVn \in Nat /\ v * VcsPerVn <= (NumVNs - 1) * VcsPerVn
    BY <1>1, <1>2
  <1>4. (NumVNs - 1) * VcsPerVn = NumVNs * VcsPerVn - VcsPerVn
    BY <1>1
  <1>5. NumVNs * VcsPerVn \in Nat
    BY Sizes
  <1>6. v * VcsPerVn <= NumVNs * VcsPerVn - 1
    BY <1>1, <1>3, <1>4, <1>5
  <1> QED BY <1>3, <1>5, <1>6 DEF EntryVC, VCs

(* A flow goes from a port to a port on a virtual network. *)
LEMMA FlowIs ==
  ASSUME NEW f \in Flows
  PROVE  f.src \in Ports /\ f.dest \in Ports /\ f.vn \in VNs /\ EntryVC(f.vn) \in VCs
  <1>1. f \in [src : Ports, dest : Ports, vn : VNs]
    BY MerlinAssumption
  <1> QED BY <1>1, EntryIs

(* The way of a flow, where packets move from one place to the next. *)
WayRules(a, b, c, d, e, g, f) ==
  /\ \A p, q \in Seq(Packets) : Shifted(b, q, a, p, f) =>
       WayOf(p, q, c, d, e, g, f) = WayOf(a, b, c, d, e, g, f)
  /\ \A p, q \in Seq(Packets) : Shifted(c, q, b, p, f) =>
       WayOf(a, p, q, d, e, g, f) = WayOf(a, b, c, d, e, g, f)
  /\ \A p, q \in Seq(Packets) : Shifted(d, q, c, p, f) =>
       WayOf(a, b, p, q, e, g, f) = WayOf(a, b, c, d, e, g, f)
  /\ \A p, q \in Seq(Packets) : Shifted(e, q, d, p, f) =>
       WayOf(a, b, c, p, q, g, f) = WayOf(a, b, c, d, e, g, f)
  /\ \A p, q \in Seq(Packets) : Shifted(g, q, e, p, f) =>
       WayOf(a, b, c, d, p, q, f) = WayOf(a, b, c, d, e, g, f)
  /\ \A x \in Packets : WayOf(a, b, c, d, e, Append(g, x), f) = Cat(WayOf(a, b, c, d, e, g, f), Bit(x, f))
  /\ a # <<>> => WayOf(a, b, c, d, e, g, f) = Cat(Bit(Head(a), f), WayOf(Tail(a), b, c, d, e, g, f))
  /\ WayOf(a, b, c, d, e, g, f) \in Seq(Packets)

(* Those are the rules of the way of any flow. *)
LEMMA Shifts ==
  ASSUME NEW f, NEW a, NEW b, NEW c, NEW d, NEW e, NEW g, Places(a, b, c, d, e, g)
  PROVE  WayRules(a, b, c, d, e, g, f)
  <1> DEFINE T == Seq(Packets)  O(s) == Only(s, f)
             W(s1, s2, s3, s4, s5, s6) == Stretch(O(s1), O(s2), O(s3), O(s4), O(s5), O(s6))
  <1>1. \A s1, s2, s3, s4, s5, s6 : Places(s1, s2, s3, s4, s5, s6) =>
            WayOf(s1, s2, s3, s4, s5, s6, f) = W(s1, s2, s3, s4, s5, s6)
    BY OnlyOfStretch
  <1>2. \A s \in T : O(s) \in T
    BY OnlyOf
  <1>3. IsCat(T)
    BY CatIs
  <1>4. \A s, s2, t, t2 : Shifted(s, s2, t, t2, f) <=>
          \E x : x \in T /\ O(s) = Cat(x, O(s2)) /\ O(t2) = Cat(O(t), x)
    BY DEF Shifted
  <1>5. a \in T /\ b \in T /\ c \in T /\ d \in T /\ e \in T /\ g \in T
        /\ O(a) \in T /\ O(b) \in T /\ O(c) \in T /\ O(d) \in T /\ O(e) \in T /\ O(g) \in T
    BY <1>2 DEF Places
  <1>6. \A x \in Packets : Append(g, x) \in T /\ O(Append(g, x)) = Cat(O(g), Bit(x, f)) /\ Bit(x, f) \in T
    <2> TAKE x \in Packets
    <2>1. Append(g, x) \in T /\ Bit(x, f) \in T
      BY <1>5 DEF Bit
    <2>2. O(Append(g, x)) = Cat(O(g), Bit(x, f))
      BY <1>5, OnlyOf DEF Bit, Cat
    <2> QED BY <2>1, <2>2
  <1>7. a # <<>> => /\ Tail(a) \in T /\ Head(a) \in Packets /\ Bit(Head(a), f) \in T
                    /\ O(a) = Cat(Bit(Head(a), f), O(Tail(a)))
    <2> HAVE a # <<>>
    <2>1. Tail(a) \in T /\ Head(a) \in Packets
      BY <1>5, HeadAndTail
    <2>2. Bit(Head(a), f) \in T
      BY <2>1 DEF Bit
    <2>3. O(a) = Cat(Bit(Head(a), f), O(Tail(a)))
      BY <1>5, OnlyOf DEF Bit, Cat
    <2> QED BY <2>1, <2>2, <2>3
  <1> HIDE DEF T, O
  <1>8. ASSUME NEW p, NEW q, p \in T, q \in T, Shifted(b, q, a, p, f)
        PROVE  WayOf(p, q, c, d, e, g, f) = WayOf(a, b, c, d, e, g, f)
    <2>1. PICK x : x \in T /\ O(b) = Cat(x, O(q)) /\ O(p) = Cat(O(a), x)
      BY <1>4, <1>8
    <2>2. O(p) \in T /\ O(q) \in T
      BY <1>2, <1>8
    <2>3. Cat(O(p), O(q)) = Cat(O(a), O(b))
      BY <1>3, <1>5, <2>1, <2>2 DEF IsCat
    <2>6. W(p, q, c, d, e, g) = W(a, b, c, d, e, g)
      BY <2>3 DEF Stretch
    <2> HIDE DEF W
    <2>7. WayOf(p, q, c, d, e, g, f) = W(p, q, c, d, e, g) /\ WayOf(a, b, c, d, e, g, f) = W(a, b, c, d, e, g)
      <3>1. Places(p, q, c, d, e, g) /\ Places(a, b, c, d, e, g)
        BY <1>5, <1>8 DEF Places, T
      <3> QED BY <1>1, <3>1
    <2> QED BY <2>6, <2>7
  <1>9. ASSUME NEW p, NEW q, p \in T, q \in T, Shifted(c, q, b, p, f)
        PROVE  WayOf(a, p, q, d, e, g, f) = WayOf(a, b, c, d, e, g, f)
    <2>1. PICK x : x \in T /\ O(c) = Cat(x, O(q)) /\ O(p) = Cat(O(b), x)
      BY <1>4, <1>9
    <2>2. O(p) \in T /\ O(q) \in T
      BY <1>2, <1>9
    <2>3. Cat(Cat(O(a), O(p)), O(q)) = Cat(Cat(O(a), O(b)), O(c))
      BY <1>3, <1>5, <2>1, <2>2 DEF IsCat
    <2>6. W(a, p, q, d, e, g) = W(a, b, c, d, e, g)
      BY <2>3 DEF Stretch
    <2> HIDE DEF W
    <2>7. WayOf(a, p, q, d, e, g, f) = W(a, p, q, d, e, g) /\ WayOf(a, b, c, d, e, g, f) = W(a, b, c, d, e, g)
      <3>1. Places(a, p, q, d, e, g) /\ Places(a, b, c, d, e, g)
        BY <1>5, <1>9 DEF Places, T
      <3> QED BY <1>1, <3>1
    <2> QED BY <2>6, <2>7
  <1>10. ASSUME NEW p, NEW q, p \in T, q \in T, Shifted(d, q, c, p, f)
        PROVE  WayOf(a, b, p, q, e, g, f) = WayOf(a, b, c, d, e, g, f)
    <2>1. PICK x : x \in T /\ O(d) = Cat(x, O(q)) /\ O(p) = Cat(O(c), x)
      BY <1>4, <1>10
    <2>2. O(p) \in T /\ O(q) \in T
      BY <1>2, <1>10
    <2> DEFINE s == Cat(O(a), O(b))
    <2>4. s \in T
      BY <1>3, <1>5 DEF IsCat
    <2> HIDE DEF s
    <2>5. Cat(Cat(s, O(p)), O(q)) = Cat(Cat(s, O(c)), O(d))
      BY <1>3, <1>5, <2>1, <2>2, <2>4 DEF IsCat
    <2>3. Cat(Cat(Cat(O(a), O(b)), O(p)), O(q))
            = Cat(Cat(Cat(O(a), O(b)), O(c)), O(d))
      BY <2>5 DEF s
    <2>6. W(a, b, p, q, e, g) = W(a, b, c, d, e, g)
      BY <2>3 DEF Stretch
    <2> HIDE DEF W
    <2>7. WayOf(a, b, p, q, e, g, f) = W(a, b, p, q, e, g) /\ WayOf(a, b, c, d, e, g, f) = W(a, b, c, d, e, g)
      <3>1. Places(a, b, p, q, e, g) /\ Places(a, b, c, d, e, g)
        BY <1>5, <1>10 DEF Places, T
      <3> QED BY <1>1, <3>1
    <2> QED BY <2>6, <2>7
  <1>11. ASSUME NEW p, NEW q, p \in T, q \in T, Shifted(e, q, d, p, f)
        PROVE  WayOf(a, b, c, p, q, g, f) = WayOf(a, b, c, d, e, g, f)
    <2>1. PICK x : x \in T /\ O(e) = Cat(x, O(q)) /\ O(p) = Cat(O(d), x)
      BY <1>4, <1>11
    <2>2. O(p) \in T /\ O(q) \in T
      BY <1>2, <1>11
    <2> DEFINE s == Cat(Cat(O(a), O(b)), O(c))
    <2>4. s \in T
      BY <1>3, <1>5 DEF IsCat
    <2> HIDE DEF s
    <2>5. Cat(Cat(s, O(p)), O(q)) = Cat(Cat(s, O(d)), O(e))
      BY <1>3, <1>5, <2>1, <2>2, <2>4 DEF IsCat
    <2>3. Cat(Cat(Cat(Cat(O(a), O(b)), O(c)), O(p)), O(q))
            = Cat(Cat(Cat(Cat(O(a), O(b)), O(c)), O(d)), O(e))
      BY <2>5 DEF s
    <2>6. W(a, b, c, p, q, g) = W(a, b, c, d, e, g)
      BY <2>3 DEF Stretch
    <2> HIDE DEF W
    <2>7. WayOf(a, b, c, p, q, g, f) = W(a, b, c, p, q, g) /\ WayOf(a, b, c, d, e, g, f) = W(a, b, c, d, e, g)
      <3>1. Places(a, b, c, p, q, g) /\ Places(a, b, c, d, e, g)
        BY <1>5, <1>11 DEF Places, T
      <3> QED BY <1>1, <3>1
    <2> QED BY <2>6, <2>7
  <1>12. ASSUME NEW p, NEW q, p \in T, q \in T, Shifted(g, q, e, p, f)
        PROVE  WayOf(a, b, c, d, p, q, f) = WayOf(a, b, c, d, e, g, f)
    <2>1. PICK x : x \in T /\ O(g) = Cat(x, O(q)) /\ O(p) = Cat(O(e), x)
      BY <1>4, <1>12
    <2>2. O(p) \in T /\ O(q) \in T
      BY <1>2, <1>12
    <2> DEFINE s == Cat(Cat(Cat(O(a), O(b)), O(c)), O(d))
    <2>4. s \in T
      BY <1>3, <1>5 DEF IsCat
    <2> HIDE DEF s
    <2>5. Cat(Cat(s, O(p)), O(q)) = Cat(Cat(s, O(e)), O(g))
      BY <1>3, <1>5, <2>1, <2>2, <2>4 DEF IsCat
    <2>3. Cat(Cat(Cat(Cat(Cat(O(a), O(b)), O(c)), O(d)), O(p)), O(q))
            = Cat(Cat(Cat(Cat(Cat(O(a), O(b)), O(c)), O(d)), O(e)), O(g))
      BY <2>5 DEF s
    <2>6. W(a, b, c, d, p, q) = W(a, b, c, d, e, g)
      BY <2>3 DEF Stretch
    <2> HIDE DEF W
    <2>7. WayOf(a, b, c, d, p, q, f) = W(a, b, c, d, p, q) /\ WayOf(a, b, c, d, e, g, f) = W(a, b, c, d, e, g)
      <3>1. Places(a, b, c, d, p, q) /\ Places(a, b, c, d, e, g)
        BY <1>5, <1>12 DEF Places, T
      <3> QED BY <1>1, <3>1
    <2> QED BY <2>6, <2>7
  <1>13. ASSUME NEW x \in Packets
         PROVE  WayOf(a, b, c, d, e, Append(g, x), f) = Cat(WayOf(a, b, c, d, e, g, f), Bit(x, f))
    <2> DEFINE s == Cat(Cat(Cat(Cat(O(a), O(b)), O(c)), O(d)), O(e))
    <2>1. s \in T
      BY <1>3, <1>5 DEF IsCat
    <2> HIDE DEF s
    <2>2. Cat(s, Cat(O(g), Bit(x, f))) = Cat(Cat(s, O(g)), Bit(x, f))
      BY <1>3, <1>5, <1>6, <2>1 DEF IsCat
    <2>3. W(a, b, c, d, e, Append(g, x)) = Cat(W(a, b, c, d, e, g), Bit(x, f))
      BY <1>6, <2>2 DEF Stretch, s
    <2>4. /\ WayOf(a, b, c, d, e, Append(g, x), f) = W(a, b, c, d, e, Append(g, x))
          /\ WayOf(a, b, c, d, e, g, f) = W(a, b, c, d, e, g)
      <3>1. Places(a, b, c, d, e, Append(g, x)) /\ Places(a, b, c, d, e, g)
        BY <1>5, <1>6 DEF Places, T
      <3> HIDE DEF W
      <3> QED BY <1>1, <3>1
    <2> HIDE DEF W
    <2> QED BY <2>3, <2>4
  <1>14. ASSUME a # <<>>
         PROVE  WayOf(a, b, c, d, e, g, f) = Cat(Bit(Head(a), f), WayOf(Tail(a), b, c, d, e, g, f))
    <2> DEFINE x == Bit(Head(a), f)  t == O(Tail(a))
    <2>1. x \in T /\ t \in T /\ O(a) = Cat(x, t)
      BY <1>2, <1>7, <1>14
    <2> HIDE DEF x, t
    <2>0. \A u, v \in T : Cat(u, v) \in T /\ Cat(Cat(x, u), v) = Cat(x, Cat(u, v))
      BY <1>3, <2>1 DEF IsCat
    <2>2. PICK s1 : s1 = Cat(t, O(b))
      OBVIOUS
    <2>3. s1 \in T /\ Cat(Cat(x, t), O(b)) = Cat(x, s1)
      BY <1>5, <2>0, <2>1, <2>2
    <2>4. PICK s2 : s2 = Cat(s1, O(c)) /\ s2 \in T /\ Cat(Cat(x, s1), O(c)) = Cat(x, s2)
      BY <1>5, <2>0, <2>3
    <2>5. PICK s3 : s3 = Cat(s2, O(d)) /\ s3 \in T /\ Cat(Cat(x, s2), O(d)) = Cat(x, s3)
      BY <1>5, <2>0, <2>4
    <2>6. PICK s4 : s4 = Cat(s3, O(e)) /\ s4 \in T /\ Cat(Cat(x, s3), O(e)) = Cat(x, s4)
      BY <1>5, <2>0, <2>5
    <2>10. Cat(Cat(x, s4), O(g)) = Cat(x, Cat(s4, O(g)))
      BY <1>5, <2>0, <2>6
    <2>7. W(a, b, c, d, e, g) = Cat(x, Cat(s4, O(g)))
      BY <2>1, <2>3, <2>4, <2>5, <2>6, <2>10 DEF Stretch
    <2>8. W(Tail(a), b, c, d, e, g) = Cat(s4, O(g))
      BY <2>2, <2>4, <2>5, <2>6 DEF Stretch, t
    <2>9. /\ WayOf(Tail(a), b, c, d, e, g, f) = W(Tail(a), b, c, d, e, g)
          /\ WayOf(a, b, c, d, e, g, f) = W(a, b, c, d, e, g)
      <3>1. Places(Tail(a), b, c, d, e, g) /\ Places(a, b, c, d, e, g)
        BY <1>5, <1>7, <1>14 DEF Places, T
      <3> HIDE DEF W
      <3> QED BY <1>1, <3>1
    <2> HIDE DEF W
    <2> QED BY <2>7, <2>8, <2>9 DEF x
  <1>15. WayOf(a, b, c, d, e, g, f) \in T
    <2>1. W(a, b, c, d, e, g) \in T
      BY <1>3, <1>5 DEF IsCat, Stretch
    <2>2. WayOf(a, b, c, d, e, g, f) = W(a, b, c, d, e, g)
      <3>1. Places(a, b, c, d, e, g)
        BY <1>5 DEF Places, T
      <3> HIDE DEF W
      <3> QED BY <1>1, <3>1
    <2> HIDE DEF W
    <2> QED BY <2>1, <2>2
  <1> HIDE DEF W
  <1> QED BY <1>8, <1>9, <1>10, <1>11, <1>12, <1>13, <1>14, <1>15 DEF T, WayRules

(* The places between the ends of a flow obey them. *)
LEMMA LineRules ==
  ASSUME QueueTypes, NEW f \in Flows
  PROVE  /\ WayRules(inQueue[f.dest][f.vn], down[f.dest], outBuf[f.dest][EntryVC(f.vn)],
                     inBuf[f.src][EntryVC(f.vn)], up[f.src], outQueue[f.src][f.vn], f)
         /\ Line(f) = WayOf(inQueue[f.dest][f.vn], down[f.dest], outBuf[f.dest][EntryVC(f.vn)],
                            inBuf[f.src][EntryVC(f.vn)], up[f.src], outQueue[f.src][f.vn], f)
         /\ Line(f) \in Seq(Packets)
  <1>1. f.src \in Ports /\ f.dest \in Ports /\ f.vn \in VNs /\ EntryVC(f.vn) \in VCs
    BY FlowIs
  <1>2. Places(inQueue[f.dest][f.vn], down[f.dest], outBuf[f.dest][EntryVC(f.vn)],
               inBuf[f.src][EntryVC(f.vn)], up[f.src], outQueue[f.src][f.vn])
    BY <1>1 DEF QueueTypes, Places
  <1>3. WayRules(inQueue[f.dest][f.vn], down[f.dest], outBuf[f.dest][EntryVC(f.vn)],
                 inBuf[f.src][EntryVC(f.vn)], up[f.src], outQueue[f.src][f.vn], f)
    BY <1>2, Shifts
  <1>4. Line(f) = WayOf(inQueue[f.dest][f.vn], down[f.dest], outBuf[f.dest][EntryVC(f.vn)],
                        inBuf[f.src][EntryVC(f.vn)], up[f.src], outQueue[f.src][f.vn], f)
    BY DEF Line
  <1>5. Line(f) \in Seq(Packets)
    BY <1>3, <1>4 DEF WayRules
  <1> QED BY <1>3, <1>4, <1>5

(* The head of one queue goes to the back of another. *)
LEMMA Passed ==
  ASSUME NEW X, NEW Y, NEW s \in Seq(X), NEW t \in Seq(Y), s # <<>>, Head(s) \in Y
  PROVE  Head(s) \in X /\ Tail(s) \in Seq(X) /\ Append(t, Head(s)) \in Seq(Y)
  BY HeadAndTail

(* A packet goes from the output queue to the link. *)
LEMMA SendNextMoves ==
  ASSUME QueueInv, NEW h \in Ports, SendNext(h), UNCHANGED <<portVars, xbarVars>>
  PROVE  QueueInv' /\ \A f \in Flows : Line(f)' = Line(f)
  <1>0. QueueTypes /\ TurnTypes /\ Routed
    BY DEF QueueInv
  <1>1. PICK v : /\ v = FirstFrom(currOut[h], NumVNs, Sendable(h)) /\ Sendable(h) # {}
                 /\ outQueue' = [outQueue EXCEPT ![h][v] = Tail(@)]
                 /\ up' = [up EXCEPT ![h] = Append(@, Head(outQueue[h][v]))]
                 /\ currOut' = [currOut EXCEPT ![h] = (v + 1) % NumVNs]
                 /\ UNCHANGED <<inQueue, inBuf, outBuf, down>>
    BY DEF SendNext, portVars
  <1>2. v \in Sendable(h)
    <2>1. NumVNs \in Nat \ {0} /\ Sendable(h) \in SUBSET (0 .. NumVNs - 1) /\ currOut[h] \in 0 .. NumVNs - 1
      BY <1>0, MerlinAssumption DEF Sendable, VNs, TurnTypes
    <2> QED BY <1>1, <2>1, FirstFromIs
  <1>3. v \in VNs /\ outQueue[h][v] # <<>>
    BY <1>2 DEF Sendable
  <1> DEFINE e == Head(outQueue[h][v])
  <1>4. /\ e \in FromOn(h, v) /\ Tail(outQueue[h][v]) \in Seq(FromOn(h, v))
        /\ Append(up[h], e) \in Seq(From(h))
    <2>1. outQueue[h][v] \in Seq(FromOn(h, v)) /\ up[h] \in Seq(From(h))
      BY <1>0, <1>3 DEF Routed
    <2>2. e \in FromOn(h, v)
      BY <1>3, <2>1, HeadAndTail
    <2>3. e \in From(h)
      BY <2>2 DEF FromOn, From
    <2> QED BY <1>3, <2>1, <2>2, <2>3, Passed
  <1>5. e \in Packets /\ e.flow.src = h /\ e.flow.vn = v
    BY <1>4 DEF FromOn
  <1>6. /\ outQueue[h][v] \in Seq(Packets) /\ Tail(outQueue[h][v]) \in Seq(Packets)
        /\ up[h] \in Seq(Packets) /\ Append(up[h], e) \in Seq(Packets)
    <2>1. outQueue[h][v] \in Seq(Packets) /\ up[h] \in Seq(Packets)
      BY <1>0, <1>3 DEF QueueTypes
    <2> QED BY <1>3, <1>5, <2>1, HeadAndTail
  <1> HIDE DEF e
  <1>7. /\ outQueue' \in [Ports -> [VNs -> Seq(Packets)]] /\ outQueue'[h][v] = Tail(outQueue[h][v])
        /\ \A p \in Ports, w \in VNs : p # h \/ w # v => outQueue'[p][w] = outQueue[p][w]
    BY <1>0, <1>1, <1>3, <1>6 DEF QueueTypes
  <1>8. /\ up' \in [Ports -> Seq(Packets)] /\ up'[h] = Append(up[h], e)
        /\ \A p \in Ports : p # h => up'[p] = up[p]
    BY <1>0, <1>1, <1>6 DEF QueueTypes, e
  <1>9. QueueTypes'
    BY <1>0, <1>1, <1>7, <1>8 DEF QueueTypes
  <1>10. TurnTypes'
    <2>1. (v + 1) % NumVNs \in VNs
      BY <1>3, MerlinAssumption DEF VNs
    <2>2. currOut' \in [Ports -> VNs]
      BY <1>0, <1>1, <2>1 DEF TurnTypes
    <2> QED BY <1>0, <2>2 DEF TurnTypes, portVars, xbarVars
  <1>11. Routed'
    <2>1. \A p \in Ports : up'[p] \in Seq(From(p))
      BY <1>0, <1>4, <1>8 DEF Routed
    <2>2. \A p \in Ports, w \in VNs : outQueue'[p][w] \in Seq(FromOn(p, w))
      BY <1>0, <1>4, <1>7 DEF Routed
    <2> QED BY <1>0, <1>1, <2>1, <2>2 DEF Routed
  <1>12. ASSUME NEW f \in Flows PROVE Line(f)' = Line(f)
    <2>1. f.src \in Ports /\ f.vn \in VNs
      BY FlowIs
    <2>2. /\ outQueue[f.src][f.vn] \in Seq(Packets) /\ outQueue'[f.src][f.vn] \in Seq(Packets)
          /\ up[f.src] \in Seq(Packets) /\ up'[f.src] \in Seq(Packets)
      BY <1>0, <1>9, <2>1 DEF QueueTypes
    <2>3. Shifted(outQueue[f.src][f.vn], outQueue'[f.src][f.vn], up[f.src], up'[f.src], f)
      <3>1. CASE f.src = h /\ f.vn = v
        <4>1. Shifted(outQueue[h][v], Tail(outQueue[h][v]), up[h], Append(up[h], e), f)
          BY <1>3, <1>6, ShiftOne DEF e
        <4>2. /\ outQueue[f.src][f.vn] = outQueue[h][v] /\ outQueue'[f.src][f.vn] = Tail(outQueue[h][v])
              /\ up[f.src] = up[h] /\ up'[f.src] = Append(up[h], e)
          BY <1>7, <1>8, <3>1
        <4> QED BY <4>1, <4>2
      <3>2. CASE f.src # h \/ f.vn # v
        <4>1. outQueue'[f.src][f.vn] = outQueue[f.src][f.vn] /\ e.flow # f
          BY <1>5, <1>7, <2>1, <3>2
        <4>2. Only(up'[f.src], f) = Only(up[f.src], f)
          <5>1. Only(Append(up[h], e), f) = Only(up[h], f)
            BY <1>5, <1>6, <4>1, OnlyOther
          <5> QED BY <1>8, <2>1, <5>1
        <4> QED BY <2>2, <4>1, <4>2, ShiftNone
      <3> QED BY <3>1, <3>2
    <2>4. WayRules(inQueue[f.dest][f.vn], down[f.dest], outBuf[f.dest][EntryVC(f.vn)],
                   inBuf[f.src][EntryVC(f.vn)], up[f.src], outQueue[f.src][f.vn], f)
      BY <1>0, LineRules
    <2>5. Line(f)' = WayOf(inQueue[f.dest][f.vn], down[f.dest], outBuf[f.dest][EntryVC(f.vn)],
                           inBuf[f.src][EntryVC(f.vn)], up'[f.src], outQueue'[f.src][f.vn], f)
      BY <1>1 DEF Line
    <2> QED BY <2>2, <2>3, <2>4, <2>5 DEF WayRules, Line
  <1> QED BY <1>9, <1>10, <1>11, <1>12 DEF QueueInv

(* A packet goes from the link into the input buffer.  *)
LEMMA PacketFromHostMoves ==
  ASSUME QueueInv, NEW p \in Ports, PacketFromHost(p)
  PROVE  QueueInv' /\ \A f \in Flows : Line(f)' = Line(f)
  <1>0. QueueTypes /\ TurnTypes /\ Routed
    BY DEF QueueInv
  <1> DEFINE e == Head(up[p])  c == EntryVC(e.flow.vn)
  <1>1. /\ up[p] # <<>>
        /\ inBuf' = [inBuf EXCEPT ![p][c] = Append(@, e)] /\ up' = [up EXCEPT ![p] = Tail(@)]
        /\ UNCHANGED <<outQueue, inQueue, outBuf, down>>
    BY DEF PacketFromHost, hostVars
  <1>2. e \in From(p) /\ Tail(up[p]) \in Seq(From(p))
    BY <1>0, <1>1, HeadAndTail DEF Routed
  <1>3. e \in Packets /\ e.flow.src = p /\ c \in VCs
    BY <1>2, PacketIs, EntryIs DEF From
  <1>4. Append(inBuf[p][c], e) \in Seq(FromVC(p, c))
    <2>1. inBuf[p][c] \in Seq(FromVC(p, c))
      BY <1>0, <1>3 DEF Routed
    <2>2. e \in FromVC(p, c)
      BY <1>3 DEF FromVC
    <2> QED BY <2>1, <2>2, HeadAndTail
  <1>5. /\ up[p] \in Seq(Packets) /\ Tail(up[p]) \in Seq(Packets)
        /\ inBuf[p][c] \in Seq(Packets) /\ Append(inBuf[p][c], e) \in Seq(Packets)
    <2>1. up[p] \in Seq(Packets) /\ inBuf[p][c] \in Seq(Packets)
      BY <1>0, <1>3 DEF QueueTypes
    <2> QED BY <1>1, <1>3, <2>1, HeadAndTail
  <1>6. c = EntryVC(e.flow.vn)
    OBVIOUS
  <1> HIDE DEF e, c
  <1>7. /\ inBuf' \in [Ports -> [VCs -> Seq(Packets)]] /\ inBuf'[p][c] = Append(inBuf[p][c], e)
        /\ \A q \in Ports, d \in VCs : q # p \/ d # c => inBuf'[q][d] = inBuf[q][d]
    BY <1>0, <1>1, <1>3, <1>5 DEF QueueTypes
  <1>8. /\ up' \in [Ports -> Seq(Packets)] /\ up'[p] = Tail(up[p])
        /\ \A q \in Ports : q # p => up'[q] = up[q]
    BY <1>0, <1>1, <1>5 DEF QueueTypes
  <1>9. QueueTypes'
    BY <1>0, <1>1, <1>7, <1>8 DEF QueueTypes
  <1>10. TurnTypes'
    <2>1. CASE notify
      <3>1. PICK n \in Skipped :
              /\ notify' = FALSE
              /\ inBusy' = [q \in Ports |-> Minus(inBusy[q], n)]
              /\ outBusy' = [q \in Ports |-> Minus(outBusy[q], n)]
              /\ rrPort' = (rrPort + n) % NumPorts
              /\ UNCHANGED rrVc
        BY <2>1 DEF PacketFromHost, NotifyEvent
      <3>2. n \in Nat /\ NumPorts \in Nat \ {0} /\ MaxFlits \in Nat
        BY SkippedAssumption, MerlinAssumption
      <3>3. rrPort' \in Ports
        <4>1. rrPort + n \in Nat
          BY <1>0, <3>2 DEF TurnTypes, Ports
        <4> QED BY <3>1, <3>2, <4>1 DEF Ports
      <3>4. \A k \in 0 .. MaxFlits : Minus(k, n) \in 0 .. MaxFlits
        BY <3>2 DEF Minus
      <3>5. inBusy' \in [Ports -> 0 .. MaxFlits] /\ outBusy' \in [Ports -> 0 .. MaxFlits]
        BY <1>0, <3>1, <3>4 DEF TurnTypes
      <3>6. UNCHANGED <<arbVc, currOut>>
        BY DEF PacketFromHost, hostVars
      <3> QED BY <1>0, <3>1, <3>3, <3>5, <3>6 DEF TurnTypes
    <2>2. CASE ~notify
      <3>1. UNCHANGED <<xbarVars, arbVc, currOut>>
        BY <2>2 DEF PacketFromHost, hostVars
      <3> QED BY <1>0, <3>1 DEF TurnTypes, xbarVars
    <2> QED BY <1>0, <2>1, <2>2 DEF TurnTypes
  <1>11. Routed'
    <2>1. \A q \in Ports : up'[q] \in Seq(From(q))
      BY <1>0, <1>2, <1>8 DEF Routed
    <2>2. \A q \in Ports, d \in VCs : inBuf'[q][d] \in Seq(FromVC(q, d))
      BY <1>0, <1>4, <1>7 DEF Routed
    <2> QED BY <1>0, <1>1, <2>1, <2>2 DEF Routed
  <1>12. ASSUME NEW f \in Flows PROVE Line(f)' = Line(f)
    <2>1. f.src \in Ports /\ EntryVC(f.vn) \in VCs
      BY FlowIs
    <2>2. /\ up[f.src] \in Seq(Packets) /\ up'[f.src] \in Seq(Packets)
          /\ inBuf[f.src][EntryVC(f.vn)] \in Seq(Packets) /\ inBuf'[f.src][EntryVC(f.vn)] \in Seq(Packets)
      BY <1>0, <1>9, <2>1 DEF QueueTypes
    <2>3. Shifted(up[f.src], up'[f.src], inBuf[f.src][EntryVC(f.vn)], inBuf'[f.src][EntryVC(f.vn)], f)
      <3>1. CASE f.src = p /\ EntryVC(f.vn) = c
        <4>1. Shifted(up[p], Tail(up[p]), inBuf[p][c], Append(inBuf[p][c], e), f)
          BY <1>1, <1>5, ShiftOne DEF e
        <4>2. /\ up[f.src] = up[p] /\ up'[f.src] = Tail(up[p])
              /\ inBuf[f.src][EntryVC(f.vn)] = inBuf[p][c] /\ inBuf'[f.src][EntryVC(f.vn)] = Append(inBuf[p][c], e)
          BY <1>7, <1>8, <3>1
        <4> QED BY <4>1, <4>2
      <3>2. CASE f.src # p \/ EntryVC(f.vn) # c
        <4>1. inBuf'[f.src][EntryVC(f.vn)] = inBuf[f.src][EntryVC(f.vn)] /\ e.flow # f
          BY <1>3, <1>6, <1>7, <2>1, <3>2
        <4>2. Only(up'[f.src], f) = Only(up[f.src], f)
          <5>1. Only(Tail(up[p]), f) = Only(up[p], f)
            BY <1>1, <1>5, <4>1, OnlyOther DEF e
          <5> QED BY <1>8, <2>1, <5>1
        <4> QED BY <2>2, <4>1, <4>2, ShiftNone
      <3> QED BY <3>1, <3>2
    <2>4. WayRules(inQueue[f.dest][f.vn], down[f.dest], outBuf[f.dest][EntryVC(f.vn)],
                   inBuf[f.src][EntryVC(f.vn)], up[f.src], outQueue[f.src][f.vn], f)
      BY <1>0, LineRules
    <2>5. Line(f)' = WayOf(inQueue[f.dest][f.vn], down[f.dest], outBuf[f.dest][EntryVC(f.vn)],
                           inBuf'[f.src][EntryVC(f.vn)], up'[f.src], outQueue[f.src][f.vn], f)
      BY <1>1 DEF Line
    <2> QED BY <2>2, <2>3, <2>4, <2>5 DEF WayRules, Line
  <1> QED BY <1>9, <1>10, <1>11, <1>12 DEF QueueInv

(* A packet goes from the link into the input queue.  *)
LEMMA PacketFromRouterMoves ==
  ASSUME QueueInv, NEW h \in Ports, PacketFromRouter(h), UNCHANGED <<portVars, xbarVars>>
  PROVE  QueueInv' /\ \A f \in Flows : Line(f)' = Line(f)
  <1>0. QueueTypes /\ TurnTypes /\ Routed
    BY DEF QueueInv
  <1> DEFINE e == Head(down[h])  c == e.flow.vn
  <1>1. /\ down[h] # <<>>
        /\ inQueue' = [inQueue EXCEPT ![h][c] = Append(@, e)] /\ down' = [down EXCEPT ![h] = Tail(@)]
        /\ UNCHANGED <<outQueue, inBuf, outBuf, up>>
    BY DEF PacketFromRouter, portVars
  <1>2. e \in To(h) /\ Tail(down[h]) \in Seq(To(h))
    BY <1>0, <1>1, HeadAndTail DEF Routed
  <1>3. e \in Packets /\ e.flow.dest = h /\ c \in VNs
    BY <1>2, PacketIs DEF To
  <1>4. Append(inQueue[h][c], e) \in Seq(ToOn(h, c))
    <2>1. inQueue[h][c] \in Seq(ToOn(h, c))
      BY <1>0, <1>3 DEF Routed
    <2>2. e \in ToOn(h, c)
      BY <1>3 DEF ToOn
    <2> QED BY <2>1, <2>2, HeadAndTail
  <1>5. /\ down[h] \in Seq(Packets) /\ Tail(down[h]) \in Seq(Packets)
        /\ inQueue[h][c] \in Seq(Packets) /\ Append(inQueue[h][c], e) \in Seq(Packets)
    <2>1. down[h] \in Seq(Packets) /\ inQueue[h][c] \in Seq(Packets)
      BY <1>0, <1>3 DEF QueueTypes
    <2> QED BY <1>1, <1>3, <2>1, HeadAndTail
  <1>6. c = e.flow.vn
    OBVIOUS
  <1> HIDE DEF e, c
  <1>7. /\ inQueue' \in [Ports -> [VNs -> Seq(Packets)]] /\ inQueue'[h][c] = Append(inQueue[h][c], e)
        /\ \A q \in Ports, d \in VNs : q # h \/ d # c => inQueue'[q][d] = inQueue[q][d]
    BY <1>0, <1>1, <1>3, <1>5 DEF QueueTypes
  <1>8. /\ down' \in [Ports -> Seq(Packets)] /\ down'[h] = Tail(down[h])
        /\ \A q \in Ports : q # h => down'[q] = down[q]
    BY <1>0, <1>1, <1>5 DEF QueueTypes
  <1>9. QueueTypes'
    BY <1>0, <1>1, <1>7, <1>8 DEF QueueTypes
  <1>10. TurnTypes'
    <2>1. UNCHANGED <<xbarVars, arbVc, currOut>>
      BY DEF PacketFromRouter, portVars
    <2> QED BY <1>0, <2>1 DEF TurnTypes, xbarVars
  <1>11. Routed'
    <2>1. \A q \in Ports : down'[q] \in Seq(To(q))
      BY <1>0, <1>2, <1>8 DEF Routed
    <2>2. \A q \in Ports, d \in VNs : inQueue'[q][d] \in Seq(ToOn(q, d))
      BY <1>0, <1>4, <1>7 DEF Routed
    <2> QED BY <1>0, <1>1, <2>1, <2>2 DEF Routed
  <1>12. ASSUME NEW f \in Flows PROVE Line(f)' = Line(f)
    <2>1. f.dest \in Ports /\ f.vn \in VNs
      BY FlowIs
    <2>2. /\ down[f.dest] \in Seq(Packets) /\ down'[f.dest] \in Seq(Packets)
          /\ inQueue[f.dest][f.vn] \in Seq(Packets) /\ inQueue'[f.dest][f.vn] \in Seq(Packets)
      BY <1>0, <1>9, <2>1 DEF QueueTypes
    <2>3. Shifted(down[f.dest], down'[f.dest], inQueue[f.dest][f.vn], inQueue'[f.dest][f.vn], f)
      <3>1. CASE f.dest = h /\ f.vn = c
        <4>1. Shifted(down[h], Tail(down[h]), inQueue[h][c], Append(inQueue[h][c], e), f)
          BY <1>1, <1>5, ShiftOne DEF e
        <4>2. /\ down[f.dest] = down[h] /\ down'[f.dest] = Tail(down[h])
              /\ inQueue[f.dest][f.vn] = inQueue[h][c] /\ inQueue'[f.dest][f.vn] = Append(inQueue[h][c], e)
          BY <1>7, <1>8, <3>1
        <4> QED BY <4>1, <4>2
      <3>2. CASE f.dest # h \/ f.vn # c
        <4>1. inQueue'[f.dest][f.vn] = inQueue[f.dest][f.vn] /\ e.flow # f
          BY <1>3, <1>6, <1>7, <2>1, <3>2
        <4>2. Only(down'[f.dest], f) = Only(down[f.dest], f)
          <5>1. Only(Tail(down[h]), f) = Only(down[h], f)
            BY <1>1, <1>5, <4>1, OnlyOther DEF e
          <5> QED BY <1>8, <2>1, <5>1
        <4> QED BY <2>2, <4>1, <4>2, ShiftNone
      <3> QED BY <3>1, <3>2
    <2>4. WayRules(inQueue[f.dest][f.vn], down[f.dest], outBuf[f.dest][EntryVC(f.vn)],
                   inBuf[f.src][EntryVC(f.vn)], up[f.src], outQueue[f.src][f.vn], f)
      BY <1>0, LineRules
    <2>5. Line(f)' = WayOf(inQueue'[f.dest][f.vn], down'[f.dest], outBuf[f.dest][EntryVC(f.vn)],
                           inBuf[f.src][EntryVC(f.vn)], up[f.src], outQueue[f.src][f.vn], f)
      BY <1>1 DEF Line
    <2> QED BY <2>2, <2>3, <2>4, <2>5 DEF WayRules, Line
  <1> QED BY <1>9, <1>10, <1>11, <1>12 DEF QueueInv

(* A packet goes from an output buffer to the link. *)
LEMMA OutputMoves ==
  ASSUME QueueInv, NEW p \in Ports, Output(p)
  PROVE  QueueInv' /\ \A f \in Flows : Line(f)' = Line(f)
  <1>0. QueueTypes /\ TurnTypes /\ Routed
    BY DEF QueueInv
  <1> DEFINE n == NumVNs * VcsPerVn
  <1>1. PICK c : /\ c = FirstFrom((arbVc[p] + 1) % n, n, Eligible(p)) /\ Eligible(p) # {}
                 /\ arbVc' = [arbVc EXCEPT ![p] = c]
                 /\ outBuf' = [outBuf EXCEPT ![p][c] = Tail(@)]
                 /\ down' = [down EXCEPT ![p] = Append(@, Head(outBuf[p][c]))]
                 /\ UNCHANGED <<outQueue, inQueue, inBuf, up>>
    BY DEF Output, hostVars
  <1>2. c \in Eligible(p)
    <2>1. n \in Nat \ {0} /\ VCs = 0 .. n - 1 /\ Eligible(p) \in SUBSET VCs /\ arbVc[p] \in VCs
      BY <1>0, Sizes DEF Eligible, TurnTypes
    <2> HIDE DEF n
    <2>2. (arbVc[p] + 1) % n \in 0 .. n - 1
      BY <2>1
    <2> QED BY <1>1, <2>1, <2>2, FirstFromIs
  <1>3. c \in VCs /\ outBuf[p][c] # <<>>
    BY <1>2 DEF Eligible
  <1> HIDE DEF n
  <1> DEFINE e == Head(outBuf[p][c])
  <1>4. /\ e \in ToVC(p, c) /\ Tail(outBuf[p][c]) \in Seq(ToVC(p, c))
        /\ Append(down[p], e) \in Seq(To(p))
    <2>1. outBuf[p][c] \in Seq(ToVC(p, c)) /\ down[p] \in Seq(To(p))
      BY <1>0, <1>3 DEF Routed
    <2>2. e \in ToVC(p, c)
      BY <1>3, <2>1, HeadAndTail
    <2>3. e \in To(p)
      BY <2>2 DEF ToVC, To
    <2> QED BY <1>3, <2>1, <2>2, <2>3, Passed
  <1>5. e \in Packets /\ e.flow.dest = p /\ EntryVC(e.flow.vn) = c
    BY <1>4 DEF ToVC
  <1>6. /\ outBuf[p][c] \in Seq(Packets) /\ Tail(outBuf[p][c]) \in Seq(Packets)
        /\ down[p] \in Seq(Packets) /\ Append(down[p], e) \in Seq(Packets)
    <2>1. outBuf[p][c] \in Seq(Packets) /\ down[p] \in Seq(Packets)
      BY <1>0, <1>3 DEF QueueTypes
    <2> QED BY <1>3, <1>5, <2>1, HeadAndTail
  <1> HIDE DEF e
  <1>7. /\ outBuf' \in [Ports -> [VCs -> Seq(Packets)]] /\ outBuf'[p][c] = Tail(outBuf[p][c])
        /\ \A q \in Ports, w \in VCs : q # p \/ w # c => outBuf'[q][w] = outBuf[q][w]
    BY <1>0, <1>1, <1>3, <1>6 DEF QueueTypes
  <1>8. /\ down' \in [Ports -> Seq(Packets)] /\ down'[p] = Append(down[p], e)
        /\ \A q \in Ports : q # p => down'[q] = down[q]
    BY <1>0, <1>1, <1>6 DEF QueueTypes, e
  <1>9. QueueTypes'
    BY <1>0, <1>1, <1>7, <1>8 DEF QueueTypes
  <1>10. TurnTypes'
    <2>1. arbVc' \in [Ports -> VCs]
      BY <1>0, <1>1, <1>3 DEF TurnTypes
    <2>2. UNCHANGED <<xbarVars, currOut>>
      BY DEF Output, hostVars
    <2> QED BY <1>0, <2>1, <2>2 DEF TurnTypes, xbarVars
  <1>11. Routed'
    <2>1. \A q \in Ports : down'[q] \in Seq(To(q))
      BY <1>0, <1>4, <1>8 DEF Routed
    <2>2. \A q \in Ports, w \in VCs : outBuf'[q][w] \in Seq(ToVC(q, w))
      BY <1>0, <1>4, <1>7 DEF Routed
    <2> QED BY <1>0, <1>1, <2>1, <2>2 DEF Routed
  <1>12. ASSUME NEW f \in Flows PROVE Line(f)' = Line(f)
    <2>1. f.dest \in Ports /\ EntryVC(f.vn) \in VCs
      BY FlowIs
    <2>2. /\ outBuf[f.dest][EntryVC(f.vn)] \in Seq(Packets) /\ outBuf'[f.dest][EntryVC(f.vn)] \in Seq(Packets)
          /\ down[f.dest] \in Seq(Packets) /\ down'[f.dest] \in Seq(Packets)
      BY <1>0, <1>9, <2>1 DEF QueueTypes
    <2>3. Shifted(outBuf[f.dest][EntryVC(f.vn)], outBuf'[f.dest][EntryVC(f.vn)], down[f.dest], down'[f.dest], f)
      <3>1. CASE f.dest = p /\ EntryVC(f.vn) = c
        <4>1. Shifted(outBuf[p][c], Tail(outBuf[p][c]), down[p], Append(down[p], e), f)
          BY <1>3, <1>6, ShiftOne DEF e
        <4>2. /\ outBuf[f.dest][EntryVC(f.vn)] = outBuf[p][c] /\ outBuf'[f.dest][EntryVC(f.vn)] = Tail(outBuf[p][c])
              /\ down[f.dest] = down[p] /\ down'[f.dest] = Append(down[p], e)
          BY <1>7, <1>8, <3>1
        <4> QED BY <4>1, <4>2
      <3>2. CASE f.dest # p \/ EntryVC(f.vn) # c
        <4>1. outBuf'[f.dest][EntryVC(f.vn)] = outBuf[f.dest][EntryVC(f.vn)] /\ e.flow # f
          BY <1>5, <1>7, <2>1, <3>2
        <4>2. Only(down'[f.dest], f) = Only(down[f.dest], f)
          <5>1. Only(Append(down[p], e), f) = Only(down[p], f)
            BY <1>5, <1>6, <4>1, OnlyOther
          <5> QED BY <1>8, <2>1, <5>1
        <4> QED BY <2>2, <4>1, <4>2, ShiftNone
      <3> QED BY <3>1, <3>2
    <2>4. WayRules(inQueue[f.dest][f.vn], down[f.dest], outBuf[f.dest][EntryVC(f.vn)],
                   inBuf[f.src][EntryVC(f.vn)], up[f.src], outQueue[f.src][f.vn], f)
      BY <1>0, LineRules
    <2>5. Line(f)' = WayOf(inQueue[f.dest][f.vn], down'[f.dest], outBuf'[f.dest][EntryVC(f.vn)],
                           inBuf[f.src][EntryVC(f.vn)], up[f.src], outQueue[f.src][f.vn], f)
      BY <1>1 DEF Line
    <2> QED BY <2>2, <2>3, <2>4, <2>5 DEF WayRules, Line
  <1> QED BY <1>9, <1>10, <1>11, <1>12 DEF QueueInv

(* The sequence of a set of one or of none. *)
LEMMA SetToSeqSmall == SetToSeq({}) = <<>> /\ \A x : SetToSeq({x}) = <<x>>
  <1>1. SetToSeq({}) = <<>>
    <2>1. SetToSeq({}) \in Seq({})
      BY SetToSeqIs, FS_EmptySet
    <2>2. \A s \in Seq({}) : s = <<>>
      OBVIOUS
    <2> QED BY <2>1, <2>2
  <1>2. ASSUME NEW x PROVE SetToSeq({x}) = <<x>>
    <2>1. Cardinality({x}) = 1
      BY FS_Singleton
    <2> DEFINE f == [i \in 1 .. 1 |-> x]
    <2>2. f \in [1 .. Cardinality({x}) -> {x}] /\ IsInjective(f)
      BY <2>1 DEF IsInjective
    <2>3. SetToSeq({x}) \in [1 .. 1 -> {x}]
      <3> HIDE DEF f
      <3> QED BY <2>1, <2>2 DEF SetToSeq
    <2>4. \A s \in [1 .. 1 -> {x}] : s = <<x>>
      OBVIOUS
    <2> QED BY <2>3, <2>4
  <1> QED BY <1>1, <1>2

(* At most one packet comes to a channel of a port, from one other. *)
LEMMA IntoWhich ==
  ASSUME QueueTypes, NEW a \in ArbChosen, NEW p \in Ports, NEW c \in VCs
  PROVE  \/ /\ Into(p, c, a.moves) = <<>>
            /\ \A q \in Ports : <<q, c>> \in a.moves => NextPort(q, c) # p
         \/ \E q \in Ports : /\ <<q, c>> \in a.moves /\ NextPort(q, c) = p
                             /\ Into(p, c, a.moves) = <<HeadOf(q, c)>>
  <1> DEFINE Q == {q \in Ports : <<q, c>> \in a.moves /\ NextPort(q, c) = p}
             S == {HeadOf(q, c) : q \in Q}
  <1>1. Into(p, c, a.moves) = SetToSeq(S)
    BY DEF Into
  <1>2. CASE Q = {}
    <2>1. S = {}
      BY <1>2
    <2>2. SetToSeq(S) = <<>>
      BY <2>1, SetToSeqSmall
    <2> QED BY <1>1, <1>2, <2>2
  <1>3. CASE Q # {}
    <2>1. PICK q \in Ports : <<q, c>> \in a.moves /\ NextPort(q, c) = p
      BY <1>3
    <2>2. \A r \in Q : r = q
      <3> TAKE r \in Q
      <3>1. <<r, c>> \in a.moves /\ NextPort(r, c) = p
        OBVIOUS
      <3>2. NextOf(<<r, c>>) = NextOf(<<q, c>>)
        BY <2>1, <3>1 DEF NextOf
      <3>3. \A m, n \in a.moves : NextOf(m) = NextOf(n) => m = n
        BY DEF ArbChosen, Chosen
      <3>4. <<r, c>> = <<q, c>>
        BY <2>1, <3>1, <3>2, <3>3
      <3> QED BY <3>4
    <2>3. Q = {q}
      BY <2>1, <2>2
    <2> HIDE DEF Q
    <2>4. S = {HeadOf(q, c)}
      BY <2>3
    <2>5. SetToSeq(S) = <<HeadOf(q, c)>>
      BY <2>4, SetToSeqSmall
    <2> QED BY <1>1, <2>1, <2>5
  <1> HIDE DEF Q
  <1> QED BY <1>2, <1>3

(* What the crossbar does with the moves of a. *)
MoveCredit(m) == [vc |-> HeadOf(m[1], m[2]).flow.vn, flits |-> HeadOf(m[1], m[2]).flits]
Crossbar(a) ==
  /\ inBuf' = [p \in Ports |-> [c \in VCs |->
                 IF <<p, c>> \in a.moves THEN Tail(inBuf[p][c]) ELSE inBuf[p][c]]]
  /\ downCredit' = [p \in Ports |->
                      downCredit[p] \o SetToSeq({MoveCredit(m) : m \in {n \in a.moves : n[1] = p}})]
  /\ outBuf' = [p \in Ports |-> [c \in VCs |-> outBuf[p][c] \o Into(p, c, a.moves)]]
  /\ xbarCredits' = [p \in Ports |-> [c \in VCs |->
                       xbarCredits[p][c] - Flits(Into(p, c, a.moves))]]
  /\ rrPort' = (rrPort + 1) % NumPorts
  /\ rrVc' = a.vc
  /\ inBusy' = [p \in Ports |-> Minus(a.in[p], 1)]
  /\ outBusy' = [p \in Ports |-> Minus(a.out[p], 1)]
  /\ UNCHANGED <<portCredits, arbVc, notify, hostVars, up, upCredit, down>>

(* The clock does what the crossbar does with the moves it has chosen. *)
LEMMA ClockDoes ==
  ASSUME QueueTypes, TurnTypes, ClockHandler
  PROVE  \E a \in ArbChosen : Crossbar(a)
  <1>1. Arbitration \in ArbChosen
    BY ArbitrationChooses
  <1>2. \E a \in {Arbitration} : Crossbar(a)
    BY Zenon DEF ClockHandler, Crossbar, MoveCredit
  <1> QED BY <1>1, <1>2

(* What the moves do to one place, as far as one flow is concerned. *)
LEMMA ClockMoves ==
  ASSUME QueueInv, ClockHandler
  PROVE  QueueInv' /\ \A f \in Flows : Line(f)' = Line(f)
  <1>0. QueueTypes /\ TurnTypes /\ Routed
    BY DEF QueueInv
  <1>1. PICK a \in ArbChosen : Crossbar(a)
    BY <1>0, ClockDoes
  <1> DEFINE I(p, c) == Into(p, c, a.moves)
  <1>2. /\ inBuf' = [p \in Ports |-> [c \in VCs |->
                       IF <<p, c>> \in a.moves THEN Tail(inBuf[p][c]) ELSE inBuf[p][c]]]
        /\ outBuf' = [p \in Ports |-> [c \in VCs |-> outBuf[p][c] \o I(p, c)]]
        /\ UNCHANGED <<outQueue, inQueue, up, down, currOut, arbVc, notify>>
    BY <1>1 DEF Crossbar, hostVars
  <1> HIDE DEF I
  <1>3. a \in ArbStates /\ Chosen(a)
    BY DEF ArbChosen
  <1>4. \A p \in Ports, c \in VCs :
          /\ inBuf'[p][c] = IF <<p, c>> \in a.moves THEN Tail(inBuf[p][c]) ELSE inBuf[p][c]
          /\ outBuf'[p][c] = outBuf[p][c] \o I(p, c)
    BY <1>2
  <1>5. ASSUME NEW p \in Ports, NEW c \in VCs, <<p, c>> \in a.moves
        PROVE  /\ inBuf[p][c] # <<>> /\ HeadOf(p, c) \in FromVC(p, c)
               /\ Tail(inBuf[p][c]) \in Seq(FromVC(p, c)) /\ Tail(inBuf[p][c]) \in Seq(Packets)
    <2>1. inBuf[p][c] # <<>>
      <3>1. inBuf[<<p, c>>[1]][<<p, c>>[2]] # <<>>
        BY <1>3, <1>5 DEF Chosen
      <3> QED BY <3>1
    <2>2. inBuf[p][c] \in Seq(FromVC(p, c)) /\ inBuf[p][c] \in Seq(Packets)
      BY <1>0 DEF Routed, QueueTypes
    <2> QED BY <2>1, <2>2, HeadAndTail DEF HeadOf
  <1>6. ASSUME NEW p \in Ports, NEW c \in VCs
        PROVE  \/ I(p, c) = <<>> /\ \A q \in Ports : <<q, c>> \in a.moves => NextPort(q, c) # p
               \/ \E q \in Ports : /\ <<q, c>> \in a.moves /\ NextPort(q, c) = p
                                   /\ I(p, c) = <<HeadOf(q, c)>>
    BY <1>0, IntoWhich DEF I
  <1>7. ASSUME NEW p \in Ports, NEW c \in VCs
        PROVE  I(p, c) \in Seq(ToVC(p, c)) /\ I(p, c) \in Seq(Packets)
    <2>1. CASE I(p, c) = <<>>
      BY <2>1
    <2>2. CASE I(p, c) # <<>>
      <3>1. PICK q \in Ports : <<q, c>> \in a.moves /\ NextPort(q, c) = p /\ I(p, c) = <<HeadOf(q, c)>>
        BY <1>6, <2>2
      <3>2. HeadOf(q, c) \in Packets /\ HeadOf(q, c) \in ToVC(p, c)
        BY <1>5, <3>1 DEF FromVC, ToVC, NextPort
      <3> QED BY <3>1, <3>2
    <2> QED BY <2>1, <2>2
  <1>8. ASSUME NEW p \in Ports, NEW c \in VCs
        PROVE  /\ inBuf'[p][c] \in Seq(FromVC(p, c)) /\ inBuf'[p][c] \in Seq(Packets)
               /\ outBuf'[p][c] \in Seq(ToVC(p, c)) /\ outBuf'[p][c] \in Seq(Packets)
    <2>1. /\ inBuf[p][c] \in Seq(FromVC(p, c)) /\ inBuf[p][c] \in Seq(Packets)
          /\ outBuf[p][c] \in Seq(ToVC(p, c)) /\ outBuf[p][c] \in Seq(Packets)
      BY <1>0 DEF Routed, QueueTypes
    <2>2. inBuf'[p][c] \in Seq(FromVC(p, c)) /\ inBuf'[p][c] \in Seq(Packets)
      BY <1>4, <1>5, <2>1
    <2>3. \A X : \A s, t \in Seq(X) : s \o t \in Seq(X)
      OBVIOUS
    <2>4. outBuf'[p][c] \in Seq(ToVC(p, c)) /\ outBuf'[p][c] \in Seq(Packets)
      BY <1>4, <1>7, <2>1, <2>3
    <2> QED BY <2>2, <2>4
  <1>9. QueueTypes'
    <2>1. inBuf' \in [Ports -> [VCs -> Seq(Packets)]] /\ outBuf' \in [Ports -> [VCs -> Seq(Packets)]]
      BY <1>2, <1>4, <1>8
    <2> QED BY <1>0, <1>2, <2>1 DEF QueueTypes
  <1>10. TurnTypes'
    <2>1. /\ rrPort' = (rrPort + 1) % NumPorts /\ rrVc' = a.vc
          /\ inBusy' = [p \in Ports |-> Minus(a.in[p], 1)]
          /\ outBusy' = [p \in Ports |-> Minus(a.out[p], 1)]
      BY <1>1 DEF Crossbar
    <2>2. NumPorts \in Nat \ {0} /\ MaxFlits \in Nat
      BY MerlinAssumption
    <2>3. rrPort' \in Ports
      BY <1>0, <2>1, <2>2 DEF TurnTypes, Ports
    <2>4. \A k \in 0 .. MaxFlits : Minus(k, 1) \in 0 .. MaxFlits
      BY <2>2 DEF Minus
    <2>5. /\ a.in \in [Ports -> 0 .. MaxFlits] /\ a.out \in [Ports -> 0 .. MaxFlits]
          /\ a.vc \in [Ports -> VCs]
      BY <1>3 DEF ArbStates
    <2>6. inBusy' \in [Ports -> 0 .. MaxFlits] /\ outBusy' \in [Ports -> 0 .. MaxFlits]
      BY <2>1, <2>4, <2>5
    <2> QED BY <1>0, <1>2, <2>1, <2>3, <2>5, <2>6 DEF TurnTypes
  <1>11. Routed'
    BY <1>0, <1>2, <1>8 DEF Routed
  <1>12. ASSUME NEW f \in Flows PROVE Line(f)' = Line(f)
    <2> DEFINE s == f.src  d == f.dest  c == EntryVC(f.vn)  e == HeadOf(s, c)
    <2>1. s \in Ports /\ d \in Ports /\ c \in VCs
      BY FlowIs
    <2>2. f.src = s /\ f.dest = d /\ EntryVC(f.vn) = c /\ e = Head(inBuf[s][c])
      BY DEF HeadOf
    <2> HIDE DEF s, d, c, e
    <2>3. /\ inBuf[s][c] \in Seq(Packets) /\ inBuf'[s][c] \in Seq(Packets)
          /\ outBuf[d][c] \in Seq(Packets) /\ outBuf'[d][c] \in Seq(Packets)
      BY <1>0, <1>8, <2>1 DEF QueueTypes
    <2>4. Shifted(inBuf[s][c], inBuf'[s][c], outBuf[d][c], outBuf'[d][c], f)
      <3>1. CASE <<s, c>> \in a.moves /\ NextPort(s, c) = d
        <4>1. I(d, c) = <<e>>
          <5>1. PICK q \in Ports : <<q, c>> \in a.moves /\ NextPort(q, c) = d /\ I(d, c) = <<HeadOf(q, c)>>
            BY <1>6, <2>1, <3>1
          <5>2. NextOf(<<q, c>>) = NextOf(<<s, c>>)
            BY <3>1, <5>1 DEF NextOf
          <5>3. <<q, c>> = <<s, c>>
            BY <1>3, <3>1, <5>1, <5>2 DEF Chosen
          <5> QED BY <5>1, <5>3 DEF e
        <4>2. inBuf[s][c] # <<>> /\ inBuf'[s][c] = Tail(inBuf[s][c]) /\ e \in Packets
          BY <1>4, <1>5, <2>1, <3>1 DEF FromVC, e
        <4>3. outBuf'[d][c] = Append(outBuf[d][c], e)
          <5>1. outBuf'[d][c] = outBuf[d][c] \o <<e>>
            BY <1>4, <2>1, <4>1
          <5> QED BY <2>3, <4>2, <5>1, HeadAndTail
        <4>4. Shifted(inBuf[s][c], Tail(inBuf[s][c]), outBuf[d][c],
                      Append(outBuf[d][c], Head(inBuf[s][c])), f)
          BY <2>3, <4>2, ShiftOne
        <4> QED BY <2>2, <4>2, <4>3, <4>4
      <3>2. CASE ~(<<s, c>> \in a.moves /\ NextPort(s, c) = d)
        <4>1. Only(inBuf'[s][c], f) = Only(inBuf[s][c], f)
          <5>1. CASE <<s, c>> \in a.moves
            <6>1. inBuf[s][c] # <<>> /\ inBuf'[s][c] = Tail(inBuf[s][c])
              BY <1>4, <1>5, <2>1, <5>1
            <6>2. e.flow # f
              <7>1. e.flow.dest # d
                BY <3>2, <5>1 DEF NextPort, e
              <7> QED BY <2>2, <7>1
            <6> QED BY <2>2, <2>3, <6>1, <6>2, OnlyOther
          <5>2. CASE <<s, c>> \notin a.moves
            BY <1>4, <2>1, <5>2
          <5> QED BY <5>1, <5>2
        <4>2. Only(outBuf'[d][c], f) = Only(outBuf[d][c], f)
          <5>1. CASE I(d, c) = <<>>
            <6>1. outBuf'[d][c] = outBuf[d][c] \o <<>>
              BY <1>4, <2>1, <5>1
            <6>2. outBuf'[d][c] = outBuf[d][c]
              BY <2>3, <6>1
            <6> QED BY <6>2
          <5>2. CASE I(d, c) # <<>>
            <6>1. PICK q \in Ports : <<q, c>> \in a.moves /\ NextPort(q, c) = d /\ I(d, c) = <<HeadOf(q, c)>>
              BY <1>6, <2>1, <5>2
            <6> DEFINE x == HeadOf(q, c)
            <6>2. x \in Packets /\ x.flow.src = q /\ q # s
              BY <1>5, <2>1, <3>2, <6>1 DEF FromVC
            <6>3. x.flow # f
              BY <2>2, <6>2
            <6> HIDE DEF x
            <6>4. outBuf'[d][c] = outBuf[d][c] \o <<x>>
              BY <1>4, <2>1, <6>1 DEF x
            <6>5. outBuf'[d][c] = Append(outBuf[d][c], x)
              BY <2>3, <6>2, <6>4, HeadAndTail
            <6> QED BY <2>3, <6>2, <6>3, <6>5, OnlyOther
          <5> QED BY <5>1, <5>2
        <4> QED BY <2>3, <4>1, <4>2, ShiftNone
      <3> QED BY <3>1, <3>2
    <2>5. WayRules(inQueue[f.dest][f.vn], down[f.dest], outBuf[d][c],
                   inBuf[s][c], up[f.src], outQueue[f.src][f.vn], f)
      BY <1>0, <2>2, LineRules
    <2>6. Line(f)' = WayOf(inQueue[f.dest][f.vn], down[f.dest], outBuf'[d][c],
                           inBuf'[s][c], up[f.src], outQueue[f.src][f.vn], f)
      BY <1>2, <2>2 DEF Line
    <2>7. Line(f) = WayOf(inQueue[f.dest][f.vn], down[f.dest], outBuf[d][c],
                          inBuf[s][c], up[f.src], outQueue[f.src][f.vn], f)
      BY <2>2 DEF Line
    <2> QED BY <2>3, <2>4, <2>5, <2>6, <2>7 DEF WayRules
  <1> QED BY <1>9, <1>10, <1>11, <1>12 DEF QueueInv

(* Steps that leave the packets where they are. *)
LEMMA StayMoves ==
  ASSUME QueueInv, UNCHANGED <<outQueue, inQueue, inBuf, outBuf, up, down, currOut, arbVc,
                               rrPort, rrVc, inBusy, outBusy>>,
         notify' \in BOOLEAN
  PROVE  QueueInv' /\ \A f \in Flows : Line(f)' = Line(f)
  <1>1. QueueInv'
    BY DEF QueueInv, QueueTypes, TurnTypes, Routed
  <1>2. \A f \in Flows : Line(f)' = Line(f)
    BY DEF Line
  <1> QED BY <1>1, <1>2

(* A packet that is sent comes last. *)
LEMMA SendMoves ==
  ASSUME QueueInv, CountTypes, NEW g \in Flows, Send(g), UNCHANGED <<portVars, xbarVars>>
  PROVE  /\ QueueInv' /\ CountTypes'
         /\ sent' = [sent EXCEPT ![g] = @ + 1] /\ UNCHANGED received
         /\ \E e \in Packets : /\ e.flow = g /\ e.nth = sent'[g]
                               /\ \A f \in Flows : Line(f)' = Cat(Line(f), Bit(e, f))
  <1>0. QueueTypes /\ TurnTypes /\ Routed
    BY DEF QueueInv
  <1>1. PICK n \in 1 .. MaxFlits :
          /\ outQueue' = [outQueue EXCEPT ![g.src][g.vn] =
                            Append(@, [flow |-> g, nth |-> sent[g] + 1, flits |-> n])]
          /\ sent' = [sent EXCEPT ![g] = @ + 1]
          /\ UNCHANGED <<inQueue, inBuf, outBuf, up, down, currOut, received>>
    BY DEF Send, portVars, linkVars
  <1> DEFINE h == g.src  v == g.vn  e == [flow |-> g, nth |-> sent[g] + 1, flits |-> n]
  <1>2. h \in Ports /\ v \in VNs
    BY FlowIs
  <1>3. sent[g] \in Nat /\ sent'[g] = sent[g] + 1 /\ sent' \in [Flows -> Nat]
    BY <1>1 DEF CountTypes
  <1>4. e \in Packets /\ e.flow = g /\ e.nth = sent'[g] /\ e \in FromOn(h, v)
    <2>1. e \in Packets
      BY <1>3 DEF Packets
    <2> QED BY <1>3, <2>1 DEF FromOn
  <1>5. g.src = h /\ g.vn = v
    OBVIOUS
  <1>6. outQueue' = [outQueue EXCEPT ![h][v] = Append(@, e)]
    BY <1>1
  <1> HIDE DEF e, h, v
  <1>7. /\ outQueue[h][v] \in Seq(FromOn(h, v)) /\ Append(outQueue[h][v], e) \in Seq(FromOn(h, v))
        /\ outQueue[h][v] \in Seq(Packets) /\ Append(outQueue[h][v], e) \in Seq(Packets)
    <2>1. outQueue[h][v] \in Seq(FromOn(h, v)) /\ outQueue[h][v] \in Seq(Packets)
      BY <1>0, <1>2 DEF Routed, QueueTypes
    <2> QED BY <1>4, <2>1, HeadAndTail
  <1>8. /\ outQueue' \in [Ports -> [VNs -> Seq(Packets)]] /\ outQueue'[h][v] = Append(outQueue[h][v], e)
        /\ \A p \in Ports, w \in VNs : p # h \/ w # v => outQueue'[p][w] = outQueue[p][w]
    BY <1>0, <1>2, <1>6, <1>7 DEF QueueTypes
  <1>9. QueueTypes'
    BY <1>0, <1>1, <1>8 DEF QueueTypes
  <1>10. TurnTypes'
    BY <1>0, <1>1 DEF TurnTypes, portVars, xbarVars
  <1>11. Routed'
    <2>1. \A p \in Ports, w \in VNs : outQueue'[p][w] \in Seq(FromOn(p, w))
      BY <1>0, <1>7, <1>8 DEF Routed
    <2> QED BY <1>0, <1>1, <2>1 DEF Routed
  <1>12. ASSUME NEW f \in Flows PROVE Line(f)' = Cat(Line(f), Bit(e, f))
    <2>1. f.src \in Ports /\ f.vn \in VNs
      BY FlowIs
    <2>2. WayRules(inQueue[f.dest][f.vn], down[f.dest], outBuf[f.dest][EntryVC(f.vn)],
                   inBuf[f.src][EntryVC(f.vn)], up[f.src], outQueue[f.src][f.vn], f)
      BY <1>0, LineRules
    <2>3. Line(f)' = WayOf(inQueue[f.dest][f.vn], down[f.dest], outBuf[f.dest][EntryVC(f.vn)],
                           inBuf[f.src][EntryVC(f.vn)], up[f.src], outQueue'[f.src][f.vn], f)
      BY <1>1 DEF Line
    <2>4. CASE f.src = h /\ f.vn = v
      BY <1>4, <1>8, <2>2, <2>3, <2>4 DEF WayRules, Line
    <2>5. CASE f.src # h \/ f.vn # v
      <3>1. outQueue'[f.src][f.vn] = outQueue[f.src][f.vn]
        BY <1>8, <2>1, <2>5
      <3>2. Line(f)' = Line(f) /\ Line(f) \in Seq(Packets)
        BY <2>2, <2>3, <3>1 DEF Line, WayRules
      <3>3. Bit(e, f) = <<>>
        BY <1>4, <1>5, <2>5 DEF Bit
      <3>4. Line(f) = Line(f) \o <<>>
        BY <3>2
      <3> QED BY <3>2, <3>3, <3>4 DEF Cat
    <2> QED BY <2>4, <2>5
  <1>13. QueueInv' /\ CountTypes'
    BY <1>1, <1>3, <1>9, <1>10, <1>11 DEF QueueInv, CountTypes
  <1> QED BY <1>1, <1>4, <1>12, <1>13

(* The packet that is read came first. *)
LEMMA RecvMoves ==
  ASSUME QueueInv, CountTypes, NEW h \in Ports, NEW v \in VNs, Recv(h, v),
         UNCHANGED <<portVars, xbarVars>>
  PROVE  /\ QueueInv' /\ CountTypes' /\ UNCHANGED sent
         /\ \E e \in Packets : /\ received' = [received EXCEPT ![e.flow] = @ + 1]
                               /\ \A f \in Flows : Line(f) = Cat(Bit(e, f), Line(f)')
  <1>0. QueueTypes /\ TurnTypes /\ Routed
    BY DEF QueueInv
  <1> DEFINE e == Head(inQueue[h][v])
  <1>1. /\ inQueue[h][v] # <<>> /\ inQueue' = [inQueue EXCEPT ![h][v] = Tail(@)]
        /\ received' = [received EXCEPT ![e.flow] = @ + 1]
        /\ UNCHANGED <<outQueue, inBuf, outBuf, up, down, currOut, sent>>
    BY DEF Recv, portVars
  <1>2. /\ e \in ToOn(h, v) /\ Tail(inQueue[h][v]) \in Seq(ToOn(h, v))
        /\ inQueue[h][v] \in Seq(Packets) /\ Tail(inQueue[h][v]) \in Seq(Packets)
    <2>1. inQueue[h][v] \in Seq(ToOn(h, v)) /\ inQueue[h][v] \in Seq(Packets)
      BY <1>0 DEF Routed, QueueTypes
    <2> QED BY <1>1, <2>1, HeadAndTail
  <1>3. e \in Packets /\ e.flow.dest = h /\ e.flow.vn = v /\ e.flow \in Flows
    BY <1>2, PacketIs DEF ToOn
  <1>4. /\ inQueue' \in [Ports -> [VNs -> Seq(Packets)]] /\ inQueue'[h][v] = Tail(inQueue[h][v])
        /\ \A p \in Ports, w \in VNs : p # h \/ w # v => inQueue'[p][w] = inQueue[p][w]
    BY <1>0, <1>1, <1>2 DEF QueueTypes
  <1>5. QueueTypes'
    BY <1>0, <1>1, <1>4 DEF QueueTypes
  <1>6. TurnTypes'
    BY <1>0, <1>1 DEF TurnTypes, portVars, xbarVars
  <1>7. Routed'
    <2>1. \A p \in Ports, w \in VNs : inQueue'[p][w] \in Seq(ToOn(p, w))
      BY <1>0, <1>2, <1>4 DEF Routed
    <2> QED BY <1>0, <1>1, <2>1 DEF Routed
  <1>8. CountTypes'
    <2> HIDE DEF e
    <2> QED BY <1>1, <1>3 DEF CountTypes
  <1>9. ASSUME NEW f \in Flows PROVE Line(f) = Cat(Bit(e, f), Line(f)')
    <2>1. f.dest \in Ports /\ f.vn \in VNs
      BY FlowIs
    <2>2. WayRules(inQueue[f.dest][f.vn], down[f.dest], outBuf[f.dest][EntryVC(f.vn)],
                   inBuf[f.src][EntryVC(f.vn)], up[f.src], outQueue[f.src][f.vn], f)
      BY <1>0, LineRules
    <2>3. Line(f)' = WayOf(inQueue'[f.dest][f.vn], down[f.dest], outBuf[f.dest][EntryVC(f.vn)],
                           inBuf[f.src][EntryVC(f.vn)], up[f.src], outQueue[f.src][f.vn], f)
      BY <1>1 DEF Line
    <2>4. CASE f.dest = h /\ f.vn = v
      BY <1>1, <1>4, <2>2, <2>3, <2>4 DEF WayRules, Line
    <2>5. CASE f.dest # h \/ f.vn # v
      <3>1. inQueue'[f.dest][f.vn] = inQueue[f.dest][f.vn]
        BY <1>4, <2>1, <2>5
      <3>2. Line(f)' = Line(f) /\ Line(f) \in Seq(Packets)
        BY <2>2, <2>3, <3>1 DEF Line, WayRules
      <3>3. Bit(e, f) = <<>>
        BY <1>3, <2>5 DEF Bit
      <3>4. Line(f) = <<>> \o Line(f)
        BY <3>2
      <3> QED BY <3>2, <3>3, <3>4 DEF Cat
    <2> QED BY <2>4, <2>5
  <1>10. QueueInv'
    BY <1>5, <1>6, <1>7 DEF QueueInv
  <1> HIDE DEF e
  <1> QED BY <1>1, <1>3, <1>8, <1>9, <1>10

(* What a step does to the flows: nothing, or it sends or reads a packet.  *)
FlowsStay == UNCHANGED <<sent, received>> /\ \A f \in Flows : Line(f)' = Line(f)
FlowSends ==
  \E e \in Packets :
    /\ e.nth = sent'[e.flow] /\ sent' = [sent EXCEPT ![e.flow] = @ + 1] /\ UNCHANGED received
    /\ \A f \in Flows : Line(f)' = Cat(Line(f), Bit(e, f))
FlowReads ==
  \E e \in Packets :
    /\ received' = [received EXCEPT ![e.flow] = @ + 1] /\ UNCHANGED sent
    /\ \A f \in Flows : Line(f) = Cat(Bit(e, f), Line(f)')

(* Every step leaves the flows as they are, sends a packet or reads one. *)
LEMMA NextMoves ==
  ASSUME QueueInv, CountTypes, [Next]_vars
  PROVE  QueueInv' /\ CountTypes' /\ (FlowsStay \/ FlowSends \/ FlowReads)
  <1>0. ASSUME UNCHANGED <<sent, received>> PROVE CountTypes'
    BY <1>0 DEF CountTypes
  <1>1. notify \in BOOLEAN
    BY DEF QueueInv, TurnTypes
  <1>2. ASSUME HostStep, UNCHANGED <<portVars, xbarVars>>
        PROVE  QueueInv' /\ CountTypes' /\ (FlowsStay \/ FlowSends \/ FlowReads)
    <2>0. UNCHANGED <<inBuf, outBuf, arbVc, rrPort, rrVc, inBusy, outBusy, notify>>
      BY <1>2 DEF portVars, xbarVars
    <2>1. CASE \E f \in Flows : Send(f)
      <3>1. PICK g \in Flows : Send(g)
        BY <2>1
      <3>2. QueueInv' /\ CountTypes' /\ FlowSends
        BY <1>2, <3>1, SendMoves DEF FlowSends
      <3> QED BY <3>2
    <2>2. CASE \E h \in Ports : SendNext(h)
      <3>1. PICK h \in Ports : SendNext(h)
        BY <2>2
      <3>2. UNCHANGED <<sent, received>>
        BY <3>1 DEF SendNext
      <3> QED BY <1>0, <1>2, <3>1, <3>2, SendNextMoves DEF FlowsStay
    <2>3. CASE \E h \in Ports : Idle(h)
      <3>1. UNCHANGED <<outQueue, inQueue, up, down, currOut, sent, received>>
        BY <2>3 DEF Idle, linkVars
      <3> QED BY <1>0, <1>1, <2>0, <3>1, StayMoves DEF FlowsStay
    <2>4. CASE \E h \in Ports : CreditFromRouter(h)
      <3>1. UNCHANGED <<outQueue, inQueue, up, down, currOut, sent, received>>
        BY <2>4 DEF CreditFromRouter
      <3> QED BY <1>0, <1>1, <2>0, <3>1, StayMoves DEF FlowsStay
    <2>5. CASE \E h \in Ports : PacketFromRouter(h)
      <3>1. PICK h \in Ports : PacketFromRouter(h)
        BY <2>5
      <3>2. UNCHANGED <<sent, received>>
        BY <3>1 DEF PacketFromRouter
      <3> QED BY <1>0, <1>2, <3>1, <3>2, PacketFromRouterMoves DEF FlowsStay
    <2>6. CASE \E h \in Ports, v \in VNs : Recv(h, v)
      <3>1. PICK h \in Ports, v \in VNs : Recv(h, v)
        BY <2>6
      <3>2. QueueInv' /\ CountTypes' /\ FlowReads
        BY <1>2, <3>1, RecvMoves DEF FlowReads
      <3> QED BY <3>2
    <2> QED BY <1>2, <2>1, <2>2, <2>3, <2>4, <2>5, <2>6 DEF HostStep
  <1>3. ASSUME NEW p \in Ports, PacketFromHost(p) \/ Output(p)
        PROVE  QueueInv' /\ CountTypes' /\ FlowsStay
    <2>1. UNCHANGED <<sent, received>>
      BY <1>3 DEF PacketFromHost, Output, hostVars
    <2> QED BY <1>0, <1>3, <2>1, PacketFromHostMoves, OutputMoves DEF FlowsStay
  <1>4. ASSUME NEW p \in Ports, CreditFromHost(p) \/ PortIdle(p)
        PROVE  QueueInv' /\ CountTypes' /\ FlowsStay
    <2>1. UNCHANGED <<outQueue, inQueue, inBuf, outBuf, up, down, currOut, arbVc, rrPort, rrVc,
                      inBusy, outBusy, notify, sent, received>>
      BY <1>4 DEF CreditFromHost, PortIdle, hostVars, xbarVars, linkVars
    <2> QED BY <1>0, <1>1, <2>1, StayMoves DEF FlowsStay
  <1>5. CASE PortStep
    BY <1>3, <1>4, <1>5 DEF PortStep
  <1>6. CASE ClockOff
    <2>1. UNCHANGED <<outQueue, inQueue, inBuf, outBuf, up, down, currOut, arbVc, rrPort, rrVc,
                      inBusy, outBusy, sent, received>> /\ notify' \in BOOLEAN
      BY <1>6 DEF ClockOff, hostVars, portVars, linkVars
    <2> QED BY <1>0, <2>1, StayMoves DEF FlowsStay
  <1>7. CASE ClockHandler
    <2>1. UNCHANGED <<sent, received>>
      BY <1>7, ClockDoes DEF QueueInv, Crossbar, hostVars
    <2> QED BY <1>0, <1>7, <2>1, ClockMoves DEF FlowsStay
  <1>8. CASE UNCHANGED vars
    <2>1. UNCHANGED <<outQueue, inQueue, inBuf, outBuf, up, down, currOut, arbVc, rrPort, rrVc,
                      inBusy, outBusy, notify, sent, received>>
      BY <1>8 DEF vars, hostVars, portVars, xbarVars, linkVars
    <2> QED BY <1>0, <1>1, <2>1, StayMoves DEF FlowsStay
  <1> QED BY <1>2, <1>5, <1>6, <1>7, <1>8 DEF Next, RouterStep, Quiet

(* The numbers of packets. *)
Numbers(s) == [i \in DOMAIN s |-> s[i].nth]
UpTo(m, n) == [i \in 1 .. (n - m) |-> m + i]

(* A packet in front or at the back, and the numbers of its flow. *)
LEMMA NumbersOf ==
  ASSUME NEW f, NEW e \in Packets, NEW s \in Seq(Packets)
  PROVE  /\ Numbers(s) \in Seq(Nat)
         /\ Numbers(Cat(s, Bit(e, f))) = IF e.flow = f THEN Append(Numbers(s), e.nth) ELSE Numbers(s)
         /\ Numbers(Cat(Bit(e, f), s)) = IF e.flow = f THEN <<e.nth>> \o Numbers(s) ELSE Numbers(s)
  <1>1. e.nth \in Nat /\ \A i \in 1 .. Len(s) : s[i].nth \in Nat
    <2>1. \A x \in Packets : x.nth \in Nat
      BY PacketIs
    <2> QED BY <2>1
  <1>2. Numbers(s) \in Seq(Nat) /\ Len(Numbers(s)) = Len(s)
        /\ \A i \in 1 .. Len(s) : Numbers(s)[i] = s[i].nth
    BY <1>1 DEF Numbers
  <1>3. CASE e.flow = f
    <2>1. Cat(s, Bit(e, f)) = s \o <<e>> /\ Cat(Bit(e, f), s) = <<e>> \o s
      BY <1>3 DEF Cat, Bit
    <2>2. Numbers(s \o <<e>>) = Append(Numbers(s), e.nth)
      <3>1. DOMAIN (s \o <<e>>) = 1 .. Len(s) + 1
        OBVIOUS
      <3>2. /\ DOMAIN Append(Numbers(s), e.nth) = 1 .. Len(s) + 1
            /\ \A i \in 1 .. Len(s) : Append(Numbers(s), e.nth)[i] = s[i].nth
            /\ Append(Numbers(s), e.nth)[Len(s) + 1] = e.nth
            /\ Append(Numbers(s), e.nth) \in Seq(Nat)
        <4> HIDE DEF Numbers
        <4> QED BY <1>1, <1>2
      <3>3. \A i \in 1 .. Len(s) + 1 : (s \o <<e>>)[i].nth = Append(Numbers(s), e.nth)[i]
        <4> TAKE i \in 1 .. Len(s) + 1
        <4> HIDE DEF Numbers
        <4>0. i \in 1 .. Len(s) \/ i = Len(s) + 1
          OBVIOUS
        <4>1. CASE i \in 1 .. Len(s)
          <5>1. (s \o <<e>>)[i] = s[i]
            BY <4>1
          <5> QED BY <3>2, <4>1, <5>1
        <4>2. CASE i = Len(s) + 1
          <5>1. (s \o <<e>>)[i] = e
            BY <4>2
          <5> QED BY <3>2, <4>2, <5>1
        <4> QED BY <4>0, <4>1, <4>2
      <3>4. Append(Numbers(s), e.nth) = [i \in 1 .. Len(s) + 1 |-> Append(Numbers(s), e.nth)[i]]
        BY <3>2
      <3> QED BY <3>1, <3>3, <3>4 DEF Numbers
    <2>3. Numbers(<<e>> \o s) = <<e.nth>> \o Numbers(s)
      <3>1. DOMAIN (<<e>> \o s) = 1 .. Len(s) + 1
        OBVIOUS
      <3>2. /\ DOMAIN (<<e.nth>> \o Numbers(s)) = 1 .. Len(s) + 1
            /\ \A i \in 1 .. Len(s) : (<<e.nth>> \o Numbers(s))[i + 1] = s[i].nth
            /\ (<<e.nth>> \o Numbers(s))[1] = e.nth
            /\ <<e.nth>> \o Numbers(s) \in Seq(Nat)
        <4> DEFINE t == Numbers(s)
        <4>1. t \in Seq(Nat) /\ Len(t) = Len(s) /\ \A i \in 1 .. Len(s) : t[i] = s[i].nth
          BY <1>2
        <4> HIDE DEF t
        <4>2. <<e.nth>> \o t \in Seq(Nat) /\ Len(<<e.nth>> \o t) = Len(s) + 1
          BY <1>1, <4>1
        <4>3. \A i \in 1 .. Len(s) : (<<e.nth>> \o t)[i + 1] = t[i]
          BY <1>1, <4>1
        <4>4. (<<e.nth>> \o t)[1] = e.nth
          BY <1>1, <4>1
        <4> QED BY <4>1, <4>2, <4>3, <4>4 DEF t
      <3>3. \A i \in 1 .. Len(s) + 1 : (<<e>> \o s)[i].nth = (<<e.nth>> \o Numbers(s))[i]
        <4> TAKE i \in 1 .. Len(s) + 1
        <4>1. CASE i = 1
          <5>1. (<<e>> \o s)[i] = e
            BY <4>1
          <5> QED BY <3>2, <4>1, <5>1
        <4>2. CASE i # 1
          <5>1. i - 1 \in 1 .. Len(s) /\ (i - 1) + 1 = i
            BY <4>2
          <5>2. (<<e>> \o s)[i] = s[i - 1]
            BY <5>1
          <5>3. (<<e.nth>> \o Numbers(s))[i] = s[i - 1].nth
            <6> HIDE DEF Numbers
            <6> QED BY <3>2, <5>1
          <5> QED BY <5>2, <5>3
        <4> QED BY <4>1, <4>2
      <3>4. <<e.nth>> \o Numbers(s) = [i \in 1 .. Len(s) + 1 |-> (<<e.nth>> \o Numbers(s))[i]]
        BY <3>2
      <3> QED BY <3>1, <3>3, <3>4 DEF Numbers
    <2> HIDE DEF Numbers
    <2> QED BY <1>2, <1>3, <2>1, <2>2, <2>3
  <1>4. CASE e.flow # f
    <2>1. Cat(s, Bit(e, f)) = s /\ Cat(Bit(e, f), s) = s
      BY <1>4 DEF Cat, Bit
    <2> QED BY <1>2, <1>4, <2>1
  <1> QED BY <1>3, <1>4

(* The numbers from m + 1 to n, with the next one, or without the first.   *)
LEMMA UpToIs ==
  ASSUME NEW m \in Nat, NEW n \in Nat, m <= n
  PROVE  /\ UpTo(m, n) \in Seq(Nat)
         /\ Append(UpTo(m, n), n + 1) = UpTo(m, n + 1)
         /\ \A x \in Nat, s \in Seq(Nat) : <<x>> \o s = UpTo(m, n) =>
              x = m + 1 /\ m + 1 <= n /\ s = UpTo(m + 1, n)
  <1>1. UpTo(m, n) \in Seq(Nat) /\ Len(UpTo(m, n)) = n - m
    BY DEF UpTo
  <1>2. Append(UpTo(m, n), n + 1) = UpTo(m, n + 1)
    <2> DEFINE u == UpTo(m, n)
    <2>1. Len(u) = n - m /\ u \in Seq(Nat) /\ \A i \in 1 .. (n - m) : u[i] = m + i
      BY <1>1 DEF UpTo
    <2> HIDE DEF u
    <2>2. /\ Append(u, n + 1) \in Seq(Nat) /\ DOMAIN Append(u, n + 1) = 1 .. (n + 1 - m)
          /\ \A i \in 1 .. (n + 1 - m) : Append(u, n + 1)[i] = m + i
      <3>1. Append(u, n + 1) \in Seq(Nat) /\ Len(Append(u, n + 1)) = n + 1 - m
        BY <2>1
      <3>2. \A i \in 1 .. (n - m) : Append(u, n + 1)[i] = m + i
        BY <2>1
      <3>3. Append(u, n + 1)[n - m + 1] = n + 1
        BY <2>1
      <3>4. DOMAIN Append(u, n + 1) = 1 .. (n + 1 - m)
        BY <3>1
      <3>5. \A i \in 1 .. (n + 1 - m) : i \in 1 .. (n - m) \/ i = n - m + 1
        OBVIOUS
      <3>6. m + (n - m + 1) = n + 1
        OBVIOUS
      <3> DEFINE a == Append(u, n + 1)
      <3> HIDE DEF a
      <3>7. \A i \in 1 .. (n + 1 - m) : a[i] = m + i
        <4>1. /\ \A i \in 1 .. (n - m) : a[i] = m + i
              /\ a[n - m + 1] = m + (n - m + 1)
          BY <3>2, <3>3, <3>6 DEF a
        <4> QED BY <3>5, <4>1
      <3> QED BY <3>1, <3>4, <3>7 DEF a
    <2>3. Append(u, n + 1) = [i \in 1 .. (n + 1 - m) |-> m + i]
      BY <2>2
    <2> QED BY <2>3 DEF u, UpTo
  <1>3. ASSUME NEW x \in Nat, NEW s \in Seq(Nat), <<x>> \o s = UpTo(m, n)
        PROVE  x = m + 1 /\ m + 1 <= n /\ s = UpTo(m + 1, n)
    <2> DEFINE t == <<x>> \o s
    <2>1. t \in Seq(Nat) /\ Len(t) = Len(s) + 1 /\ t[1] = x /\ \A i \in 1 .. Len(s) : t[i + 1] = s[i]
      OBVIOUS
    <2>2. Len(t) = n - m /\ \A i \in 1 .. (n - m) : t[i] = m + i
      BY <1>1, <1>3 DEF UpTo
    <2> HIDE DEF t
    <2>3. Len(s) = n - (m + 1) /\ m + 1 <= n /\ x = m + 1
      BY <2>1, <2>2
    <2>4. \A i \in 1 .. Len(s) : s[i] = m + 1 + i
      BY <2>1, <2>2, <2>3
    <2>5. s = [i \in 1 .. (n - (m + 1)) |-> m + 1 + i]
      BY <2>3, <2>4
    <2> QED BY <2>3, <2>5 DEF UpTo
  <1> QED BY <1>1, <1>2, <1>3

(* The packets of a flow on their way are those that have been sent and    *)
(* not yet read, in the order they were sent.                              *)
Numbered == \A f \in Flows : received[f] <= sent[f] /\ Numbers(Line(f)) = UpTo(received[f], sent[f])
OrderInv == QueueInv /\ CountTypes /\ Numbered

(* At first no packet is on its way. *)
LEMMA InitOrder == Init => OrderInv
  <1> SUFFICES ASSUME Init PROVE OrderInv
    OBVIOUS
  <1>1. /\ outQueue = [h \in Ports |-> [v \in VNs |-> <<>>]] /\ inQueue = [h \in Ports |-> [v \in VNs |-> <<>>]]
        /\ inBuf = [p \in Ports |-> [c \in VCs |-> <<>>]] /\ outBuf = [p \in Ports |-> [c \in VCs |-> <<>>]]
        /\ up = [p \in Ports |-> <<>>] /\ down = [p \in Ports |-> <<>>]
        /\ currOut = [h \in Ports |-> 0] /\ arbVc = [p \in Ports |-> NumVNs * VcsPerVn - 1]
        /\ rrPort = 0 /\ rrVc = [p \in Ports |-> 0] /\ notify = FALSE
        /\ inBusy = [p \in Ports |-> 0] /\ outBusy = [p \in Ports |-> 0]
        /\ sent = [f \in Flows |-> 0] /\ received = [f \in Flows |-> 0]
    BY DEF Init, HostInit, PortInit, LinkInit
  <1>2. /\ 0 \in Ports /\ 0 \in VNs /\ 0 \in VCs /\ NumVNs * VcsPerVn - 1 \in VCs
        /\ 0 \in 0 .. MaxFlits
    <2>1. NumPorts \in Nat \ {0} /\ NumVNs \in Nat \ {0} /\ MaxFlits \in Nat \ {0}
      BY MerlinAssumption
    <2>2. 0 \in VCs /\ NumVNs * VcsPerVn - 1 \in VCs
      <3> DEFINE N == NumVNs * VcsPerVn
      <3>1. N \in Nat \ {0} /\ VCs = 0 .. N - 1
        BY Sizes
      <3> HIDE DEF N
      <3>2. 0 \in VCs /\ N - 1 \in VCs
        BY <3>1
      <3> QED BY <3>2 DEF N
    <2> QED BY <2>1, <2>2 DEF Ports, VNs
  <1>3. <<>> \in Seq(Packets) /\ \A S : <<>> \in Seq(S)
    OBVIOUS
  <1>4. QueueTypes
    BY <1>1, <1>3 DEF QueueTypes
  <1>5. TurnTypes
    BY <1>1, <1>2 DEF TurnTypes
  <1>6. Routed
    BY <1>1, <1>3 DEF Routed
  <1>7. CountTypes
    BY <1>1 DEF CountTypes
  <1>8. Numbered
    <2> SUFFICES ASSUME NEW f \in Flows
                 PROVE  received[f] <= sent[f] /\ Numbers(Line(f)) = UpTo(received[f], sent[f])
      BY DEF Numbered
    <2>1. f.src \in Ports /\ f.dest \in Ports /\ f.vn \in VNs /\ EntryVC(f.vn) \in VCs
      BY FlowIs
    <2>2. Only(<<>>, f) = <<>>
      BY OnlyOf
    <2>3. Line(f) = <<>>
      <3>1. /\ inQueue[f.dest][f.vn] = <<>> /\ down[f.dest] = <<>>
            /\ outBuf[f.dest][EntryVC(f.vn)] = <<>> /\ inBuf[f.src][EntryVC(f.vn)] = <<>>
            /\ up[f.src] = <<>> /\ outQueue[f.src][f.vn] = <<>>
        BY <1>1, <2>1
      <3>2. Line(f) = WayOf(<<>>, <<>>, <<>>, <<>>, <<>>, <<>>, f)
        BY <3>1 DEF Line
      <3>3. Cat(<<>>, <<>>) = <<>>
        BY DEF Cat
      <3> QED BY <2>2, <3>2, <3>3 DEF WayOf, Stretch
    <2>4. sent[f] = 0 /\ received[f] = 0
      BY <1>1
    <2> QED BY <2>3, <2>4 DEF Numbers, UpTo
  <1> QED BY <1>4, <1>5, <1>6, <1>7, <1>8 DEF OrderInv, QueueInv

(* What the promise is about are the numbers of the packets on their way. *)
LEMMA WayNumbers ==
  ASSUME NEW f \in Flows PROVE OnTheWay(f) = Numbers(Line(f))
  BY DEF OnTheWay, Numbers, Line, WayOf, Stretch, Cat

(* A step keeps the numbers, and is one that the promise allows. *)
LEMMA StepOrder ==
  ASSUME OrderInv, [Next]_vars
  PROVE  /\ OrderInv'
         /\ [Abstract!Next]_<<[f \in Flows |-> OnTheWay(f)], sent, received>>
  <1> DEFINE channel == [f \in Flows |-> OnTheWay(f)]
  <1>0. QueueInv /\ CountTypes /\ Numbered /\ QueueTypes
    BY DEF OrderInv, QueueInv
  <1>1. QueueInv' /\ CountTypes' /\ (FlowsStay \/ FlowSends \/ FlowReads)
    BY <1>0, NextMoves
  <1>2. /\ \A f \in Flows : channel[f] = Numbers(Line(f)) /\ channel'[f] = Numbers(Line(f)')
        /\ DOMAIN channel = Flows /\ DOMAIN channel' = Flows
        /\ channel = [f \in Flows |-> channel[f]] /\ channel' = [f \in Flows |-> channel'[f]]
    <2>1. \A f \in Flows : OnTheWay(f) = Numbers(Line(f))
      BY WayNumbers
    <2>2. \A f \in Flows : OnTheWay(f)' = Numbers(Line(f)')
      BY DEF OnTheWay, Numbers, Line, WayOf, Stretch, Cat
    <2> QED BY <2>1, <2>2
  <1>3. \A f \in Flows : /\ received[f] \in Nat /\ sent[f] \in Nat /\ received[f] <= sent[f]
                         /\ Numbers(Line(f)) = UpTo(received[f], sent[f])
                         /\ Line(f) \in Seq(Packets)
    BY <1>0, LineRules DEF CountTypes, Numbered
  <1> HIDE DEF channel
  <1>4. CASE FlowsStay
    <2>1. /\ UNCHANGED <<sent, received>> /\ \A f \in Flows : Line(f)' = Line(f)
      BY <1>4 DEF FlowsStay
    <2>2. Numbered'
      BY <1>0, <2>1 DEF Numbered
    <2>3. channel' = channel
      BY <1>2, <2>1
    <2> QED BY <1>0, <1>1, <2>1, <2>2, <2>3 DEF OrderInv, channel
  <1>5. CASE FlowSends
    <2>1. PICK e \in Packets :
            /\ e.nth = sent'[e.flow] /\ sent' = [sent EXCEPT ![e.flow] = @ + 1] /\ UNCHANGED received
            /\ \A f \in Flows : Line(f)' = Cat(Line(f), Bit(e, f))
      BY <1>5 DEF FlowSends
    <2> DEFINE g == e.flow
    <2>2. g \in Flows /\ e.flow = g
      BY PacketIs
    <2> HIDE DEF g
    <2>3. /\ e.nth = sent[g] + 1 /\ sent'[g] = sent[g] + 1
          /\ \A f \in Flows : f # g => sent'[f] = sent[f]
      BY <1>0, <2>1, <2>2 DEF CountTypes
    <2>4. \A f \in Flows : Numbers(Line(f)') =
            IF f = g THEN Append(Numbers(Line(f)), sent'[g]) ELSE Numbers(Line(f))
      <3> TAKE f \in Flows
      <3>1. Line(f) \in Seq(Packets) /\ e \in Packets
        BY <1>3, <2>1
      <3>2. Numbers(Cat(Line(f), Bit(e, f))) =
              IF e.flow = f THEN Append(Numbers(Line(f)), e.nth) ELSE Numbers(Line(f))
        BY <3>1, NumbersOf
      <3>3. Numbers(Line(f)') = Numbers(Cat(Line(f), Bit(e, f)))
        BY <2>1
      <3> QED BY <2>2, <2>3, <3>2, <3>3
    <2>5. Numbered'
      <3> SUFFICES ASSUME NEW f \in Flows
                   PROVE  received'[f] <= sent'[f] /\ Numbers(Line(f)') = UpTo(received'[f], sent'[f])
        BY DEF Numbered
      <3>1. CASE f = g
        <4>1. Numbers(Line(g)') = Append(UpTo(received[g], sent[g]), sent[g] + 1)
          BY <1>3, <2>2, <2>3, <2>4
        <4>2. Append(UpTo(received[g], sent[g]), sent[g] + 1) = UpTo(received[g], sent[g] + 1)
          BY <1>3, <2>2, UpToIs
        <4> QED BY <1>3, <2>1, <2>2, <2>3, <3>1, <4>1, <4>2
      <3>2. CASE f # g
        BY <1>3, <2>1, <2>3, <2>4, <3>2
      <3> QED BY <3>1, <3>2
    <2>6. channel' = [channel EXCEPT ![g] = Append(@, sent'[g])]
      <3>1. \A f \in Flows : channel'[f] = IF f = g THEN Append(channel[g], sent'[g]) ELSE channel[f]
        BY <1>2, <2>4
      <3> QED BY <1>2, <2>2, <3>1
    <2>7. Abstract!Next
      BY <2>1, <2>2, <2>6 DEF Abstract!Next, Abstract!Send, channel
    <2> QED BY <1>1, <2>5, <2>7 DEF OrderInv
  <1>6. CASE FlowReads
    <2>1. PICK e \in Packets :
            /\ received' = [received EXCEPT ![e.flow] = @ + 1] /\ UNCHANGED sent
            /\ \A f \in Flows : Line(f) = Cat(Bit(e, f), Line(f)')
      BY <1>6 DEF FlowReads
    <2> DEFINE g == e.flow
    <2>2. g \in Flows /\ e.flow = g /\ e.nth \in Nat
      BY PacketIs
    <2> HIDE DEF g
    <2>3. received'[g] = received[g] + 1 /\ \A f \in Flows : f # g => received'[f] = received[f]
      BY <1>0, <2>1, <2>2 DEF CountTypes
    <2>4. \A f \in Flows : Line(f)' \in Seq(Packets)
      <3> TAKE f \in Flows
      <3>1. f.src \in Ports /\ f.dest \in Ports /\ f.vn \in VNs /\ EntryVC(f.vn) \in VCs
        BY FlowIs
      <3>2. Places(inQueue'[f.dest][f.vn], down'[f.dest], outBuf'[f.dest][EntryVC(f.vn)],
                   inBuf'[f.src][EntryVC(f.vn)], up'[f.src], outQueue'[f.src][f.vn])
        BY <1>1, <3>1 DEF QueueInv, QueueTypes, Places
      <3>3. Line(f)' = WayOf(inQueue'[f.dest][f.vn], down'[f.dest],
                             outBuf'[f.dest][EntryVC(f.vn)], inBuf'[f.src][EntryVC(f.vn)],
                             up'[f.src], outQueue'[f.src][f.vn], f)
        BY DEF Line
      <3> QED BY <3>2, <3>3, Shifts DEF WayRules
    <2>5. \A f \in Flows : Numbers(Line(f)) =
            IF f = g THEN <<e.nth>> \o Numbers(Line(f)') ELSE Numbers(Line(f)')
      BY <2>1, <2>2, <2>4, NumbersOf
    <2>6. /\ Numbers(Line(g)') \in Seq(Nat) /\ e.nth = received[g] + 1 /\ received[g] + 1 <= sent[g]
          /\ Numbers(Line(g)') = UpTo(received[g] + 1, sent[g])
      <3>1. Numbers(Line(g)') \in Seq(Nat)
        BY <2>2, <2>4, NumbersOf
      <3>2. <<e.nth>> \o Numbers(Line(g)') = UpTo(received[g], sent[g])
        BY <1>3, <2>2, <2>5
      <3>3. received[g] \in Nat /\ sent[g] \in Nat /\ received[g] <= sent[g]
        BY <1>3, <2>2
      <3> DEFINE m == received[g]  n == sent[g]  x == e.nth  s == Numbers(Line(g)')
      <3>4. m \in Nat /\ n \in Nat /\ m <= n /\ x \in Nat /\ s \in Seq(Nat) /\ <<x>> \o s = UpTo(m, n)
        BY <2>2, <3>1, <3>2, <3>3
      <3> HIDE DEF m, n, x, s
      <3>5. \A y \in Nat, t \in Seq(Nat) : <<y>> \o t = UpTo(m, n) =>
              y = m + 1 /\ m + 1 <= n /\ t = UpTo(m + 1, n)
        <4>1. m \in Nat /\ n \in Nat /\ m <= n
          BY <3>4
        <4> QED BY <4>1, UpToIs
      <3>6. x = m + 1 /\ m + 1 <= n /\ s = UpTo(m + 1, n)
        <4>1. x \in Nat /\ s \in Seq(Nat) /\ <<x>> \o s = UpTo(m, n)
          BY <3>4
        <4> QED BY <3>5, <4>1, Zenon
      <3> QED BY <3>4, <3>6 DEF m, n, x, s
    <2>7. Numbered'
      <3> SUFFICES ASSUME NEW f \in Flows
                   PROVE  received'[f] <= sent'[f] /\ Numbers(Line(f)') = UpTo(received'[f], sent'[f])
        BY DEF Numbered
      <3>1. CASE f = g
        BY <2>1, <2>3, <2>6, <3>1
      <3>2. CASE f # g
        BY <1>3, <2>1, <2>3, <2>5, <3>2
      <3> QED BY <3>1, <3>2
    <2>8. channel[g] = <<received'[g]>> \o channel'[g] /\ channel'[g] \in Seq(Nat)
      BY <1>2, <2>2, <2>3, <2>5, <2>6
    <2>9. channel[g] # <<>> /\ Head(channel[g]) = received'[g] /\ Tail(channel[g]) = channel'[g]
      <3>1. received'[g] \in Nat
        BY <1>3, <2>2, <2>3
      <3>2. \A s \in Seq(Nat), x \in Nat : /\ <<x>> \o s # <<>> /\ Head(<<x>> \o s) = x
                                           /\ Tail(<<x>> \o s) = s
        OBVIOUS
      <3> QED BY <2>8, <3>1, <3>2
    <2>10. channel' = [channel EXCEPT ![g] = Tail(@)]
      <3>1. \A f \in Flows : channel'[f] = IF f = g THEN Tail(channel[g]) ELSE channel[f]
        BY <1>2, <2>5, <2>9
      <3> QED BY <1>2, <2>2, <3>1
    <2>11. Abstract!Next
      BY <2>1, <2>2, <2>9, <2>10 DEF Abstract!Next, Abstract!Receive, channel
    <2> QED BY <1>1, <2>7, <2>11 DEF OrderInv
  <1> QED BY <1>1, <1>4, <1>5, <1>6

(* The packets of every flow are read in the order they were sent, and     *)
(* each once: whatever the router and the links do, the network is a queue *)
(* for each flow.                                                          *)
THEOREM FlowsInOrder == Spec => InOrder
  <1>1. Init => Abstract!Init
    <2> SUFFICES ASSUME Init PROVE Abstract!Init
      OBVIOUS
    <2>1. sent = [f \in Flows |-> 0] /\ received = [f \in Flows |-> 0]
      BY DEF Init, HostInit
    <2>2. ASSUME NEW f \in Flows PROVE OnTheWay(f) = <<>>
      <3>1. Numbers(Line(f)) = UpTo(0, 0)
        BY <2>1, InitOrder DEF OrderInv, Numbered
      <3>2. UpTo(0, 0) = <<>>
        BY DEF UpTo
      <3> QED BY <3>1, <3>2, WayNumbers
    <2> QED BY <2>1, <2>2 DEF Abstract!Init
  <1>2. OrderInv /\ [Next]_vars => OrderInv'
    BY StepOrder
  <1>3. OrderInv /\ [Next]_vars => [Abstract!Next]_<<[f \in Flows |-> OnTheWay(f)], sent, received>>
    BY StepOrder
  <1> QED BY <1>1, <1>2, <1>3, InitOrder, PTL DEF Spec, InOrder, Abstract!Spec

----------------------------------------------------------------------------
(* Credits.                                                                *)

(* What a sender may send over a link, and what others have of it: packets *)
(* on the link, packets in the buffer behind it, credits on their way back.*)
LinkSum(r, s, b, m, v) == r + FlitsOn(s, v) + Flits(b) + Credits(m, v)
BufferSum(r, b) == r + Flits(b)

(* Neither changes where a packet or a credit goes from one to another.    *)
LinkParts(r, s, b, m) ==
  r \in Nat /\ s \in Seq(Packets) /\ b \in Seq(Packets) /\ m \in Seq(CreditMsgs)
LinkRules(r, s, b, m, v) ==
  /\ \A e \in Packets :
       LinkSum(IF e.flow.vn = v THEN r - e.flits ELSE r, Append(s, e), b, m, v) = LinkSum(r, s, b, m, v)
  /\ s # <<>> =>
       LinkSum(r, Tail(s), IF Head(s).flow.vn = v THEN Append(b, Head(s)) ELSE b, m, v)
         = LinkSum(r, s, b, m, v)
  /\ b # <<>> =>
       LinkSum(r, s, Tail(b), Append(m, [vc |-> v, flits |-> Head(b).flits]), v) = LinkSum(r, s, b, m, v)
  /\ \A x \in CreditMsgs : x.vc # v => LinkSum(r, s, b, Append(m, x), v) = LinkSum(r, s, b, m, v)
  /\ m # <<>> =>
       LinkSum(IF Head(m).vc = v THEN r + Head(m).flits ELSE r, s, b, Tail(m), v) = LinkSum(r, s, b, m, v)

(* Those are the rules of a link. *)
LEMMA LinkSums ==
  ASSUME NEW r, NEW s, NEW b, NEW m, NEW v, v \in VNs, LinkParts(r, s, b, m)
  PROVE  LinkRules(r, s, b, m, v)
  <1> USE DEF LinkParts
  <1>0. r \in Nat /\ FlitsOn(s, v) \in Nat /\ Flits(b) \in Nat /\ Credits(m, v) \in Nat
    BY FlitsOf, FlitsOnOf, CreditsOf
  <1>1. ASSUME NEW e \in Packets
        PROVE  LinkSum(IF e.flow.vn = v THEN r - e.flits ELSE r, Append(s, e), b, m, v) = LinkSum(r, s, b, m, v)
    <2>1. FlitsOn(Append(s, e), v) = FlitsOn(s, v) + (IF e.flow.vn = v THEN e.flits ELSE 0)
      BY FlitsOnOf
    <2>2. e.flits \in Nat
      BY PacketIs
    <2> QED BY <1>0, <2>1, <2>2 DEF LinkSum
  <1>2. ASSUME s # <<>>
        PROVE  LinkSum(r, Tail(s), IF Head(s).flow.vn = v THEN Append(b, Head(s)) ELSE b, m, v)
                 = LinkSum(r, s, b, m, v)
    <2>1. Head(s) \in Packets /\ Tail(s) \in Seq(Packets)
      BY <1>2, HeadAndTail
    <2>2. Head(s).flits \in Nat /\ FlitsOn(Tail(s), v) \in Nat
      BY <2>1, PacketIs, FlitsOnOf
    <2>3. FlitsOn(s, v) = (IF Head(s).flow.vn = v THEN Head(s).flits ELSE 0) + FlitsOn(Tail(s), v)
      BY <1>2, FlitsOnOf
    <2>4. Flits(Append(b, Head(s))) = Flits(b) + Head(s).flits
      BY <2>1, FlitsOf
    <2> QED BY <1>0, <2>2, <2>3, <2>4 DEF LinkSum
  <1>3. ASSUME b # <<>>
        PROVE  LinkSum(r, s, Tail(b), Append(m, [vc |-> v, flits |-> Head(b).flits]), v)
                 = LinkSum(r, s, b, m, v)
    <2> DEFINE x == [vc |-> v, flits |-> Head(b).flits]
    <2>1. Head(b) \in Packets /\ Tail(b) \in Seq(Packets)
      BY <1>3, HeadAndTail
    <2>2. Head(b).flits \in Nat /\ Flits(Tail(b)) \in Nat
      BY <2>1, PacketIs, FlitsOf
    <2>3. Flits(b) = Head(b).flits + Flits(Tail(b))
      BY <1>3, FlitsOf
    <2>4. x \in CreditMsgs /\ x.vc = v /\ x.flits = Head(b).flits
      BY <2>2 DEF CreditMsgs
    <2> HIDE DEF x
    <2>5. Credits(Append(m, x), v) = Credits(m, v) + Head(b).flits
      <3>1. Credits(Append(m, x), v) = Credits(m, v) + (IF x.vc = v THEN x.flits ELSE 0)
        BY <2>4, CreditsOf
      <3> QED BY <2>4, <3>1
    <2>6. LinkSum(r, s, Tail(b), Append(m, x), v) = LinkSum(r, s, b, m, v)
      BY <1>0, <2>2, <2>3, <2>5 DEF LinkSum
    <2> QED BY <2>6 DEF x
  <1>4. ASSUME NEW x \in CreditMsgs, x.vc # v
        PROVE  LinkSum(r, s, b, Append(m, x), v) = LinkSum(r, s, b, m, v)
    <2>1. Credits(Append(m, x), v) = Credits(m, v) + (IF x.vc = v THEN x.flits ELSE 0)
      BY CreditsOf
    <2> QED BY <1>0, <1>4, <2>1 DEF LinkSum
  <1>5. ASSUME m # <<>>
        PROVE  LinkSum(IF Head(m).vc = v THEN r + Head(m).flits ELSE r, s, b, Tail(m), v)
                 = LinkSum(r, s, b, m, v)
    <2>1. Head(m) \in CreditMsgs /\ Tail(m) \in Seq(CreditMsgs)
      BY <1>5, HeadAndTail
    <2>2. Head(m).flits \in Nat /\ Credits(Tail(m), v) \in Nat
      BY <2>1, CreditsOf DEF CreditMsgs
    <2>3. Credits(m, v) = (IF Head(m).vc = v THEN Head(m).flits ELSE 0) + Credits(Tail(m), v)
      BY <1>5, CreditsOf
    <2>4. CASE Head(m).vc = v
      <3>1. Credits(m, v) = Head(m).flits + Credits(Tail(m), v)
        BY <2>3, <2>4
      <3>2. (r + Head(m).flits) + FlitsOn(s, v) + Flits(b) + Credits(Tail(m), v)
              = r + FlitsOn(s, v) + Flits(b) + Credits(m, v)
        <4>1. \A i, j, k, l, n \in Nat : (i + n) + j + k + l = i + j + k + (n + l)
          OBVIOUS
        <4> QED BY <1>0, <2>2, <3>1, <4>1
      <3> QED BY <2>4, <3>2 DEF LinkSum
    <2>5. CASE Head(m).vc # v
      <3>1. Credits(m, v) = Credits(Tail(m), v)
        BY <2>2, <2>3, <2>5
      <3> QED BY <2>5, <3>1 DEF LinkSum
    <2> QED BY <2>4, <2>5
  <1> QED BY <1>1, <1>2, <1>3, <1>4, <1>5 DEF LinkRules

(* The same for a buffer alone. *)
LEMMA BufferSums ==
  ASSUME NEW r \in Nat, NEW b \in Seq(Packets)
  PROVE  /\ \A e \in Packets : BufferSum(r - e.flits, Append(b, e)) = BufferSum(r, b)
         /\ b # <<>> => BufferSum(r + Head(b).flits, Tail(b)) = BufferSum(r, b)
         /\ BufferSum(r, b) \in Nat /\ r <= BufferSum(r, b)
  <1>0. Flits(b) \in Nat
    BY FlitsOf
  <1>1. ASSUME NEW e \in Packets PROVE BufferSum(r - e.flits, Append(b, e)) = BufferSum(r, b)
    <2>1. Flits(Append(b, e)) = Flits(b) + e.flits /\ e.flits \in Nat
      BY FlitsOf, PacketIs
    <2> QED BY <1>0, <2>1 DEF BufferSum
  <1>2. ASSUME b # <<>> PROVE BufferSum(r + Head(b).flits, Tail(b)) = BufferSum(r, b)
    <2>1. Head(b) \in Packets /\ Tail(b) \in Seq(Packets)
      BY <1>2, HeadAndTail
    <2>2. Head(b).flits \in Nat /\ Flits(Tail(b)) \in Nat
      BY <2>1, PacketIs, FlitsOf
    <2>3. Flits(b) = Head(b).flits + Flits(Tail(b))
      BY <1>2, FlitsOf
    <2> QED BY <1>0, <2>2, <2>3 DEF BufferSum
  <1> QED BY <1>0, <1>1, <1>2 DEF BufferSum

(* Virtual networks enter by different channels. *)
LEMMA EntryOnce ==
  ASSUME NEW v \in VNs, NEW w \in VNs, EntryVC(v) = EntryVC(w)
  PROVE  v = w
  <1>1. VcsPerVn \in Nat \ {0} /\ v \in Nat /\ w \in Nat
    BY MerlinAssumption DEF VNs
  <1>2. ASSUME NEW a \in Nat, NEW b \in Nat, NEW k \in Nat \ {0}, a < b PROVE a * k < b * k
    <2>1. \A x, y, z \in Nat : x <= y => x * z <= y * z
      OBVIOUS
    <2>2. (a + 1) * k <= b * k
      BY <1>2, <2>1
    <2>3. (a + 1) * k = a * k + k
      OBVIOUS
    <2>4. a * k \in Nat /\ b * k \in Nat
      OBVIOUS
    <2> QED BY <2>2, <2>3, <2>4
  <1>3. v < w \/ w < v \/ v = w
    BY <1>1
  <1>4. v * VcsPerVn \in Nat /\ w * VcsPerVn \in Nat /\ v * VcsPerVn = w * VcsPerVn
    BY <1>1 DEF EntryVC
  <1>5. ~(v < w)
    <2>1. v < w => v * VcsPerVn < w * VcsPerVn
      BY <1>1, <1>2
    <2> QED BY <1>4, <2>1
  <1>6. ~(w < v)
    <2>1. w < v => w * VcsPerVn < v * VcsPerVn
      BY <1>1, <1>2
    <2> QED BY <1>4, <2>1
  <1> QED BY <1>3, <1>5, <1>6

(* Whoever fills a buffer has the credits that nobody else has: the        *)
(* endpoint for its output queue and for the input buffers of its port,    *)
(* the crossbar for the output buffers.                                    *)
CreditTypes ==
  /\ room \in [Ports -> [VNs -> Nat]] /\ routerCredits \in [Ports -> [VNs -> Nat]]
  /\ xbarCredits \in [Ports -> [VCs -> Nat]]
  /\ upCredit \in [Ports -> Seq(CreditMsgs)] /\ downCredit \in [Ports -> Seq(CreditMsgs)]
OutBalance ==
  \A p \in Ports, v \in VNs : BufferSum(room[p][v], outQueue[p][v]) = HostOutSize
InBalance ==
  \A p \in Ports, v \in VNs :
    LinkSum(routerCredits[p][v], up[p], inBuf[p][EntryVC(v)], downCredit[p], v) = PortInSize
XbarBalance ==
  \A p \in Ports, c \in VCs : BufferSum(xbarCredits[p][c], outBuf[p][c]) = PortOutSize
HopInv == CreditTypes /\ OutBalance /\ InBalance /\ XbarBalance

(* The rules of the link from an endpoint to its port. *)
LEMMA InRules ==
  ASSUME QueueTypes, CreditTypes, NEW p \in Ports, NEW v \in VNs
  PROVE  LinkRules(routerCredits[p][v], up[p], inBuf[p][EntryVC(v)], downCredit[p], v)
  <1>1. EntryVC(v) \in VCs
    BY EntryIs
  <1>2. LinkParts(routerCredits[p][v], up[p], inBuf[p][EntryVC(v)], downCredit[p])
    BY <1>1 DEF QueueTypes, CreditTypes, LinkParts
  <1> QED BY <1>2, LinkSums

(* Steps that touch none of it. *)
LEMMA HopStays ==
  ASSUME HopInv, upCredit' \in [Ports -> Seq(CreditMsgs)],
         UNCHANGED <<room, outQueue, routerCredits, up, inBuf, downCredit, xbarCredits, outBuf>>
  PROVE  HopInv'
  BY DEF HopInv, CreditTypes, OutBalance, InBalance, XbarBalance

(* A packet takes room in the output queue. *)
LEMMA SendHop ==
  ASSUME QueueInv, CountTypes, HopInv, NEW g \in Flows, Send(g), UNCHANGED <<portVars, xbarVars>>
  PROVE  HopInv'
  <1> DEFINE h == g.src  v == g.vn
  <1>0. QueueTypes /\ CreditTypes /\ OutBalance /\ InBalance /\ XbarBalance
    BY DEF QueueInv, HopInv
  <1>1. PICK n \in 1 .. MaxFlits :
          /\ room[h][v] >= n /\ room' = [room EXCEPT ![h][v] = @ - n]
          /\ outQueue' = [outQueue EXCEPT ![h][v] =
                            Append(@, [flow |-> g, nth |-> sent[g] + 1, flits |-> n])]
          /\ UNCHANGED <<routerCredits, up, inBuf, downCredit, xbarCredits, outBuf, upCredit>>
    BY DEF Send, portVars, linkVars
  <1> DEFINE e == [flow |-> g, nth |-> sent[g] + 1, flits |-> n]
  <1>2. h \in Ports /\ v \in VNs
    BY FlowIs
  <1>3. e \in Packets /\ e.flits = n /\ n \in Nat
    <2>1. sent[g] + 1 \in Nat \ {0} /\ MaxFlits \in Nat
      BY MerlinAssumption DEF CountTypes
    <2> QED BY <2>1 DEF Packets
  <1>4. outQueue' = [outQueue EXCEPT ![h][v] = Append(@, e)]
    BY <1>1
  <1> HIDE DEF h, v, e
  <1>5. /\ room' \in [Ports -> [VNs -> Nat]] /\ room'[h][v] = room[h][v] - e.flits
        /\ \A p \in Ports, w \in VNs : p # h \/ w # v => room'[p][w] = room[p][w]
    <2>1. room[h][v] - n \in Nat
      BY <1>0, <1>1, <1>2, <1>3 DEF CreditTypes
    <2> QED BY <1>0, <1>1, <1>2, <1>3, <2>1 DEF CreditTypes
  <1>6. /\ outQueue'[h][v] = Append(outQueue[h][v], e)
        /\ \A p \in Ports, w \in VNs : p # h \/ w # v => outQueue'[p][w] = outQueue[p][w]
    BY <1>0, <1>2, <1>4 DEF QueueTypes
  <1>7. CreditTypes'
    BY <1>0, <1>1, <1>5 DEF CreditTypes
  <1>8. OutBalance'
    <2>1. room[h][v] \in Nat /\ outQueue[h][v] \in Seq(Packets)
      BY <1>0, <1>2 DEF QueueTypes, CreditTypes
    <2>2. BufferSum(room[h][v] - e.flits, Append(outQueue[h][v], e)) = BufferSum(room[h][v], outQueue[h][v])
      BY <1>3, <2>1, BufferSums
    <2>3. BufferSum(room'[h][v], outQueue'[h][v]) = HostOutSize
      BY <1>0, <1>2, <1>5, <1>6, <2>2 DEF OutBalance
    <2>4. \A p \in Ports, w \in VNs : p # h \/ w # v =>
            BufferSum(room'[p][w], outQueue'[p][w]) = HostOutSize
      BY <1>0, <1>5, <1>6 DEF OutBalance
    <2> QED BY <2>3, <2>4 DEF OutBalance
  <1>9. InBalance' /\ XbarBalance'
    BY <1>0, <1>1 DEF InBalance, XbarBalance
  <1> QED BY <1>7, <1>8, <1>9 DEF HopInv

(* The packet leaves room behind it and takes credits of the port. *)
LEMMA SendNextHop ==
  ASSUME QueueInv, HopInv, NEW h \in Ports, SendNext(h), UNCHANGED <<portVars, xbarVars>>
  PROVE  HopInv'
  <1>0. /\ QueueTypes /\ TurnTypes /\ Routed
        /\ CreditTypes /\ OutBalance /\ InBalance /\ XbarBalance
    BY DEF QueueInv, HopInv
  <1>1. PICK v : /\ v = FirstFrom(currOut[h], NumVNs, Sendable(h)) /\ Sendable(h) # {}
                 /\ outQueue' = [outQueue EXCEPT ![h][v] = Tail(@)]
                 /\ room' = [room EXCEPT ![h][v] = @ + Head(outQueue[h][v]).flits]
                 /\ routerCredits' = [routerCredits EXCEPT ![h][v] = @ - Head(outQueue[h][v]).flits]
                 /\ up' = [up EXCEPT ![h] = Append(@, Head(outQueue[h][v]))]
                 /\ UNCHANGED <<inBuf, downCredit, xbarCredits, outBuf, upCredit>>
    BY DEF SendNext, portVars
  <1>2. v \in Sendable(h)
    <2>1. NumVNs \in Nat \ {0} /\ Sendable(h) \in SUBSET (0 .. NumVNs - 1) /\ currOut[h] \in 0 .. NumVNs - 1
      BY <1>0, MerlinAssumption DEF Sendable, VNs, TurnTypes
    <2> QED BY <1>1, <2>1, FirstFromIs
  <1> DEFINE e == Head(outQueue[h][v])
  <1>3. v \in VNs /\ outQueue[h][v] # <<>> /\ e.flits <= routerCredits[h][v]
    BY <1>2 DEF Sendable
  <1>4. e \in Packets /\ e.flow.vn = v /\ e.flits \in Nat
    <2>1. outQueue[h][v] \in Seq(FromOn(h, v))
      BY <1>0, <1>3 DEF Routed
    <2>2. e \in FromOn(h, v)
      BY <1>3, <2>1, HeadAndTail
    <2> QED BY <2>2, PacketIs DEF FromOn
  <1> HIDE DEF e
  <1>5. /\ room' \in [Ports -> [VNs -> Nat]] /\ room'[h][v] = room[h][v] + e.flits
        /\ \A p \in Ports, w \in VNs : p # h \/ w # v => room'[p][w] = room[p][w]
    <2>1. room' = [room EXCEPT ![h][v] = @ + e.flits]
      BY <1>1 DEF e
    <2>2. room[h][v] + e.flits \in Nat
      BY <1>0, <1>3, <1>4 DEF CreditTypes
    <2> QED BY <1>0, <1>3, <2>1, <2>2 DEF CreditTypes
  <1>6. /\ routerCredits' \in [Ports -> [VNs -> Nat]] /\ routerCredits'[h][v] = routerCredits[h][v] - e.flits
        /\ \A p \in Ports, w \in VNs : p # h \/ w # v => routerCredits'[p][w] = routerCredits[p][w]
    <2>1. routerCredits' = [routerCredits EXCEPT ![h][v] = @ - e.flits]
      BY <1>1 DEF e
    <2>2. routerCredits[h][v] - e.flits \in Nat
      BY <1>0, <1>3, <1>4 DEF CreditTypes
    <2> QED BY <1>0, <1>3, <2>1, <2>2 DEF CreditTypes
  <1>7. /\ outQueue'[h][v] = Tail(outQueue[h][v])
        /\ \A p \in Ports, w \in VNs : p # h \/ w # v => outQueue'[p][w] = outQueue[p][w]
    BY <1>0, <1>1, <1>3 DEF QueueTypes
  <1>8. up'[h] = Append(up[h], e) /\ \A p \in Ports : p # h => up'[p] = up[p]
    BY <1>0, <1>1 DEF QueueTypes, e
  <1>9. CreditTypes'
    BY <1>0, <1>1, <1>5, <1>6 DEF CreditTypes
  <1>10. OutBalance'
    <2>1. room[h][v] \in Nat /\ outQueue[h][v] \in Seq(Packets)
      BY <1>0, <1>3 DEF QueueTypes, CreditTypes
    <2>2. BufferSum(room[h][v] + e.flits, Tail(outQueue[h][v])) = BufferSum(room[h][v], outQueue[h][v])
      BY <1>3, <2>1, BufferSums DEF e
    <2>3. BufferSum(room'[h][v], outQueue'[h][v]) = HostOutSize
      BY <1>0, <1>3, <1>5, <1>7, <2>2 DEF OutBalance
    <2>4. \A p \in Ports, w \in VNs : p # h \/ w # v =>
            BufferSum(room'[p][w], outQueue'[p][w]) = HostOutSize
      BY <1>0, <1>5, <1>7 DEF OutBalance
    <2> QED BY <2>3, <2>4 DEF OutBalance
  <1>11. InBalance'
    <2>1. ASSUME NEW w \in VNs
          PROVE  LinkSum(routerCredits'[h][w], up'[h], inBuf[h][EntryVC(w)], downCredit[h], w) = PortInSize
      <3>1. LinkRules(routerCredits[h][w], up[h], inBuf[h][EntryVC(w)], downCredit[h], w)
        BY <1>0, InRules
      <3>2. LinkSum(IF e.flow.vn = w THEN routerCredits[h][w] - e.flits ELSE routerCredits[h][w],
                    Append(up[h], e), inBuf[h][EntryVC(w)], downCredit[h], w) = PortInSize
        BY <1>0, <1>4, <3>1 DEF LinkRules, InBalance
      <3>3. routerCredits'[h][w] = IF e.flow.vn = w THEN routerCredits[h][w] - e.flits ELSE routerCredits[h][w]
        BY <1>4, <1>6
      <3> QED BY <1>8, <3>2, <3>3
    <2>2. \A p \in Ports, w \in VNs : p # h =>
            LinkSum(routerCredits'[p][w], up'[p], inBuf[p][EntryVC(w)], downCredit[p], w) = PortInSize
      BY <1>0, <1>6, <1>8 DEF InBalance
    <2> QED BY <1>1, <2>1, <2>2 DEF InBalance
  <1>12. XbarBalance'
    BY <1>0, <1>1 DEF XbarBalance
  <1> QED BY <1>9, <1>10, <1>11, <1>12 DEF HopInv

(* A credit arrives at the endpoint. *)
LEMMA CreditHop ==
  ASSUME QueueInv, HopInv, NEW h \in Ports, CreditFromRouter(h), UNCHANGED <<portVars, xbarVars>>
  PROVE  HopInv'
  <1>0. QueueTypes /\ CreditTypes /\ OutBalance /\ InBalance /\ XbarBalance
    BY DEF QueueInv, HopInv
  <1> DEFINE e == Head(downCredit[h])
  <1>1. /\ downCredit[h] # <<>> /\ routerCredits' = [routerCredits EXCEPT ![h][e.vc] = @ + e.flits]
        /\ downCredit' = [downCredit EXCEPT ![h] = Tail(@)]
        /\ UNCHANGED <<room, outQueue, up, inBuf, xbarCredits, outBuf, upCredit>>
    BY DEF CreditFromRouter, portVars
  <1>2. e \in CreditMsgs /\ Tail(downCredit[h]) \in Seq(CreditMsgs) /\ e.vc \in VNs /\ e.flits \in Nat
    <2>1. downCredit[h] \in Seq(CreditMsgs)
      BY <1>0 DEF CreditTypes
    <2>2. e \in CreditMsgs /\ Tail(downCredit[h]) \in Seq(CreditMsgs)
      BY <1>1, <2>1, HeadAndTail
    <2> QED BY <2>2 DEF CreditMsgs
  <1>3. e = Head(downCredit[h])
    OBVIOUS
  <1> HIDE DEF e
  <1>4. /\ routerCredits' \in [Ports -> [VNs -> Nat]]
        /\ routerCredits'[h][e.vc] = routerCredits[h][e.vc] + e.flits
        /\ \A p \in Ports, w \in VNs : p # h \/ w # e.vc => routerCredits'[p][w] = routerCredits[p][w]
    <2>1. routerCredits[h][e.vc] + e.flits \in Nat
      BY <1>0, <1>2 DEF CreditTypes
    <2> QED BY <1>0, <1>1, <1>2, <2>1 DEF CreditTypes
  <1>5. /\ downCredit' \in [Ports -> Seq(CreditMsgs)] /\ downCredit'[h] = Tail(downCredit[h])
        /\ \A p \in Ports : p # h => downCredit'[p] = downCredit[p]
    BY <1>0, <1>1, <1>2 DEF CreditTypes
  <1>6. CreditTypes'
    BY <1>0, <1>1, <1>4, <1>5 DEF CreditTypes
  <1>7. InBalance'
    <2>1. ASSUME NEW w \in VNs
          PROVE  LinkSum(routerCredits'[h][w], up[h], inBuf[h][EntryVC(w)], downCredit'[h], w) = PortInSize
      <3>1. LinkRules(routerCredits[h][w], up[h], inBuf[h][EntryVC(w)], downCredit[h], w)
        BY <1>0, InRules
      <3>2. LinkSum(IF e.vc = w THEN routerCredits[h][w] + e.flits ELSE routerCredits[h][w],
                    up[h], inBuf[h][EntryVC(w)], Tail(downCredit[h]), w) = PortInSize
        BY <1>0, <1>1, <1>3, <3>1 DEF LinkRules, InBalance
      <3>3. routerCredits'[h][w] = IF e.vc = w THEN routerCredits[h][w] + e.flits ELSE routerCredits[h][w]
        BY <1>4
      <3> QED BY <1>5, <3>2, <3>3
    <2>2. \A p \in Ports, w \in VNs : p # h =>
            LinkSum(routerCredits'[p][w], up[p], inBuf[p][EntryVC(w)], downCredit'[p], w) = PortInSize
      BY <1>0, <1>4, <1>5 DEF InBalance
    <2> QED BY <1>1, <2>1, <2>2 DEF InBalance
  <1>8. OutBalance' /\ XbarBalance'
    BY <1>0, <1>1 DEF OutBalance, XbarBalance
  <1> QED BY <1>6, <1>7, <1>8 DEF HopInv

(* A packet goes from the link into the input buffer of its network. *)
LEMMA PacketHop ==
  ASSUME QueueInv, HopInv, NEW p \in Ports, PacketFromHost(p)
  PROVE  HopInv'
  <1>0. QueueTypes /\ CreditTypes /\ OutBalance /\ InBalance /\ XbarBalance
    BY DEF QueueInv, HopInv
  <1> DEFINE e == Head(up[p])  v == e.flow.vn
  <1>1. /\ up[p] # <<>> /\ inBuf' = [inBuf EXCEPT ![p][EntryVC(v)] = Append(@, e)]
        /\ up' = [up EXCEPT ![p] = Tail(@)]
        /\ UNCHANGED <<room, outQueue, routerCredits, downCredit, xbarCredits, outBuf, upCredit>>
    BY DEF PacketFromHost, hostVars
  <1>2. e \in Packets /\ v \in VNs /\ EntryVC(v) \in VCs
    <2>1. up[p] \in Seq(Packets)
      BY <1>0 DEF QueueTypes
    <2>2. e \in Packets
      BY <1>1, <2>1, HeadAndTail
    <2> QED BY <2>2, PacketIs, EntryIs
  <1>3. e = Head(up[p]) /\ e.flow.vn = v
    OBVIOUS
  <1> HIDE DEF e, v
  <1>4. /\ inBuf'[p][EntryVC(v)] = Append(inBuf[p][EntryVC(v)], e)
        /\ \A q \in Ports, c \in VCs : q # p \/ c # EntryVC(v) => inBuf'[q][c] = inBuf[q][c]
    BY <1>0, <1>1, <1>2 DEF QueueTypes
  <1>5. up'[p] = Tail(up[p]) /\ \A q \in Ports : q # p => up'[q] = up[q]
    BY <1>0, <1>1 DEF QueueTypes
  <1>6. InBalance'
    <2>1. ASSUME NEW w \in VNs
          PROVE  LinkSum(routerCredits[p][w], up'[p], inBuf'[p][EntryVC(w)], downCredit[p], w) = PortInSize
      <3>0. EntryVC(w) \in VCs
        BY EntryIs
      <3>1. LinkRules(routerCredits[p][w], up[p], inBuf[p][EntryVC(w)], downCredit[p], w)
        BY <1>0, InRules
      <3>2. LinkSum(routerCredits[p][w], Tail(up[p]),
                    IF v = w THEN Append(inBuf[p][EntryVC(w)], e) ELSE inBuf[p][EntryVC(w)],
                    downCredit[p], w) = PortInSize
        BY <1>0, <1>1, <1>3, <3>1 DEF LinkRules, InBalance
      <3>3. inBuf'[p][EntryVC(w)] =
              IF v = w THEN Append(inBuf[p][EntryVC(w)], e) ELSE inBuf[p][EntryVC(w)]
        <4>1. CASE v = w
          BY <1>4, <4>1
        <4>2. CASE v # w
          <5>1. EntryVC(w) # EntryVC(v)
            BY <1>2, <4>2, EntryOnce
          <5> QED BY <1>4, <3>0, <4>2, <5>1
        <4> QED BY <4>1, <4>2
      <3> QED BY <1>5, <3>2, <3>3
    <2>2. ASSUME NEW q \in Ports, NEW w \in VNs, q # p
          PROVE  LinkSum(routerCredits[q][w], up'[q], inBuf'[q][EntryVC(w)], downCredit[q], w) = PortInSize
      <3>1. EntryVC(w) \in VCs
        BY EntryIs
      <3> QED BY <1>0, <1>4, <1>5, <2>2, <3>1 DEF InBalance
    <2> QED BY <1>1, <2>1, <2>2 DEF InBalance
  <1>7. CreditTypes' /\ OutBalance' /\ XbarBalance'
    BY <1>0, <1>1 DEF CreditTypes, OutBalance, XbarBalance
  <1> QED BY <1>6, <1>7 DEF HopInv

(* A packet leaves its output buffer: which, and with which credits. *)
LEMMA OutputDoes ==
  ASSUME QueueInv, NEW p \in Ports, Output(p)
  PROVE  \E c \in VCs, e \in Packets :
           /\ outBuf[p][c] # <<>> /\ e = Head(outBuf[p][c]) /\ EntryVC(e.flow.vn) = c
           /\ e.flits <= portCredits[p][e.flow.vn]
           /\ outBuf' = [outBuf EXCEPT ![p][c] = Tail(@)]
           /\ xbarCredits' = [xbarCredits EXCEPT ![p][c] = @ + e.flits]
           /\ portCredits' = [portCredits EXCEPT ![p][c] = @ - e.flits]
           /\ down' = [down EXCEPT ![p] = Append(@, e)]
           /\ UNCHANGED <<room, outQueue, routerCredits, up, inBuf, downCredit, upCredit, inQueue>>
  <1>0. QueueTypes /\ TurnTypes /\ Routed
    BY DEF QueueInv
  <1> DEFINE N == NumVNs * VcsPerVn  c == FirstFrom((arbVc[p] + 1) % N, N, Eligible(p))
             e == Head(outBuf[p][c])
  <1>1. /\ Eligible(p) # {}
        /\ outBuf' = [outBuf EXCEPT ![p][c] = Tail(@)]
        /\ xbarCredits' = [xbarCredits EXCEPT ![p][c] = @ + e.flits]
        /\ portCredits' = [portCredits EXCEPT ![p][c] = @ - e.flits]
        /\ down' = [down EXCEPT ![p] = Append(@, e)]
        /\ UNCHANGED <<room, outQueue, routerCredits, up, inBuf, downCredit, upCredit, inQueue>>
    BY DEF Output, hostVars
  <1>2. c \in Eligible(p)
    <2>1. N \in Nat \ {0} /\ VCs = 0 .. N - 1
      BY Sizes
    <2>2. arbVc[p] \in Nat
      BY <1>0, Sizes DEF TurnTypes
    <2> HIDE DEF N
    <2>3. (arbVc[p] + 1) % N \in 0 .. N - 1
      BY <2>1, <2>2
    <2>4. Eligible(p) \in SUBSET (0 .. N - 1)
      BY <2>1 DEF Eligible
    <2> QED BY <1>1, <2>1, <2>3, <2>4, FirstFromIs
  <1>3. c \in VCs /\ outBuf[p][c] # <<>> /\ e.flits <= portCredits[p][e.flow.vn]
    BY <1>2 DEF Eligible
  <1>4. e \in Packets /\ EntryVC(e.flow.vn) = c
    <2>1. outBuf[p][c] \in Seq(ToVC(p, c))
      BY <1>0, <1>3 DEF Routed
    <2>2. e \in ToVC(p, c)
      BY <1>3, <2>1, HeadAndTail
    <2> QED BY <2>2 DEF ToVC
  <1> HIDE DEF c
  <1> QED BY <1>1, <1>3, <1>4

(* The packet gives the crossbar its credits back. *)
LEMMA OutputHop ==
  ASSUME QueueInv, HopInv, NEW p \in Ports, Output(p)
  PROVE  HopInv'
  <1>0. QueueTypes /\ CreditTypes /\ OutBalance /\ InBalance /\ XbarBalance
    BY DEF QueueInv, HopInv
  <1>1. PICK c \in VCs, e \in Packets :
          /\ outBuf[p][c] # <<>> /\ e = Head(outBuf[p][c])
          /\ outBuf' = [outBuf EXCEPT ![p][c] = Tail(@)]
          /\ xbarCredits' = [xbarCredits EXCEPT ![p][c] = @ + e.flits]
          /\ UNCHANGED <<room, outQueue, routerCredits, up, inBuf, downCredit, upCredit>>
    BY OutputDoes
  <1>2. e.flits \in Nat
    BY PacketIs
  <1>3. /\ xbarCredits' \in [Ports -> [VCs -> Nat]] /\ xbarCredits'[p][c] = xbarCredits[p][c] + e.flits
        /\ \A q \in Ports, d \in VCs : q # p \/ d # c => xbarCredits'[q][d] = xbarCredits[q][d]
    <2>1. xbarCredits[p][c] + e.flits \in Nat
      BY <1>0, <1>2 DEF CreditTypes
    <2> QED BY <1>0, <1>1, <2>1 DEF CreditTypes
  <1>4. /\ outBuf'[p][c] = Tail(outBuf[p][c])
        /\ \A q \in Ports, d \in VCs : q # p \/ d # c => outBuf'[q][d] = outBuf[q][d]
    BY <1>0, <1>1 DEF QueueTypes
  <1>5. XbarBalance'
    <2>1. xbarCredits[p][c] \in Nat /\ outBuf[p][c] \in Seq(Packets)
      BY <1>0 DEF QueueTypes, CreditTypes
    <2>2. BufferSum(xbarCredits[p][c] + e.flits, Tail(outBuf[p][c])) = BufferSum(xbarCredits[p][c], outBuf[p][c])
      BY <1>1, <2>1, BufferSums
    <2>3. BufferSum(xbarCredits'[p][c], outBuf'[p][c]) = PortOutSize
      BY <1>0, <1>3, <1>4, <2>2 DEF XbarBalance
    <2>4. \A q \in Ports, d \in VCs : q # p \/ d # c =>
            BufferSum(xbarCredits'[q][d], outBuf'[q][d]) = PortOutSize
      BY <1>0, <1>3, <1>4 DEF XbarBalance
    <2> QED BY <2>3, <2>4 DEF XbarBalance
  <1>6. CreditTypes' /\ OutBalance' /\ InBalance'
    BY <1>0, <1>1, <1>3 DEF CreditTypes, OutBalance, InBalance
  <1> QED BY <1>5, <1>6 DEF HopInv

(* The credits a port returns in a cycle: for the one packet it gives to   *)
(* the crossbar, or none.                                                  *)
LEMMA CreditWhich ==
  ASSUME QueueInv, NEW a \in ArbChosen, Crossbar(a), CreditTypes, NEW p \in Ports
  PROVE  \/ /\ downCredit'[p] = downCredit[p]
            /\ \A c \in VCs : <<p, c>> \notin a.moves /\ inBuf'[p][c] = inBuf[p][c]
         \/ \E v \in VNs :
              LET c == EntryVC(v)
              IN  /\ <<p, c>> \in a.moves /\ inBuf[p][c] # <<>> /\ Head(inBuf[p][c]) \in Packets
                  /\ inBuf'[p][c] = Tail(inBuf[p][c])
                  /\ \A d \in VCs : d # c => inBuf'[p][d] = inBuf[p][d]
                  /\ downCredit'[p] = Append(downCredit[p], [vc |-> v, flits |-> Head(inBuf[p][c]).flits])
  <1>0. QueueTypes /\ Routed /\ downCredit[p] \in Seq(CreditMsgs)
    BY DEF QueueInv, CreditTypes
  <1>1. a \in ArbStates /\ Chosen(a)
    BY DEF ArbChosen
  <1> DEFINE Mine == {n \in a.moves : n[1] = p}  S == {MoveCredit(m) : m \in Mine}
  <1>2. /\ downCredit'[p] = downCredit[p] \o SetToSeq(S)
        /\ \A c \in VCs : inBuf'[p][c] = IF <<p, c>> \in a.moves THEN Tail(inBuf[p][c]) ELSE inBuf[p][c]
    BY DEF Crossbar
  <1>3. CASE Mine = {}
    <2>1. SetToSeq(S) = <<>>
      <3>1. S = {}
        BY <1>3
      <3> QED BY <3>1, SetToSeqSmall
    <2>2. downCredit[p] \o <<>> = downCredit[p]
      BY <1>0
    <2>3. \A c \in VCs : <<p, c>> \notin a.moves
      BY <1>3
    <2> QED BY <1>2, <2>1, <2>2, <2>3
  <1>4. CASE Mine # {}
    <2>1. PICK m \in a.moves : m[1] = p
      BY <1>4
    <2> DEFINE c == m[2]  e == Head(inBuf[p][c])  v == e.flow.vn
    <2>2. m = <<p, c>> /\ c \in VCs
      BY <1>1, <2>1 DEF ArbStates
    <2>3. Mine = {m}
      <3>1. \A n \in Mine : n = m
        BY <1>1, <2>1 DEF Chosen
      <3> QED BY <2>1, <3>1
    <2>4. SetToSeq(S) = <<MoveCredit(m)>>
      <3>1. S = {MoveCredit(m)}
        BY <2>3
      <3> QED BY <3>1, SetToSeqSmall
    <2>5. inBuf[p][c] # <<>>
      BY <1>1, <2>1 DEF Chosen
    <2>6. e \in Packets /\ v \in VNs /\ EntryVC(v) = c
      <3>1. inBuf[p][c] \in Seq(FromVC(p, c))
        BY <1>0, <2>2 DEF Routed
      <3>2. e \in FromVC(p, c)
        BY <2>5, <3>1, HeadAndTail
      <3> QED BY <3>2, PacketIs DEF FromVC
    <2>7. MoveCredit(m) = [vc |-> v, flits |-> e.flits]
      BY <2>1 DEF MoveCredit, HeadOf
    <2>8. downCredit'[p] = Append(downCredit[p], [vc |-> v, flits |-> e.flits])
      <3>1. [vc |-> v, flits |-> e.flits] \in CreditMsgs
        BY <2>6, PacketIs DEF CreditMsgs
      <3>2. downCredit'[p] = downCredit[p] \o <<[vc |-> v, flits |-> e.flits]>>
        BY <1>2, <2>4, <2>7
      <3> DEFINE x == [vc |-> v, flits |-> e.flits]
      <3>3. x \in CreditMsgs /\ downCredit'[p] = downCredit[p] \o <<x>>
        BY <3>1, <3>2
      <3> HIDE DEF x
      <3>4. downCredit'[p] = Append(downCredit[p], x)
        BY <1>0, <3>3, HeadAndTail
      <3> QED BY <3>4 DEF x
    <2>9. \A d \in VCs : d # c => inBuf'[p][d] = inBuf[p][d]
      <3> TAKE d \in VCs
      <3> HAVE d # c
      <3>1. <<p, d>> \notin Mine
        BY <2>2, <2>3
      <3>2. <<p, d>> \notin a.moves
        BY <3>1
      <3> QED BY <1>2, <3>2
    <2>10. inBuf'[p][c] = Tail(inBuf[p][c]) /\ <<p, c>> \in a.moves
      BY <1>2, <2>1, <2>2
    <2> HIDE DEF c, e, v
    <2>11. /\ <<p, EntryVC(v)>> \in a.moves /\ inBuf[p][EntryVC(v)] # <<>>
           /\ Head(inBuf[p][EntryVC(v)]) \in Packets
           /\ inBuf'[p][EntryVC(v)] = Tail(inBuf[p][EntryVC(v)])
           /\ \A d \in VCs : d # EntryVC(v) => inBuf'[p][d] = inBuf[p][d]
           /\ downCredit'[p] = Append(downCredit[p], [vc |-> v, flits |-> Head(inBuf[p][EntryVC(v)]).flits])
      BY <2>5, <2>6, <2>8, <2>9, <2>10 DEF e
    <2> QED BY <2>6, <2>11
  <1> QED BY <1>3, <1>4

(* What comes over the crossbar takes credits of the output buffer, and    *)
(* what leaves an input buffer is replaced by its credits on the link.     *)
LEMMA ClockHop ==
  ASSUME QueueInv, HopInv, ClockHandler
  PROVE  HopInv'
  <1>0. /\ QueueTypes /\ TurnTypes /\ CreditTypes /\ OutBalance /\ InBalance /\ XbarBalance
    BY DEF QueueInv, HopInv
  <1>1. PICK a \in ArbChosen : Crossbar(a)
    BY <1>0, ClockDoes
  <1>2. /\ outBuf' = [p \in Ports |-> [c \in VCs |-> outBuf[p][c] \o Into(p, c, a.moves)]]
        /\ xbarCredits' = [p \in Ports |-> [c \in VCs |-> xbarCredits[p][c] - Flits(Into(p, c, a.moves))]]
        /\ downCredit' = [p \in Ports |->
                            downCredit[p] \o SetToSeq({MoveCredit(m) : m \in {n \in a.moves : n[1] = p}})]
        /\ UNCHANGED <<room, outQueue, routerCredits, up, upCredit>>
    BY <1>1 DEF Crossbar, hostVars
  <1>3. ASSUME NEW p \in Ports, NEW c \in VCs
        PROVE  xbarCredits'[p][c] \in Nat /\ BufferSum(xbarCredits'[p][c], outBuf'[p][c]) = PortOutSize
    <2>1. /\ xbarCredits[p][c] \in Nat /\ outBuf[p][c] \in Seq(Packets)
          /\ BufferSum(xbarCredits[p][c], outBuf[p][c]) = PortOutSize
      BY <1>0 DEF QueueTypes, CreditTypes, XbarBalance
    <2>2. /\ xbarCredits'[p][c] = xbarCredits[p][c] - Flits(Into(p, c, a.moves))
          /\ outBuf'[p][c] = outBuf[p][c] \o Into(p, c, a.moves)
      BY <1>2
    <2>3. CASE Into(p, c, a.moves) = <<>>
      <3>1. Flits(<<>>) = 0 /\ outBuf[p][c] \o <<>> = outBuf[p][c]
        BY <2>1, FlitsOf
      <3> QED BY <2>1, <2>2, <2>3, <3>1
    <2>4. CASE Into(p, c, a.moves) # <<>>
      <3>1. PICK q \in Ports : /\ <<q, c>> \in a.moves /\ NextPort(q, c) = p
                               /\ Into(p, c, a.moves) = <<HeadOf(q, c)>>
        BY <1>0, <2>4, IntoWhich
      <3> DEFINE e == HeadOf(q, c)
      <3>2. inBuf[q][c] # <<>> /\ e.flits <= xbarCredits[p][c]
        <4>1. /\ inBuf[<<q, c>>[1]][<<q, c>>[2]] # <<>>
              /\ xbarCredits[NextOf(<<q, c>>)][<<q, c>>[2]] >= HeadOf(<<q, c>>[1], <<q, c>>[2]).flits
          BY <3>1 DEF ArbChosen, Chosen
        <4>2. NextOf(<<q, c>>) = p /\ <<q, c>>[1] = q /\ <<q, c>>[2] = c
          BY <3>1 DEF NextOf
        <4>3. xbarCredits[p][c] >= HeadOf(q, c).flits
          BY <4>1, <4>2
        <4>4. HeadOf(q, c).flits \in Nat
          <5>1. HeadOf(q, c).flits \in 1 .. MaxFlits /\ MaxFlits \in Nat
            BY <1>0, <4>1, <4>2, HeadIs, MerlinAssumption
          <5> QED BY <5>1
        <4> QED BY <2>1, <4>1, <4>2, <4>3, <4>4
      <3>3. e \in Packets
        BY <1>0, <3>2, HeadIs
      <3>4. e.flits \in Nat
        BY <3>3, PacketIs
      <3> HIDE DEF e
      <3>5. xbarCredits'[p][c] = xbarCredits[p][c] - e.flits
        <4>1. Flits(<<e>>) = e.flits
          BY <3>3, FlitsOf
        <4> QED BY <2>2, <3>1, <4>1 DEF e
      <3>6. outBuf'[p][c] = Append(outBuf[p][c], e)
        <4>1. outBuf'[p][c] = outBuf[p][c] \o <<e>>
          BY <2>2, <3>1 DEF e
        <4> QED BY <2>1, <3>3, <4>1, HeadAndTail
      <3>7. BufferSum(xbarCredits[p][c] - e.flits, Append(outBuf[p][c], e)) = PortOutSize
        BY <2>1, <3>3, BufferSums
      <3>8. xbarCredits[p][c] - e.flits \in Nat
        BY <2>1, <3>2, <3>4 DEF e
      <3> QED BY <3>5, <3>6, <3>7, <3>8
    <2> QED BY <2>3, <2>4
  <1>4. ASSUME NEW p \in Ports, NEW w \in VNs
        PROVE  LinkSum(routerCredits[p][w], up[p], inBuf'[p][EntryVC(w)], downCredit'[p], w) = PortInSize
    <2>0. EntryVC(w) \in VCs
      BY EntryIs
    <2>1. /\ LinkSum(routerCredits[p][w], up[p], inBuf[p][EntryVC(w)], downCredit[p], w) = PortInSize
          /\ LinkRules(routerCredits[p][w], up[p], inBuf[p][EntryVC(w)], downCredit[p], w)
      BY <1>0, InRules DEF InBalance
    <2>2. CASE downCredit'[p] = downCredit[p] /\ \A c \in VCs : inBuf'[p][c] = inBuf[p][c]
      BY <2>0, <2>1, <2>2
    <2>3. CASE \E v \in VNs :
                 LET c == EntryVC(v)
                 IN  /\ <<p, c>> \in a.moves /\ inBuf[p][c] # <<>> /\ Head(inBuf[p][c]) \in Packets
                     /\ inBuf'[p][c] = Tail(inBuf[p][c])
                     /\ \A d \in VCs : d # c => inBuf'[p][d] = inBuf[p][d]
                     /\ downCredit'[p] = Append(downCredit[p], [vc |-> v, flits |-> Head(inBuf[p][c]).flits])
      <3>1. PICK v \in VNs :
              /\ inBuf[p][EntryVC(v)] # <<>> /\ Head(inBuf[p][EntryVC(v)]) \in Packets
              /\ inBuf'[p][EntryVC(v)] = Tail(inBuf[p][EntryVC(v)])
              /\ \A d \in VCs : d # EntryVC(v) => inBuf'[p][d] = inBuf[p][d]
              /\ downCredit'[p] = Append(downCredit[p], [vc |-> v, flits |-> Head(inBuf[p][EntryVC(v)]).flits])
        BY <2>3
      <3>2. CASE v = w
        BY <2>1, <3>1, <3>2 DEF LinkRules
      <3>3. CASE v # w
        <4> DEFINE x == [vc |-> v, flits |-> Head(inBuf[p][EntryVC(v)]).flits]
        <4>1. x \in CreditMsgs /\ x.vc # w
          BY <3>1, <3>3, PacketIs DEF CreditMsgs
        <4>2. EntryVC(w) # EntryVC(v)
          BY <3>3, EntryOnce
        <4>3. inBuf'[p][EntryVC(w)] = inBuf[p][EntryVC(w)]
          BY <2>0, <3>1, <4>2
        <4>4. downCredit'[p] = Append(downCredit[p], x)
          BY <3>1
        <4> HIDE DEF x
        <4> QED BY <2>1, <4>1, <4>3, <4>4 DEF LinkRules
      <3> QED BY <3>2, <3>3
    <2> QED BY <1>0, <1>1, <2>2, <2>3, CreditWhich
  <1>5. CreditTypes'
    <2>1. \A p \in Ports : downCredit'[p] \in Seq(CreditMsgs)
      <3> TAKE p \in Ports
      <3>1. downCredit[p] \in Seq(CreditMsgs)
        BY <1>0 DEF CreditTypes
      <3>2. \/ downCredit'[p] = downCredit[p]
            \/ \E v \in VNs, e \in Packets :
                 downCredit'[p] = Append(downCredit[p], [vc |-> v, flits |-> e.flits])
        BY <1>0, <1>1, CreditWhich
      <3>3. \A v \in VNs, e \in Packets : [vc |-> v, flits |-> e.flits] \in CreditMsgs
        BY PacketIs DEF CreditMsgs
      <3>4. \A x \in CreditMsgs : Append(downCredit[p], x) \in Seq(CreditMsgs)
        BY <3>1
      <3> QED BY <3>1, <3>2, <3>3, <3>4
    <2>2. downCredit' \in [Ports -> Seq(CreditMsgs)]
      BY <1>2, <2>1
    <2>3. xbarCredits' \in [Ports -> [VCs -> Nat]]
      BY <1>2, <1>3
    <2> QED BY <1>0, <1>2, <2>2, <2>3 DEF CreditTypes
  <1>6. OutBalance' /\ InBalance' /\ XbarBalance'
    BY <1>0, <1>2, <1>3, <1>4 DEF OutBalance, InBalance, XbarBalance
  <1> QED BY <1>5, <1>6 DEF HopInv

(* Every step keeps the balance of the first hop. *)
LEMMA NextHop ==
  ASSUME QueueInv, CountTypes, HopInv, [Next]_vars
  PROVE  HopInv'
  <1>0. QueueTypes /\ CreditTypes
    BY DEF QueueInv, HopInv
  <1>1. CASE HostStep /\ UNCHANGED <<portVars, xbarVars>>
    <2>1. CASE \E f \in Flows : Send(f)
      BY <1>1, <2>1, SendHop
    <2>2. CASE \E h \in Ports : SendNext(h)
      BY <1>1, <2>2, SendNextHop
    <2>3. CASE \E h \in Ports : CreditFromRouter(h)
      BY <1>1, <2>3, CreditHop
    <2>4. CASE \E h \in Ports : Idle(h) \/ PacketFromRouter(h)
      <3>1. UNCHANGED <<room, outQueue, routerCredits, up, inBuf, downCredit, xbarCredits, outBuf, upCredit>>
        BY <1>1, <2>4 DEF Idle, PacketFromRouter, portVars, linkVars
      <3> QED BY <1>0, <3>1, HopStays DEF CreditTypes
    <2>5. CASE \E h \in Ports, v \in VNs : Recv(h, v)
      <3>1. PICK h \in Ports, v \in VNs : Recv(h, v)
        BY <2>5
      <3> DEFINE e == Head(inQueue[h][v])  x == [vc |-> v, flits |-> e.flits]
      <3>2. /\ inQueue[h][v] # <<>> /\ upCredit' = [upCredit EXCEPT ![h] = Append(@, x)]
            /\ UNCHANGED <<room, outQueue, routerCredits, up, inBuf, downCredit, xbarCredits, outBuf>>
        BY <1>1, <3>1 DEF Recv, portVars
      <3>3. x \in CreditMsgs
        <4>1. inQueue[h][v] \in Seq(Packets)
          BY <1>0 DEF QueueTypes
        <4>2. e \in Packets
          BY <3>2, <4>1, HeadAndTail
        <4> QED BY <4>2, PacketIs DEF CreditMsgs
      <3> HIDE DEF x
      <3>4. upCredit' \in [Ports -> Seq(CreditMsgs)]
        <4>1. upCredit[h] \in Seq(CreditMsgs) /\ Append(upCredit[h], x) \in Seq(CreditMsgs)
          BY <1>0, <3>3 DEF CreditTypes
        <4> QED BY <1>0, <3>2, <4>1 DEF CreditTypes
      <3> QED BY <3>2, <3>4, HopStays
    <2> QED BY <1>1, <2>1, <2>2, <2>3, <2>4, <2>5 DEF HostStep
  <1>2. ASSUME NEW p \in Ports, CreditFromHost(p) PROVE HopInv'
    <2>1. /\ upCredit[p] # <<>> /\ upCredit' = [upCredit EXCEPT ![p] = Tail(@)]
          /\ UNCHANGED <<room, outQueue, routerCredits, up, inBuf, downCredit, xbarCredits, outBuf>>
      BY <1>2 DEF CreditFromHost, hostVars
    <2>2. upCredit[p] \in Seq(CreditMsgs) /\ Tail(upCredit[p]) \in Seq(CreditMsgs)
      BY <1>0, <2>1 DEF CreditTypes
    <2>3. upCredit' \in [Ports -> Seq(CreditMsgs)]
      BY <1>0, <2>1, <2>2 DEF CreditTypes
    <2> QED BY <2>1, <2>3, HopStays
  <1>3. ASSUME NEW p \in Ports, PortIdle(p) PROVE HopInv'
    <2>1. UNCHANGED <<room, outQueue, routerCredits, up, inBuf, downCredit, xbarCredits, outBuf, upCredit>>
      BY <1>3 DEF PortIdle, hostVars, linkVars
    <2> QED BY <1>0, <2>1, HopStays DEF CreditTypes
  <1>4. CASE PortStep
    BY <1>2, <1>3, <1>4, PacketHop, OutputHop DEF PortStep
  <1>5. CASE ClockHandler
    BY <1>5, ClockHop
  <1>6. CASE ClockOff \/ UNCHANGED vars
    <2>1. UNCHANGED <<room, outQueue, routerCredits, up, inBuf, downCredit, xbarCredits, outBuf, upCredit>>
      BY <1>6 DEF ClockOff, vars, hostVars, portVars, linkVars
    <2> QED BY <1>0, <2>1, HopStays DEF CreditTypes
  <1> QED BY <1>1, <1>4, <1>5, <1>6 DEF Next, RouterStep, Quiet

(* Over the second hop the port takes credits by channel and gets them     *)
(* back by virtual network: they balance where the two are the same.       *)
Matching == \A v \in VNs : EntryVC(v) = v
FarTypes ==
  /\ portCredits \in [Ports -> [VCs -> Nat]]
  /\ \A p \in Ports : \A c \in VCs \ VNs : portCredits[p][c] = 0
FarBalance ==
  \A p \in Ports, v \in VNs :
    LinkSum(portCredits[p][v], down[p], inQueue[p][v], upCredit[p], v) = HostInSize
FarInv == FarTypes /\ FarBalance

(* So it is with one channel for each virtual network, or one network.     *)
LEMMA MatchingIs ==
  ASSUME VcsPerVn = 1 \/ NumVNs = 1 PROVE Matching
  <1> SUFFICES ASSUME NEW v \in VNs PROVE EntryVC(v) = v
    BY DEF Matching
  <1>1. NumVNs \in Nat \ {0} /\ VcsPerVn \in Nat \ {0} /\ v \in Nat /\ v <= NumVNs - 1
    BY MerlinAssumption DEF VNs
  <1>2. CASE VcsPerVn = 1
    BY <1>1, <1>2 DEF EntryVC
  <1>3. CASE NumVNs = 1
    <2>1. v = 0
      BY <1>1, <1>3
    <2> QED BY <1>1, <2>1 DEF EntryVC
  <1> QED BY <1>2, <1>3

(* The rules of the link from a port to its endpoint. *)
LEMMA FarRules ==
  ASSUME Matching, QueueTypes, CreditTypes, FarTypes, NEW p \in Ports, NEW v \in VNs
  PROVE  v \in VCs /\ LinkRules(portCredits[p][v], down[p], inQueue[p][v], upCredit[p], v)
  <1>1. v \in VCs
    BY EntryIs DEF Matching
  <1>2. LinkParts(portCredits[p][v], down[p], inQueue[p][v], upCredit[p])
    BY <1>1 DEF QueueTypes, CreditTypes, FarTypes, LinkParts
  <1> QED BY <1>1, <1>2, LinkSums

(* A packet takes the credits of its channel. *)
LEMMA OutputFar ==
  ASSUME Matching, QueueInv, CreditTypes, FarInv, NEW p \in Ports, Output(p)
  PROVE  FarInv'
  <1>0. QueueTypes /\ FarTypes /\ FarBalance
    BY DEF QueueInv, FarInv
  <1>1. PICK c \in VCs, e \in Packets :
          /\ EntryVC(e.flow.vn) = c /\ e.flits <= portCredits[p][e.flow.vn]
          /\ portCredits' = [portCredits EXCEPT ![p][c] = @ - e.flits]
          /\ down' = [down EXCEPT ![p] = Append(@, e)]
          /\ UNCHANGED <<inQueue, upCredit>>
    BY OutputDoes
  <1>2. e.flits \in Nat /\ e.flow.vn \in VNs
    BY PacketIs
  <1>3. e.flow.vn = c /\ c \in VNs
    BY <1>1, <1>2 DEF Matching
  <1>4. /\ portCredits' \in [Ports -> [VCs -> Nat]] /\ portCredits'[p][c] = portCredits[p][c] - e.flits
        /\ \A q \in Ports, d \in VCs : q # p \/ d # c => portCredits'[q][d] = portCredits[q][d]
    <2>1. portCredits[p][c] - e.flits \in Nat
      BY <1>0, <1>1, <1>2, <1>3 DEF FarTypes
    <2> QED BY <1>0, <1>1, <2>1 DEF FarTypes
  <1>5. down'[p] = Append(down[p], e) /\ \A q \in Ports : q # p => down'[q] = down[q]
    BY <1>0, <1>1 DEF QueueTypes
  <1>6. FarTypes'
    BY <1>0, <1>3, <1>4 DEF FarTypes
  <1>7. FarBalance'
    <2>1. ASSUME NEW w \in VNs
          PROVE  LinkSum(portCredits'[p][w], down'[p], inQueue[p][w], upCredit[p], w) = HostInSize
      <3>1. w \in VCs /\ LinkRules(portCredits[p][w], down[p], inQueue[p][w], upCredit[p], w)
        BY <1>0, FarRules
      <3>2. LinkSum(IF e.flow.vn = w THEN portCredits[p][w] - e.flits ELSE portCredits[p][w],
                    Append(down[p], e), inQueue[p][w], upCredit[p], w) = HostInSize
        BY <1>0, <3>1 DEF LinkRules, FarBalance
      <3>3. portCredits'[p][w] = IF e.flow.vn = w THEN portCredits[p][w] - e.flits ELSE portCredits[p][w]
        BY <1>3, <1>4, <3>1
      <3> QED BY <1>5, <3>2, <3>3
    <2>2. ASSUME NEW q \in Ports, NEW w \in VNs, q # p
          PROVE  LinkSum(portCredits'[q][w], down'[q], inQueue[q][w], upCredit[q], w) = HostInSize
      <3>1. w \in VCs
        BY <1>0, FarRules
      <3> QED BY <1>0, <1>4, <1>5, <2>2, <3>1 DEF FarBalance
    <2> QED BY <1>1, <2>1, <2>2 DEF FarBalance
  <1> QED BY <1>6, <1>7 DEF FarInv

(* A credit arrives at the port. *)
LEMMA CreditFar ==
  ASSUME Matching, QueueTypes, CreditTypes, FarInv, NEW p \in Ports, CreditFromHost(p)
  PROVE  FarInv'
  <1>0. FarTypes /\ FarBalance
    BY DEF FarInv
  <1> DEFINE e == Head(upCredit[p])
  <1>1. /\ upCredit[p] # <<>> /\ portCredits' = [portCredits EXCEPT ![p][e.vc] = @ + e.flits]
        /\ upCredit' = [upCredit EXCEPT ![p] = Tail(@)]
        /\ UNCHANGED <<down, inQueue>>
    BY DEF CreditFromHost, hostVars
  <1>2. e.vc \in VNs /\ e.flits \in Nat
    <2>1. upCredit[p] \in Seq(CreditMsgs)
      BY DEF CreditTypes
    <2>2. e \in CreditMsgs
      BY <1>1, <2>1, HeadAndTail
    <2> QED BY <2>2 DEF CreditMsgs
  <1>3. e = Head(upCredit[p])
    OBVIOUS
  <1> HIDE DEF e
  <1>4. e.vc \in VCs
    BY <1>0, <1>2, FarRules
  <1>5. /\ portCredits' \in [Ports -> [VCs -> Nat]]
        /\ portCredits'[p][e.vc] = portCredits[p][e.vc] + e.flits
        /\ \A q \in Ports, d \in VCs : q # p \/ d # e.vc => portCredits'[q][d] = portCredits[q][d]
    <2>1. portCredits[p][e.vc] + e.flits \in Nat
      BY <1>0, <1>2, <1>4 DEF FarTypes
    <2> QED BY <1>0, <1>1, <1>4, <2>1 DEF FarTypes
  <1>6. upCredit'[p] = Tail(upCredit[p]) /\ \A q \in Ports : q # p => upCredit'[q] = upCredit[q]
    BY <1>1 DEF CreditTypes
  <1>7. FarTypes'
    BY <1>0, <1>2, <1>5 DEF FarTypes
  <1>8. FarBalance'
    <2>1. ASSUME NEW w \in VNs
          PROVE  LinkSum(portCredits'[p][w], down[p], inQueue[p][w], upCredit'[p], w) = HostInSize
      <3>1. w \in VCs /\ LinkRules(portCredits[p][w], down[p], inQueue[p][w], upCredit[p], w)
        BY <1>0, FarRules
      <3>2. LinkSum(IF e.vc = w THEN portCredits[p][w] + e.flits ELSE portCredits[p][w],
                    down[p], inQueue[p][w], Tail(upCredit[p]), w) = HostInSize
        BY <1>0, <1>1, <1>3, <3>1 DEF LinkRules, FarBalance
      <3>3. portCredits'[p][w] = IF e.vc = w THEN portCredits[p][w] + e.flits ELSE portCredits[p][w]
        BY <1>5, <3>1
      <3> QED BY <1>6, <3>2, <3>3
    <2>2. ASSUME NEW q \in Ports, NEW w \in VNs, q # p
          PROVE  LinkSum(portCredits'[q][w], down[q], inQueue[q][w], upCredit'[q], w) = HostInSize
      <3>1. w \in VCs
        BY <1>0, FarRules
      <3> QED BY <1>0, <1>5, <1>6, <2>2, <3>1 DEF FarBalance
    <2> QED BY <1>1, <2>1, <2>2 DEF FarBalance
  <1> QED BY <1>7, <1>8 DEF FarInv

(* A packet goes from the link into the input queue of its network. *)
LEMMA PacketFar ==
  ASSUME Matching, QueueTypes, CreditTypes, FarInv, NEW h \in Ports, PacketFromRouter(h),
         UNCHANGED portVars
  PROVE  FarInv'
  <1>0. FarTypes /\ FarBalance
    BY DEF FarInv
  <1> DEFINE e == Head(down[h])  v == e.flow.vn
  <1>1. /\ down[h] # <<>> /\ inQueue' = [inQueue EXCEPT ![h][v] = Append(@, e)]
        /\ down' = [down EXCEPT ![h] = Tail(@)]
        /\ UNCHANGED <<portCredits, upCredit>>
    BY DEF PacketFromRouter, portVars
  <1>2. e \in Packets /\ v \in VNs
    <2>1. down[h] \in Seq(Packets)
      BY DEF QueueTypes
    <2>2. e \in Packets
      BY <1>1, <2>1, HeadAndTail
    <2> QED BY <2>2, PacketIs
  <1>3. e = Head(down[h]) /\ e.flow.vn = v
    OBVIOUS
  <1> HIDE DEF e, v
  <1>4. /\ inQueue'[h][v] = Append(inQueue[h][v], e)
        /\ \A q \in Ports, w \in VNs : q # h \/ w # v => inQueue'[q][w] = inQueue[q][w]
    BY <1>1, <1>2 DEF QueueTypes
  <1>5. down'[h] = Tail(down[h]) /\ \A q \in Ports : q # h => down'[q] = down[q]
    BY <1>1 DEF QueueTypes
  <1>6. FarBalance'
    <2>1. ASSUME NEW w \in VNs
          PROVE  LinkSum(portCredits[h][w], down'[h], inQueue'[h][w], upCredit[h], w) = HostInSize
      <3>1. LinkRules(portCredits[h][w], down[h], inQueue[h][w], upCredit[h], w)
        BY <1>0, FarRules
      <3>2. LinkSum(portCredits[h][w], Tail(down[h]),
                    IF v = w THEN Append(inQueue[h][w], e) ELSE inQueue[h][w], upCredit[h], w) = HostInSize
        BY <1>0, <1>1, <1>3, <3>1 DEF LinkRules, FarBalance
      <3>3. inQueue'[h][w] = IF v = w THEN Append(inQueue[h][w], e) ELSE inQueue[h][w]
        BY <1>4
      <3> QED BY <1>5, <3>2, <3>3
    <2>2. \A q \in Ports, w \in VNs : q # h =>
            LinkSum(portCredits[q][w], down'[q], inQueue'[q][w], upCredit[q], w) = HostInSize
      BY <1>0, <1>4, <1>5 DEF FarBalance
    <2> QED BY <1>1, <2>1, <2>2 DEF FarBalance
  <1> QED BY <1>0, <1>1, <1>6 DEF FarInv, FarTypes

(* A packet that is read is replaced by its credits. *)
LEMMA RecvFar ==
  ASSUME Matching, QueueTypes, CreditTypes, FarInv, NEW h \in Ports, NEW v \in VNs, Recv(h, v),
         UNCHANGED portVars
  PROVE  FarInv'
  <1>0. FarTypes /\ FarBalance
    BY DEF FarInv
  <1> DEFINE x == [vc |-> v, flits |-> Head(inQueue[h][v]).flits]
  <1>1. /\ inQueue[h][v] # <<>> /\ upCredit' = [upCredit EXCEPT ![h] = Append(@, x)]
        /\ inQueue' = [inQueue EXCEPT ![h][v] = Tail(@)]
        /\ UNCHANGED <<portCredits, down>>
    BY DEF Recv, portVars
  <1>2. x \in CreditMsgs /\ x.vc = v
    <2>1. inQueue[h][v] \in Seq(Packets)
      BY DEF QueueTypes
    <2>2. Head(inQueue[h][v]) \in Packets
      BY <1>1, <2>1, HeadAndTail
    <2> QED BY <2>2, PacketIs DEF CreditMsgs
  <1>3. /\ inQueue'[h][v] = Tail(inQueue[h][v])
        /\ \A q \in Ports, w \in VNs : q # h \/ w # v => inQueue'[q][w] = inQueue[q][w]
    BY <1>1 DEF QueueTypes
  <1>4. upCredit'[h] = Append(upCredit[h], x) /\ \A q \in Ports : q # h => upCredit'[q] = upCredit[q]
    <2> HIDE DEF x
    <2> QED BY <1>1 DEF CreditTypes
  <1>5. FarBalance'
    <2>1. ASSUME NEW w \in VNs
          PROVE  LinkSum(portCredits[h][w], down[h], inQueue'[h][w], upCredit'[h], w) = HostInSize
      <3>1. /\ LinkRules(portCredits[h][w], down[h], inQueue[h][w], upCredit[h], w)
            /\ LinkSum(portCredits[h][w], down[h], inQueue[h][w], upCredit[h], w) = HostInSize
        BY <1>0, FarRules DEF FarBalance
      <3>2. CASE w = v
        <4>1. LinkSum(portCredits[h][v], down[h], Tail(inQueue[h][v]), Append(upCredit[h], x), v) = HostInSize
          BY <1>1, <3>1, <3>2 DEF LinkRules
        <4> HIDE DEF x
        <4> QED BY <1>3, <1>4, <3>2, <4>1
      <3>3. CASE w # v
        <4> HIDE DEF x
        <4>1. LinkSum(portCredits[h][w], down[h], inQueue[h][w], Append(upCredit[h], x), w) = HostInSize
          BY <1>2, <3>1, <3>3 DEF LinkRules
        <4> QED BY <1>3, <1>4, <3>3, <4>1
      <3> QED BY <3>2, <3>3
    <2>2. \A q \in Ports, w \in VNs : q # h =>
            LinkSum(portCredits[q][w], down[q], inQueue'[q][w], upCredit'[q], w) = HostInSize
      BY <1>0, <1>3, <1>4 DEF FarBalance
    <2> QED BY <1>1, <2>1, <2>2 DEF FarBalance
  <1> QED BY <1>0, <1>1, <1>5 DEF FarInv, FarTypes

(* Every step keeps the balance of the second hop. *)
LEMMA NextFar ==
  ASSUME Matching, QueueInv, CreditTypes, FarInv, [Next]_vars
  PROVE  FarInv'
  <1>0. QueueTypes
    BY DEF QueueInv
  <1>1. ASSUME UNCHANGED <<portCredits, down, inQueue, upCredit>> PROVE FarInv'
    BY <1>1 DEF FarInv, FarTypes, FarBalance
  <1>2. CASE HostStep /\ UNCHANGED <<portVars, xbarVars>>
    <2>1. CASE \E h \in Ports : PacketFromRouter(h)
      BY <1>0, <1>2, <2>1, PacketFar
    <2>2. CASE \E h \in Ports, v \in VNs : Recv(h, v)
      BY <1>0, <1>2, <2>2, RecvFar
    <2>3. CASE \/ \E f \in Flows : Send(f)
               \/ \E h \in Ports : SendNext(h) \/ Idle(h) \/ CreditFromRouter(h)
      <3>1. UNCHANGED <<portCredits, down, inQueue, upCredit>>
        BY <1>2, <2>3 DEF Send, SendNext, Idle, CreditFromRouter, portVars, linkVars
      <3> QED BY <1>1, <3>1
    <2> QED BY <1>2, <2>1, <2>2, <2>3 DEF HostStep
  <1>3. CASE PortStep
    <2>1. CASE \E p \in Ports : Output(p)
      BY <2>1, OutputFar
    <2>2. CASE \E p \in Ports : CreditFromHost(p)
      BY <1>0, <2>2, CreditFar
    <2>3. CASE \E p \in Ports : PacketFromHost(p) \/ PortIdle(p)
      <3>1. UNCHANGED <<portCredits, down, inQueue, upCredit>>
        BY <2>3 DEF PacketFromHost, PortIdle, hostVars, linkVars
      <3> QED BY <1>1, <3>1
    <2> QED BY <1>3, <2>1, <2>2, <2>3 DEF PortStep
  <1>4. CASE ClockHandler
    <2>1. PICK a \in ArbChosen : Crossbar(a)
      BY <1>0, <1>4, ClockDoes DEF QueueInv
    <2>2. UNCHANGED <<portCredits, down, inQueue, upCredit>>
      BY <2>1 DEF Crossbar, hostVars
    <2> QED BY <1>1, <2>2
  <1>5. CASE ClockOff \/ UNCHANGED vars
    <2>1. UNCHANGED <<portCredits, down, inQueue, upCredit>>
      BY <1>5 DEF ClockOff, vars, hostVars, portVars, linkVars
    <2> QED BY <1>1, <2>1
  <1> QED BY <1>2, <1>3, <1>4, <1>5 DEF Next, RouterStep, Quiet

(* The timer of an endpoint runs just where it has not stopped. *)
TimerInv ==
  /\ waiting \in [Ports -> BOOLEAN] /\ havePackets \in [Ports -> BOOLEAN] /\ timer \in [Ports -> Nat]
  /\ \A h \in Ports : timer[h] = IF waiting[h] THEN 0 ELSE 1

(* Every step keeps that. *)
LEMMA NextTimer ==
  ASSUME TimerInv, [Next]_vars
  PROVE  TimerInv'
  <1>1. ASSUME UNCHANGED <<waiting, timer, havePackets>> PROVE TimerInv'
    BY <1>1 DEF TimerInv
  <1>2. ASSUME NEW h \in Ports, WakeHost(h), havePackets' = havePackets PROVE TimerInv'
    <2>1. /\ timer' = [timer EXCEPT ![h] = IF waiting[h] THEN @ + 1 ELSE @]
          /\ waiting' = [waiting EXCEPT ![h] = FALSE]
      BY <1>2 DEF WakeHost
    <2>2. waiting' \in [Ports -> BOOLEAN] /\ timer' \in [Ports -> Nat]
      BY <2>1 DEF TimerInv
    <2>3. timer[h] = IF waiting[h] THEN 0 ELSE 1
      BY DEF TimerInv
    <2>4. timer'[h] = 1 /\ waiting'[h] = FALSE
      BY <2>1, <2>3 DEF TimerInv
    <2>5. \A q \in Ports : q # h => timer'[q] = timer[q] /\ waiting'[q] = waiting[q]
      BY <2>1 DEF TimerInv
    <2> QED BY <1>2, <2>2, <2>4, <2>5 DEF TimerInv
  <1>3. ASSUME NEW h \in Ports, Idle(h) PROVE TimerInv'
    <2>1. /\ timer[h] > 0 /\ timer' = [timer EXCEPT ![h] = @ - 1]
          /\ waiting' = [waiting EXCEPT ![h] = TRUE]
          /\ havePackets' = [havePackets EXCEPT ![h] = \E v \in VNs : outQueue[h][v] # <<>>]
      BY <1>3 DEF Idle
    <2>2. timer[h] = 1
      BY <2>1 DEF TimerInv
    <2>3. timer'[h] = 0 /\ waiting'[h] = TRUE
      BY <2>1, <2>2 DEF TimerInv
    <2>4. \A q \in Ports : q # h => timer'[q] = timer[q] /\ waiting'[q] = waiting[q]
      BY <2>1 DEF TimerInv
    <2>5. /\ waiting' \in [Ports -> BOOLEAN] /\ timer' \in [Ports -> Nat]
          /\ havePackets' \in [Ports -> BOOLEAN]
      BY <2>1, <2>2 DEF TimerInv
    <2> QED BY <2>3, <2>4, <2>5 DEF TimerInv
  <1>4. ASSUME NEW h \in Ports, SendNext(h) PROVE TimerInv'
    BY <1>4 DEF SendNext, TimerInv
  <1>5. CASE HostStep /\ UNCHANGED <<portVars, xbarVars>>
    <2>1. ASSUME NEW f \in Flows, Send(f) PROVE TimerInv'
      <3>1. /\ havePackets' = havePackets
            /\ UNCHANGED <<timer, waiting>> \/ WakeHost(f.src)
        BY <2>1 DEF Send
      <3> QED BY <1>1, <1>2, <3>1, FlowIs
    <2>2. ASSUME NEW h \in Ports, CreditFromRouter(h) PROVE TimerInv'
      BY <1>2, <2>2 DEF CreditFromRouter
    <2>3. ASSUME NEW h \in Ports, PacketFromRouter(h) PROVE TimerInv'
      BY <1>1, <2>3 DEF PacketFromRouter
    <2>4. ASSUME NEW h \in Ports, NEW v \in VNs, Recv(h, v) PROVE TimerInv'
      BY <1>1, <2>4 DEF Recv
    <2> QED BY <1>3, <1>4, <1>5, <2>1, <2>2, <2>3, <2>4 DEF HostStep
  <1>6. CASE PortStep
    <2>1. UNCHANGED hostVars
      BY <1>6 DEF PortStep, PacketFromHost, CreditFromHost, Output, PortIdle
    <2> QED BY <1>1, <2>1 DEF hostVars
  <1>7. CASE RouterStep
    <2>1. UNCHANGED hostVars
      BY <1>7, Zenon DEF RouterStep, ClockOff, ClockHandler
    <2> QED BY <1>1, <2>1 DEF hostVars
  <1>8. CASE UNCHANGED vars
    BY <1>1, <1>8 DEF vars, hostVars
  <1> QED BY <1>5, <1>6, <1>7, <1>8 DEF Next, Quiet

(* At first every buffer is empty and every credit with its sender. *)
LEMMA InitCredits == Init => HopInv /\ TimerInv /\ (Matching => FarInv)
  <1> SUFFICES ASSUME Init PROVE HopInv /\ TimerInv /\ (Matching => FarInv)
    OBVIOUS
  <1>1. /\ outQueue = [h \in Ports |-> [v \in VNs |-> <<>>]] /\ inQueue = [h \in Ports |-> [v \in VNs |-> <<>>]]
        /\ inBuf = [p \in Ports |-> [c \in VCs |-> <<>>]] /\ outBuf = [p \in Ports |-> [c \in VCs |-> <<>>]]
        /\ up = [p \in Ports |-> <<>>] /\ down = [p \in Ports |-> <<>>]
        /\ upCredit = [p \in Ports |-> <<>>] /\ downCredit = [p \in Ports |-> <<>>]
        /\ room = [h \in Ports |-> [v \in VNs |-> HostOutSize]]
        /\ routerCredits = [h \in Ports |-> [v \in VNs |-> PortInSize]]
        /\ xbarCredits = [p \in Ports |-> [c \in VCs |-> PortOutSize]]
        /\ portCredits = [p \in Ports |-> [c \in VCs |-> IF c \in VNs THEN HostInSize ELSE 0]]
        /\ waiting = [h \in Ports |-> TRUE] /\ havePackets = [h \in Ports |-> FALSE]
        /\ timer = [h \in Ports |-> 0]
    BY DEF Init, HostInit, PortInit, LinkInit
  <1>2. HostOutSize \in Nat /\ HostInSize \in Nat /\ PortOutSize \in Nat /\ PortInSize \in Nat
    BY MerlinAssumption
  <1>3. <<>> \in Seq(CreditMsgs)
    OBVIOUS
  <1>4. \A n \in Nat : \A v : BufferSum(n, <<>>) = n /\ LinkSum(n, <<>>, <<>>, <<>>, v) = n
    <2> TAKE n \in Nat
    <2> TAKE v
    <2>1. Flits(<<>>) = 0 /\ FlitsOn(<<>>, v) = 0 /\ Credits(<<>>, v) = 0
      BY FlitsOf, FlitsOnOf, CreditsOf
    <2> QED BY <2>1 DEF BufferSum, LinkSum
  <1>5. CreditTypes
    BY <1>1, <1>2, <1>3 DEF CreditTypes
  <1>6. OutBalance /\ XbarBalance
    BY <1>1, <1>2, <1>4 DEF OutBalance, XbarBalance
  <1>7. InBalance
    <2> SUFFICES ASSUME NEW p \in Ports, NEW v \in VNs
                 PROVE  LinkSum(routerCredits[p][v], up[p], inBuf[p][EntryVC(v)], downCredit[p], v) = PortInSize
      BY DEF InBalance
    <2>1. EntryVC(v) \in VCs
      BY EntryIs
    <2>2. /\ routerCredits[p][v] = PortInSize /\ up[p] = <<>> /\ inBuf[p][EntryVC(v)] = <<>>
          /\ downCredit[p] = <<>>
      BY <1>1, <2>1
    <2> QED BY <1>2, <1>4, <2>2
  <1>8. TimerInv
    BY <1>1 DEF TimerInv
  <1>9. ASSUME Matching PROVE FarInv
    <2>1. FarTypes
      BY <1>1, <1>2 DEF FarTypes
    <2>2. FarBalance
      <3> SUFFICES ASSUME NEW p \in Ports, NEW v \in VNs
                   PROVE  LinkSum(portCredits[p][v], down[p], inQueue[p][v], upCredit[p], v) = HostInSize
        BY DEF FarBalance
      <3>1. v \in VCs
        BY <1>9, EntryIs DEF Matching
      <3>2. /\ portCredits[p][v] = HostInSize /\ down[p] = <<>> /\ inQueue[p][v] = <<>>
            /\ upCredit[p] = <<>>
        BY <1>1, <3>1
      <3> QED BY <1>2, <1>4, <3>2
    <2> QED BY <2>1, <2>2 DEF FarInv
  <1> QED BY <1>5, <1>6, <1>7, <1>8, <1>9 DEF HopInv

(* What balances is bounded. *)
LEMMA LinkBound ==
  ASSUME NEW r, NEW s, NEW b, NEW m, NEW v, LinkParts(r, s, b, m)
  PROVE  /\ r \in 0 .. LinkSum(r, s, b, m, v) /\ Flits(b) <= LinkSum(r, s, b, m, v)
         /\ LinkSum(r, s, b, m, v) = r + FlitsOn(s, v) + Flits(b) + Credits(m, v)
  <1>1. r \in Nat /\ FlitsOn(s, v) \in Nat /\ Flits(b) \in Nat /\ Credits(m, v) \in Nat
    BY FlitsOf, FlitsOnOf, CreditsOf DEF LinkParts
  <1> QED BY <1>1 DEF LinkSum

(* Of the four, the three that need no more: the credits of an endpoint    *)
(* for its queue and for its port, and those of the crossbar.              *)
LEMMA HopBounds ==
  ASSUME QueueTypes, HopInv
  PROVE  /\ room \in [Ports -> [VNs -> 0 .. HostOutSize]]
         /\ routerCredits \in [Ports -> [VNs -> 0 .. PortInSize]]
         /\ xbarCredits \in [Ports -> [VCs -> 0 .. PortOutSize]]
         /\ \A p \in Ports, v \in VNs :
              LET c == EntryVC(v)
              IN  /\ room[p][v] + Flits(outQueue[p][v]) = HostOutSize
                  /\ routerCredits[p][v] + FlitsOn(up[p], v) + Flits(inBuf[p][c])
                       + Credits(downCredit[p], v) = PortInSize
                  /\ xbarCredits[p][c] + Flits(outBuf[p][c]) = PortOutSize
  <1>0. CreditTypes /\ OutBalance /\ InBalance /\ XbarBalance
    BY DEF HopInv
  <1>1. HostOutSize \in Nat /\ PortOutSize \in Nat /\ PortInSize \in Nat
    BY MerlinAssumption
  <1>2. ASSUME NEW p \in Ports, NEW v \in VNs
        PROVE  room[p][v] \in 0 .. HostOutSize /\ room[p][v] + Flits(outQueue[p][v]) = HostOutSize
    <2>1. room[p][v] \in Nat /\ outQueue[p][v] \in Seq(Packets)
      BY <1>0 DEF QueueTypes, CreditTypes
    <2>2. BufferSum(room[p][v], outQueue[p][v]) = HostOutSize
      BY <1>0 DEF OutBalance
    <2>3. room[p][v] <= HostOutSize
      BY <2>1, <2>2, BufferSums
    <2> QED BY <1>1, <2>1, <2>2, <2>3 DEF BufferSum
  <1>3. ASSUME NEW p \in Ports, NEW c \in VCs
        PROVE  xbarCredits[p][c] \in 0 .. PortOutSize /\ xbarCredits[p][c] + Flits(outBuf[p][c]) = PortOutSize
    <2>1. xbarCredits[p][c] \in Nat /\ outBuf[p][c] \in Seq(Packets)
      BY <1>0 DEF QueueTypes, CreditTypes
    <2>2. BufferSum(xbarCredits[p][c], outBuf[p][c]) = PortOutSize
      BY <1>0 DEF XbarBalance
    <2>3. xbarCredits[p][c] <= PortOutSize
      BY <2>1, <2>2, BufferSums
    <2> QED BY <1>1, <2>1, <2>2, <2>3 DEF BufferSum
  <1>4. ASSUME NEW p \in Ports, NEW v \in VNs
        PROVE  /\ routerCredits[p][v] \in 0 .. PortInSize
               /\ routerCredits[p][v] + FlitsOn(up[p], v) + Flits(inBuf[p][EntryVC(v)])
                    + Credits(downCredit[p], v) = PortInSize
    <2>1. EntryVC(v) \in VCs
      BY EntryIs
    <2>2. LinkParts(routerCredits[p][v], up[p], inBuf[p][EntryVC(v)], downCredit[p])
      BY <1>0, <2>1 DEF QueueTypes, CreditTypes, LinkParts
    <2>3. LinkSum(routerCredits[p][v], up[p], inBuf[p][EntryVC(v)], downCredit[p], v) = PortInSize
      BY <1>0 DEF InBalance
    <2> QED BY <2>2, <2>3, LinkBound
  <1>5. /\ room \in [Ports -> [VNs -> 0 .. HostOutSize]]
        /\ routerCredits \in [Ports -> [VNs -> 0 .. PortInSize]]
        /\ xbarCredits \in [Ports -> [VCs -> 0 .. PortOutSize]]
    BY <1>0, <1>2, <1>3, <1>4 DEF CreditTypes
  <1> QED BY <1>2, <1>3, <1>4, <1>5, EntryIs

(* And the fourth. *)
LEMMA FarBounds ==
  ASSUME Matching, QueueTypes, CreditTypes, FarInv
  PROVE  /\ portCredits \in [Ports -> [VCs -> 0 .. HostInSize]]
         /\ \A p \in Ports, v \in VNs :
              /\ portCredits[p][v] + FlitsOn(down[p], v) + Flits(inQueue[p][v])
                   + Credits(upCredit[p], v) = HostInSize
              /\ Flits(inQueue[p][v]) <= HostInSize
  <1>0. FarTypes /\ FarBalance /\ HostInSize \in Nat
    BY MerlinAssumption DEF FarInv
  <1>1. ASSUME NEW p \in Ports, NEW v \in VNs
        PROVE  /\ portCredits[p][v] \in 0 .. HostInSize
               /\ portCredits[p][v] + FlitsOn(down[p], v) + Flits(inQueue[p][v])
                    + Credits(upCredit[p], v) = HostInSize
               /\ Flits(inQueue[p][v]) <= HostInSize
    <2>1. v \in VCs
      BY EntryIs DEF Matching
    <2>2. LinkParts(portCredits[p][v], down[p], inQueue[p][v], upCredit[p])
      BY <1>0, <2>1 DEF QueueTypes, CreditTypes, FarTypes, LinkParts
    <2>3. LinkSum(portCredits[p][v], down[p], inQueue[p][v], upCredit[p], v) = HostInSize
      BY <1>0 DEF FarBalance
    <2> QED BY <2>2, <2>3, LinkBound
  <1>2. ASSUME NEW p \in Ports, NEW c \in VCs PROVE portCredits[p][c] \in 0 .. HostInSize
    <2>1. CASE c \in VNs
      BY <1>1, <2>1
    <2>2. CASE c \notin VNs
      BY <1>0, <2>2 DEF FarTypes
    <2> QED BY <2>1, <2>2
  <1>3. portCredits \in [Ports -> [VCs -> 0 .. HostInSize]]
    BY <1>0, <1>2 DEF FarTypes
  <1> QED BY <1>1, <1>3

(* All of it together is what the runs check. *)
LEMMA CreditsFollow ==
  ASSUME Matching, QueueInv, HopInv, FarInv, TimerInv, AwakeInv
  PROVE  CreditInv /\ InputBufferBound
  <1>0. QueueTypes /\ TurnTypes /\ CreditTypes
    BY DEF QueueInv, HopInv
  <1>1. LinkTypeOK
    BY <1>0 DEF LinkTypeOK, QueueTypes, CreditTypes, CreditMsgs
  <1>2. HostTypeOK
    <2>1. timer \in [Ports -> {0, 1}]
      BY DEF TimerInv
    <2> QED BY <1>0, <2>1, HopBounds DEF HostTypeOK, QueueTypes, TurnTypes, TimerInv
  <1>3. PortTypeOK
    <2>1. portTimer \in [Ports -> {0, 1}] /\ portWaiting \in [Ports -> BOOLEAN]
      BY DEF AwakeInv, RouterTypes, RouterAwake
    <2>2. xbarCredits \in [Ports -> [VCs -> 0 .. PortOutSize]]
      BY <1>0, HopBounds
    <2>3. portCredits \in [Ports -> [VCs -> 0 .. HostInSize]]
      BY <1>0, FarBounds
    <2> QED BY <1>0, <2>1, <2>2, <2>3 DEF PortTypeOK, QueueTypes, TurnTypes
  <1>4. CreditsConserved
    BY <1>0, HopBounds, FarBounds DEF CreditsConserved
  <1>5. InputBufferBound
    BY <1>0, FarBounds DEF InputBufferBound
  <1> QED BY <1>1, <1>2, <1>3, <1>4, <1>5 DEF CreditInv, TypeOK

(* With one channel for each virtual network, or one virtual network, no   *)
(* credit of the network is ever lost or made up: whoever fills a buffer   *)
(* has just the credits that nobody on the way out and back has, and so    *)
(* no buffer holds more than it has room for.                              *)
THEOREM CreditsCorrect ==
  ASSUME VcsPerVn = 1 \/ NumVNs = 1
  PROVE  Spec => []CreditInv /\ []InputBufferBound
  <1> DEFINE I == OrderInv /\ HopInv /\ FarInv /\ TimerInv /\ AwakeInv
  <1>0. Matching
    BY MatchingIs
  <1>1. Init => I
    BY <1>0, InitOrder, InitCredits, InitAwake
  <1>2. I /\ [Next]_vars => I'
    <2> SUFFICES ASSUME I, [Next]_vars PROVE I'
      OBVIOUS
    <2>1. QueueInv /\ CountTypes /\ CreditTypes
      BY DEF OrderInv, HopInv
    <2>2. OrderInv' /\ HopInv' /\ TimerInv' /\ AwakeInv'
      BY <2>1, StepOrder, NextHop, NextTimer, AwakeKept
    <2>3. FarInv'
      BY <1>0, <2>1, NextFar
    <2> QED BY <2>2, <2>3
  <1>3. I => CreditInv /\ InputBufferBound
    BY <1>0, CreditsFollow DEF OrderInv
  <1> HIDE DEF I
  <1> QED BY <1>1, <1>2, <1>3, PTL DEF Spec

(* However many channels a network has, the credits of the endpoint for    *)
(* its port, of the endpoint for itself and of the crossbar are all there. *)
THEOREM HopsCorrect == Spec => []HopInv
  <1> DEFINE I == OrderInv /\ HopInv
  <1>1. Init => I
    BY InitOrder, InitCredits
  <1>2. I /\ [Next]_vars => I'
    <2> SUFFICES ASSUME I, [Next]_vars PROVE I'
      OBVIOUS
    <2>1. QueueInv /\ CountTypes
      BY DEF OrderInv
    <2> QED BY <2>1, StepOrder, NextHop
  <1>3. I => HopInv
    OBVIOUS
  <1> HIDE DEF I
  <1> QED BY <1>1, <1>2, <1>3, PTL DEF Spec

(* A packet of virtual network v that waits for credits.                   *)
Blocked(h, v) == outQueue[h][v] # <<>> /\ v \notin Sendable(h)

(* What have_packets says while the timer of an endpoint has stopped: a    *)
(* packet waits for credits, or there is none at all.                      *)
Remembered(h) ==
  waiting[h] => IF havePackets[h] THEN \E v \in VNs : Blocked(h, v)
                ELSE \A v \in VNs : outQueue[h][v] = <<>>
StallInv == \A h \in Ports : Remembered(h)

(* It stays true of an endpoint that a step leaves alone. *)
LEMMA RememberedKept ==
  ASSUME NEW h \in Ports, Remembered(h), waiting'[h] => waiting[h], havePackets'[h] = havePackets[h],
         outQueue'[h] = outQueue[h], routerCredits'[h] = routerCredits[h]
  PROVE  Remembered(h)'
  BY DEF Remembered, Blocked, Sendable

(* A packet that is appended leaves those before it as they are. *)
LEMMA SendStall ==
  ASSUME QueueTypes, TimerInv, StallInv, NEW f \in Flows, Send(f) PROVE StallInv'
  <1> DEFINE h == f.src
  <1>0. h \in Ports /\ f.vn \in VNs
    BY FlowIs
  <1>1. PICK n \in 1 .. MaxFlits :
          outQueue' = [outQueue EXCEPT ![h][f.vn] = Append(@, [flow |-> f, nth |-> sent[f] + 1, flits |-> n])]
    BY DEF Send
  <1> DEFINE e == [flow |-> f, nth |-> sent[f] + 1, flits |-> n]
  <1>2. /\ havePackets' = havePackets /\ routerCredits' = routerCredits
        /\ IF havePackets[h] THEN UNCHANGED <<timer, waiting>> ELSE WakeHost(h)
    BY DEF Send
  <1>3. /\ \A q \in Ports : q # h => outQueue'[q] = outQueue[q] /\ waiting'[q] = waiting[q]
        /\ ~havePackets[h] => ~waiting'[h]
        /\ havePackets[h] => waiting' = waiting
    BY <1>0, <1>1, <1>2 DEF QueueTypes, TimerInv, WakeHost
  <1>4. ASSUME NEW v \in VNs, Blocked(h, v) PROVE Blocked(h, v)'
    <2>1. outQueue[h][v] \in Seq(Packets) /\ outQueue[h][v] # <<>>
      BY <1>0, <1>4 DEF QueueTypes, Blocked
    <2>2. outQueue'[h][v] = outQueue[h][v] \/ outQueue'[h][v] = Append(outQueue[h][v], e)
      BY <1>0, <1>1 DEF QueueTypes
    <2>3. \A x : LET t == Append(outQueue[h][v], x)
                 IN  t # <<>> /\ Head(t) = Head(outQueue[h][v])
      BY <2>1
    <2> HIDE DEF e
    <2>4. outQueue'[h][v] # <<>> /\ Head(outQueue'[h][v]) = Head(outQueue[h][v])
      BY <2>1, <2>2, <2>3
    <2> QED BY <1>2, <1>4, <2>1, <2>4 DEF Blocked, Sendable
  <1>5. Remembered(h)'
    <2>1. Remembered(h)
      BY <1>0 DEF StallInv
    <2> QED BY <1>2, <1>3, <1>4, <2>1 DEF Remembered
  <1>6. ASSUME NEW q \in Ports, q # h PROVE Remembered(q)'
    <2>1. Remembered(q)
      BY DEF StallInv
    <2> QED BY <1>2, <1>3, <1>6, <2>1, RememberedKept
  <1> QED BY <1>5, <1>6 DEF StallInv

(* A step of one endpoint is about that endpoint. *)
LEMMA HostStall ==
  ASSUME StallInv, NEW h \in Ports, Remembered(h)',
         \A q \in Ports \ {h} : /\ waiting'[q] => waiting[q]
                                /\ havePackets'[q] = havePackets[q] /\ outQueue'[q] = outQueue[q]
                                /\ routerCredits'[q] = routerCredits[q]
  PROVE  StallInv'
  <1>1. ASSUME NEW q \in Ports, q # h PROVE Remembered(q)'
    <2>1. Remembered(q)
      BY DEF StallInv
    <2> QED BY <1>1, <2>1, RememberedKept
  <1> QED BY <1>1 DEF StallInv

(* Every step keeps what have_packets says. *)
LEMMA NextStall ==
  ASSUME QueueTypes, CreditTypes, TimerInv, StallInv, [Next]_vars PROVE StallInv'
  <1>1. ASSUME UNCHANGED <<waiting, havePackets, outQueue, routerCredits>> PROVE StallInv'
    BY <1>1 DEF StallInv, Remembered, Blocked, Sendable
  <1>2. ASSUME NEW h \in Ports, SendNext(h) PROVE StallInv'
    <2>1. timer[h] > 0 /\ waiting' = waiting
      BY <1>2 DEF SendNext
    <2>2. ~waiting'[h]
      BY <2>1 DEF TimerInv
    <2>3. \A q \in Ports \ {h} : /\ havePackets'[q] = havePackets[q] /\ outQueue'[q] = outQueue[q]
                                 /\ routerCredits'[q] = routerCredits[q]
      BY <1>2 DEF SendNext, QueueTypes, CreditTypes, TimerInv
    <2>4. Remembered(h)'
      BY <2>2 DEF Remembered
    <2> QED BY <2>1, <2>3, <2>4, HostStall
  <1>3. ASSUME NEW h \in Ports, Idle(h) PROVE StallInv'
    <2>1. /\ Sendable(h) = {} /\ UNCHANGED <<outQueue, routerCredits>>
          /\ waiting' = [waiting EXCEPT ![h] = TRUE]
          /\ havePackets' = [havePackets EXCEPT ![h] = \E v \in VNs : outQueue[h][v] # <<>>]
      BY <1>3 DEF Idle
    <2>2. havePackets'[h] <=> \E v \in VNs : outQueue[h][v] # <<>>
      BY <2>1 DEF TimerInv
    <2>3. Sendable(h)' = {}
      BY <2>1 DEF Sendable
    <2>4. Remembered(h)'
      BY <2>1, <2>2, <2>3 DEF Remembered, Blocked
    <2>5. \A q \in Ports \ {h} : waiting'[q] = waiting[q] /\ havePackets'[q] = havePackets[q]
      BY <2>1 DEF TimerInv
    <2> QED BY <2>1, <2>4, <2>5, HostStall
  <1>4. ASSUME NEW h \in Ports, CreditFromRouter(h) PROVE StallInv'
    <2>1. /\ UNCHANGED <<outQueue, havePackets>> /\ waiting' = [waiting EXCEPT ![h] = FALSE]
          /\ \A q \in Ports \ {h} : routerCredits'[q] = routerCredits[q]
      BY <1>4 DEF CreditFromRouter, WakeHost, CreditTypes
    <2>2. ~waiting'[h] /\ \A q \in Ports \ {h} : waiting'[q] = waiting[q]
      BY <2>1 DEF TimerInv
    <2>3. Remembered(h)'
      BY <2>2 DEF Remembered
    <2> QED BY <2>1, <2>2, <2>3, HostStall
  <1>5. CASE HostStep /\ UNCHANGED <<portVars, xbarVars>>
    <2>1. ASSUME NEW h \in Ports, PacketFromRouter(h) PROVE StallInv'
      BY <1>1, <2>1 DEF PacketFromRouter
    <2>2. ASSUME NEW h \in Ports, NEW v \in VNs, Recv(h, v) PROVE StallInv'
      BY <1>1, <2>2 DEF Recv
    <2> QED BY <1>2, <1>3, <1>4, <1>5, <2>1, <2>2, SendStall DEF HostStep
  <1>6. CASE PortStep
    <2>1. UNCHANGED hostVars
      BY <1>6 DEF PortStep, PacketFromHost, CreditFromHost, Output, PortIdle
    <2> QED BY <1>1, <2>1 DEF hostVars
  <1>7. CASE RouterStep
    <2>1. UNCHANGED hostVars
      BY <1>7, Zenon DEF RouterStep, ClockOff, ClockHandler
    <2> QED BY <1>1, <2>1 DEF hostVars
  <1>8. CASE UNCHANGED vars
    BY <1>1, <1>8 DEF vars, hostVars
  <1> QED BY <1>5, <1>6, <1>7, <1>8 DEF Next, Quiet

(* An endpoint that sleeps on a packet it could send has another one that  *)
(* waits for credits, so that it is woken when they come                   *)
(* (linkControl.cc:454), for any number of endpoints and virtual networks. *)
THEOREM EndpointAwake == Spec => []HostAwake
  <1> DEFINE I == OrderInv /\ HopInv /\ TimerInv /\ StallInv
  <1>1. Init => I
    <2> SUFFICES ASSUME Init PROVE I
      OBVIOUS
    <2>1. outQueue = [h \in Ports |-> [v \in VNs |-> <<>>]] /\ havePackets = [h \in Ports |-> FALSE]
      BY DEF Init, HostInit
    <2>2. StallInv
      BY <2>1 DEF StallInv, Remembered
    <2> QED BY <2>2, InitOrder, InitCredits
  <1>2. I /\ [Next]_vars => I'
    <2> SUFFICES ASSUME I, [Next]_vars PROVE I'
      OBVIOUS
    <2>1. QueueInv /\ CountTypes /\ QueueTypes /\ CreditTypes
      BY DEF OrderInv, QueueInv, HopInv
    <2>2. OrderInv' /\ HopInv' /\ TimerInv'
      BY <2>1, StepOrder, NextHop, NextTimer
    <2> QED BY <2>1, <2>2, NextStall
  <1>3. I => HostAwake
    <2> SUFFICES ASSUME I, NEW h \in Ports, waiting[h], Sendable(h) # {}
                 PROVE  \E v \in VNs : outQueue[h][v] # <<>> /\ v \notin Sendable(h)
      BY DEF HostAwake
    <2>1. \E v \in VNs : outQueue[h][v] # <<>>
      BY DEF Sendable
    <2>2. Remembered(h)
      BY DEF StallInv
    <2> QED BY <2>1, <2>2 DEF Remembered, Blocked
  <1> HIDE DEF I
  <1> QED BY <1>1, <1>2, <1>3, PTL DEF Spec
==============================================================================
