----------------------------- MODULE OrderProofs -----------------------------
(***************************************************************************)
(* For any number of ranks, threads and components and any latencies, if   *)
(* there is room in simulated time for what the components may send and    *)
(* nobody who has nothing to do holds the simulation open:                 *)
(*                                                                         *)
(* The run phase is a discrete-event simulation (EventOrder.tla).          *)
(* Simulated time suffices, an event is at one place at a time, and clocks *)
(* do not go back once nothing is pending: then everybody has said OK, and *)
(* the next sync that looks ends the run.                                  *)
(*                                                                         *)
(* The threads whose links hold them together end together, either at the  *)
(* cycle of --stop-at or when all their components have said OK, and then  *)
(* with the cycle of the last OK.  The heart of it is that a sync decides  *)
(* for all of them at once, and that nobody runs components between the    *)
(* decision and the end.                                                   *)
(***************************************************************************)
EXTENDS SyncProofs

(* Simulated time suffices, and an event is at one place at a time.        *)

(* The slots a component's events have taken of those it may send. *)
Slots == {m \in Comps \X (1 .. MaxSends) : m[2] <= sent[m[1]]}

(* The places where events are. *)
Vortex(x) == <<"vortex", x>>
ThreadQueue(x) == <<"thread", x>>
RankQueue(r) == <<"rank", r>>
Wire(r, x) == <<"net", r, x>>
Places ==
  {Vortex(x) : x \in RankInfo} \cup {ThreadQueue(x) : x \in RankInfo}
  \cup {RankQueue(r) : r \in Ranks} \cup {Wire(r, x) : r \in Ranks, x \in RankInfo}

Contents(s) == UNION {s[i] : i \in DOMAIN s}
OnWire(r, x) == Contents(net[r, x])
Held(p) ==
  CASE p[1] = "vortex" -> EventsOf(p[2])
    [] p[1] = "thread" -> tq[p[2]]
    [] p[1] = "rank" -> rq[p[2]]
    [] p[1] = "net" -> OnWire(p[2], p[3])

(* No event is later than the number of events sent allows. *)
Within(b) == \A p \in Places : \A e \in Held(p) : e.time <= b
Spread ==
  \E first, step \in SimTime :
    Fits(config, first, step) /\ Within(first + step * Cardinality(Slots))

RoomInv == Nothing \/ (Lookahead /\ Spread)

(* An event is at one place, on its way to another rank if in its queue,   *)
(* and its sender has counted it. *)
Away == \A r \in Ranks : \A e \in rq[r] : Home[e.comp][1] # r
Apart == \A p, q \in Places : p # q => Held(p) \cap Held(q) = {}
Counted == \A p \in Places : \A e \in Held(p) : e.seq <= sent[e.src]

(* A component that holds the simulation open has an event to come. *)
HeldOpen ==
  \A c \in Comps : c \in idSet[Home[c][1]] =>
    \E e \in EventsOf(Home[c]) : e.comp = c /\ e.src = c

(* Has thread x, in a sync, found out when the next one is, and that it    *)
(* goes on till then?                                                      *)
Going(x) ==
  \/ pc[x] \in {"run", "next", "R5"}
  \/ pc[x] = "T2" /\ MinPart # MaxTime
  \/ pc[x] = "R4" /\ pc[Master(x[1])] = "R4" /\ ~Over(x)
  \/ pc[x] = "end" /\ ~Over(x)

(* No clock has gone past a stop, or the next sync, that is to come. *)
StopsAhead(x) == \A a \in tv[x] : a.kind = "stop" => now[x] <= a.time
SyncAhead(x) ==
  /\ now[x] <= NextSync(x)
  /\ Direct /\ ThreadLat(x[1]) # MaxTime => now[x] < threadNext[x]

(* What that takes of the times and types of the syncs. *)
DirectNext(x) ==
  Direct /\ ThreadLat(x[1]) # MaxTime /\ Post(x) => threadNext[x] = Plus(now[x], ThreadLat(x[1]))
NextFits(x) ==
  RankLat # MaxTime /\ ThreadLat(x[1]) # MaxTime => rankNext[x[1]] + ThreadLat(x[1]) <= MaxTime
ThreadsOnly(x) ==
  Direct /\ ThreadLat(x[1]) # MaxTime /\ RankLat = MaxTime => syncType[x] = "THREAD"

Forward(x) ==
  /\ StopsAhead(x) /\ DirectNext(x)
  /\ ~endSim[x] => /\ Going(x) => SyncAhead(x)
                   /\ Going(x) \/ Fresh(x) => NextFits(x)
                   /\ ThreadsOnly(x)

PlaceInv == RoomInv /\ Away /\ Apart /\ Counted
ForwardInv == HeldOpen /\ \A x \in RankInfo : Forward(x)

----------------------------------------------------------------------------
(* Places.                                                                 *)

(* What is held where. *)
Parts ==
  /\ \A x \in RankInfo : Held(Vortex(x)) = EventsOf(x) /\ Held(ThreadQueue(x)) = tq[x]
  /\ \A r \in Ranks : Held(RankQueue(r)) = rq[r]
  /\ \A r \in Ranks, x \in RankInfo : Held(Wire(r, x)) = OnWire(r, x)

LEMMA HeldParts == Parts
  BY DEF Parts, Held, Vortex, ThreadQueue, RankQueue, Wire

LEMMA HeldNext == Parts'
  BY HeldParts, PTL

(* What places there are. *)
LEMMA ThePlaces ==
  /\ \A x \in RankInfo : Vortex(x) \in Places /\ ThreadQueue(x) \in Places
  /\ \A r \in Ranks : RankQueue(r) \in Places
  /\ \A r \in Ranks, x \in RankInfo : Wire(r, x) \in Places
  /\ \A p \in Places : \/ \E x \in RankInfo : p = Vortex(x)
                       \/ \E x \in RankInfo : p = ThreadQueue(x)
                       \/ \E r \in Ranks : p = RankQueue(r)
                       \/ \E r \in Ranks, x \in RankInfo : p = Wire(r, x)
  BY DEF Places

LEMMA DifferentPlaces ==
  /\ \A x, y : Vortex(x) = Vortex(y) => x = y
  /\ \A x, y : ThreadQueue(x) = ThreadQueue(y) => x = y
  /\ \A q, r : RankQueue(q) = RankQueue(r) => q = r
  /\ \A q, r, x, y : Wire(q, x) = Wire(r, y) => q = r /\ x = y
  /\ \A x, y : Vortex(x) # ThreadQueue(y)
  /\ \A x, r : Vortex(x) # RankQueue(r) /\ ThreadQueue(x) # RankQueue(r)
  /\ \A x, y, r : Vortex(x) # Wire(r, y) /\ ThreadQueue(x) # Wire(r, y)
  /\ \A y, q, r : RankQueue(q) # Wire(r, y)
  BY DEF Vortex, ThreadQueue, RankQueue, Wire

(* What a sequence of no message holds, and of one. *)
LEMMA ContentsOf ==
  /\ Contents(<<>>) = {}
  /\ \A s \in Seq(SUBSET Events) : Len(s) = 1 => Contents(s) = s[1]
  <1>1. Contents(<<>>) = {}
    BY NoMessage DEF Contents
  <1>2. ASSUME NEW s \in Seq(SUBSET Events), Len(s) = 1 PROVE Contents(s) = s[1]
    <2>1. DOMAIN s = 1 .. 1
      BY <1>2, LenProperties
    <2>2. DOMAIN s = {1}
      BY <2>1
    <2> QED BY <2>2 DEF Contents
  <1> QED BY <1>1, <1>2

(* What is held somewhere pends. *)
PendingIsHeld == \A e : e \in Pending <=> \E p \in Places : e \in Held(p)

LEMMA PendingHeld == TypeInv => PendingIsHeld
  <1> SUFFICES ASSUME TypeInv PROVE PendingIsHeld
    OBVIOUS
  <1>1. \A r \in Ranks : \A e \in rq[r] : Home[e.comp] \in RankInfo
    BY BaseAssumption DEF TypeInv, Shapes, Events
  <1>2. \A p \in Places : \A e \in Held(p) : e \in Pending
    <2> SUFFICES ASSUME NEW p \in Places, NEW e \in Held(p) PROVE e \in Pending
      OBVIOUS
    <2>1. CASE \E x \in RankInfo : p = Vortex(x)
      BY <2>1, HeldParts, PendingParts DEF Parts
    <2>2. CASE \E x \in RankInfo : p = ThreadQueue(x)
      BY <2>2, HeldParts, PendingParts DEF Parts
    <2>3. CASE \E r \in Ranks : p = RankQueue(r)
      BY <1>1, <2>3, HeldParts, PendingParts DEF Parts
    <2>4. CASE \E r \in Ranks, x \in RankInfo : p = Wire(r, x)
      <3>1. PICK r \in Ranks, x \in RankInfo : p = Wire(r, x)
        BY <2>4
      <3>2. e \in Contents(net[r, x])
        BY <3>1, HeldParts DEF Parts, OnWire
      <3>3. PICK i \in DOMAIN net[r, x] : e \in net[r, x][i]
        BY <3>2 DEF Contents
      <3> QED BY <3>3, PendingParts
    <2> QED BY <2>1, <2>2, <2>3, <2>4, ThePlaces
  <1>3. ASSUME NEW e \in Pending PROVE \E p \in Places : e \in Held(p)
    <2>1. PICK x \in RankInfo : e \in EventsOf(x) \cup InTransit(x)
      BY DEF Pending, EventsOf
    <2>2. CASE e \in EventsOf(x) \cup tq[x]
      BY <2>2, HeldParts, ThePlaces DEF Parts
    <2>3. CASE \E r \in Ranks : e \in rq[r]
      BY <2>3, HeldParts, ThePlaces DEF Parts
    <2>4. CASE \E r \in Ranks : e \in Contents(net[r, x])
      BY <2>4, HeldParts, ThePlaces DEF Parts, OnWire
    <2> QED BY <2>1, <2>2, <2>3, <2>4 DEF InTransit, Contents
  <1> QED BY <1>2, <1>3 DEF PendingIsHeld

LEMMA PendingHeldNext == TypeInv' => PendingIsHeld'
  BY PendingHeld, PTL

(* Only events are held. *)
LEMMA HeldEvents ==
  ASSUME TypeInv PROVE \A p \in Places : \A e \in Held(p) : e \in Events
  <1>1. /\ \A x \in RankInfo : \A e \in EventsOf(x) : e \in Events
        /\ \A x \in RankInfo : \A e \in tq[x] : e \in Events
        /\ \A r \in Ranks : \A e \in rq[r] : e \in Events
    <2>1. \A x \in RankInfo : \A e \in EventsOf(x) : e \in Activities /\ e.kind = "event"
      BY DEF EventsOf, TypeInv, Shapes
    <2> QED BY <2>1, ActivityFields DEF TypeInv, Shapes
  <1>2. ASSUME NEW r \in Ranks, NEW x \in RankInfo, NEW e \in OnWire(r, x) PROVE e \in Events
    <2> DEFINE s == net[r, x]
    <2>1. s \in Seq(SUBSET Events)
      BY DEF TypeInv, Shapes
    <2>2. PICK i \in DOMAIN s : e \in s[i]
      BY DEF OnWire, Contents
    <2> HIDE DEF s
    <2>3. s[i] \in SUBSET Events
      BY <2>1, ElementOfSeq, LenProperties
    <2> QED BY <2>2, <2>3
  <1>3. /\ \A x \in RankInfo : \A e \in Held(Vortex(x)) \cup Held(ThreadQueue(x)) : e \in Events
        /\ \A r \in Ranks : \A e \in Held(RankQueue(r)) : e \in Events
        /\ \A r \in Ranks, x \in RankInfo : \A e \in Held(Wire(r, x)) : e \in Events
    BY <1>1, <1>2, HeldParts DEF Parts
  <1> QED BY <1>3, ThePlaces

LEMMA NothingHeld ==
  ASSUME Nothing PROVE \A p \in Places : Held(p) = {}
  <1>1. \A r \in Ranks, x \in RankInfo : Contents(net[r, x]) = {}
    BY DEF Nothing, Contents
  <1>2. /\ \A x \in RankInfo : EventsOf(x) = {} /\ tq[x] = {}
        /\ \A r \in Ranks : rq[r] = {}
    BY DEF Nothing
  <1>3. /\ \A x \in RankInfo : Held(Vortex(x)) = {} /\ Held(ThreadQueue(x)) = {}
        /\ \A r \in Ranks : Held(RankQueue(r)) = {}
    BY <1>2, HeldParts DEF Parts
  <1>4. \A r \in Ranks, x \in RankInfo : Held(Wire(r, x)) = {}
    BY <1>1, HeldParts DEF Parts, OnWire
  <1> QED BY <1>3, <1>4, ThePlaces

(* Events that only change place. *)
Relocates ==
  /\ \A p \in Places : \A e \in Held(p)' : \E q \in Places : e \in Held(q)
  /\ \A p \in Places : \A e \in Held(p) : \E q \in Places : e \in Held(q)'

LEMMA Stay ==
  ASSUME \A p \in Places : Held(p)' = Held(p)
  PROVE  Relocates /\ (Apart => Apart')
  <1>1. Relocates
    BY DEF Relocates
  <1>2. Apart => Apart'
    BY DEF Apart
  <1> QED BY <1>1, <1>2

(* All that is at place q goes to place p. *)
LEMMA Shift ==
  ASSUME NEW p \in Places, NEW q \in Places, p # q,
         Held(p)' = Held(p) \cup Held(q), Held(q)' = {},
         \A o \in Places \ {p, q} : Held(o)' = Held(o)
  PROVE  Relocates /\ (Apart => Apart')
  <1>1. ASSUME NEW o \in Places, NEW e \in Held(o)' PROVE \E u \in Places : e \in Held(u)
    BY <1>1
  <1>2. ASSUME NEW o \in Places, NEW e \in Held(o) PROVE \E u \in Places : e \in Held(u)'
    BY <1>2
  <1>3. Relocates
    BY <1>1, <1>2 DEF Relocates
  <1>4. ASSUME Apart, NEW n \in Places, NEW o \in Places, n # o, NEW e \in Held(n)', e \in Held(o)'
        PROVE  FALSE
    <2>1. n # q /\ o # q
      BY <1>4
    <2>2. e \in Held(n) \/ (n = p /\ e \in Held(q))
      BY <1>4, <2>1
    <2>3. e \in Held(o) \/ (o = p /\ e \in Held(q))
      BY <1>4, <2>1
    <2>4. \A u, v \in Places : u # v => ~(e \in Held(u) /\ e \in Held(v))
      BY <1>4 DEF Apart
    <2> QED BY <1>4, <2>1, <2>2, <2>3, <2>4
  <1>5. Apart => Apart'
    BY <1>4 DEF Apart
  <1> QED BY <1>3, <1>5

(* What moves pends on. *)
LEMMA MovedPending ==
  ASSUME TypeInv, TypeInv', Relocates PROVE Pending' = Pending
  <1>1. \A e : e \in Pending <=> \E p \in Places : e \in Held(p)
    BY PendingHeld DEF PendingIsHeld
  <1>2. \A e : e \in Pending' <=> \E p \in Places : e \in Held(p)'
    BY PendingHeldNext DEF PendingIsHeld
  <1> QED BY <1>1, <1>2 DEF Relocates


(* The steps that take events from one place to another. *)
LEMMA KeptStay ==
  ASSUME KeepsEvents PROVE \A p \in Places : Held(p)' = Held(p)
  <1>1. /\ UNCHANGED <<tq, rq>>
        /\ \A x \in RankInfo : EventsOf(x)' = EventsOf(x)
        /\ \A r \in Ranks, x \in RankInfo : OnWire(r, x)' = OnWire(r, x)
    BY DEF KeepsEvents, OnWire
  <1>2. /\ \A x \in RankInfo : /\ Held(Vortex(x))' = Held(Vortex(x))
                               /\ Held(ThreadQueue(x))' = Held(ThreadQueue(x))
        /\ \A r \in Ranks : Held(RankQueue(r))' = Held(RankQueue(r))
        /\ \A r \in Ranks, x \in RankInfo : Held(Wire(r, x))' = Held(Wire(r, x))
    BY <1>1, HeldParts, HeldNext DEF Parts
  <1> QED BY <1>2, ThePlaces

LEMMA BeforeRelocates ==
  ASSUME SyncInv, Lookahead, NEW x \in RankInfo, Before(x)
  PROVE  Relocates /\ (Apart => Apart') /\ rq' = rq /\ sent' = sent
  <1> DEFINE p == Vortex(x)
             q == ThreadQueue(x)
  <1>1. /\ tq'[x] = {} /\ EventsOf(x)' = EventsOf(x) \cup tq[x]
        /\ \A y \in RankInfo : y # x => tq'[y] = tq[y] /\ EventsOf(y)' = EventsOf(y)
        /\ rq' = rq
        /\ \A r \in Ranks, y \in RankInfo : OnWire(r, y)' = OnWire(r, y)
    BY BeforeMoves DEF OnWire
  <1>2. p \in Places /\ q \in Places /\ p # q
        /\ Held(p)' = Held(p) \cup Held(q) /\ Held(q)' = {}
    BY <1>1, HeldParts, HeldNext, ThePlaces, DifferentPlaces DEF Parts
  <1>3. \A o \in Places \ {p, q} : Held(o)' = Held(o)
    <2>1. /\ \A y \in RankInfo : y # x => /\ Held(Vortex(y))' = Held(Vortex(y))
                                        /\ Held(ThreadQueue(y))' = Held(ThreadQueue(y))
          /\ \A r \in Ranks : Held(RankQueue(r))' = Held(RankQueue(r))
          /\ \A r \in Ranks, y \in RankInfo : Held(Wire(r, y))' = Held(Wire(r, y))
      BY <1>1, HeldParts, HeldNext DEF Parts
    <2> QED BY <2>1, ThePlaces
  <1>4. sent' = sent
    BY DEF Before, compVars
  <1> HIDE DEF p, q
  <1> QED BY <1>1, <1>2, <1>3, <1>4, Shift

LEMMA ReceiveRankWires ==
  ASSUME SyncInv, Lookahead, NEW x \in RankInfo, NEW q \in Ranks, ReceiveRank(x, q)
  PROVE  /\ OnWire(q, x) = First(q, x) /\ OnWire(q, x)' = {}
         /\ \A r \in Ranks, y \in RankInfo : <<r, y>> # <<q, x>> => OnWire(r, y)' = OnWire(r, y)
         /\ UNCHANGED <<tq, rq>>
         /\ EventsOf(x)' = EventsOf(x) \cup First(q, x)
         /\ \A y \in RankInfo : y # x => EventsOf(y)' = EventsOf(y)
  <1> DEFINE H == First(q, x)
  <1> HIDE DEF H
  <1>1. /\ pc[x] = "xRecv" /\ q \notin got[x] /\ q # x[1] /\ Sent(q) /\ ~Received(x, q)
        /\ UNCHANGED <<config, pc, tq, rq, now, threadNext, rankNext, back, syncType>>
        /\ got'[x] = got[x] \cup {q}
        /\ \A y \in RankInfo : y # x => got'[y] = got[y] /\ tv'[y] = tv[y]
        /\ tv'[x] = tv[x] \cup H /\ \A e \in H : now[x] <= e.time
        /\ \A e \in H : rankNext[x[1]] <= e.time /\ Home[e.comp] = x /\ e.time \in SimTime
        /\ H \in SUBSET Events /\ rankNext[x[1]] \in SimTime
        /\ Len(net[q, x]) = 1 /\ H = net[q, x][1] /\ 1 \in DOMAIN net[q, x] /\ net'[q, x] = <<>>
        /\ \A r \in Ranks, y \in RankInfo : <<r, y>> # <<q, x>> => net'[r, y] = net[r, y]
        /\ EventsOf(x)' = EventsOf(x) \cup H
        /\ \A y \in RankInfo : y # x => EventsOf(y)' = EventsOf(y)
    BY ReceiveRankMoves DEF H
  <1>2. net[q, x] \in Seq(SUBSET Events)
    BY DEF SyncInv, TypeInv, Shapes
  <1>3. OnWire(q, x) = H /\ OnWire(q, x)' = {}
    BY <1>1, <1>2, ContentsOf DEF OnWire
  <1>4. \A r \in Ranks, y \in RankInfo : <<r, y>> # <<q, x>> => OnWire(r, y)' = OnWire(r, y)
    BY <1>1 DEF OnWire
  <1> QED BY <1>1, <1>3, <1>4 DEF H

LEMMA ReceiveRankRelocates ==
  ASSUME SyncInv, Lookahead, NEW x \in RankInfo, NEW r \in Ranks, ReceiveRank(x, r)
  PROVE  Relocates /\ (Apart => Apart') /\ rq' = rq /\ sent' = sent
  <1> DEFINE p == Vortex(x)
             q == Wire(r, x)
  <1>1. /\ OnWire(r, x) = First(r, x) /\ OnWire(r, x)' = {}
        /\ \A s \in Ranks, y \in RankInfo : <<s, y>> # <<r, x>> => OnWire(s, y)' = OnWire(s, y)
        /\ UNCHANGED <<tq, rq>>
        /\ EventsOf(x)' = EventsOf(x) \cup First(r, x)
        /\ \A y \in RankInfo : y # x => EventsOf(y)' = EventsOf(y)
    BY ReceiveRankWires
  <1>6. p \in Places /\ q \in Places /\ p # q
        /\ Held(p)' = Held(p) \cup Held(q) /\ Held(q)' = {}
    BY <1>1, HeldParts, HeldNext, ThePlaces, DifferentPlaces DEF Parts
  <1>7. \A o \in Places \ {p, q} : Held(o)' = Held(o)
    <2>1. /\ \A y \in RankInfo : y # x => Held(Vortex(y))' = Held(Vortex(y))
          /\ \A y \in RankInfo : Held(ThreadQueue(y))' = Held(ThreadQueue(y))
          /\ \A s \in Ranks : Held(RankQueue(s))' = Held(RankQueue(s))
      BY <1>1, HeldParts, HeldNext DEF Parts
    <2>2. \A s \in Ranks, y \in RankInfo : Wire(s, y) # q => Held(Wire(s, y))' = Held(Wire(s, y))
      <3>1. \A s \in Ranks, y \in RankInfo : Wire(s, y) # q => OnWire(s, y)' = OnWire(s, y)
        BY <1>1
      <3> HIDE DEF q
      <3> QED BY <3>1, HeldParts, HeldNext DEF Parts
    <2> QED BY <2>1, <2>2, ThePlaces
  <1>8. sent' = sent
    BY DEF ReceiveRank, compVars
  <1> HIDE DEF p, q
  <1> QED BY <1>1, <1>6, <1>7, <1>8, Shift

(* What is at place q is shared out to the places of P, which are empty. *)
LEMMA ShareOut ==
  ASSUME NEW q \in Places, NEW P \in SUBSET (Places \ {q}),
         Held(q)' = {},
         \A p \in P : Held(p) = {} /\ \A e \in Held(p)' : e \in Held(q),
         \A p, o \in P : p # o => Held(p)' \cap Held(o)' = {},
         \A e \in Held(q) : \E p \in P : e \in Held(p)',
         \A o \in Places \ (P \cup {q}) : Held(o)' = Held(o)
  PROVE  Relocates /\ (Apart => Apart')
  <1>1. ASSUME NEW o \in Places, NEW e \in Held(o)' PROVE \E u \in Places : e \in Held(u)
    BY <1>1
  <1>2. ASSUME NEW o \in Places, NEW e \in Held(o) PROVE \E u \in Places : e \in Held(u)'
    BY <1>2
  <1>3. Relocates
    BY <1>1, <1>2 DEF Relocates
  <1>4. ASSUME Apart, NEW n \in Places, NEW o \in Places, n # o, NEW e \in Held(n)', e \in Held(o)'
        PROVE  FALSE
    <2>1. n # q /\ o # q
      BY <1>4
    <2>2. \A u, v \in Places : u # v => ~(e \in Held(u) /\ e \in Held(v))
      BY <1>4 DEF Apart
    <2>3. ~(n \in P /\ o \in P)
      BY <1>4
    <2>4. (n \in P => e \in Held(q)) /\ (n \notin P => e \in Held(n))
      BY <1>4, <2>1
    <2>5. (o \in P => e \in Held(q)) /\ (o \notin P => e \in Held(o))
      BY <1>4, <2>1
    <2> QED BY <1>4, <2>1, <2>2, <2>3, <2>4, <2>5
  <1>5. Apart => Apart'
    BY <1>4 DEF Apart
  <1> QED BY <1>3, <1>5

LEMMA SendRankRelocates ==
  ASSUME SyncInv, Lookahead, Away, NEW x \in RankInfo, SendRank(x)
  PROVE  Relocates /\ (Apart => Apart') /\ Away' /\ sent' = sent
  <1> DEFINE r == x[1]
             q == RankQueue(r)
             P == {Wire(r, y) : y \in {z \in RankInfo : z[1] # r}}
  <1>0. r \in Ranks
    BY Threads
  <1>1. /\ rq'[r] = {} /\ \A s \in Ranks : s # r => rq'[s] = rq[s]
        /\ UNCHANGED <<tv, tq>>
    BY <1>0, SendRankMoves
  <1>2. \A y \in RankInfo : net[r, y] = <<>>
    BY <1>0, SendRankMoves
  <1>3. \A y \in RankInfo : y[1] # r =>
          Len(net'[r, y]) = 1 /\ \A i \in DOMAIN net'[r, y] : net'[r, y][i] = ToSend(r, y)
    BY <1>0, SendRankMoves
  <1>4. \A s \in Ranks, y \in RankInfo : s # r \/ y[1] = r => net'[s, y] = net[s, y]
    BY <1>0, SendRankMoves
  <1>5. \A y \in RankInfo : OnWire(r, y) = {}
    BY <1>2, ContentsOf DEF OnWire
  <1>6. \A s \in Ranks, y \in RankInfo : s # r \/ y[1] = r => OnWire(s, y)' = OnWire(s, y)
    BY <1>4 DEF OnWire
  <1>7. ASSUME NEW y \in RankInfo, y[1] # r PROVE OnWire(r, y)' = ToSend(r, y)
    <2> DEFINE s == net'[r, y]
    <2>1. s \in Seq(SUBSET Events)
      BY <1>0, SendRankTypes DEF SyncInv, Shapes
    <2>2. Len(s) = 1 /\ \A i \in DOMAIN s : s[i] = ToSend(r, y)
      BY <1>3, <1>7
    <2>3. OnWire(r, y)' = Contents(s)
      BY DEF OnWire, Contents
    <2> HIDE DEF s
    <2>4. Contents(s) = s[1] /\ 1 \in DOMAIN s
      BY <2>1, <2>2, ContentsOf, LenProperties
    <2> QED BY <2>2, <2>3, <2>4
  <1> HIDE DEF r
  <1>8. /\ \A y \in RankInfo : EventsOf(y)' = EventsOf(y) /\ tq'[y] = tq[y]
    BY <1>1 DEF EventsOf
  <1>9. /\ q \in Places /\ P \in SUBSET (Places \ {q})
        /\ Held(q)' = {} /\ Held(q) = rq[r]
    BY <1>0, <1>1, HeldParts, HeldNext, ThePlaces, DifferentPlaces DEF Parts
  <1>10. ASSUME NEW p \in P
         PROVE  \E y \in RankInfo : /\ y[1] # r /\ p = Wire(r, y)
                                    /\ Held(p) = {} /\ Held(p)' = ToSend(r, y)
    BY <1>0, <1>5, <1>7, HeldParts, HeldNext DEF Parts
  <1>11. \A p \in P : Held(p) = {} /\ \A e \in Held(p)' : e \in Held(q)
    BY <1>9, <1>10 DEF ToSend
  <1>12. \A p, o \in P : p # o => Held(p)' \cap Held(o)' = {}
    <2> SUFFICES ASSUME NEW p \in P, NEW o \in P, p # o PROVE Held(p)' \cap Held(o)' = {}
      OBVIOUS
    <2>1. PICK y \in RankInfo : p = Wire(r, y) /\ Held(p)' = ToSend(r, y)
      BY <1>10
    <2>2. PICK z \in RankInfo : o = Wire(r, z) /\ Held(o)' = ToSend(r, z)
      BY <1>10
    <2> QED BY <2>1, <2>2 DEF ToSend
  <1>13. \A e \in Held(q) : \E p \in P : e \in Held(p)'
    <2> SUFFICES ASSUME NEW e \in rq[r] PROVE \E p \in P : e \in Held(p)'
      BY <1>9
    <2>1. e \in Events
      BY <1>0 DEF SyncInv, TypeInv, Shapes
    <2>2. Home[e.comp] \in RankInfo /\ Home[e.comp][1] # r
      BY <1>0, <2>1, BaseAssumption DEF Away, Events
    <2>3. Wire(r, Home[e.comp]) \in P /\ Held(Wire(r, Home[e.comp]))' = ToSend(r, Home[e.comp])
      BY <1>0, <1>7, <2>2, HeldNext DEF Parts
    <2> QED BY <2>3 DEF ToSend
  <1>14. \A o \in Places \ (P \cup {q}) : Held(o)' = Held(o)
    <2>1. /\ \A y \in RankInfo : /\ Held(Vortex(y))' = Held(Vortex(y))
                                 /\ Held(ThreadQueue(y))' = Held(ThreadQueue(y))
          /\ \A s \in Ranks : s # r => Held(RankQueue(s))' = Held(RankQueue(s))
          /\ \A s \in Ranks, y \in RankInfo : s # r \/ y[1] = r => Held(Wire(s, y))' = Held(Wire(s, y))
      BY <1>1, <1>6, <1>8, HeldParts, HeldNext DEF Parts
    <2>2. \A y \in RankInfo : y[1] # r => Wire(r, y) \in P
      OBVIOUS
    <2> HIDE DEF P
    <2> QED BY <2>1, <2>2, ThePlaces
  <1>15. Relocates /\ (Apart => Apart')
    <2> HIDE DEF P, q
    <2> QED BY <1>9, <1>11, <1>12, <1>13, <1>14, ShareOut
  <1>16. Away'
    BY <1>0, <1>1 DEF Away
  <1>17. sent' = sent
    BY DEF SendRank, compVars
  <1> QED BY <1>15, <1>16, <1>17

(* A rank's queue is empty when its messages are out. *)
LEMMA ReduceStays ==
  ASSUME SyncInv, Lookahead, ReduceNext
  PROVE  (\A p \in Places : Held(p)' = Held(p)) /\ rq' = rq /\ sent' = sent
  <1>1. \A r \in Ranks : pc[Master(r)] = "xReduce"
    BY Threads DEF ReduceNext
  <1>2. \A r \in Ranks : rq[r] = {}
    BY <1>1 DEF Lookahead, Waiting, Sent
  <1>3. rq' = rq
    BY <1>2 DEF ReduceNext, SyncInv, TypeInv, Shapes
  <1>4. /\ UNCHANGED <<tv, tq, net, sent>>
    BY DEF ReduceNext, compVars
  <1>5. /\ \A x \in RankInfo : EventsOf(x)' = EventsOf(x) /\ tq'[x] = tq[x]
        /\ \A r \in Ranks, x \in RankInfo : OnWire(r, x)' = OnWire(r, x)
    BY <1>4 DEF EventsOf, OnWire
  <1>6. /\ \A x \in RankInfo : /\ Held(Vortex(x))' = Held(Vortex(x))
                               /\ Held(ThreadQueue(x))' = Held(ThreadQueue(x))
        /\ \A r \in Ranks : Held(RankQueue(r))' = Held(RankQueue(r))
        /\ \A r \in Ranks, x \in RankInfo : Held(Wire(r, x))' = Held(Wire(r, x))
    BY <1>3, <1>5, HeldParts, HeldNext DEF Parts
  <1> QED BY <1>3, <1>4, <1>6, ThePlaces

(* All steps but a component's only move events. *)
LEMMA StepRelocates ==
  ASSUME SyncInv, Lookahead, Away, [Next]_vars, ~ \E x \in RankInfo : Handle(x)
  PROVE  Relocates /\ (Apart => Apart') /\ Away' /\ sent' = sent
  <1>0. TypeInv
    BY DEF SyncInv
  <1>1. ASSUME KeepsEvents, sent' = sent
        PROVE  Relocates /\ (Apart => Apart') /\ Away' /\ sent' = sent
    <2>1. rq' = rq
      BY <1>1 DEF KeepsEvents
    <2>2. Relocates /\ (Apart => Apart')
      BY <1>1, KeptStay, Stay
    <2> QED BY <1>1, <2>1, <2>2 DEF Away
  <1>2. ASSUME NEW x \in RankInfo, ThreadStep(x)
        PROVE  Relocates /\ (Apart => Apart') /\ Away' /\ sent' = sent
    <2>1. CASE \/ Stop(x) \/ Sync(x) \/ LeaveLoop(x) \/ ReceivedAll(x) \/ After(x)
               \/ EndOrNext(x) \/ InsertNext(x)
      <3>1. KeepsEvents
        BY <1>0, <2>1, QuietEvents
      <3>2. sent' = sent
        BY <2>1 DEF Stop, Sync, LeaveLoop, ReceivedAll, After, EndOrNext, InsertNext, compVars
      <3> QED BY <1>1, <3>1, <3>2
    <2>2. CASE Before(x)
      BY <2>2, BeforeRelocates DEF Away
    <2>3. CASE SendRank(x)
      BY <2>3, SendRankRelocates
    <2>4. CASE \E r \in Ranks : ReceiveRank(x, r)
      BY <2>4, ReceiveRankRelocates DEF Away
    <2> QED BY <1>2, <2>1, <2>2, <2>3, <2>4 DEF ThreadStep
  <1>3. CASE (\E r \in Ranks, b \in Barriers : Barrier(r, b)) \/ CheckRanks \/ FinalEndTime
    <2>1. KeepsEvents
      BY <1>3, MeetLook
    <2>2. sent' = sent
      BY <1>3 DEF Barrier, CheckRanks, FinalEndTime, compVars
    <2> QED BY <1>1, <2>1, <2>2
  <1>4. CASE ReduceNext
    BY <1>4, ReduceStays, Stay DEF Away
  <1>5. CASE Finished \/ UNCHANGED vars
    <2>1. KeepsEvents /\ sent' = sent
      BY <1>5 DEF Finished, vars, KeepsEvents, EventsOf, syncVars, queueVars, compVars
    <2> QED BY <1>1, <2>1
  <1> QED BY <1>2, <1>3, <1>4, <1>5 DEF Next, Meeting

----------------------------------------------------------------------------
(* What a component sends.                                                 *)

(* The slots it takes are the next ones. *)
LEMMA SentCounted ==
  ASSUME CountInv, Shapes, NEW c \in Comps, NEW t \in SimTime, NEW S \in Sends(c, t)
  PROVE  /\ Cardinality(S) \in Nat /\ sent[c] + Cardinality(S) <= MaxSends
         /\ \A e \in S : e.src = c /\ e.seq \in sent[c] + 1 .. sent[c] + Cardinality(S)
  <1> DEFINE n == sent[c]
             Ms(i) == Messages(c, t, i)
             Ts(i) == Timers(c, t, i)
  <1>1. n \in Nat
    BY DEF Shapes
  <1>2. n + Cardinality(S) <= MaxSends
    BY DEF Sends
  <1>3. \/ S = {}
        \/ \E e \in Ts(n + 1) \cup Ms(n + 1) : S = {e}
        \/ \E e \in Ts(n + 1), f \in Ms(n + 2) : S = {e, f}
    BY DEF Sends
  <1>4. \A i : \A e \in Ts(i) \cup Ms(i) : e.seq = i /\ e.src = c
    BY DEF Timers, Messages, EventTo, Activity
  <1> HIDE DEF n, Ms, Ts
  <1>5. CASE S = {}
    BY <1>1, <1>2, <1>5, FS_EmptySet DEF n
  <1>6. CASE \E e \in Ts(n + 1) \cup Ms(n + 1) : S = {e}
    <2>1. PICK e \in Ts(n + 1) \cup Ms(n + 1) : S = {e}
      BY <1>6
    <2>2. Cardinality(S) = 1
      BY <2>1, FS_Singleton
    <2> QED BY <1>1, <1>2, <1>4, <2>1, <2>2 DEF n
  <1>7. CASE \E e \in Ts(n + 1), f \in Ms(n + 2) : S = {e, f}
    <2>1. PICK e \in Ts(n + 1), f \in Ms(n + 2) : S = {e, f}
      BY <1>7
    <2>2. e.seq = n + 1 /\ f.seq = n + 2 /\ e.src = c /\ f.src = c
      BY <1>4, <2>1
    <2>3. f # e
      BY <1>1, <2>2
    <2>4. Cardinality(S) = 2
      <3>1. IsFiniteSet({e}) /\ Cardinality({e}) = 1 /\ f \notin {e}
        BY <2>3, FS_Singleton
      <3>2. Cardinality({e} \cup {f}) = Cardinality({e}) + 1
        BY <3>1, FS_AddElement
      <3>3. S = {e} \cup {f}
        BY <2>1
      <3> QED BY <3>1, <3>2, <3>3
    <2> QED BY <1>1, <1>2, <2>1, <2>2, <2>4 DEF n
  <1> QED BY <1>3, <1>5, <1>6, <1>7

(* Where what thread x sends goes. *)
PlaceOf(x, e) ==
  LET y == Home[e.comp]
  IN  CASE Route(x, y) = "vortex" -> Vortex(y)
        [] Route(x, y) = "thread" -> ThreadQueue(y)
        [] Route(x, y) = "rank" -> RankQueue(x[1])
Put(x, S, p) == {e \in S : PlaceOf(x, e) = p}

LEMMA Routes ==
  ASSUME NEW x, NEW y
  PROVE  /\ Route(x, y) \in {"vortex", "thread", "rank"}
         /\ Route(x, y) = "rank" => y[1] # x[1]
  BY DEF Route

LEMMA HandleMoves ==
  ASSUME TypeInv, NEW x \in RankInfo, NEW a, NEW S, NEW own, HandleParts(x, a, S, own)
  PROVE  /\ a \in EventsOf(x) /\ a \in Held(Vortex(x))
         /\ Held(Vortex(x))' = (Held(Vortex(x)) \ {a}) \cup Put(x, S, Vortex(x))
         /\ \A p \in Places \ {Vortex(x)} : Held(p)' = Held(p) \cup Put(x, S, p)
         /\ \A e \in S : PlaceOf(x, e) \in Places
         /\ \A r \in Ranks : \A e \in rq'[r] : e \in rq[r] \/ (r = x[1] /\ Home[e.comp][1] # r)
  <1>1. /\ a \in Earliest(tv[x]) /\ Pop(x, a) /\ a.kind = "event"
        /\ S \in SUBSET Events /\ own \in {tv[x] \ {a}, (tv[x] \ {a}) \cup {StopAt(a.time)}}
        /\ SendAll(x, S, own) /\ net' = net
    BY HandleTypes DEF HandleParts
  <1>2. a \in EventsOf(x)
    BY <1>1, Popped DEF EventsOf
  <1>3. {b \in own : b.kind = "event"} = EventsOf(x) \ {a}
    <2>1. StopAt(a.time).kind # "event"
      BY ActivityKinds
    <2> QED BY <1>1, <2>1 DEF EventsOf
  <1> DEFINE New(y, w) == Carried(S, x, y, w)
  <1>4. \A y, w : \A e : e \in New(y, w) <=> e \in S /\ Home[e.comp] = y /\ Route(x, y) = w
    BY DEF Carried
  <1>5. /\ \A y \in RankInfo : tv'[y] = (IF y = x THEN own ELSE tv[y]) \cup New(y, "vortex")
        /\ \A y \in RankInfo : tq'[y] = tq[y] \cup New(y, "thread")
        /\ rq'[x[1]] = rq[x[1]] \cup {e \in S : Route(x, Home[e.comp]) = "rank"}
        /\ \A r \in Ranks : r # x[1] => rq'[r] = rq[r]
    BY <1>1, Threads DEF SendAll, TypeInv, Shapes
  <1>6. \A e \in S : e.kind = "event" /\ Home[e.comp] \in RankInfo
    BY <1>1, BaseAssumption, ActivityKinds DEF Events
  <1> HIDE DEF New
  <1>7. \A y \in RankInfo : /\ New(y, "vortex") = Put(x, S, Vortex(y))
                            /\ New(y, "thread") = Put(x, S, ThreadQueue(y))
    BY <1>4, <1>6, Routes, DifferentPlaces DEF Put, PlaceOf
  <1>8. /\ {e \in S : Route(x, Home[e.comp]) = "rank"} = Put(x, S, RankQueue(x[1]))
        /\ \A r \in Ranks : r # x[1] => Put(x, S, RankQueue(r)) = {}
        /\ \A r \in Ranks, y \in RankInfo : Put(x, S, Wire(r, y)) = {}
    BY <1>6, Routes, DifferentPlaces DEF Put, PlaceOf
  <1>9. /\ EventsOf(x)' = (EventsOf(x) \ {a}) \cup Put(x, S, Vortex(x))
        /\ \A y \in RankInfo : y # x => EventsOf(y)' = EventsOf(y) \cup Put(x, S, Vortex(y))
    <2>1. \A y \in RankInfo : \A e \in Put(x, S, Vortex(y)) : e.kind = "event"
      BY <1>6 DEF Put
    <2>2. \A y \in RankInfo : tv'[y] = (IF y = x THEN own ELSE tv[y]) \cup Put(x, S, Vortex(y))
      BY <1>5, <1>7
    <2>3. tv'[x] = own \cup Put(x, S, Vortex(x))
      BY <2>2
    <2>4. EventsOf(x)' = {b \in own : b.kind = "event"} \cup Put(x, S, Vortex(x))
      BY <2>1, <2>3 DEF EventsOf
    <2>5. \A y \in RankInfo : y # x => EventsOf(y)' = EventsOf(y) \cup Put(x, S, Vortex(y))
      BY <2>1, <2>2 DEF EventsOf
    <2> QED BY <1>3, <2>4, <2>5
  <1>10. \A r \in Ranks, y \in RankInfo : OnWire(r, y)' = OnWire(r, y)
    BY <1>1 DEF OnWire
  <1>11. /\ Held(Vortex(x))' = (Held(Vortex(x)) \ {a}) \cup Put(x, S, Vortex(x))
         /\ \A y \in RankInfo : y # x => Held(Vortex(y))' = Held(Vortex(y)) \cup Put(x, S, Vortex(y))
         /\ \A y \in RankInfo : Held(ThreadQueue(y))' = Held(ThreadQueue(y)) \cup Put(x, S, ThreadQueue(y))
         /\ \A r \in Ranks : Held(RankQueue(r))' = Held(RankQueue(r)) \cup Put(x, S, RankQueue(r))
         /\ \A r \in Ranks, y \in RankInfo : Held(Wire(r, y))' = Held(Wire(r, y)) \cup Put(x, S, Wire(r, y))
    BY <1>5, <1>7, <1>8, <1>9, <1>10, HeldParts, HeldNext DEF Parts
  <1>12. \A p \in Places \ {Vortex(x)} : Held(p)' = Held(p) \cup Put(x, S, p)
    BY <1>11, ThePlaces
  <1>13. \A e \in S : PlaceOf(x, e) \in Places
    BY <1>6, Routes, ThePlaces, Threads DEF PlaceOf
  <1>14. \A r \in Ranks : \A e \in rq'[r] : e \in rq[r] \/ (r = x[1] /\ Home[e.comp][1] # r)
    BY <1>5, Routes
  <1>15. a \in Held(Vortex(x))
    BY <1>2, HeldParts DEF Parts
  <1> QED BY <1>2, <1>11, <1>12, <1>13, <1>14, <1>15

(* An event that is handled is gone; what is sent is new, and at one place. *)
LEMMA HandleKeeps ==
  ASSUME TypeInv, TypeInv', Away, Apart, Counted, NEW x \in RankInfo, NEW a, NEW S, NEW own,
         HandleParts(x, a, S, own)
  PROVE  /\ Away' /\ Apart' /\ Counted'
         /\ Pending' = (Pending \ {a}) \cup S
         /\ \A e \in S : e \notin Pending
         /\ a \in Pending
  <1> DEFINE v == Vortex(x)
             c == a.comp
             n == sent[c]
             m == Cardinality(S)
  <1>1. /\ a \in Held(v) /\ v \in Places
        /\ Held(v)' = (Held(v) \ {a}) \cup Put(x, S, v)
        /\ \A p \in Places \ {v} : Held(p)' = Held(p) \cup Put(x, S, p)
        /\ \A e \in S : PlaceOf(x, e) \in Places
    BY HandleMoves, ThePlaces
  <1>2. a \in Events /\ c \in Comps /\ a.time \in SimTime /\ S \in SUBSET Events
        /\ S \in Sends(c, a.time) /\ sent' = [sent EXCEPT ![c] = @ + m]
        /\ sent \in [Comps -> 0 .. MaxSends]
    BY HandleTypes DEF HandleParts, TypeInv, Shapes
  <1>3. /\ m \in Nat
        /\ \A e \in S : e.src = c /\ e.seq \in n + 1 .. n + m
    BY <1>2, SentCounted DEF TypeInv
  <1>4. /\ n \in Nat
        /\ \A b \in Comps : /\ sent[b] \in Nat /\ sent'[b] \in Nat /\ sent[b] <= sent'[b]
                            /\ b = c => sent'[b] = n + m
    BY <1>2, <1>3
  <1>5. \A p \in Places : \A e \in Held(p) : e \in Events
    BY HeldEvents
  <1>6. \A p \in Places : \A e \in Held(p) : e \notin S
    <2> SUFFICES ASSUME NEW p \in Places, NEW e \in Held(p), e \in S PROVE FALSE
      OBVIOUS
    <2>1. e.seq <= sent[e.src]
      BY DEF Counted
    <2> QED BY <1>3, <1>4, <2>1
  <1> HIDE DEF v, c, n, m
  <1>7. \A p \in Places : Held(p)' = (Held(p) \ {a}) \cup Put(x, S, p)
    <2>1. \A p \in Places \ {v} : a \notin Held(p)
      BY <1>1 DEF Apart
    <2> QED BY <1>1, <2>1
  <1>8. Apart'
    <2>1. ASSUME NEW p \in Places, NEW q \in Places, p # q PROVE Held(p)' \cap Held(q)' = {}
      <3> SUFFICES ASSUME NEW e, e \in Held(p)', e \in Held(q)' PROVE FALSE
        OBVIOUS
      <3>1. (e \in Held(p) \/ (e \in S /\ PlaceOf(x, e) = p))
            /\ (e \in Held(q) \/ (e \in S /\ PlaceOf(x, e) = q))
        BY <1>7 DEF Put
      <3> QED BY <1>6, <2>1, <3>1 DEF Apart
    <2> QED BY <2>1 DEF Apart
  <1>9. Counted'
    <2>1. ASSUME NEW p \in Places, NEW e \in Held(p)' PROVE e.seq <= sent'[e.src]
      <3>1. CASE e \in Held(p)
        <4>1. e.seq <= sent[e.src] /\ e \in Events
          BY <1>5, <3>1 DEF Counted
        <4>2. e.seq \in Nat /\ e.src \in Comps
          BY <4>1 DEF Events
        <4> QED BY <1>4, <4>1, <4>2
      <3>2. CASE e \in S
        <4>1. e.src = c /\ e.seq \in n + 1 .. n + m /\ e.src \in Comps
          BY <1>2, <1>3, <3>2 DEF Events
        <4>2. sent'[e.src] = n + m
          BY <1>4, <4>1
        <4> QED BY <1>3, <1>4, <4>1, <4>2
      <3> QED BY <1>7, <2>1, <3>1, <3>2 DEF Put
    <2> QED BY <2>1 DEF Counted
  <1>10. Away'
    <2>1. \A r \in Ranks : \A e \in rq'[r] : e \in rq[r] \/ Home[e.comp][1] # r
      BY HandleMoves
    <2> QED BY <2>1 DEF Away
  <1>11. /\ \A e : e \in Pending <=> \E p \in Places : e \in Held(p)
         /\ \A e : e \in Pending' <=> \E p \in Places : e \in Held(p)'
    BY PendingHeld, PendingHeldNext DEF PendingIsHeld
  <1>12. \A e : e \in Pending' <=> (e \in Pending /\ e # a) \/ e \in S
    <2>1. ASSUME NEW e, e \in Pending' PROVE (e \in Pending /\ e # a) \/ e \in S
      BY <1>7, <1>11, <2>1 DEF Put
    <2>2. ASSUME NEW e \in Pending, e # a PROVE e \in Pending'
      BY <1>7, <1>11, <2>2
    <2>3. ASSUME NEW e \in S PROVE e \in Pending'
      BY <1>1, <1>7, <1>11 DEF Put
    <2> QED BY <2>1, <2>2, <2>3
  <1>13. Pending' = (Pending \ {a}) \cup S
    BY <1>12
  <1> QED BY <1>1, <1>6, <1>8, <1>9, <1>10, <1>11, <1>13

----------------------------------------------------------------------------
(* Simulated time suffices.                                                *)

LEMMA Monotone ==
  ASSUME NEW s \in Nat, NEW m \in Nat, NEW n \in Nat, m <= n PROVE s * m <= s * n
  OBVIOUS

LEMMA OneMore ==
  ASSUME NEW s \in Nat, NEW m \in Nat PROVE s * (m + 1) = s * m + s
  OBVIOUS

LEMMA TwoMore ==
  ASSUME NEW s \in Nat, NEW m \in Nat PROVE (m + 2) * s = s * m + s + s
  OBVIOUS

LEMMA ConfigStays == [Next]_vars => config' = config
  <1> SUFFICES ASSUME [Next]_vars PROVE config' = config
    OBVIOUS
  <1>1. CASE UNCHANGED vars
    BY <1>1 DEF vars, compVars
  <1>2. ASSUME NEW x \in RankInfo, Handle(x) PROVE config' = config
    BY <1>2 DEF Handle
  <1>3. ASSUME NEW x \in RankInfo, ThreadStep(x), ~Handle(x) PROVE config' = config
    BY <1>3 DEF ThreadStep, Stop, Sync, LeaveLoop, Before, SendRank, ReceiveRank,
                ReceivedAll, After, EndOrNext, InsertNext, compVars
  <1>4. CASE Meeting \/ Finished
    BY <1>4 DEF Meeting, Barrier, ReduceNext, CheckRanks, FinalEndTime, Finished, vars, compVars
  <1> QED BY <1>1, <1>2, <1>3, <1>4 DEF Next

LEMMA SlotsCount ==
  ASSUME TypeInv
  PROVE  /\ IsFiniteSet(Slots) /\ Cardinality(Slots) \in Nat
         /\ Cardinality(Comps) * MaxSends \in Nat
         /\ Cardinality(Slots) <= Cardinality(Comps) * MaxSends
  <1> DEFINE A == Comps \X (1 .. MaxSends)
  <1>1. MaxSends \in Nat /\ IsFiniteSet(1 .. MaxSends) /\ Cardinality(1 .. MaxSends) = MaxSends
    BY SimAssumption, FS_Interval
  <1>2. IsFiniteSet(A) /\ Cardinality(A) = Cardinality(Comps) * Cardinality(1 .. MaxSends)
    BY <1>1, BaseAssumption, FS_Product
  <1>3. Slots \subseteq A
    BY DEF Slots
  <1> HIDE DEF A
  <1>4. IsFiniteSet(Slots) /\ Cardinality(Slots) <= Cardinality(A)
    BY <1>2, <1>3, FS_Subset
  <1>5. Cardinality(Slots) \in Nat /\ Cardinality(Comps) \in Nat /\ Cardinality(A) \in Nat
    BY <1>2, <1>4, BaseAssumption, FS_CardinalityType
  <1> QED BY <1>1, <1>2, <1>4, <1>5

LEMMA SlotsNext == TypeInv' => IsFiniteSet(Slots') /\ Cardinality(Slots') \in Nat
  <1> SUFFICES ASSUME TypeInv' PROVE IsFiniteSet(Slots') /\ Cardinality(Slots') \in Nat
    OBVIOUS
  <1> DEFINE A == Comps \X (1 .. MaxSends)
  <1>1. IsFiniteSet(1 .. MaxSends)
    BY SimAssumption, FS_Interval
  <1>2. IsFiniteSet(A)
    BY <1>1, BaseAssumption, FS_Product
  <1>3. Slots' \subseteq A
    BY DEF Slots
  <1> HIDE DEF A
  <1>4. IsFiniteSet(Slots')
    BY <1>2, <1>3, FS_Subset
  <1> QED BY <1>4, FS_CardinalityType

(* Who sends takes a slot at least. *)
LEMMA SlotsTaken ==
  ASSUME TypeInv, TypeInv', NEW x \in RankInfo, NEW a, NEW S, NEW own, HandleParts(x, a, S, own)
  PROVE  /\ Cardinality(Slots) <= Cardinality(Slots')
         /\ S # {} => Cardinality(Slots) + 1 <= Cardinality(Slots')
  <1> DEFINE c == a.comp
             n == sent[c]
             m == Cardinality(S)
             s == <<c, n + 1>>
  <1>1. c \in Comps /\ S \in Sends(c, a.time) /\ sent' = [sent EXCEPT ![c] = @ + m]
        /\ sent \in [Comps -> 0 .. MaxSends] /\ a.time \in SimTime
    BY HandleTypes DEF HandleParts, TypeInv, Shapes
  <1>2. /\ m \in Nat /\ n + m <= MaxSends
        /\ \A e \in S : e.seq \in n + 1 .. n + m
    BY <1>1, SentCounted DEF TypeInv
  <1>3. /\ n \in Nat /\ sent'[c] = n + m
        /\ \A b \in Comps : sent[b] \in Nat /\ (b # c => sent'[b] = sent[b])
    BY <1>1, <1>2
  <1>4. S # {} => m >= 1
    BY <1>2, <1>3
  <1>5. MaxSends \in Nat
    BY SimAssumption
  <1> HIDE DEF n, m, c
  <1>6. \A b \in Comps : sent[b] <= sent'[b]
    <2>1. ASSUME NEW b \in Comps PROVE sent[b] <= sent'[b]
      <3>1. CASE b = c
        BY <1>2, <1>3, <3>1 DEF n
      <3>2. CASE b # c
        BY <1>3, <3>2
      <3> QED BY <3>1, <3>2
    <2> QED BY <2>1
  <1>7. Slots \subseteq Slots'
    <2> SUFFICES ASSUME NEW u \in Slots PROVE u \in Slots'
      OBVIOUS
    <2>1. u[1] \in Comps /\ u[2] \in 1 .. MaxSends /\ u[2] <= sent[u[1]]
          /\ u \in Comps \X (1 .. MaxSends)
      BY DEF Slots
    <2>2. sent[u[1]] <= sent'[u[1]] /\ sent[u[1]] \in Nat /\ sent'[u[1]] \in Nat
      BY <1>3, <1>6, <2>1 DEF TypeInv, Shapes
    <2>3. u[2] <= sent'[u[1]]
      BY <2>1, <2>2
    <2> QED BY <2>1, <2>3 DEF Slots
  <1>8. s \notin Slots /\ (S # {} => s \in Slots')
    <2>1. ~(n + 1 <= n)
      BY <1>3
    <2>2. s \notin Slots
      BY <2>1 DEF Slots, n
    <2>3. ASSUME m >= 1 PROVE s \in Slots'
      <3>1. n + 1 \in 1 .. MaxSends /\ n + 1 <= n + m
        BY <1>2, <1>3, <1>5, <2>3
      <3> QED BY <1>1, <1>3, <3>1 DEF Slots, c
    <2> QED BY <1>4, <2>2, <2>3
  <1> HIDE DEF s
  <1>9. IsFiniteSet(Slots) /\ IsFiniteSet(Slots') /\ Cardinality(Slots') \in Nat
        /\ Cardinality(Slots) \in Nat
    BY SlotsCount, SlotsNext
  <1>10. Cardinality(Slots) <= Cardinality(Slots')
    BY <1>7, <1>9, FS_Subset
  <1>11. ASSUME S # {} PROVE Cardinality(Slots) + 1 <= Cardinality(Slots')
    <2>1. Slots \cup {s} \subseteq Slots'
      BY <1>7, <1>8, <1>11
    <2>2. IsFiniteSet(Slots \cup {s}) /\ Cardinality(Slots \cup {s}) = Cardinality(Slots) + 1
      BY <1>8, <1>9, FS_AddElement
    <2>3. Cardinality(Slots \cup {s}) <= Cardinality(Slots')
      BY <1>9, <2>1, FS_Subset
    <2> QED BY <2>2, <2>3
  <1> QED BY <1>10, <1>11

(* An event comes at most step cycles after the one it is sent from. *)
LEMMA SentSoon ==
  ASSUME TypeInv, InTime, Homes, NEW x \in RankInfo, NEW a, NEW S, NEW own,
         HandleParts(x, a, S, own), NEW e \in S,
         NEW first \in SimTime, NEW step \in SimTime, Fits(config, first, step)
  PROVE  e.time <= a.time + step
  <1> DEFINE t == a.time
             c == a.comp
  <1>1. /\ a \in Pending /\ Home[c] = x
        /\ t \in SimTime /\ t \in Nat /\ step \in Nat
    BY SentLate, HandleTypes, TimeBounds
  <1>2. \/ \E i : e \in Timers(c, t, i)
        \/ \E i : e \in Messages(c, t, i)
    BY DEF HandleParts, Sends
  <1>3. /\ \A l \in Latencies : \A d \in Delays : t + l + d <= MaxTime
        /\ \A d \in Periods : t + d <= MaxTime
        /\ Delays \subseteq Nat /\ Periods \subseteq Nat
        /\ \A l \in Latencies : l \in Nat
    BY <1>1, InTimeBounds
  <1>4. /\ \A l \in Latencies, d \in {0} \cup Delays : l + d <= step
        /\ \A d \in Periods : d <= step
    BY DEF Fits, Latencies, ThreadLat, RankLat
  <1>5. CASE \E i : e \in Timers(c, t, i)
    <2>1. PICK d \in Periods : e.time = Plus(t, d)
      BY <1>5 DEF Timers, EventTo, Activity
    <2>2. e.time = t + d /\ d \in Nat /\ d <= step
      BY <1>1, <1>3, <1>4, <2>1, NoWrap
    <2> QED BY <1>1, <2>2
  <1>6. CASE \E i : e \in Messages(c, t, i)
    <2>1. PICK b \in Comps, z \in Delays :
            Linked(c, b) /\ e.time = Plus(t, Latency(Home[c], Home[b]) + z)
      BY <1>6 DEF Messages, EventTo, Activity
    <2> DEFINE l == Latency(Home[c], Home[b])
    <2>2. l # MaxTime
      BY <2>1 DEF Linked
    <2>3. l \in Latencies
      BY <1>1, <2>2, Threads DEF Latency, Latencies
    <2>4. e.time = Plus(t, l + z)
      BY <2>1
    <2> HIDE DEF l
    <2>5. l \in Nat /\ z \in Nat /\ t + (l + z) <= MaxTime /\ l + z <= step
      BY <1>1, <1>3, <1>4, <2>1, <2>3
    <2>6. Plus(t, l + z) = t + (l + z)
      BY <1>1, <2>5, NoWrap
    <2> QED BY <1>1, <2>4, <2>5, <2>6
  <1> QED BY <1>2, <1>5, <1>6

(* While events are where the number of events sent allows, simulated time *)
(* does not overflow. *)
LEMMA SpreadInTime ==
  ASSUME TypeInv, Spread PROVE InTime
  <1>1. PICK first \in SimTime, step \in SimTime :
          Fits(config, first, step) /\ Within(first + step * Cardinality(Slots))
    BY DEF Spread
  <1> DEFINE n == Cardinality(Slots)
             m == Cardinality(Comps) * MaxSends
  <1>2. n \in Nat /\ m \in Nat /\ n <= m
    BY SlotsCount
  <1>3. first \in Nat /\ step \in Nat
    BY TimeBounds
  <1>4. first + (m + 2) * step <= MaxTime /\ Within(first + step * n)
    BY <1>1 DEF Fits
  <1> HIDE DEF n, m
  <1>5. step * n <= step * m /\ (m + 2) * step = step * m + step + step
        /\ step * n \in Nat /\ step * m \in Nat
    BY <1>2, <1>3, Monotone, TwoMore
  <1>6. \A e \in Pending : e.time \in Nat /\ e.time <= first + step * n
    <2> SUFFICES ASSUME NEW e \in Pending PROVE e.time \in Nat /\ e.time <= first + step * n
      OBVIOUS
    <2>1. PICK p \in Places : e \in Held(p)
      BY PendingHeld DEF PendingIsHeld
    <2>2. e.time \in SimTime
      BY <2>1, HeldEvents DEF Events
    <2> QED BY <1>4, <2>1, <2>2, TimeBounds DEF Within
  <1>7. \A e \in Pending : e.time + step + step <= MaxTime
    <2> SUFFICES ASSUME NEW e \in Pending PROVE e.time + step + step <= MaxTime
      OBVIOUS
    <2> DEFINE u == step * n
               v == step * m
    <2>1. u \in Nat /\ v \in Nat /\ u <= v /\ (m + 2) * step = v + step + step
          /\ e.time \in Nat /\ e.time <= first + u
      BY <1>5, <1>6
    <2>2. first + (v + step + step) <= MaxTime
      BY <1>4, <2>1
    <2> HIDE DEF u, v
    <2> QED BY <1>3, <2>1, <2>2, BaseAssumption
  <1>8. /\ \A l \in Latencies, d \in {0} \cup Delays : l + d <= step
        /\ \A d \in Periods : d <= step
    BY <1>1 DEF Fits, Latencies, ThreadLat, RankLat
  <1>9. /\ \A l \in Latencies : l \in Nat
        /\ {0} \cup Delays \subseteq Nat /\ Periods \subseteq Nat
    BY ConfigFacts, TimeBounds, SimAssumption DEF Latencies, TypeInv, CountInv
  <1>10. \A e \in Pending : \A k, l \in Latencies, d \in {0} \cup Delays : e.time + k + l + d <= MaxTime
    <2> SUFFICES ASSUME NEW e \in Pending, NEW k \in Latencies, NEW l \in Latencies,
                        NEW d \in {0} \cup Delays
                 PROVE  e.time + k + l + d <= MaxTime
      OBVIOUS
    <2>1. k + 0 <= step /\ l + d <= step
      BY <1>8
    <2>2. k \in Nat /\ l \in Nat /\ d \in Nat /\ e.time \in Nat /\ e.time + step + step <= MaxTime
      BY <1>6, <1>7, <1>9
    <2> QED BY <1>3, <2>1, <2>2, BaseAssumption
  <1>11. \A e \in Pending : \A d \in Periods : e.time + d <= MaxTime
    <2> SUFFICES ASSUME NEW e \in Pending, NEW d \in Periods PROVE e.time + d <= MaxTime
      OBVIOUS
    <2>1. d \in Nat /\ d <= step /\ e.time \in Nat /\ e.time + step + step <= MaxTime
      BY <1>6, <1>7, <1>8, <1>9
    <2> QED BY <1>3, <2>1, BaseAssumption
  <1> QED BY <1>10, <1>11 DEF InTime

(* What is sent keeps to that. *)
LEMMA SpreadHandle ==
  ASSUME SyncInv, TypeInv', Lookahead, Spread, NEW x \in RankInfo, Handle(x)
  PROVE  Spread'
  <1>1. PICK first \in SimTime, step \in SimTime :
          Fits(config, first, step) /\ Within(first + step * Cardinality(Slots))
    BY DEF Spread
  <1>2. PICK a, S, own : HandleParts(x, a, S, own)
    BY HandleHas
  <1>3. TypeInv /\ InTime /\ Homes
    BY SpreadInTime DEF SyncInv, Lookahead
  <1> DEFINE n == Cardinality(Slots)
             m == Cardinality(Slots')
  <1>4. n \in Nat /\ m \in Nat /\ n <= m /\ (S # {} => n + 1 <= m)
    BY <1>2, <1>3, SlotsCount, SlotsNext, SlotsTaken
  <1>5. first \in Nat /\ step \in Nat
    BY TimeBounds
  <1>6. Within(first + step * n)
    BY <1>1
  <1> HIDE DEF n, m
  <1>7. step * n \in Nat /\ step * m \in Nat /\ step * n <= step * m
        /\ (S # {} => step * n + step <= step * m)
    <2>1. step * n <= step * m
      BY <1>4, <1>5, Monotone
    <2>2. ASSUME S # {} PROVE step * n + step <= step * m
      <3>1. step * (n + 1) <= step * m /\ step * (n + 1) = step * n + step
        BY <1>4, <1>5, <2>2, Monotone, OneMore
      <3> QED BY <3>1
    <2> QED BY <1>4, <1>5, <2>1, <2>2
  <1>8. /\ a \in Held(Vortex(x)) /\ Vortex(x) \in Places
        /\ \A p \in Places : \A e \in Held(p)' : e \in Held(p) \/ e \in S
    <2>1. /\ a \in Held(Vortex(x))
          /\ Held(Vortex(x))' = (Held(Vortex(x)) \ {a}) \cup Put(x, S, Vortex(x))
          /\ \A p \in Places \ {Vortex(x)} : Held(p)' = Held(p) \cup Put(x, S, p)
      BY <1>2, <1>3, HandleMoves
    <2> QED BY <2>1, ThePlaces DEF Put
  <1>9. ASSUME NEW p \in Places, NEW e \in Held(p)' PROVE e.time <= first + step * m
    <2> DEFINE u == step * n
               v == step * m
    <2>1. u \in Nat /\ v \in Nat /\ u <= v /\ (S # {} => u + step <= v)
      BY <1>7
    <2>2. CASE e \in Held(p)
      <3>1. e.time <= first + u
        BY <1>6, <2>2 DEF Within
      <3>2. e.time \in Nat
        BY <1>3, <2>2, HeldEvents, TimeBounds DEF Events
      <3> HIDE DEF u, v
      <3>3. e.time <= first + v
        BY <1>5, <2>1, <3>1, <3>2
      <3> QED BY <3>3 DEF v
    <2>3. CASE e \in S
      <3>1. a.time <= first + u
        BY <1>6, <1>8 DEF Within
      <3>2. e.time <= a.time + step
        BY <1>1, <1>2, <1>3, <2>3, SentSoon
      <3>3. a.time \in Nat /\ e.time \in Nat
        BY <1>2, <1>3, <2>3, HandleTypes, TimeBounds DEF Events
      <3>4. u + step <= v
        BY <2>1, <2>3
      <3> HIDE DEF u, v
      <3>5. e.time <= first + v
        BY <1>5, <2>1, <3>1, <3>2, <3>3, <3>4
      <3> QED BY <3>5 DEF v
    <2> QED BY <1>8, <1>9, <2>2, <2>3
  <1>10. Within(first + step * Cardinality(Slots))'
    <2>1. \A p \in Places : \A e \in Held(p)' : e.time <= first + step * Cardinality(Slots')
      BY <1>9 DEF m
    <2> QED BY <2>1 DEF Within
  <1>11. config' = config
    BY <1>2 DEF HandleParts
  <1>12. Fits(config, first, step)'
    BY <1>1, <1>11 DEF Fits
  <1> QED BY <1>10, <1>12 DEF Spread

----------------------------------------------------------------------------
(* Where events are, and that there is time for them.                      *)

AllEmpty == \A p \in Places : Held(p) = {}

LEMMA NothingEmpty == Nothing => AllEmpty
  BY NothingHeld DEF AllEmpty

LEMMA NothingEmptyNext == Nothing' => AllEmpty'
  BY NothingEmpty, PTL

LEMMA NothingStays ==
  ASSUME TypeInv, Nothing, [Next]_vars PROVE Nothing' /\ Away' /\ Apart' /\ Counted'
  <1>1. ASSUME UNCHANGED vars PROVE Nothing'
    <2>1. UNCHANGED <<tv, tq, rq, net>>
      BY <1>1 DEF vars, queueVars
    <2> QED BY <2>1 DEF Nothing, EventsOf
  <1>2. Nothing'
    BY <1>1, IdleStays
  <1>3. AllEmpty'
    BY <1>2, NothingEmptyNext
  <1>4. Apart' /\ Counted'
    BY <1>3 DEF AllEmpty, Apart, Counted
  <1>5. Away'
    BY <1>2 DEF Nothing, Away
  <1> QED BY <1>2, <1>4, <1>5

LEMMA PlaceInvStep == SyncInv /\ PlaceInv /\ [Next]_vars => PlaceInv'
  <1> SUFFICES ASSUME SyncInv, PlaceInv, [Next]_vars PROVE PlaceInv'
    OBVIOUS
  <1>0. TypeInv /\ TypeInv' /\ Away /\ Apart /\ Counted
    BY SyncInvStep DEF SyncInv, PlaceInv
  <1>1. CASE Nothing
    BY <1>0, <1>1, NothingStays DEF PlaceInv, RoomInv
  <1>2. CASE Lookahead /\ Spread
    <2>1. LookInv'
      BY <1>0, <1>2, SpreadInTime, LookInvStep DEF LookInv
    <2>2. CASE \E x \in RankInfo : Handle(x)
      <3>1. PICK x \in RankInfo : Handle(x)
        BY <2>2
      <3>2. PICK a, S, own : HandleParts(x, a, S, own)
        BY <3>1, HandleHas
      <3>3. Away' /\ Apart' /\ Counted'
        BY <1>0, <3>2, HandleKeeps
      <3>4. Spread'
        BY <1>0, <1>2, <3>1, SpreadHandle
      <3> QED BY <2>1, <3>3, <3>4 DEF PlaceInv, RoomInv, LookInv
    <2>3. CASE ~ \E x \in RankInfo : Handle(x)
      <3>1. Relocates /\ (Apart => Apart') /\ Away' /\ sent' = sent
        BY <1>0, <1>2, <2>3, StepRelocates
      <3>2. config' = config
        BY ConfigStays
      <3>3. Counted'
        BY <1>0, <3>1 DEF Counted, Relocates
      <3>4. Spread'
        <4>1. PICK first \in SimTime, step \in SimTime :
                Fits(config, first, step) /\ Within(first + step * Cardinality(Slots))
          BY <1>2 DEF Spread
        <4>2. Slots' = Slots
          BY <3>1 DEF Slots
        <4>3. Fits(config, first, step)'
          BY <3>2, <4>1 DEF Fits
        <4>4. \A p \in Places : \A e \in Held(p)' : e.time <= first + step * Cardinality(Slots')
          BY <3>1, <4>1, <4>2 DEF Within, Relocates
        <4>5. Within(first + step * Cardinality(Slots))'
          BY <4>4 DEF Within
        <4> QED BY <4>3, <4>5 DEF Spread
      <3> QED BY <1>0, <2>1, <3>1, <3>3, <3>4 DEF PlaceInv, RoomInv, LookInv
    <2> QED BY <2>2, <2>3
  <1> QED BY <1>1, <1>2 DEF PlaceInv, RoomInv

(* The first events come by first. *)
LEMMA PlaceInvInit ==
  ASSUME Room PROVE Init => PlaceInv
  <1> SUFFICES ASSUME Init PROVE PlaceInv
    OBVIOUS
  <1>0. TypeInv
    BY SyncInvInit DEF SyncInv
  <1>1. LookInv
    BY LookInit
  <1>2. /\ \A x \in RankInfo : tq[x] = {}
        /\ \A r \in Ranks : rq[r] = {}
        /\ \A r \in Ranks, x \in RankInfo : net[r, x] = <<>>
    BY DEF Init
  <1>3. config \in Configs /\ Active \subseteq Comps
        /\ sent = [c \in Comps |-> IF c \in Active THEN 1 ELSE 0]
    BY ConfigFacts DEF Init
  <1>4. ASSUME NEW x \in RankInfo, NEW e \in EventsOf(x)
        PROVE  \E c \in Active \cap PlacedOn(x) : e = EventTo(c, config.start[c], c, 1)
    <2>1. e \in tv[x] /\ e.kind = "event"
      BY DEF EventsOf
    <2>2. \A b \in InitialStops(x) : b.kind = "stop"
      BY ActivityKinds DEF InitialStops
    <2>3. SyncAt(NextCycle(x[1], MinPart, ThreadLat(x[1]))).kind = "sync"
      BY ActivityKinds
    <2>4. \/ e \in InitialStops(x) \/ e = SyncAt(NextCycle(x[1], MinPart, ThreadLat(x[1])))
          \/ e \in {EventTo(c, config.start[c], c, 1) : c \in Active \cap PlacedOn(x)}
      BY <2>1 DEF Init
    <2> QED BY <2>1, <2>2, <2>3, <2>4
  <1>5. \A r \in Ranks, x \in RankInfo : OnWire(r, x) = {}
    BY <1>2, ContentsOf DEF OnWire
  <1>6. /\ \A x \in RankInfo : Held(Vortex(x)) = EventsOf(x) /\ Held(ThreadQueue(x)) = {}
        /\ \A r \in Ranks : Held(RankQueue(r)) = {}
        /\ \A r \in Ranks, x \in RankInfo : Held(Wire(r, x)) = {}
    <2>1. Parts
      BY HeldParts
    <2>2. \A x \in RankInfo : Held(Vortex(x)) = EventsOf(x) /\ Held(ThreadQueue(x)) = tq[x]
      BY <2>1 DEF Parts
    <2>3. \A r \in Ranks : Held(RankQueue(r)) = rq[r]
      BY <2>1 DEF Parts
    <2>4. \A r \in Ranks, x \in RankInfo : Held(Wire(r, x)) = OnWire(r, x)
      BY <2>1 DEF Parts
    <2>5. \A x \in RankInfo : Held(ThreadQueue(x)) = {}
      BY <1>2, <2>2
    <2>6. \A r \in Ranks : Held(RankQueue(r)) = {}
      BY <1>2, <2>3
    <2>7. \A r \in Ranks, x \in RankInfo : Held(Wire(r, x)) = {}
      BY <1>5, <2>4
    <2> QED BY <2>2, <2>5, <2>6, <2>7
  <1>7. Away
    BY <1>2 DEF Away
  <1>8. Apart
    <2>1. \A x, y \in RankInfo : x # y => EventsOf(x) \cap EventsOf(y) = {}
      <3> SUFFICES ASSUME NEW x \in RankInfo, NEW y \in RankInfo, x # y,
                          NEW e \in EventsOf(x), e \in EventsOf(y)
                   PROVE  FALSE
        OBVIOUS
      <3>1. e.comp \in PlacedOn(x) /\ e.comp \in PlacedOn(y)
        BY <1>4 DEF EventTo, Activity
      <3> QED BY <3>1 DEF PlacedOn
    <2>2. \A p \in Places : Held(p) = {} \/ \E x \in RankInfo : p = Vortex(x)
      BY <1>6, ThePlaces
    <2> QED BY <1>6, <2>1, <2>2 DEF Apart
  <1>9. Counted
    <2>1. ASSUME NEW x \in RankInfo, NEW e \in EventsOf(x) PROVE e.seq <= sent[e.src]
      <3>1. PICK c \in Active \cap PlacedOn(x) : e = EventTo(c, config.start[c], c, 1)
        BY <1>4
      <3>2. e.seq = 1 /\ e.src = c /\ sent[c] = 1
        BY <1>3, <3>1 DEF EventTo, Activity
      <3> QED BY <3>2
    <2> QED BY <1>6, <2>1, ThePlaces DEF Counted
  <1>10. Spread
    <2>1. PICK first \in SimTime, step \in SimTime : Fits(config, first, step)
      BY <1>3 DEF Room
    <2> DEFINE n == Cardinality(Slots)
    <2>2. n \in Nat /\ first \in Nat /\ step \in Nat
      BY <1>0, SlotsCount, TimeBounds
    <2> HIDE DEF n
    <2>3. step * n \in Nat
      BY <2>2
    <2>4. ASSUME NEW x \in RankInfo, NEW e \in EventsOf(x) PROVE e.time <= first + step * n
      <3>1. PICK c \in Active : e = EventTo(c, config.start[c], c, 1)
        BY <1>4
      <3>2. e.time = config.start[c] /\ config.start[c] <= first
        BY <2>1, <3>1 DEF EventTo, Activity, Fits, Active
      <3>3. config.start[c] \in Nat
        BY <1>3, ConfigFacts, TimeBounds
      <3> DEFINE u == step * n
      <3>4. u \in Nat
        BY <2>3
      <3> HIDE DEF u
      <3>5. e.time <= first + u
        BY <2>2, <3>2, <3>3, <3>4
      <3> QED BY <3>5 DEF u
    <2>5. Within(first + step * n)
      BY <1>6, <2>4, ThePlaces DEF Within
    <2> QED BY <2>1, <2>5 DEF Spread, n
  <1> QED BY <1>1, <1>7, <1>8, <1>9, <1>10 DEF PlaceInv, RoomInv, LookInv

(* Where there is room in simulated time for what the components may send, *)
(* no thread's clock overtakes an event that is on its way to it           *)
(* (threadSyncSimpleSkip.cc:109, rankSyncSerialSkip.cc:210,                *)
(* rankSyncParallelSkip.cc:213).                                           *)
THEOREM NeverOvertaken == ASSUME Room PROVE Spec => []NoStraggler
  <1>1. Init => PlaceInv
    BY PlaceInvInit
  <1>2. PlaceInv => LookInv
    BY DEF PlaceInv, RoomInv, LookInv
  <1>3. Spec => []PlaceInv
    BY <1>1, PlaceInvStep, SyncInvariance, PTL DEF Spec
  <1> QED BY <1>2, <1>3, SyncInvariance, NothingLate, PTL

----------------------------------------------------------------------------
(* Who holds the simulation open has an event to come.                     *)

(* Nothing but its component takes an event out of a vortex, or changes    *)
(* who holds the simulation open. *)
LEMMA StepKeeps ==
  ASSUME SyncInv, RoomInv, [Next]_vars, ~ \E x \in RankInfo : Handle(x)
  PROVE  /\ \A x \in RankInfo : \A e \in EventsOf(x) : e \in EventsOf(x)'
         /\ idSet' = idSet /\ refCount' = refCount /\ sent' = sent
  <1>0. TypeInv
    BY DEF SyncInv
  <1>1. ASSUME NEW x \in RankInfo, ThreadStep(x)
        PROVE  idSet' = idSet /\ refCount' = refCount /\ sent' = sent
    BY <1>1 DEF ThreadStep, Stop, SetEndTime, Sync, LeaveLoop, Before, SendRank, ReceiveRank,
                ReceivedAll, After, EndOrNext, InsertNext, compVars, exitVars
  <1>2. idSet' = idSet /\ refCount' = refCount /\ sent' = sent
    BY <1>1 DEF Next, Meeting, Barrier, ReduceNext, CheckRanks, CheckExit, FinalEndTime, Finished,
                vars, compVars, exitVars
  <1>3. CASE Nothing
    BY <1>2, <1>3 DEF Nothing
  <1>4. CASE Lookahead
    <2>1. ASSUME NEW x \in RankInfo, ThreadStep(x)
          PROVE  \A y \in RankInfo : \A e \in EventsOf(y) : e \in EventsOf(y)'
      <3>1. CASE \/ Stop(x) \/ Sync(x) \/ LeaveLoop(x) \/ ReceivedAll(x) \/ After(x)
                 \/ EndOrNext(x) \/ InsertNext(x)
        BY <1>0, <3>1, QuietEvents DEF KeepsEvents
      <3>2. CASE Before(x)
        BY <1>4, <3>2, BeforeMoves
      <3>3. CASE SendRank(x)
        <4>1. tv' = tv
          BY <3>3 DEF SendRank
        <4> QED BY <4>1 DEF EventsOf
      <3>4. CASE \E r \in Ranks : ReceiveRank(x, r)
        BY <1>4, <3>4, ReceiveRankWires
      <3> QED BY <2>1, <3>1, <3>2, <3>3, <3>4 DEF ThreadStep
    <2>2. ASSUME Meeting \/ Finished \/ UNCHANGED vars PROVE tv' = tv
      BY <2>2 DEF Meeting, Barrier, ReduceNext, CheckRanks, FinalEndTime, Finished, vars
    <2>3. ASSUME tv' = tv PROVE \A y \in RankInfo : \A e \in EventsOf(y) : e \in EventsOf(y)'
      BY <2>3 DEF EventsOf
    <2> QED BY <1>2, <2>1, <2>2, <2>3 DEF Next
  <1> QED BY <1>3, <1>4 DEF RoomInv

LEMMA HandleOpen ==
  ASSUME NEW x \in RankInfo, Handle(x)
  PROVE  \E a, S, own :
           /\ HandleParts(x, a, S, own)
           /\ a.comp \in idSet'[x[1]] => SelfPending(a.comp, (tv[x] \ {a}) \cup S)
  <1>1. PICK a \in Earliest(tv[x]), say \in {"nothing", "ok", "open"} :
          /\ a.kind = "event" /\ Pop(x, a)
          /\ \E S \in Sends(a.comp, a.time) :
               /\ \/ /\ say = "nothing"
                     /\ UNCHANGED <<exitVars, okAt>>
                     /\ SendAll(x, S, tv[x] \ {a})
                  \/ /\ say = "ok" /\ a.comp \in Primary \cup Reopening
                     /\ RefDec(a.comp, a.time)
                     /\ okAt' = [okAt EXCEPT ![a.comp] = IF a.comp \in idSet[x[1]] THEN a.time ELSE @]
                     /\ SendAll(x, S, AfterOK(tv[x] \ {a}, a.comp, a.time))
                  \/ /\ say = "open" /\ a.comp \in Reopening
                     /\ RefInc(a.comp)
                     /\ UNCHANGED okAt
                     /\ SendAll(x, S, tv[x] \ {a})
               /\ a.comp \in idSet'[x[1]] => SelfPending(a.comp, (tv[x] \ {a}) \cup S)
               /\ sent' = [sent EXCEPT ![a.comp] = @ + Cardinality(S)]
          /\ UNCHANGED <<pc, back, syncVars, net, got, endVars, config>>
    BY ZenonT(60) DEF Handle
  <1>2. PICK S \in Sends(a.comp, a.time) :
          /\ \/ /\ UNCHANGED <<exitVars, okAt>>
                /\ SendAll(x, S, tv[x] \ {a})
             \/ /\ RefDec(a.comp, a.time)
                /\ okAt' = [okAt EXCEPT ![a.comp] = IF a.comp \in idSet[x[1]] THEN a.time ELSE @]
                /\ SendAll(x, S, AfterOK(tv[x] \ {a}, a.comp, a.time))
             \/ /\ RefInc(a.comp)
                /\ UNCHANGED okAt
                /\ SendAll(x, S, tv[x] \ {a})
          /\ a.comp \in idSet'[x[1]] => SelfPending(a.comp, (tv[x] \ {a}) \cup S)
          /\ sent' = [sent EXCEPT ![a.comp] = @ + Cardinality(S)]
    BY <1>1
  <1>3. AfterOK(tv[x] \ {a}, a.comp, a.time)
          \in {tv[x] \ {a}, (tv[x] \ {a}) \cup {StopAt(a.time)}}
    BY DEF AfterOK
  <1>4. CASE SendAll(x, S, tv[x] \ {a})
    BY <1>1, <1>2, <1>3, <1>4 DEF HandleParts
  <1>5. CASE /\ RefDec(a.comp, a.time)
             /\ okAt' = [okAt EXCEPT ![a.comp] = IF a.comp \in idSet[x[1]] THEN a.time ELSE @]
             /\ SendAll(x, S, AfterOK(tv[x] \ {a}, a.comp, a.time))
    BY <1>1, <1>2, <1>3, <1>5 DEF HandleParts
  <1> QED BY <1>2, <1>4, <1>5

(* Only who handles an event may say otherwise. *)
LEMMA OthersSay ==
  ASSUME CountInv, NEW c \in Comps, NEW t,
         RefDec(c, t) \/ RefInc(c) \/ UNCHANGED exitVars
  PROVE  /\ \A d \in Comps \ {c}, r \in Ranks : d \in idSet'[r] <=> d \in idSet[r]
         /\ \A r \in Ranks : r # Home[c][1] => refCount'[r] = refCount[r]
         /\ globalCount' = globalCount
  BY HomeOf DEF RefDec, RefInc, CountInv, Placement, exitVars

LEMMA HeldOpenStep ==
  ASSUME SyncInv, TypeInv', RoomInv, HeldOpen, [Next]_vars PROVE HeldOpen'
  <1>0. TypeInv
    BY DEF SyncInv
  <1>1. CASE ~ \E x \in RankInfo : Handle(x)
    <2>1. /\ \A x \in RankInfo : \A e \in EventsOf(x) : e \in EventsOf(x)'
          /\ idSet' = idSet
      BY <1>1, StepKeeps
    <2>2. \A c \in Comps : Home[c] \in RankInfo
      BY BaseAssumption
    <2> QED BY <2>1, <2>2 DEF HeldOpen
  <1>2. ASSUME NEW x \in RankInfo, Handle(x) PROVE HeldOpen'
    <2>1. PICK a, S, own :
            /\ HandleParts(x, a, S, own)
            /\ a.comp \in idSet'[x[1]] => SelfPending(a.comp, (tv[x] \ {a}) \cup S)
      BY <1>2, HandleOpen
    <2>2. /\ a \in EventsOf(x)
          /\ Held(Vortex(x))' = (Held(Vortex(x)) \ {a}) \cup Put(x, S, Vortex(x))
          /\ \A p \in Places \ {Vortex(x)} : Held(p)' = Held(p) \cup Put(x, S, p)
      BY <1>0, <2>1, HandleMoves
    <2>3. /\ EventsOf(x)' = (EventsOf(x) \ {a}) \cup Put(x, S, Vortex(x))
          /\ \A y \in RankInfo : y # x => \A e \in EventsOf(y) : e \in EventsOf(y)'
      BY <2>2, HeldParts, HeldNext, ThePlaces, DifferentPlaces DEF Parts
    <2>4. a \in Events /\ a.comp \in Comps /\ a.time \in SimTime /\ S \in SUBSET Events
      BY <1>0, <2>1, HandleTypes
    <2>5. Lookahead
      BY <2>2 DEF RoomInv, Nothing
    <2>6. Home[a.comp] = x
      BY <2>2, <2>5 DEF Lookahead, Homes
    <2>7. \A d \in Comps \ {a.comp}, r \in Ranks : d \in idSet'[r] <=> d \in idSet[r]
      BY <1>0, <2>1, <2>4, OthersSay DEF HandleParts, TypeInv
    <2> SUFFICES ASSUME NEW c \in Comps, c \in idSet'[Home[c][1]]
                 PROVE  \E e \in EventsOf(Home[c])' : e.comp = c /\ e.src = c
      BY DEF HeldOpen
    <2>8. CASE c # a.comp
      <3>1. Home[c] \in RankInfo /\ Home[c][1] \in Ranks
        BY BaseAssumption, Threads
      <3>2. PICK e \in EventsOf(Home[c]) : e.comp = c /\ e.src = c
        BY <2>7, <2>8, <3>1 DEF HeldOpen
      <3>3. e \in EventsOf(Home[c])'
        BY <2>3, <2>8, <3>1, <3>2
      <3> QED BY <3>2, <3>3
    <2>9. CASE c = a.comp
      <3>1. PICK e \in (tv[x] \ {a}) \cup S : e.kind = "event" /\ e.comp = c /\ e.src = c
        BY <2>1, <2>6, <2>9 DEF SelfPending
      <3>2. e \in S => e \in Put(x, S, Vortex(x))
        BY <2>6, <2>9, <3>1 DEF Put, PlaceOf, Route
      <3>3. e \in EventsOf(x)'
        BY <2>3, <3>1, <3>2 DEF EventsOf
      <3> QED BY <2>6, <2>9, <3>1, <3>3
    <2> QED BY <2>8, <2>9
  <1> QED BY <1>1, <1>2

(* A rank that is held open has an event to come. *)
LEMMA HeldBusy ==
  ASSUME CountInv, HeldOpen, NEW r \in Ranks, refCount[r] # 0
  PROVE  Busy(r) /\ ~Nothing
  <1>1. refCount[r] = Cardinality(idSet[r]) /\ idSet[r] \subseteq PlacedIn(r)
    BY DEF CountInv, Placement, CountsMatch
  <1>2. idSet[r] # {}
    BY <1>1, FS_EmptySet
  <1>3. PICK c \in idSet[r] : c \in Comps /\ Home[c][1] = r
    BY <1>1, <1>2 DEF PlacedIn
  <1>4. EventsOf(Home[c]) # {}
    BY <1>3 DEF HeldOpen
  <1>5. Home[c] \in RankInfo /\ Home[c] \in ThreadsOf(r)
    BY <1>3, HomeOf DEF ThreadsOf
  <1> QED BY <1>4, <1>5 DEF Busy, Nothing

(* Who holds the simulation open from the start has been given an event. *)
LEMMA HeldOpenInit ==
  ASSUME Occupied PROVE Init => HeldOpen
  <1> SUFFICES ASSUME Init, NEW c \in Comps, c \in idSet[Home[c][1]]
               PROVE  \E e \in EventsOf(Home[c]) : e.comp = c /\ e.src = c
    BY DEF HeldOpen
  <1>1. Home[c] \in RankInfo /\ Home[c][1] \in Ranks /\ c \in PlacedOn(Home[c])
    BY HomeOf
  <1>2. c \in Primary
    BY <1>1 DEF Init, ExitInit
  <1>3. c \in Active
    BY <1>2 DEF Init, Occupied, Primary, Active
  <1> DEFINE e == EventTo(c, config.start[c], c, 1)
  <1>4. e \in tv[Home[c]]
    BY <1>1, <1>3 DEF Init
  <1>5. e.kind = "event" /\ e.comp = c /\ e.src = c
    BY DEF EventTo, Activity
  <1> QED BY <1>4, <1>5 DEF EventsOf

----------------------------------------------------------------------------
(* No clock goes past the next sync, or a stop.                            *)

(* A time that is no later than either of two syncs. *)
LEMMA NotPast ==
  ASSUME NEW r, NEW t \in SimTime, NEW rn \in SimTime, NEW tn \in SimTime, t <= rn,
         IF Direct /\ ThreadLat(r) # MaxTime THEN t < tn ELSE t <= tn
  PROVE  t <= NextCycle(r, rn, tn)
  <1>1. t \in Int /\ tn \in Int /\ 0 <= t
    BY TimeBounds
  <1>2. t <= ThreadNextSync(r, tn)
    <2>1. CASE Direct /\ ThreadLat(r) # MaxTime
      <3>1. tn > 0 /\ t < tn
        BY <1>1, <2>1
      <3>2. ThreadNextSync(r, tn) = tn - 1
        BY <2>1, <3>1, ThreadSyncTime
      <3> QED BY <1>1, <3>1, <3>2
    <2>2. CASE ~(Direct /\ ThreadLat(r) # MaxTime)
      BY <2>2, ThreadSyncTime
    <2> QED BY <2>1, <2>2
  <1> QED BY <1>2 DEF NextCycle

(* Where the times of the syncs and the clock stay. *)
LEMMA StillForward ==
  ASSUME NEW x \in RankInfo, Forward(x), UNCHANGED <<config, rankNext>>,
         now'[x] = now[x], threadNext'[x] = threadNext[x], endSim[x] => endSim'[x],
         \A a \in tv'[x] : a.kind = "stop" => a \in tv[x],
         Post(x)' => Post(x),
         ~endSim'[x] => /\ Going(x)' => Going(x)
                        /\ Fresh(x)' => Fresh(x) \/ Going(x)
                        /\ syncType'[x] = syncType[x] \/ ThreadsOnly(x)'
  PROVE  Forward(x)'
  <1>1. Direct' = Direct /\ (\A rk : ThreadLat(rk)' = ThreadLat(rk)) /\ RankLat' = RankLat
        /\ NextSync(x)' = NextSync(x)
    BY SameConfig, SameNextSync
  <1>2. StopsAhead(x)'
    BY DEF Forward, StopsAhead
  <1>3. DirectNext(x)'
    BY <1>1 DEF Forward, DirectNext, Plus
  <1>4. SyncAhead(x)' = SyncAhead(x)
    BY <1>1 DEF SyncAhead
  <1>5. NextFits(x)' = NextFits(x)
    BY <1>1 DEF NextFits
  <1>6. syncType'[x] = syncType[x] /\ ThreadsOnly(x) => ThreadsOnly(x)'
    BY <1>1 DEF ThreadsOnly
  <1> QED BY <1>2, <1>3, <1>4, <1>5, <1>6 DEF Forward

(* Whether a rank goes on does not change while it is not running. *)
LEMMA ThreadCounts ==
  ASSUME SyncInv, RoomInv, NEW x \in RankInfo, ThreadStep(x)
  PROVE  /\ globalCount' = globalCount
         /\ \A r \in Ranks : refCount'[r] = refCount[r] \/ (r = x[1] /\ Handle(x))
  <1>1. CASE ~Handle(x)
    BY <1>1 DEF ThreadStep, Stop, SetEndTime, Sync, LeaveLoop, Before, SendRank, ReceiveRank,
                ReceivedAll, After, EndOrNext, InsertNext, exitVars
  <1>2. CASE Handle(x)
    <2>0. TypeInv
      BY DEF SyncInv
    <2>1. PICK a, S, own : HandleParts(x, a, S, own)
      BY <1>2, HandleHas
    <2>2. a.comp \in Comps /\ a \in EventsOf(x)
      <3>1. a \in tv[x] /\ a.kind = "event"
        BY <2>0, <2>1, Popped DEF HandleParts
      <3> QED BY <2>0, <2>1, <3>1, HandleTypes DEF EventsOf
    <2>3. Home[a.comp] = x
      BY <2>2 DEF RoomInv, Nothing, Lookahead, Homes
    <2> QED BY <1>2, <2>0, <2>1, <2>2, <2>3, OthersSay DEF HandleParts, TypeInv
  <1> QED BY <1>1, <1>2

LEMMA GoingStays ==
  ASSUME NEW y \in RankInfo, UNCHANGED <<config, globalCount>>,
         pc'[y] = pc[y], syncType'[y] = syncType[y],
         pc'[Master(y[1])] = "R4" => pc[Master(y[1])] = "R4",
         pc[y] \in {"R4", "end"} => refCount'[y[1]] = refCount[y[1]],
         Going(y)'
  PROVE  Going(y)
  <1>1. MinPart' = MinPart
    BY SameConfig
  <1>2. Master(y[1])' = Master(y[1])
    BY DEF Master
  <1>3. pc[y] \in {"R4", "end"} => Over(y)' = Over(y)
    BY <1>1 DEF Over
  <1>4. CASE pc[y] \in {"R4", "end"}
    BY <1>2, <1>3, <1>4 DEF Going
  <1>5. CASE pc[y] \notin {"R4", "end"}
    BY <1>1, <1>5 DEF Going
  <1> QED BY <1>4, <1>5

(* What one thread does the others do not notice. *)
LEMMA OthersForward ==
  ASSUME SyncInv, RoomInv, NEW x \in RankInfo, ThreadStep(x), NEW y \in RankInfo, y # x, Forward(y)
  PROVE  Forward(y)'
  <1>0. TypeInv
    BY DEF SyncInv
  <1>1. OthersKeep(x) /\ Effect(x)
    BY ThreadEffect
  <1>2. /\ UNCHANGED <<config, rankNext>>
        /\ pc'[y] = pc[y] /\ back'[y] = back[y] /\ syncType'[y] = syncType[y]
        /\ threadNext'[y] = threadNext[y] /\ now'[y] = now[y] /\ endSim'[y] = endSim[y]
    BY <1>1 DEF OthersKeep
  <1>3. Fresh(y)' = Fresh(y)
    BY <1>1, SameReduced
  <1>4. \A a \in tv'[y] : a.kind = "stop" => a \in tv[y]
    <2>1. CASE Handle(x)
      <3>1. PICK a, S, own : HandleParts(x, a, S, own)
        BY <2>1, HandleHas
      <3>2. S \in SUBSET Events /\ own \in SUBSET Activities /\ SendAll(x, S, own)
        BY <1>0, <3>1, HandleTypes DEF HandleParts
      <3>3. \A b \in tv'[y] : b \in tv[y] \/ b \in S
        BY <1>0, <3>2, SendAllTypes DEF TypeInv
      <3> QED BY <3>2, <3>3, ActivityKinds
    <2>2. CASE Stop(x) \/ Sync(x) \/ LeaveLoop(x)
      BY <1>0, <2>2 DEF Stop, Sync, LeaveLoop, TypeInv, Shapes
    <2>3. CASE pc[x] # "run"
      BY <1>1, <2>3 DEF OthersKeep
    <2>4. Handle(x) \/ Stop(x) \/ Sync(x) \/ LeaveLoop(x) \/ pc[x] # "run"
      BY DEF ThreadStep, Before, SendRank, ReceiveRank, ReceivedAll, After, EndOrNext, InsertNext
    <2> QED BY <2>1, <2>2, <2>3, <2>4
  <1>5. pc'[Master(y[1])] = "R4" => pc[Master(y[1])] = "R4"
    <2>1. pc'[x] # "R4"
      <3>1. syncType[x] \in {"RANK", "THREAD"}
        BY <1>0 DEF TypeInv, Shapes
      <3> QED BY <1>1, <3>1 DEF Effect, Runs, Finishes, Begins, Moves, FindsNext, Inserts
    <2>2. Master(y[1]) \in RankInfo
      BY Threads
    <2> QED BY <1>1, <2>1, <2>2 DEF OthersKeep
  <1>6. pc[y] \in {"R4", "end"} => refCount'[y[1]] = refCount[y[1]]
    <2>1. CASE Handle(x) /\ x[1] = y[1]
      <3>1. Phase(x) = "run"
        BY <2>1, PhaseAt DEF Handle, Pop
      <3>2. Phase(y) = "run"
        BY <2>1, <3>1 DEF SyncInv, Lockstep
      <3> QED BY <3>2, PhaseAt
    <2>2. CASE ~(Handle(x) /\ x[1] = y[1])
      BY <2>2, ThreadCounts, Threads
    <2> QED BY <2>1, <2>2
  <1>7. globalCount' = globalCount
    BY ThreadCounts
  <1>8. Going(y)' => Going(y)
    BY <1>2, <1>5, <1>6, <1>7, GoingStays
  <1>9. Post(y)' => Post(y)
    BY <1>2 DEF Post
  <1> QED BY <1>2, <1>3, <1>4, <1>8, <1>9, StillForward

(* A component handles an event, which is due before the next sync. *)
LEMMA HandleForward ==
  ASSUME SyncInv, RoomInv, NEW x \in RankInfo, Handle(x), Forward(x) PROVE Forward(x)'
  <1>0. TypeInv
    BY DEF SyncInv
  <1>1. PICK a, S, own : HandleParts(x, a, S, own)
    BY HandleHas
  <1>2. /\ S \in SUBSET Events /\ own \in SUBSET Activities /\ SendAll(x, S, own)
        /\ own \in {tv[x] \ {a}, (tv[x] \ {a}) \cup {StopAt(a.time)}}
        /\ a \in Earliest(tv[x]) /\ a.kind = "event" /\ Pop(x, a) /\ a.time \in SimTime
        /\ UNCHANGED <<pc, syncType, threadNext, rankNext, endSim, config>>
    BY <1>0, <1>1, HandleTypes DEF HandleParts, syncVars, endVars
  <1>3. a \in EventsOf(x) /\ pc[x] = "run" /\ ~endSim[x]
    BY <1>0, <1>2, Popped DEF EventsOf
  <1>4. Lookahead
    BY <1>3 DEF RoomInv, Nothing
  <1>5. Busy(x[1])
    BY <1>3 DEF Busy, ThreadsOf
  <1>6. /\ \A b \in tv[x] : a.time <= b.time
        /\ now'[x] = a.time /\ a.time <= NextSync(x)
        /\ Direct /\ ThreadLat(x[1]) # MaxTime => a.time < threadNext[x]
    BY <1>2, <1>4, <1>5, PopTimes DEF Lookahead
  <1>7. Direct' = Direct /\ (\A rk : ThreadLat(rk)' = ThreadLat(rk)) /\ RankLat' = RankLat
        /\ NextSync(x)' = NextSync(x)
    BY <1>2, SameConfig, SameNextSync
  <1>8. StopsAhead(x)'
    <2> SUFFICES ASSUME NEW b \in tv'[x], b.kind = "stop" PROVE a.time <= b.time
      BY <1>6 DEF StopsAhead
    <2>1. b \in own \/ b \in S
      BY <1>0, <1>2, SendAllTypes DEF TypeInv
    <2>2. b \in tv[x] \/ b = StopAt(a.time)
      BY <1>2, <2>1, ActivityKinds
    <2>3. StopAt(a.time).time = a.time /\ a.time <= a.time
      BY <1>2, ActivityKinds, TimeBounds
    <2> QED BY <1>6, <2>2, <2>3
  <1>9. SyncAhead(x)'
    BY <1>2, <1>6, <1>7 DEF SyncAhead
  <1>10. NextFits(x)' /\ ThreadsOnly(x)'
    <2>1. Going(x)
      BY <1>3 DEF Going
    <2> QED BY <1>2, <1>3, <1>7, <2>1 DEF Forward, NextFits, ThreadsOnly
  <1>11. DirectNext(x)'
    BY <1>2, <1>3 DEF DirectNext, Post
  <1> QED BY <1>8, <1>9, <1>10, <1>11 DEF Forward

(* A thread stops, or begins the sync that is the next to come. *)
LEMMA PopForward ==
  ASSUME SyncInv, NEW x \in RankInfo, Stop(x) \/ Sync(x), Forward(x) PROVE Forward(x)'
  <1>0. TypeInv
    BY DEF SyncInv
  <1>1. PICK a \in Earliest(tv[x]) :
          /\ Pop(x, a) /\ tv' = [tv EXCEPT ![x] = @ \ {a}]
          /\ UNCHANGED <<syncType, threadNext, rankNext, config>>
    BY DEF Stop, Sync, syncVars, compVars
  <1>2. /\ \A b \in tv[x] : a.time <= b.time
        /\ now'[x] = a.time /\ pc[x] = "run" /\ ~endSim[x]
    BY <1>0, <1>1, Popped
  <1>3. StopsAhead(x)'
    BY <1>0, <1>1, <1>2 DEF StopsAhead, TypeInv, Shapes
  <1>4. Direct' = Direct /\ (\A rk : ThreadLat(rk)' = ThreadLat(rk)) /\ RankLat' = RankLat
    BY <1>1, SameConfig
  <1>5. NextFits(x)' /\ ThreadsOnly(x)'
    <2>1. Going(x)
      BY <1>2 DEF Going
    <2> QED BY <1>1, <1>2, <1>4, <2>1 DEF Forward, NextFits, ThreadsOnly
  <1>6. CASE Stop(x)
    <2>1. Finishes(x, "run")
      BY <1>0, <1>6, StopEffect
    <2>2. ~Post(x)' /\ endSim'[x]
      BY <2>1 DEF Finishes, Post
    <2> QED BY <1>3, <2>2 DEF Forward, DirectNext
  <1>7. CASE Sync(x)
    <2>1. pc'[x] \in {"R0", "after", "T0"}
      BY <1>0, <1>7 DEF Sync, TypeInv, Shapes
    <2>2. ~Post(x)' /\ ~Going(x)'
      BY <2>1 DEF Post, Going
    <2> QED BY <1>3, <1>5, <2>2 DEF Forward, DirectNext
  <1> QED BY <1>6, <1>7

(* A thread goes on in a sync, or leaves the loop. *)
LEMMA MoveForward ==
  ASSUME SyncInv, NEW x \in RankInfo, Forward(x),
         \/ LeaveLoop(x) \/ Before(x) \/ SendRank(x) \/ (\E r \in Ranks : ReceiveRank(x, r))
         \/ ReceivedAll(x)
  PROVE  Forward(x)'
  <1>0. TypeInv
    BY DEF SyncInv
  <1>1. OthersKeep(x) /\ Moves(x)
    BY <1>0, MoveEffect
  <1>2. /\ UNCHANGED <<config, rankNext>> /\ now'[x] = now[x] /\ threadNext'[x] = threadNext[x]
        /\ endSim'[x] = endSim[x] /\ syncType'[x] = syncType[x]
    BY <1>1 DEF OthersKeep, Moves, KeepsAll, KeepsNow, KeepsSync, KeepsNext, KeepsLoop
  <1>3. \/ pc[x] = "run" /\ pc'[x] = "runB" /\ endSim[x]
        \/ pc[x] \in {"before", "xSend", "xRecv"}
           /\ pc'[x] \in {"R1", "T1", "xRecv", "xReduce", "xDone"}
    <2>1. pc[x] # "end"
      BY DEF LeaveLoop, Before, SendRank, ReceiveRank, ReceivedAll
    <2> QED BY <1>1, <2>1 DEF Moves
  <1>4. ~Post(x)' /\ ~Going(x)'
    BY <1>3 DEF Post, Going
  <1>5. ~endSim'[x] => Fresh(x)
    BY <1>2, <1>3 DEF Fresh, Exchanging
  <1>6. ASSUME NEW S \in SUBSET Events, tv' = [tv EXCEPT ![x] = @ \cup Delivered(S, now[x])]
        PROVE  \A a \in tv'[x] : a.kind = "stop" => a \in tv[x]
    <2>1. Delivered(S, now[x]) \in SUBSET Events
      BY <1>0, DeliveredEvents DEF TypeInv, Shapes
    <2>2. tv'[x] = tv[x] \cup Delivered(S, now[x])
      BY <1>0, <1>6 DEF TypeInv, Shapes
    <2> QED BY <2>1, <2>2, ActivityKinds
  <1>7. \A a \in tv'[x] : a.kind = "stop" => a \in tv[x]
    <2>1. CASE LeaveLoop(x) \/ SendRank(x) \/ ReceivedAll(x)
      BY <2>1 DEF LeaveLoop, SendRank, ReceivedAll
    <2>2. CASE Before(x)
      <3>1. tv' = [tv EXCEPT ![x] = @ \cup Delivered(tq[x], now[x])] /\ tq[x] \in SUBSET Events
        BY <1>0, <2>2 DEF Before, Delivered, TypeInv, Shapes
      <3> QED BY <1>6, <3>1
    <2>3. ASSUME NEW r \in Ranks, ReceiveRank(x, r)
          PROVE  \A a \in tv'[x] : a.kind = "stop" => a \in tv[x]
      <3>1. tv' = [tv EXCEPT ![x] = @ \cup Delivered(Head(net[r, x]), now[x])]
            /\ Head(net[r, x]) \in SUBSET Events
        BY <1>0, <2>3, ReceiveRankTypes DEF ReceiveRank, Delivered
      <3> QED BY <1>6, <3>1
    <2> QED BY <2>1, <2>2, <2>3
  <1> QED BY <1>2, <1>4, <1>5, <1>7, StillForward

(* A thread ends, or puts the next sync in its vortex. *)
LEMMA EndForward ==
  ASSUME SyncInv, NEW x \in RankInfo, EndOrNext(x) \/ InsertNext(x), Forward(x) PROVE Forward(x)'
  <1>0. TypeInv
    BY DEF SyncInv
  <1>1. UNCHANGED <<now, threadNext, rankNext, config>>
    BY DEF EndOrNext, InsertNext, syncVars, compVars
  <1>2. CASE EndOrNext(x)
    <2>1. /\ pc[x] = "end" /\ UNCHANGED <<tv, syncType>>
          /\ \/ /\ Over(x) /\ endSim'[x] = TRUE /\ pc'[x] = "exitB" /\ back'[x] = "next"
             \/ /\ ~Over(x) /\ endSim'[x] = endSim[x] /\ pc'[x] = "next"
      BY <1>0, <1>2 DEF EndOrNext, EndSimulation, Goto, endVars, syncVars, TypeInv, Shapes
    <2>2. Post(x)
      BY <2>1 DEF Post
    <2>3. ~endSim'[x] => Going(x) /\ ~Fresh(x)'
      BY <2>1 DEF Going, Fresh, Exchanging
    <2> QED BY <1>1, <2>1, <2>2, <2>3, StillForward
  <1>3. CASE InsertNext(x)
    <2>1. /\ pc[x] = "next" /\ pc'[x] = "R5" /\ endSim'[x] = endSim[x]
          /\ syncType'[x] = NextType(x[1], rankNext[x[1]], threadNext[x])
          /\ tv'[x] = tv[x] \cup {SyncAt(NextSync(x))}
      BY <1>0, <1>3 DEF InsertNext, Goto, NextSync, endVars, TypeInv, Shapes
    <2>2. Post(x) /\ Going(x)
      BY <2>1 DEF Post, Going
    <2>3. \A a \in tv'[x] : a.kind = "stop" => a \in tv[x]
      BY <2>1, ActivityKinds
    <2>4. ~endSim'[x] => ThreadsOnly(x)'
      <3> SUFFICES ASSUME ~endSim[x], Direct, ThreadLat(x[1]) # MaxTime, RankLat = MaxTime
                   PROVE  syncType'[x] = "THREAD"
        BY <1>1, <2>1, SameConfig DEF ThreadsOnly
      <3>1. now[x] < threadNext[x]
        BY <2>2 DEF Forward, SyncAhead
      <3>2. now[x] \in SimTime /\ threadNext[x] \in SimTime /\ x[1] \in Ranks
        BY <1>0, Threads DEF TypeInv, Shapes
      <3>3. threadNext[x] > 0 /\ threadNext[x] <= MaxTime /\ threadNext[x] \in Int /\ MaxTime \in Int
        BY <3>1, <3>2, TimeBounds
      <3>4. ThreadNextSync(x[1], threadNext[x]) = threadNext[x] - 1
        BY <3>2, <3>3, ThreadSyncTime
      <3>5. rankNext[x[1]] = MaxTime
        BY <3>2 DEF SyncInv, TimesAgree, MinPart
      <3>6. ~(rankNext[x[1]] <= ThreadNextSync(x[1], threadNext[x]))
        BY <3>3, <3>4, <3>5
      <3> QED BY <2>1, <3>6 DEF NextType
    <2> QED BY <1>1, <2>1, <2>2, <2>3, <2>4, StillForward
  <1> QED BY <1>2, <1>3

(* In a sync, nothing in the vortices of the rank is past. *)
LEMMA NothingPast ==
  ASSUME SyncInv, RoomInv, NEW x \in RankInfo, pc[x] = "after", ~Direct,
         \A y \in RankInfo : Forward(y)
  PROVE  now[x] <= LocalMinimum(x[1]) /\ LocalMinimum(x[1]) \in SimTime
  <1>0. BaseInv /\ TypeInv
    BY DEF SyncInv, BaseInv
  <1>1. Phase(x) = "after"
    BY PhaseAt
  <1>2. LocalMinimum(x[1]) \in SimTime
    BY <1>0, <1>1, InnerMinimum DEF InnerPhases
  <1>3. PICK y \in ThreadsOf(x[1]) : \E a \in tv[y] : LocalMinimum(x[1]) = a.time
    BY <1>0, <1>1, InnerMinimum DEF InnerPhases
  <1>4. PICK a \in tv[y] : LocalMinimum(x[1]) = a.time
    BY <1>3
  <1>5. y \in RankInfo /\ y[1] = x[1] /\ Phase(y) = "after" /\ endSim[y] = FALSE
    BY <1>0, <1>1, InnerOpen DEF InnerPhases, ThreadsOf
  <1>6. pc[y] \in {"after", "T2", "R3"}
    <2>1. pc[y] \in PCs
      BY <1>0, <1>5 DEF TypeInv, Shapes
    <2> QED BY <1>5, <2>1, PhaseAt DEF PCs, Barriers, SyncCode
  <1>7. now[y] = now[x]
    <2>1. InSync(x) /\ InSync(y)
      BY <1>6 DEF InSync, Barriers, SyncCode
    <2> QED BY <1>5, <2>1 DEF SyncInv, ClocksAgree
  <1>8. a.kind # "sync"
    BY <1>5, <1>6 DEF SyncInv, Queued
  <1>9. CASE a.kind = "stop"
    BY <1>2, <1>4, <1>5, <1>7, <1>9 DEF Forward, StopsAhead
  <1>10. CASE a.kind = "event"
    <2>1. a \in EventsOf(y)
      BY <1>10 DEF EventsOf
    <2>2. Lookahead
      BY <1>5, <2>1 DEF RoomInv, Nothing
    <2> QED BY <1>2, <1>4, <1>5, <1>7, <1>8, <2>2 DEF Lookahead, Behind
  <1>11. a.kind \in {"event", "sync", "stop"}
    <2>1. a \in Activities
      BY <1>0, <1>5 DEF TypeInv, Shapes
    <2> QED BY <2>1, ActivityKinds DEF Activities
  <1> QED BY <1>8, <1>9, <1>10, <1>11

(* A thread finds out when the next thread sync is. *)
LEMMA AfterForward ==
  ASSUME SyncInv, RoomInv, NEW x \in RankInfo, After(x), \A y \in RankInfo : Forward(y)
  PROVE  Forward(x)'
  <1>0. BaseInv /\ TypeInv /\ TimesAgree
    BY DEF SyncInv, BaseInv
  <1>1. /\ pc[x] = "after" /\ pc'[x] = IF syncType[x] = "RANK" THEN "R3" ELSE "T2"
        /\ threadNext'[x] = NextThreadSync(x) /\ NextThreadSync(x) \in SimTime
        /\ UNCHANGED <<tv, now, syncType, rankNext, endSim, config>>
    <2>1. threadNext' = [threadNext EXCEPT ![x] = NextThreadSync(x)]
      BY <1>0, AfterTypes
    <2>2. /\ pc[x] = "after"
          /\ pc' = [pc EXCEPT ![x] = IF syncType[x] = "RANK" THEN "R3" ELSE "T2"]
          /\ UNCHANGED <<tv, now, syncType, rankNext, endVars, compVars>>
      BY DEF After, Goto
    <2>3. NextThreadSync(x) \in SimTime
      BY <1>0, <2>2, NextThreadSyncTime
    <2>4. x \in DOMAIN pc /\ x \in DOMAIN threadNext
      BY <1>0 DEF TypeInv, Shapes
    <2>5. pc'[x] = (IF syncType[x] = "RANK" THEN "R3" ELSE "T2") /\ threadNext'[x] = NextThreadSync(x)
      BY <2>1, <2>2, <2>4
    <2> QED BY <2>2, <2>3, <2>5 DEF endVars, compVars
  <1>2. Direct' = Direct /\ (\A rk : ThreadLat(rk)' = ThreadLat(rk)) /\ RankLat' = RankLat /\ MinPart' = MinPart
    BY <1>1, SameConfig
  <1>3. /\ now[x] \in SimTime /\ rankNext[x[1]] \in SimTime /\ syncType[x] \in {"RANK", "THREAD"}
        /\ ThreadLat(x[1]) \in SimTime \ {0} /\ MinPart = RankLat /\ ~endSim[x]
    BY <1>0, <1>1, ConfigFacts, Threads DEF TypeInv, Shapes, EndInv, CountInv
  <1>4. StopsAhead(x)'
    BY <1>1 DEF Forward, StopsAhead
  <1>5. DirectNext(x)'
    BY <1>1, <1>2 DEF DirectNext, NextThreadSync, Plus
  <1>6. ThreadsOnly(x)'
    BY <1>1, <1>2, <1>3 DEF Forward, ThreadsOnly
  <1>7. ~Fresh(x)'
    BY <1>1 DEF Fresh, Exchanging
  <1>8. ASSUME Going(x)' PROVE SyncAhead(x)' /\ NextFits(x)'
    <2>1. pc'[x] = "T2" /\ MinPart # MaxTime /\ syncType[x] = "THREAD"
      BY <1>1, <1>2, <1>3, <1>8 DEF Going
    <2>2. Fresh(x)
      BY <1>1, <2>1 DEF Fresh
    <2>3. NextFits(x) /\ NextFits(x)'
      BY <1>1, <1>2, <1>3, <2>2 DEF Forward, NextFits
    <2>4. now[x] <= rankNext[x[1]]
      BY <1>0, <2>2, NextSyncTime DEF SyncInv, ClocksAgree
    <2> DEFINE tn == NextThreadSync(x)
    <2>5. IF Direct /\ ThreadLat(x[1]) # MaxTime THEN now[x] < tn ELSE now[x] <= tn
      <3>1. ASSUME Direct, ThreadLat(x[1]) # MaxTime PROVE now[x] < tn
        <4>1. rankNext[x[1]] + ThreadLat(x[1]) <= MaxTime
          BY <1>3, <2>1, <2>3, <3>1 DEF NextFits
        <4>2. /\ now[x] \in Nat /\ rankNext[x[1]] \in Nat /\ ThreadLat(x[1]) \in Nat /\ ThreadLat(x[1]) > 0
              /\ MaxTime \in Nat
          BY <1>3, TimeBounds
        <4>3. now[x] + ThreadLat(x[1]) <= MaxTime
          BY <2>4, <4>1, <4>2
        <4>4. tn = now[x] + ThreadLat(x[1])
          BY <3>1, <4>2, <4>3, NoWrap DEF NextThreadSync
        <4> HIDE DEF tn
        <4> QED BY <4>2, <4>4
      <3>2. ASSUME ThreadLat(x[1]) = MaxTime PROVE now[x] <= tn
        BY <1>3, <3>2, TimeBounds DEF NextThreadSync
      <3>3. ASSUME ~Direct, ThreadLat(x[1]) # MaxTime PROVE now[x] <= tn
        <4>1. now[x] <= LocalMinimum(x[1]) /\ LocalMinimum(x[1]) \in SimTime
          BY <1>1, <3>3, NothingPast
        <4>2. Plus(LocalMinimum(x[1]), ThreadLat(x[1])) \in SimTime
          BY <1>3, <4>1, TimeSums, TimeBounds
        <4>3. tn = MaxOf(LocalMinimum(x[1]), Plus(LocalMinimum(x[1]), ThreadLat(x[1])))
          BY <3>3 DEF NextThreadSync
        <4>4. \A m, n \in SimTime : now[x] <= m => now[x] <= MaxOf(m, n)
          BY <1>3, TimeBounds DEF MaxOf
        <4> QED BY <4>1, <4>2, <4>3, <4>4
      <3> QED BY <3>1, <3>2, <3>3
    <2>6. NextSync(x)' = NextCycle(x[1], rankNext[x[1]], tn)
      BY <1>1, <1>2 DEF NextSync, NextCycle, ThreadNextSync, Minus
    <2>7. now[x] <= NextCycle(x[1], rankNext[x[1]], tn)
      BY <1>1, <1>3, <2>4, <2>5, NotPast
    <2>8. SyncAhead(x)'
      BY <1>1, <1>2, <2>5, <2>6, <2>7 DEF SyncAhead
    <2> QED BY <2>3, <2>8
  <1> QED BY <1>4, <1>5, <1>6, <1>7, <1>8 DEF Forward

(* While there is something to come, clocks are behind the syncs. *)
LEMMA BehindAhead ==
  ASSUME SyncInv, Behind, NEW x \in RankInfo,
         Direct /\ ThreadLat(x[1]) # MaxTime => now[x] < threadNext[x]
  PROVE  SyncAhead(x)
  <1>1. /\ now[x] \in SimTime /\ rankNext[x[1]] \in SimTime /\ threadNext[x] \in SimTime
    BY Threads DEF SyncInv, TypeInv, Shapes
  <1>2. ThreadLat(x[1]) = MaxTime => now[x] <= threadNext[x]
    BY <1>1, TimeBounds DEF SyncInv, TimesAgree
  <1>3. IF Direct /\ ThreadLat(x[1]) # MaxTime THEN now[x] < threadNext[x] ELSE now[x] <= threadNext[x]
    BY <1>2 DEF Behind
  <1>4. now[x] <= rankNext[x[1]]
    BY DEF Behind
  <1>5. now[x] <= NextSync(x)
    BY <1>1, <1>3, <1>4, NotPast DEF NextSync
  <1> QED BY <1>5 DEF SyncAhead

(* A barrier: whoever goes on after it did so before, or is held open. *)
LEMMA BarrierGoing ==
  ASSUME SyncInv, NEW r \in Ranks, NEW b \in Barriers, Barrier(r, b), NEW x \in RankInfo,
         ~endSim[x], Going(x)'
  PROVE  Going(x) \/ (pc[x] = "T2" /\ MinPart = MaxTime /\ refCount[x[1]] # 0)
  <1>0. TypeInv
    BY DEF SyncInv
  <1>1. /\ b \in {"R0", "R1", "R2", "R3", "R4", "R5", "T0", "T1", "T2",
                  "xStart", "xDone", "xAll", "exitB", "runB"}
        /\ \A y \in RankInfo : y[1] = r => pc[y] = b /\ pc'[y] = Resume(y, b)
        /\ \A y \in RankInfo : y[1] # r => pc'[y] = pc[y]
        /\ UNCHANGED <<syncType, config, refCount, globalCount>>
        /\ MinPart' = MinPart
    BY <1>0, BarrierFrame, BarrierStep DEF exitVars
  <1>2. Master(x[1]) \in RankInfo /\ Master(x[1])[1] = x[1] /\ Master(x[1])' = Master(x[1])
    BY Threads DEF Master
  <1>3. CASE x[1] # r
    BY <1>1, <1>2, <1>3, GoingStays
  <1>4. CASE x[1] = r
    <2>1. /\ pc[x] = b /\ pc'[x] = Resume(x, b)
          /\ pc[Master(x[1])] = b /\ pc'[Master(x[1])] = Resume(Master(x[1]), b)
      BY <1>1, <1>2, <1>4
    <2>2. b \notin {"exitB", "runB"}
      BY <1>0, <2>1 DEF TypeInv, EndInv
    <2>3. b \notin {"R0", "R1", "R2", "T0", "T1", "xStart", "xDone", "xAll"}
      BY <1>1, <2>1, ResumeAt DEF Going
    <2>4. b # "R3"
      <3>1. b = "R3" => pc'[Master(x[1])] = "check" /\ pc'[x] \in {"check", "R4"}
        BY <1>2, <2>1, ResumeAt
      <3> QED BY <1>2, <3>1 DEF Going
    <2>5. CASE b = "R5"
      BY <2>1, <2>5 DEF Going
    <2>6. CASE b \in {"R4", "T2"}
      <3>1. pc'[x] = "end"
        BY <1>1, <2>1, <2>6, ResumeAt
      <3>2. ~Over(x)
        BY <1>1, <3>1 DEF Going, Over
      <3>3. CASE b = "R4"
        BY <2>1, <3>2, <3>3 DEF Going
      <3>4. CASE b = "T2"
        BY <2>1, <3>2, <3>4 DEF Going, Over, SyncInv, TypeOfSync
      <3> QED BY <2>6, <3>3, <3>4
    <2> QED BY <1>1, <2>2, <2>3, <2>4, <2>5, <2>6
  <1> QED BY <1>3, <1>4

LEMMA BarrierForward ==
  ASSUME SyncInv, RoomInv, HeldOpen, NEW r \in Ranks, NEW b \in Barriers, Barrier(r, b),
         NEW x \in RankInfo, Forward(x)
  PROVE  Forward(x)'
  <1>0. TypeInv
    BY DEF SyncInv
  <1>1. /\ b \in {"R0", "R1", "R2", "R3", "R4", "R5", "T0", "T1", "T2",
                  "xStart", "xDone", "xAll", "exitB", "runB"}
        /\ x[1] = r => pc[x] = b /\ pc'[x] = Resume(x, b)
        /\ x[1] # r => pc'[x] = pc[x]
        /\ UNCHANGED <<tv, now, back, syncType, threadNext, rankNext, endSim, config>>
    BY <1>0, BarrierFrame, BarrierStep
  <1>2. Fresh(x)' => Fresh(x)
    BY BarrierFresh
  <1>3. Post(x)' => Post(x)
    <2>1. CASE x[1] # r
      BY <1>1, <2>1 DEF Post
    <2>2. CASE x[1] = r
      <3>1. back[x] \in {"run", "next"}
        BY <1>0 DEF TypeInv, Shapes
      <3> QED BY <1>1, <2>2, <3>1, ResumeAt DEF Post
    <2> QED BY <2>1, <2>2
  <1>4. CASE ~endSim[x] /\ Going(x)' => Going(x)
    BY <1>1, <1>2, <1>3, <1>4, StillForward
  <1>5. CASE ~endSim[x] /\ Going(x)' /\ ~Going(x)
    <2>1. pc[x] = "T2" /\ MinPart = MaxTime /\ refCount[x[1]] # 0
      BY <1>5, BarrierGoing
    <2>2. Busy(x[1]) /\ Behind
      <3>1. Busy(x[1]) /\ ~Nothing
        BY <1>0, <2>1, Threads, HeldBusy DEF TypeInv
      <3> QED BY <3>1 DEF RoomInv, Lookahead
    <2>3. Direct /\ ThreadLat(x[1]) # MaxTime => now[x] < threadNext[x]
      BY <2>1, <2>2 DEF Behind, Settled
    <2>4. SyncAhead(x)
      BY <2>2, <2>3, BehindAhead
    <2>5. /\ Direct' = Direct /\ (\A rk : ThreadLat(rk)' = ThreadLat(rk)) /\ RankLat' = RankLat
          /\ NextSync(x)' = NextSync(x)
      BY <1>1, SameConfig, SameNextSync
    <2>6. SyncAhead(x)' /\ NextFits(x)'
      BY <1>1, <2>1, <2>4, <2>5 DEF SyncAhead, NextFits, MinPart
    <2>7. StopsAhead(x)' /\ DirectNext(x)' /\ ThreadsOnly(x)'
      BY <1>1, <1>3, <1>5, <2>5 DEF Forward, StopsAhead, DirectNext, ThreadsOnly, Plus
    <2> QED BY <2>6, <2>7 DEF Forward
  <1> QED BY <1>4, <1>5

(* The collective before a rank sync's end finds out the next one. *)
LEMMA ReduceForward ==
  ASSUME SyncInv, ReduceNext, NEW x \in RankInfo, Forward(x) PROVE Forward(x)'
  <1>0. BaseInv /\ TypeInv
    BY DEF SyncInv, BaseInv
  <1>1. /\ pc[x] \in {"xReduce", "xAll"} /\ pc'[x] \in {"R2", "xAll"}
        /\ pc'[Master(x[1])] \in {"R2", "xAll"}
        /\ UNCHANGED <<tv, now, syncType, threadNext, endSim, config>>
    <2>1. \A y \in RankInfo : pc[y] \in {"xReduce", "xAll"}
      BY <1>0, AllReducing
    <2>2. Master(x[1]) \in RankInfo /\ Master(x[1]) \in Masters
      BY Threads
    <2>3. x \in Masters \/ pc[x] = "xAll"
      BY <2>1 DEF SyncInv, MasterInv
    <2> QED BY <2>1, <2>2, <2>3 DEF ReduceNext, endVars, compVars
  <1>2. Direct' = Direct /\ (\A rk : ThreadLat(rk)' = ThreadLat(rk)) /\ RankLat' = RankLat
    BY <1>1, SameConfig
  <1>3. Master(x[1])' = Master(x[1])
    BY DEF Master
  <1>4. ~Post(x)' /\ ~Going(x)'
    BY <1>1 DEF Post, Going
  <1>5. ~Fresh(x)'
    BY <1>1, <1>3 DEF Fresh, Exchanging, Reduced
  <1>6. StopsAhead(x)' /\ DirectNext(x)'
    BY <1>1, <1>4 DEF Forward, StopsAhead, DirectNext
  <1>7. ~endSim'[x] => ThreadsOnly(x)'
    BY <1>1, <1>2 DEF Forward, ThreadsOnly
  <1> QED BY <1>4, <1>5, <1>6, <1>7 DEF Forward

(* The collective that finds out whether it is over: if it is not, a rank  *)
(* has an event to come, and the next syncs are after now. *)
LEMMA CheckForward ==
  ASSUME SyncInv, RoomInv, HeldOpen, CheckRanks, NEW x \in RankInfo, Forward(x) PROVE Forward(x)'
  <1>0. TypeInv
    BY DEF SyncInv
  <1>1. /\ \A y \in Masters : pc[y] = "check"
        /\ pc' = [y \in RankInfo |-> IF y \in Masters THEN "R4" ELSE pc[y]]
        /\ globalCount' = [r \in Ranks |-> OpenRanks(Ranks)]
        /\ UNCHANGED <<tv, now, back, syncType, threadNext, rankNext, endSim, config>>
    BY DEF CheckRanks, CheckExit, syncVars, endVars, compVars
  <1>2. /\ x[1] \in Ranks /\ Master(x[1]) \in RankInfo /\ Master(x[1])[1] = x[1]
        /\ Master(x[1]) \in Masters
    BY Threads
  <1>3. pc[x] \in {"check", "R4"}
    <2>1. Phase(Master(x[1])) = "check"
      BY <1>1, <1>2, PhaseAt
    <2>2. Phase(x) = "check"
      BY <1>2, <2>1 DEF SyncInv, Lockstep
    <2>3. pc[x] \in PCs
      BY <1>0 DEF TypeInv, Shapes
    <2> QED BY <2>2, <2>3 DEF Phase, PCs, Barriers, SyncCode
  <1>4. pc'[x] = "R4" /\ ~endSim[x] /\ syncType[x] = "RANK" /\ Post(x)
    BY <1>1, <1>3 DEF SyncInv, MasterInv, TypeOfSync, TypeInv, EndInv, Post
  <1>5. Direct' = Direct /\ (\A rk : ThreadLat(rk)' = ThreadLat(rk)) /\ RankLat' = RankLat
        /\ NextSync(x)' = NextSync(x)
    BY <1>1, SameConfig, SameNextSync
  <1>6. StopsAhead(x)' /\ DirectNext(x)' /\ ThreadsOnly(x)'
    BY <1>1, <1>4, <1>5 DEF Forward, StopsAhead, DirectNext, ThreadsOnly, Plus
  <1>7. ~Fresh(x)'
    BY <1>4 DEF Fresh, Exchanging
  <1>8. ASSUME Going(x)' PROVE SyncAhead(x)' /\ NextFits(x)'
    <2>1. OpenRanks(Ranks) # 0
      BY <1>1, <1>2, <1>4, <1>8 DEF Going, Over
    <2>2. PICK r \in Ranks : refCount[r] > 0
      <3>1. {r \in Ranks : refCount[r] > 0} # {}
        BY <2>1, FS_EmptySet DEF OpenRanks
      <3> QED BY <3>1
    <2>3. Busy(r) /\ ~Nothing
      BY <1>0, <2>2, HeldBusy DEF TypeInv
    <2>4. Lookahead /\ InTime
      BY <1>0, <2>3, SpreadInTime DEF RoomInv
    <2>5. PICK y \in RankInfo : y[1] = r /\ EventsOf(y) # {}
      BY <2>3 DEF Busy, ThreadsOf
    <2>6. PICK e \in EventsOf(y) : TRUE
      BY <2>5
    <2>7. e \in Pending /\ e.time \in SimTime
      <3>1. e \in Activities
        BY <1>0, <2>5 DEF EventsOf, TypeInv, Shapes
      <3> QED BY <2>6, <3>1, PendingParts, ActivityFields
    <2>8. /\ now[x] \in Nat /\ rankNext[x[1]] \in Nat /\ threadNext[x] \in Nat
          /\ ThreadLat(x[1]) \in Nat /\ ThreadLat(x[1]) > 0 /\ RankLat \in Nat /\ e.time \in Nat /\ MaxTime \in Nat
      <3>1. /\ now[x] \in SimTime /\ rankNext[x[1]] \in SimTime /\ threadNext[x] \in SimTime
            /\ ThreadLat(x[1]) \in SimTime \ {0} /\ RankLat \in SimTime \ {0}
        BY <1>0, <1>2, ConfigFacts DEF TypeInv, CountInv, Shapes
      <3> QED BY <2>7, <3>1, TimeBounds
    <2>9. RankLat # MaxTime /\ ThreadLat(x[1]) # MaxTime => rankNext[x[1]] + ThreadLat(x[1]) <= MaxTime
      <3> SUFFICES ASSUME RankLat # MaxTime, ThreadLat(x[1]) # MaxTime
                   PROVE  rankNext[x[1]] + ThreadLat(x[1]) <= MaxTime
        OBVIOUS
      <3>1. rankNext[x[1]] = rankNext[r]
        BY <1>2, <2>2 DEF SyncInv, TimesAgree
      <3>2. rankNext[r] <= e.time + RankLat
        BY <2>4, <2>5 DEF Lookahead, Ahead
      <3>3. e.time + RankLat + ThreadLat(x[1]) <= MaxTime
        BY <1>0, <2>4, <2>7, Threads, InTimeBounds
      <3> QED BY <2>8, <3>1, <3>2, <3>3
    <2>10. Direct /\ ThreadLat(x[1]) # MaxTime => now[x] < threadNext[x]
      <3> SUFFICES ASSUME Direct, ThreadLat(x[1]) # MaxTime PROVE now[x] < threadNext[x]
        OBVIOUS
      <3>1. RankLat # MaxTime
        BY <1>4 DEF Forward, ThreadsOnly
      <3>2. now[x] <= rankNext[x[1]]
        BY <2>4 DEF Lookahead, Behind
      <3>3. now[x] + ThreadLat(x[1]) <= MaxTime
        BY <2>8, <2>9, <3>1, <3>2
      <3>4. threadNext[x] = now[x] + ThreadLat(x[1])
        BY <1>4, <2>8, <3>3, NoWrap DEF Forward, DirectNext
      <3> QED BY <2>8, <3>4
    <2>11. SyncAhead(x) /\ NextFits(x)
      BY <2>4, <2>9, <2>10, BehindAhead DEF NextFits, Lookahead
    <2> QED BY <1>1, <1>5, <2>11 DEF SyncAhead, NextFits
  <1> QED BY <1>6, <1>7, <1>8 DEF Forward

(* The collective after the loop. *)
LEMMA FinalForward ==
  ASSUME SyncInv, FinalEndTime, NEW x \in RankInfo, Forward(x) PROVE Forward(x)'
  <1>0. TypeInv
    BY DEF SyncInv
  <1>1. /\ \A y \in Masters : pc[y] = "final"
        /\ pc'[x] = "done" \/ pc'[x] = pc[x]
        /\ UNCHANGED <<tv, now, back, syncType, threadNext, rankNext, endSim, config>>
    BY <1>0 DEF FinalEndTime, syncVars, queueVars, compVars, TypeInv, Shapes
  <1>2. endSim[x]
    <2>1. /\ Master(x[1]) \in RankInfo /\ Master(x[1])[1] = x[1] /\ Master(x[1]) \in Masters
      BY Threads
    <2>2. Phase(x) = "final"
      BY <1>1, <2>1, PhaseAt DEF SyncInv, Lockstep
    <2>3. pc[x] \in PCs
      BY <1>0 DEF TypeInv, Shapes
    <2>4. pc[x] \in {"final", "done"}
      BY <2>2, <2>3, PhaseAt DEF PCs, Barriers, SyncCode
    <2> QED BY <1>0, <2>4 DEF TypeInv, EndInv
  <1>3. Post(x)' => Post(x)
    BY <1>1 DEF Post
  <1> QED BY <1>1, <1>2, <1>3, StillForward


(* A run starts with its clocks behind the first syncs. *)
LEMMA ForwardInit ==
  ASSUME Room, Occupied PROVE Init => ForwardInv
  <1> SUFFICES ASSUME Init, NEW x \in RankInfo PROVE Forward(x)
    BY HeldOpenInit DEF ForwardInv
  <1>0. SyncInv /\ TypeInv
    BY SyncInvInit DEF SyncInv
  <1>1. /\ now[x] = 0 /\ pc[x] = "run" /\ back[x] = "run" /\ endSim[x] = FALSE
        /\ threadNext[x] = ThreadLat(x[1]) /\ rankNext[x[1]] = RankLat
        /\ syncType[x] = NextType(x[1], RankLat, ThreadLat(x[1])) /\ config \in Configs
    BY Threads DEF Init, MinPart
  <1>2. ThreadLat(x[1]) \in SimTime \ {0} /\ RankLat \in SimTime \ {0}
    BY <1>1, ConfigFacts
  <1>3. /\ ThreadLat(x[1]) \in Nat /\ ThreadLat(x[1]) > 0 /\ ThreadLat(x[1]) <= MaxTime
        /\ RankLat \in Nat /\ RankLat > 0 /\ RankLat <= MaxTime /\ MaxTime \in Nat
    BY <1>2, TimeBounds
  <1>4. StopsAhead(x)
    <2>1. \A a \in tv[x] : a.time \in SimTime
      BY <1>0, ActivityFields DEF TypeInv, Shapes
    <2> QED BY <1>1, <2>1, TimeBounds DEF StopsAhead
  <1>5. DirectNext(x) /\ ~Fresh(x)
    BY <1>1 DEF DirectNext, Post, Fresh, Exchanging
  <1>6. SyncAhead(x)
    <2>1. NextSync(x) \in SimTime
      BY <1>0, NextSyncTime
    <2> QED BY <1>1, <1>3, <2>1, TimeBounds DEF SyncAhead
  <1>7. NextFits(x)
    <2> SUFFICES ASSUME RankLat # MaxTime, ThreadLat(x[1]) # MaxTime PROVE RankLat + ThreadLat(x[1]) <= MaxTime
      BY <1>1 DEF NextFits
    <2>1. PICK first \in SimTime, step \in SimTime : Fits(config, first, step)
      BY <1>1 DEF Room
    <2> DEFINE m == Cardinality(Comps) * MaxSends
               u == step * m
    <2>2. m \in Nat /\ first \in Nat /\ step \in Nat
      BY <1>0, <2>1, SlotsCount, TimeBounds
    <2> HIDE DEF m
    <2>3. u \in Nat
      BY <2>2
    <2>4. (m + 2) * step = u + step + step
      BY <2>2, TwoMore
    <2>5. first + (m + 2) * step <= MaxTime
      BY <2>1 DEF Fits, m
    <2>6. RankLat + 0 <= step /\ ThreadLat(x[1]) + 0 <= step
      BY <2>1, Threads DEF Fits, RankLat, ThreadLat
    <2> HIDE DEF u
    <2>7. first + (u + step + step) <= MaxTime
      BY <2>4, <2>5
    <2> QED BY <1>3, <2>2, <2>3, <2>6, <2>7
  <1>8. ThreadsOnly(x)
    <2> SUFFICES ASSUME Direct, ThreadLat(x[1]) # MaxTime, RankLat = MaxTime PROVE syncType[x] = "THREAD"
      BY DEF ThreadsOnly
    <2>1. ThreadNextSync(x[1], ThreadLat(x[1])) = ThreadLat(x[1]) - 1
      BY <1>2, <1>3, ThreadSyncTime
    <2>2. ~(RankLat <= ThreadNextSync(x[1], ThreadLat(x[1])))
      BY <1>3, <2>1
    <2> QED BY <1>1, <2>2 DEF NextType
  <1> QED BY <1>1, <1>4, <1>5, <1>6, <1>7, <1>8 DEF Forward

LEMMA ForwardInvStep == SyncInv /\ PlaceInv /\ ForwardInv /\ [Next]_vars => ForwardInv'
  <1> SUFFICES ASSUME SyncInv, PlaceInv, ForwardInv, [Next]_vars PROVE ForwardInv'
    OBVIOUS
  <1>1. TypeInv' /\ RoomInv /\ HeldOpen /\ \A x \in RankInfo : Forward(x)
    BY SyncInvStep DEF SyncInv, PlaceInv, ForwardInv
  <1>2. HeldOpen'
    BY <1>1, HeldOpenStep
  <1>3. ASSUME NEW x \in RankInfo PROVE Forward(x)'
    <2>1. ASSUME NEW y \in RankInfo, ThreadStep(y) PROVE Forward(x)'
      <3>1. CASE x # y
        BY <1>1, <2>1, <3>1, OthersForward
      <3>2. CASE x = y
        <4>1. CASE Handle(x)
          BY <1>1, <4>1, HandleForward
        <4>2. CASE Stop(x) \/ Sync(x)
          BY <1>1, <4>2, PopForward
        <4>3. CASE \/ LeaveLoop(x) \/ Before(x) \/ SendRank(x) \/ ReceivedAll(x)
                   \/ \E r \in Ranks : ReceiveRank(x, r)
          BY <1>1, <4>3, MoveForward
        <4>4. CASE After(x)
          BY <1>1, <4>4, AfterForward
        <4>5. CASE EndOrNext(x) \/ InsertNext(x)
          BY <1>1, <4>5, EndForward
        <4> QED BY <2>1, <3>2, <4>1, <4>2, <4>3, <4>4, <4>5 DEF ThreadStep
      <3> QED BY <3>1, <3>2
    <2>2. CASE Meeting
      BY <1>1, <2>2, BarrierForward, ReduceForward, CheckForward, FinalForward DEF Meeting
    <2>3. CASE Finished \/ UNCHANGED vars
      <3>1. UNCHANGED vars
        BY <2>3 DEF Finished
      <3>2. Post(x)' = Post(x) /\ Going(x)' = Going(x) /\ Fresh(x)' = Fresh(x)
        BY <3>1 DEF vars, syncVars, queueVars, endVars, compVars, exitVars, Post, Going, Fresh,
                    Over, Reduced, Master, MinPart, RankLat
      <3>3. /\ UNCHANGED <<config, rankNext>> /\ now' = now /\ threadNext' = threadNext
            /\ endSim' = endSim /\ tv' = tv /\ syncType' = syncType
        BY <3>1 DEF vars, syncVars, endVars, compVars
      <3> QED BY <1>1, <3>2, <3>3, StillForward
    <2> QED BY <2>1, <2>2, <2>3 DEF Next
  <1> QED BY <1>2, <1>3 DEF ForwardInv


----------------------------------------------------------------------------
(* The run phase is a discrete-event simulation.                           *)

(* What a thread pops is due before anything else for it, wherever that is. *)
LEMMA PopFirst ==
  ASSUME SyncInv, RoomInv, NEW x \in RankInfo, NEW a \in Earliest(tv[x]), Pop(x, a)
  PROVE  \A e \in Pending : Home[e.comp] = x => a.time <= e.time
  <1> SUFFICES ASSUME NEW e \in Pending, Home[e.comp] = x PROVE a.time <= e.time
    OBVIOUS
  <1>0. TypeInv /\ TimesAgree
    BY DEF SyncInv
  <1>1. PICK p \in Places : e \in Held(p)
    BY <1>0, PendingHeld DEF PendingIsHeld
  <1>2. Ahead /\ Due /\ Behind /\ Waiting /\ Homes
    <2>1. ~Nothing
      BY <1>1, NothingHeld
    <2> QED BY <2>1 DEF RoomInv, Lookahead
  <1>3. /\ \A b \in tv[x] : a.time <= b.time
        /\ a.time <= rankNext[x[1]] /\ (~Direct => a.time <= threadNext[x])
    BY <1>2, PopTimes
  <1>4. a.time \in Nat /\ e.time \in Nat /\ rankNext[x[1]] \in Nat /\ threadNext[x] \in Nat
    <2>1. a.time \in SimTime /\ rankNext[x[1]] \in SimTime /\ threadNext[x] \in SimTime
      BY <1>0, Popped, Threads DEF TypeInv, Shapes
    <2>2. e \in Events
      BY <1>0, <1>1, HeldEvents
    <2> QED BY <2>1, <2>2, TimeBounds DEF Events
  <1>5. \A r \in Ranks : rankNext[r] = rankNext[x[1]]
    BY <1>0, Threads DEF TimesAgree
  <1>6. ASSUME NEW y \in RankInfo, p = Vortex(y) PROVE a.time <= e.time
    <2>1. e \in EventsOf(y)
      BY <1>1, <1>6, HeldParts DEF Parts
    <2>2. y = x
      BY <1>2, <2>1 DEF Homes
    <2> QED BY <1>3, <2>1, <2>2 DEF EventsOf
  <1>7. ASSUME NEW y \in RankInfo, p = ThreadQueue(y) PROVE a.time <= e.time
    <2>1. e \in tq[y]
      BY <1>1, <1>7, HeldParts DEF Parts
    <2>2. y = x
      BY <1>2, <2>1 DEF Homes
    <2>3. ~Direct /\ threadNext[x] <= e.time
      BY <1>2, <2>1, <2>2 DEF Waiting, Due
    <2> QED BY <1>3, <1>4, <2>3
  <1>8. ASSUME NEW r \in Ranks, p = RankQueue(r) PROVE a.time <= e.time
    <2>1. e \in rq[r]
      BY <1>1, <1>8, HeldParts DEF Parts
    <2>2. rankNext[r] <= e.time
      BY <1>2, <2>1 DEF Due
    <2> QED BY <1>3, <1>4, <1>5, <2>2
  <1>9. ASSUME NEW r \in Ranks, NEW y \in RankInfo, p = Wire(r, y) PROVE a.time <= e.time
    <2>1. e \in Contents(net[r, y])
      BY <1>1, <1>9, HeldParts DEF Parts, OnWire
    <2>2. \E i \in DOMAIN net[r, y] : e \in net[r, y][i]
      BY <2>1 DEF Contents
    <2>3. rankNext[r] <= e.time
      BY <1>2, <2>2 DEF Due
    <2> QED BY <1>3, <1>4, <1>5, <2>3
  <1> QED BY <1>1, <1>6, <1>7, <1>8, <1>9, ThePlaces

(* A component handles an event: it is the earliest of those to come, and  *)
(* what is sent from it is new and no earlier. *)
LEMMA HandleOrdered ==
  ASSUME SyncInv, TypeInv', PlaceInv, NEW x \in RankInfo, Handle(x)
  PROVE  \E a \in Pending :
           /\ Home[a.comp] = x /\ now[x] <= a.time /\ now' = [now EXCEPT ![x] = a.time]
           /\ \A e \in Pending : Home[e.comp] = x => a.time <= e.time
           /\ \E S : /\ Pending' = (Pending \ {a}) \cup S
                     /\ \A f \in S : /\ f \notin Pending /\ f.src = a.comp /\ a.time <= f.time
                                     /\ f.seq \in sent[f.src] + 1 .. sent'[f.src]
           /\ \A c \in Comps \ {a.comp} : sent'[c] = sent[c]
  <1>0. TypeInv /\ RoomInv /\ Away /\ Apart /\ Counted
    BY DEF SyncInv, PlaceInv
  <1>1. PICK a, S, own : HandleParts(x, a, S, own)
    BY HandleHas
  <1>2. /\ a \in Earliest(tv[x]) /\ Pop(x, a) /\ a.kind = "event"
        /\ S \in Sends(a.comp, a.time) /\ a.comp \in Comps /\ a.time \in SimTime
        /\ sent' = [sent EXCEPT ![a.comp] = @ + Cardinality(S)] /\ sent \in [Comps -> 0 .. MaxSends]
    BY <1>0, <1>1, HandleTypes DEF HandleParts, TypeInv, Shapes
  <1>3. a \in EventsOf(x)
    BY <1>0, <1>1, HandleMoves
  <1>4. Lookahead /\ InTime
    BY <1>0, <1>3, SpreadInTime DEF RoomInv, Nothing
  <1>5. Home[a.comp] = x /\ now[x] <= a.time
    BY <1>2, <1>3, <1>4 DEF Lookahead, Homes, Behind, EventsOf
  <1>6. /\ a \in Pending /\ Pending' = (Pending \ {a}) \cup S
        /\ \A f \in S : f \notin Pending
    BY <1>0, <1>1, HandleKeeps
  <1>7. \A e \in Pending : Home[e.comp] = x => a.time <= e.time
    BY <1>0, <1>2, PopFirst
  <1>8. \A f \in S : a.time <= f.time
    BY <1>0, <1>1, <1>4, SentLate DEF Lookahead
  <1>9. \A f \in S : f.src = a.comp /\ f.seq \in sent[f.src] + 1 .. sent'[f.src]
    <2>1. \A f \in S : f.src = a.comp
                       /\ f.seq \in sent[a.comp] + 1 .. sent[a.comp] + Cardinality(S)
      BY <1>0, <1>2, SentCounted DEF TypeInv
    <2>2. sent'[a.comp] = sent[a.comp] + Cardinality(S)
      BY <1>2
    <2> QED BY <2>1, <2>2
  <1>10. now' = [now EXCEPT ![x] = a.time] /\ \A c \in Comps \ {a.comp} : sent'[c] = sent[c]
    BY <1>2 DEF Pop
  <1> QED BY <1>5, <1>6, <1>7, <1>8, <1>9, <1>10

(* Nothing else changes what is to come. *)
LEMMA PendingStays ==
  ASSUME SyncInv, TypeInv', PlaceInv, [Next]_vars, ~ \E x \in RankInfo : Handle(x)
  PROVE  Pending' = Pending /\ sent' = sent
  <1>0. TypeInv /\ RoomInv /\ Away
    BY DEF SyncInv, PlaceInv
  <1>1. sent' = sent
    BY <1>0, StepKeeps
  <1>2. CASE Lookahead
    <2>1. Relocates
      BY <1>0, <1>2, StepRelocates
    <2> QED BY <1>0, <1>1, <2>1, MovedPending
  <1>3. CASE Nothing
    <2>1. AllEmpty
      BY <1>3, NothingEmpty
    <2>2. AllEmpty'
      BY <1>0, <1>3, NothingStays, NothingEmptyNext
    <2>3. Pending = {}
      BY <1>0, <2>1, PendingHeld DEF PendingIsHeld, AllEmpty
    <2>4. Pending' = {}
      BY <2>2, PendingHeldNext DEF PendingIsHeld, AllEmpty
    <2> QED BY <1>1, <2>3, <2>4
  <1> QED BY <1>0, <1>2, <1>3 DEF RoomInv

(* A stop or a sync moves a clock forward, up to no event to come. *)
LEMMA AdvanceOrdered ==
  ASSUME SyncInv, PlaceInv, ForwardInv, NEW x \in RankInfo, Stop(x) \/ Sync(x)
  PROVE  /\ now[x] <= now'[x] /\ now' = [now EXCEPT ![x] = now'[x]]
         /\ \A e \in Pending : Home[e.comp] = x => now'[x] <= e.time
  <1>0. TypeInv /\ RoomInv /\ Forward(x)
    BY DEF SyncInv, PlaceInv, ForwardInv
  <1>1. PICK a \in Earliest(tv[x]) : Pop(x, a) /\ a.kind \in {"stop", "sync"}
    BY DEF Stop, Sync
  <1>2. /\ a \in tv[x] /\ now'[x] = a.time /\ pc[x] = "run" /\ ~endSim[x]
        /\ now' = [now EXCEPT ![x] = now'[x]]
    BY <1>0, <1>1, Popped DEF Pop
  <1>3. CASE a.kind = "stop"
    BY <1>0, <1>1, <1>2, <1>3, PopFirst DEF Forward, StopsAhead
  <1>4. CASE a.kind = "sync"
    <2>1. a = SyncAt(NextSync(x))
      BY <1>2, <1>4 DEF SyncInv, Queued
    <2>2. a.time = NextSync(x)
      BY <2>1 DEF SyncAt, Activity
    <2>3. now[x] <= NextSync(x)
      BY <1>0, <1>2 DEF Forward, Going, SyncAhead
    <2> QED BY <1>0, <1>1, <1>2, <2>2, <2>3, PopFirst
  <1> QED BY <1>1, <1>3, <1>4

(* No clock moves but by an activity. *)
LEMMA ClockStays ==
  ASSUME [Next]_vars, ~ \E x \in RankInfo : Handle(x) \/ Stop(x) \/ Sync(x)
  PROVE  now' = now
  <1>1. ASSUME NEW x \in RankInfo, ThreadStep(x) PROVE now' = now
    BY <1>1 DEF ThreadStep, LeaveLoop, Before, SendRank, ReceiveRank, ReceivedAll, After,
                EndOrNext, InsertNext
  <1>2. ASSUME Meeting \/ Finished \/ UNCHANGED vars PROVE now' = now
    BY <1>2 DEF Meeting, Barrier, ReduceNext, CheckRanks, FinalEndTime, Finished, vars
  <1> QED BY <1>1, <1>2 DEF Next

(* What is counted of the events of a run's start. *)
LEMMA OrderInit ==
  ASSUME Room PROVE Init => /\ now = [x \in RankInfo |-> 0]
                            /\ \A e \in Pending : e.seq \in 1 .. sent[e.src]
  <1> SUFFICES ASSUME Init, NEW e \in Pending PROVE e.seq \in 1 .. sent[e.src]
    BY DEF Init
  <1>1. TypeInv /\ Counted
    BY SyncInvInit, PlaceInvInit DEF SyncInv, PlaceInv
  <1>2. PICK p \in Places : e \in Held(p)
    BY <1>1, PendingHeld DEF PendingIsHeld
  <1>3. e \in Events /\ e.seq <= sent[e.src]
    BY <1>1, <1>2, HeldEvents DEF Counted
  <1>4. e.seq \in 1 .. MaxSends /\ e.src \in Comps /\ MaxSends \in Nat
    BY <1>3, SimAssumption DEF Events
  <1>5. sent[e.src] \in Nat
    BY <1>1, <1>4 DEF TypeInv, Shapes
  <1> QED BY <1>3, <1>4, <1>5

(* However many ranks and threads there are and whatever queues, messages  *)
(* and syncs carry it, no event is lost, handled twice, early, late or     *)
(* before an earlier one for the same thread, and no clock goes back       *)
(* (simulation.cc:679-683), if there is room in simulated time and nobody  *)
(* who has nothing to do holds the simulation open.                        *)
THEOREM RunOrdered == ASSUME Room, Occupied PROVE Spec => EventOrdered
  <1>1. Init => Abs!Init
    BY OrderInit DEF Abs!Init
  <1>2. Init => PlaceInv
    BY PlaceInvInit
  <1>3. Init => ForwardInv
    BY ForwardInit
  <1>4. SyncInv /\ SyncInv' /\ PlaceInv /\ ForwardInv /\ [Next]_vars
          => [Abs!Next]_<<Pending, now, sent>>
    <2> SUFFICES ASSUME SyncInv, SyncInv', PlaceInv, ForwardInv, [Next]_vars
                 PROVE  Abs!Next \/ UNCHANGED <<Pending, now, sent>>
      OBVIOUS
    <2>0. TypeInv'
      BY DEF SyncInv
    <2>1. ASSUME NEW x \in RankInfo, Handle(x) PROVE Abs!Next
      <3>1. PICK a \in Pending :
              /\ Home[a.comp] = x /\ now[x] <= a.time /\ now' = [now EXCEPT ![x] = a.time]
              /\ \A e \in Pending : Home[e.comp] = x => a.time <= e.time
              /\ \E S : /\ Pending' = (Pending \ {a}) \cup S
                        /\ \A f \in S : /\ f \notin Pending /\ f.src = a.comp /\ a.time <= f.time
                                        /\ f.seq \in sent[f.src] + 1 .. sent'[f.src]
              /\ \A c \in Comps \ {a.comp} : sent'[c] = sent[c]
        BY <2>0, <2>1, HandleOrdered
      <3>2. PICK S : /\ Pending' = (Pending \ {a}) \cup S
                     /\ \A f \in S : /\ f \notin Pending /\ f.src = a.comp /\ a.time <= f.time
                                     /\ f.seq \in sent[f.src] + 1 .. sent'[f.src]
        BY <3>1
      <3>3. S \in SUBSET (Pending' \ Pending)
        BY <3>2
      <3>4. Abs!Handle(a)
        BY <3>1, <3>2, <3>3 DEF Abs!Handle, Abs!NothingBefore
      <3> QED BY <3>4 DEF Abs!Next
    <2>2. ASSUME NEW x \in RankInfo, Stop(x) \/ Sync(x), ~ \E y \in RankInfo : Handle(y)
          PROVE  Abs!Next
      <3>1. Pending' = Pending /\ sent' = sent
        BY <2>0, <2>2, PendingStays
      <3>2. /\ now[x] <= now'[x] /\ now' = [now EXCEPT ![x] = now'[x]]
            /\ \A e \in Pending : Home[e.comp] = x => now'[x] <= e.time
        BY <2>2, AdvanceOrdered
      <3>3. Abs!Advance(x, now'[x])
        BY <3>1, <3>2 DEF Abs!Advance, Abs!NothingBefore
      <3> QED BY <3>3 DEF Abs!Next
    <2>3. ASSUME ~ \E x \in RankInfo : Handle(x) \/ Stop(x) \/ Sync(x)
          PROVE  UNCHANGED <<Pending, now, sent>>
      BY <2>0, <2>3, PendingStays, ClockStays
    <2> QED BY <2>1, <2>2, <2>3
  <1>5. Spec => []SyncInv /\ []PlaceInv /\ []ForwardInv
    BY <1>2, <1>3, PlaceInvStep, ForwardInvStep, SyncInvariance, PTL DEF Spec
  <1> QED BY <1>1, <1>4, <1>5, PTL DEF Spec, EventOrdered, Abs!Spec, Abs!evars

----------------------------------------------------------------------------
(* Threads end together, at the cycle they are to.                         *)

(* Has a stop ended thread x? *)
ByStop(x) == endSim[x] /\ back[x] = "run"

(* Has a sync ended thread x, or is it in one that will? *)
Ending(x) ==
  \/ endSim[x] /\ back[x] = "next"
  \/ pc[x] = "end" /\ Over(x)
  \/ pc[x] = "R4" /\ pc[Master(x[1])] = "R4" /\ Over(x)

(* Have all components said OK that its end depends on? *)
AllSaid(x) == \A c \in Comps : Home[c] \in Together(x) => c \notin idSet[Home[c][1]]

(* A sync that ends a thread ends all it is held together with, when they  *)
(* have said OK, and at the time of the last OK. *)
EndTogether ==
  \A x \in RankInfo : Ending(x) => AllSaid(x) /\ \A y \in Together(x) : Ending(y)
EndTimes ==
  \A x \in RankInfo : Ending(x) =>
    IF endSim[x] THEN TakenFinal(x) \/ endCycle[x] = LastOK(x)
    ELSE endTime[x[1]] = LastOK(x)

(* A thread without links stops as soon as its last component says OK. *)
StopsNow(x) == Independent(x[1]) /\ AllSaid(x) /\ pc[x] = "run" /\ LastOK(x) = now[x]
SaidNothing(x) == \A c \in PlacedOn(x) : okAt[c] = 0
OwnStop(x) ==
  ~endSim[x] /\ AllSaid(x) =>
    \/ SaidNothing(x)
    \/ StopsNow(x) /\ now[x] < MaxTime /\ StopAt(now[x]) \in tv[x]
OwnStops == \A x \in RankInfo : Independent(x[1]) => OwnStop(x)

(* What stops there are, and how they end a thread. *)
StopsOf(x) == {a \in tv[x] : a.kind = "stop"}
StopTime(x) ==
  /\ ~endSim[x] => \A a \in StopsOf(x) :
       a.time = MaxTime \/ (StopCycle # 0 /\ a.time = StopCycle) \/ (StopsNow(x) /\ a.time = now[x])
  /\ ByStop(x) => \/ TakenFinal(x) \/ Stopped(x)
                  \/ Independent(x[1]) /\ AllSaid(x) /\ endCycle[x] = LastOK(x)
StopTimes == \A x \in RankInfo : StopTime(x)

(* Until the end, the end time of a rank is that of the last OK of a       *)
(* thread, or of those that have been taken back. *)
Undecided(r) == \A x \in ThreadsOf(r) : ~endSim[x] /\ ~Ending(x)
EndTimeBounds ==
  \A r \in Ranks : Undecided(r) =>
    /\ \A x \in ThreadsOf(r) : idSet[r] \cap PlacedOn(x) = {} =>
         \A c \in PlacedOn(x) : okAt[c] <= endTime[r]
    /\ endTime[r] = 0 \/ \E c \in PlacedIn(r) : endTime[r] <= okAt[c]
SaidBefore == \A c \in Comps : okAt[c] <= now[Home[c]]

(* Without links between ranks a sync has the type of the links there are, *)
(* and those of threads never come too late to be one. *)
SyncKinds ==
  MinPart = MaxTime => \A x \in RankInfo : ~endSim[x] =>
    /\ syncType[x] = IF ThreadLat(x[1]) = MaxTime THEN "RANK" ELSE "THREAD"
    /\ pc[x] = "next" /\ ThreadLat(x[1]) # MaxTime => threadNext[x] < MaxTime

(* After the loop. *)
FinalInv ==
  /\ \A x \in RankInfo : pc[x] = "final" => MinPart = MaxTime /\ NumRanks > 1
  /\ \A x, y \in Masters : TakenFinal(x) => TakenFinal(y) /\ endCycle[y] = endCycle[x]

EndingInv ==
  /\ SyncKinds /\ SaidBefore /\ EndTimeBounds /\ OwnStops /\ StopTimes
  /\ EndTogether /\ EndTimes /\ FinalInv

----------------------------------------------------------------------------
(* Who is held together with whom.                                         *)

LEMMA TogetherIs ==
  ASSUME NEW x \in RankInfo
  PROVE  /\ x \in Together(x) /\ Together(x) \subseteq RankInfo
         /\ \A y \in Together(x) : Together(y) = Together(x)
         /\ Independent(x[1]) => Together(x) = {x}
         /\ ~Independent(x[1]) /\ MinPart = MaxTime => Together(x) = ThreadsOf(x[1])
         /\ MinPart # MaxTime => Together(x) = RankInfo
  BY DEF Together, ThreadsOf, Independent

LEMMA SameTogether ==
  ASSUME config' = config
  PROVE  /\ \A x : Together(x)' = Together(x)
         /\ (\A rk : Independent(rk)' = Independent(rk)) /\ StopCycle' = StopCycle /\ MinPart' = MinPart
         /\ (\A rk : ThreadLat(rk)' = ThreadLat(rk))
  BY DEF Together, Independent, StopCycle, MinPart, RankLat, ThreadLat

(* The time by which all have said OK. *)
LEMMA LastTime ==
  ASSUME NEW ok \in [Comps -> SimTime], NEW C \in SUBSET Comps, NEW t \in SimTime,
         \A c \in C : ok[c] <= t, t = 0 \/ \E c \in C : t <= ok[c]
  PROVE  MinTime({u \in SimTime : \A c \in C : ok[c] <= u}) = t
  <1> DEFINE S == {u \in SimTime : \A c \in C : ok[c] <= u}
  <1>1. t \in S /\ S \in SUBSET SimTime
    OBVIOUS
  <1>2. \A u \in S : t <= u
    <2> SUFFICES ASSUME NEW u \in S PROVE t <= u
      OBVIOUS
    <2>1. t \in Nat /\ u \in Nat /\ \A c \in C : ok[c] \in Nat
      BY TimeBounds
    <2>2. CASE t = 0
      BY <2>1, <2>2
    <2>3. CASE \E c \in C : t <= ok[c]
      BY <2>1, <2>3
    <2> QED BY <2>2, <2>3
  <1>3. MinTime(S) \in S /\ \A u \in S : MinTime(S) <= u
    BY <1>1, EarliestTime
  <1>4. MinTime(S) <= t /\ t <= MinTime(S) /\ MinTime(S) \in SimTime
    BY <1>1, <1>2, <1>3
  <1> QED BY <1>4, TimeBounds

LEMMA LastIs ==
  ASSUME okAt \in [Comps -> SimTime], NEW C \in SUBSET Comps, NEW t \in SimTime,
         \A c \in C : okAt[c] <= t, t = 0 \/ \E c \in C : t <= okAt[c]
  PROVE  LastOf(C) = t
  BY LastTime DEF LastOf

----------------------------------------------------------------------------
(* A component says something.                                             *)

(* A stop or an event is only popped before the next sync, and an event    *)
(* before any stop. *)
LEMMA PopsBefore ==
  ASSUME SyncInv, NEW x \in RankInfo, NEW a \in Earliest(tv[x]), Pop(x, a)
  PROVE  /\ a.kind # "sync" => a.time < MaxTime /\ a.time < NextSync(x)
         /\ a.kind = "event" => \A b \in StopsOf(x) : a.time < b.time
  <1>0. TypeInv
    BY DEF SyncInv
  <1>1. /\ a \in tv[x] /\ a \in Activities /\ a.time \in SimTime
        /\ pc[x] = "run" /\ ~endSim[x] /\ \A b \in tv[x] : ~Less(b, a)
        /\ \A b \in tv[x] : a.time <= b.time
    BY <1>0, Popped DEF Earliest
  <1>2. NextSync(x) \in SimTime /\ SyncAt(NextSync(x)) \in tv[x]
    BY <1>0, <1>1, NextSyncTime DEF SyncInv, Queued
  <1>3. a.kind \in {"sync", "stop", "event"}
    BY <1>1, ActivityFields
  <1>4. Priority["sync"] = 25 /\ Priority["stop"] = 30 /\ Priority["event"] = 50
    BY DEF Priority
  <1>5. ASSUME a.kind # "sync" PROVE a.time < NextSync(x)
    <2>1. SyncAt(NextSync(x)).kind = "sync" /\ SyncAt(NextSync(x)).time = NextSync(x)
      BY ActivityKinds
    <2>2. ~Less(SyncAt(NextSync(x)), a) /\ a.time <= NextSync(x)
      BY <1>1, <1>2, <2>1
    <2>3. a.time # NextSync(x)
      BY <1>3, <1>4, <1>5, <2>1, <2>2 DEF Less
    <2> QED BY <1>1, <1>2, <2>2, <2>3, TimeBounds
  <1>6. ASSUME a.kind = "event", NEW b \in StopsOf(x) PROVE a.time < b.time
    <2>1. b \in tv[x] /\ b.kind = "stop" /\ b.time \in SimTime
      BY <1>0, ActivityFields DEF StopsOf, TypeInv, Shapes
    <2>2. ~Less(b, a) /\ a.time <= b.time
      BY <1>1, <2>1
    <2>3. a.time # b.time
      BY <1>4, <1>6, <2>1, <2>2 DEF Less
    <2> QED BY <1>1, <2>1, <2>2, <2>3, TimeBounds
  <1>7. \A t \in SimTime, u \in SimTime : t < u => t < MaxTime
    BY TimeBounds
  <1> QED BY <1>1, <1>2, <1>5, <1>6, <1>7

(* What it says, when, and what that adds to the stops. *)
SaysNothing == UNCHANGED <<exitVars, okAt>>
SaysOK(c, t) ==
  RefDec(c, t) /\ okAt' = [okAt EXCEPT ![c] = IF c \in idSet[Home[c][1]] THEN t ELSE @]
SaysOpen(c) == RefInc(c) /\ UNCHANGED okAt

LEMMA HandleSays ==
  ASSUME SyncInv, RoomInv, NEW x \in RankInfo, Handle(x)
  PROVE  \E c \in Comps, t \in SimTime :
           /\ Home[c] = x /\ now'[x] = t /\ now[x] <= t /\ t < MaxTime
           /\ \A b \in StopsOf(x) : t < b.time
           /\ \A y \in RankInfo : y # x => StopsOf(y)' = StopsOf(y)
           /\ \/ SaysNothing \/ SaysOpen(c) \/ SaysOK(c, t)
           /\ IF SaysOK(c, t) /\ LastOfThread(c) /\ Independent(x[1])
              THEN StopsOf(x)' = StopsOf(x) \cup {StopAt(t)} ELSE StopsOf(x)' = StopsOf(x)
  <1>0. TypeInv
    BY DEF SyncInv
  <1>1. PICK a \in Earliest(tv[x]) :
          /\ a.kind = "event" /\ Pop(x, a)
          /\ \E S \in Sends(a.comp, a.time) :
               \/ /\ SaysNothing
                  /\ SendAll(x, S, tv[x] \ {a})
               \/ /\ RefDec(a.comp, a.time)
                  /\ okAt' = [okAt EXCEPT ![a.comp] = IF a.comp \in idSet[x[1]] THEN a.time ELSE @]
                  /\ SendAll(x, S, AfterOK(tv[x] \ {a}, a.comp, a.time))
               \/ /\ SaysOpen(a.comp)
                  /\ SendAll(x, S, tv[x] \ {a})
          /\ UNCHANGED <<pc, back, syncVars, net, got, endVars, config>>
    <2>1. PICK a \in Earliest(tv[x]) :
            /\ a.kind = "event" /\ Pop(x, a)
            /\ \E S \in Sends(a.comp, a.time) :
                 \/ /\ UNCHANGED <<exitVars, okAt>>
                    /\ SendAll(x, S, tv[x] \ {a})
                 \/ /\ RefDec(a.comp, a.time)
                    /\ okAt' = [okAt EXCEPT ![a.comp] = IF a.comp \in idSet[x[1]] THEN a.time ELSE @]
                    /\ SendAll(x, S, AfterOK(tv[x] \ {a}, a.comp, a.time))
                 \/ /\ RefInc(a.comp)
                    /\ UNCHANGED okAt
                    /\ SendAll(x, S, tv[x] \ {a})
            /\ UNCHANGED <<pc, back, syncVars, net, got, endVars, config>>
      BY DEF Handle
    <2>2. PICK S \in Sends(a.comp, a.time) :
            \/ /\ SaysNothing
               /\ SendAll(x, S, tv[x] \ {a})
            \/ /\ RefDec(a.comp, a.time)
               /\ okAt' = [okAt EXCEPT ![a.comp] = IF a.comp \in idSet[x[1]] THEN a.time ELSE @]
               /\ SendAll(x, S, AfterOK(tv[x] \ {a}, a.comp, a.time))
            \/ /\ SaysOpen(a.comp)
               /\ SendAll(x, S, tv[x] \ {a})
      BY <2>1 DEF SaysNothing, SaysOpen
    <2> QED BY <2>1, <2>2
  <1> DEFINE c == a.comp
             t == a.time
             rest == tv[x] \ {a}
  <1>2. a \in EventsOf(x) /\ c \in Comps /\ t \in SimTime /\ a \in Events
    <2>1. a \in tv[x] /\ a \in Activities
      BY <1>0, <1>1, Popped
    <2>2. a \in Events
      BY <1>1, <2>1, ActivityFields
    <2> QED BY <1>1, <2>1, <2>2 DEF EventsOf, Events
  <1>3. Lookahead
    BY <1>2 DEF RoomInv, Nothing
  <1>4. Home[c] = x /\ now[x] <= t
    BY <1>2, <1>3 DEF Lookahead, Homes, Behind, EventsOf
  <1>5. now'[x] = t /\ t < MaxTime /\ \A b \in StopsOf(x) : t < b.time
    BY <1>0, <1>1, Popped, PopsBefore
  <1>6. PICK S \in Sends(c, t) :
          \/ SaysNothing /\ SendAll(x, S, rest)
          \/ SaysOK(c, t) /\ SendAll(x, S, AfterOK(rest, c, t))
          \/ SaysOpen(c) /\ SendAll(x, S, rest)
    BY <1>1, <1>4 DEF SaysOK
  <1>7. S \in SUBSET Events
    BY <1>0, <1>2, SentEvents DEF TypeInv
  <1>8. ASSUME NEW own, SendAll(x, S, own)
        PROVE  /\ \A y \in RankInfo : y # x => StopsOf(y)' = StopsOf(y)
               /\ StopsOf(x)' = {b \in own : b.kind = "stop"}
    <2>1. \A y \in RankInfo : tv'[y] = (IF y = x THEN own ELSE tv[y]) \cup Carried(S, x, y, "vortex")
      BY <1>8 DEF SendAll
    <2>2. \A y \in RankInfo : \A e \in Carried(S, x, y, "vortex") : e.kind = "event"
      BY <1>7, ActivityKinds DEF Carried
    <2> QED BY <2>1, <2>2 DEF StopsOf
  <1>9. {b \in rest : b.kind = "stop"} = StopsOf(x)
    BY <1>1 DEF StopsOf
  <1>10. {b \in rest \cup {StopAt(t)} : b.kind = "stop"} = StopsOf(x) \cup {StopAt(t)}
    BY <1>9, ActivityKinds
  <1>11. AfterOK(rest, c, t) = IF LastOfThread(c) /\ Independent(x[1]) THEN rest \cup {StopAt(t)} ELSE rest
    BY <1>4 DEF AfterOK
  <1>12. LastOfThread(c) /\ SaysOK(c, t) => ~SaysNothing /\ ~SaysOpen(c)
    <2> SUFFICES ASSUME LastOfThread(c), SaysOK(c, t) PROVE ~SaysNothing /\ ~SaysOpen(c)
      OBVIOUS
    <2>1. c \in idSet[x[1]] /\ x[1] \in Ranks /\ idSet \in [Ranks -> SUBSET Comps]
      BY <1>0, <1>4, Threads DEF LastOfThread, TypeInv, CountInv, Placement
    <2>2. idSet' = [idSet EXCEPT ![x[1]] = @ \ {c}]
      BY <1>4, <2>1 DEF SaysOK, RefDec
    <2>3. c \notin idSet'[x[1]]
      BY <2>1, <2>2
    <2> QED BY <1>4, <2>1, <2>3 DEF SaysNothing, SaysOpen, RefInc, exitVars
  <1>13. /\ \A y \in RankInfo : y # x => StopsOf(y)' = StopsOf(y)
         /\ \/ SaysNothing \/ SaysOpen(c) \/ SaysOK(c, t)
         /\ IF SaysOK(c, t) /\ LastOfThread(c) /\ Independent(x[1])
            THEN StopsOf(x)' = StopsOf(x) \cup {StopAt(t)} ELSE StopsOf(x)' = StopsOf(x)
    <2>1. CASE SaysOK(c, t) /\ LastOfThread(c) /\ Independent(x[1])
      BY <1>6, <1>8, <1>10, <1>11, <1>12, <2>1
    <2>2. CASE ~(SaysOK(c, t) /\ LastOfThread(c) /\ Independent(x[1]))
      BY <1>6, <1>8, <1>9, <1>11, <2>2
    <2> QED BY <2>1, <2>2
  <1> QED BY <1>2, <1>4, <1>5, <1>13

(* What it says concerns its own thread, and counts from now on. *)
LEMMA SaysHere ==
  ASSUME SyncInv, RoomInv, SaidBefore, NEW x \in RankInfo, Handle(x)
  PROVE  /\ \A d \in Comps : Home[d] # x =>
              okAt'[d] = okAt[d] /\ \A r \in Ranks : d \in idSet'[r] <=> d \in idSet[r]
         /\ \A d \in Comps : okAt[d] <= okAt'[d] /\ (Home[d] = x => okAt'[d] <= now'[x])
         /\ \A r \in Ranks : r # x[1] => endTime'[r] = endTime[r]
         /\ endTime[x[1]] <= endTime'[x[1]]
         /\ \/ endTime'[x[1]] = endTime[x[1]]
            \/ \E c \in PlacedIn(x[1]) : endTime'[x[1]] = okAt'[c]
         /\ idSet'[x[1]] \cap PlacedOn(x) = {} =>
              \/ \A d \in PlacedOn(x) : okAt'[d] <= endTime'[x[1]]
              \/ idSet[x[1]] \cap PlacedOn(x) = {} /\ UNCHANGED <<okAt, endTime>>
  <1> DEFINE r == x[1]
  <1>0. CountInv /\ Shapes
    BY DEF SyncInv, TypeInv
  <1>1. PICK c \in Comps, t \in SimTime :
          /\ Home[c] = x /\ now'[x] = t /\ now[x] <= t
          /\ \/ UNCHANGED <<exitVars, okAt>>
             \/ /\ RefDec(c, t)
                /\ okAt' = [okAt EXCEPT ![c] = IF c \in idSet[r] THEN t ELSE @]
             \/ RefInc(c) /\ UNCHANGED okAt
    BY HandleSays DEF SaysNothing, SaysOK, SaysOpen
  <1>2. /\ r \in Ranks /\ c \in PlacedOn(x) /\ c \in PlacedIn(r)
        /\ okAt \in [Comps -> SimTime] /\ endTime \in [Ranks -> SimTime] /\ now \in [RankInfo -> SimTime]
    BY <1>0, <1>1, HomeOf DEF Shapes
  <1>3. /\ t \in Nat /\ now[x] \in Nat /\ \A d \in Comps : okAt[d] \in Nat
        /\ \A q \in Ranks : endTime[q] \in Nat
    BY <1>2, TimeBounds
  <1>4. \A d \in Comps : Home[d] = x => okAt[d] <= t
    <2>1. \A d \in Comps : Home[d] = x => okAt[d] <= now[x]
      BY DEF SaidBefore
    <2> QED BY <1>1, <1>3, <2>1
  <1>5. CASE UNCHANGED <<exitVars, okAt>>
    <2>1. okAt' = okAt /\ endTime' = endTime /\ idSet' = idSet
      BY <1>5 DEF exitVars
    <2>2. \A d \in Comps : okAt[d] <= okAt'[d] /\ (Home[d] = x => okAt'[d] <= now'[x])
      BY <1>1, <1>3, <1>4, <2>1
    <2>3. endTime[r] <= endTime'[r]
      BY <1>2, <1>3, <2>1
    <2> QED BY <2>1, <2>2, <2>3
  <1>6. CASE c \notin idSet[r] /\ RefDec(c, t)
             /\ okAt' = [okAt EXCEPT ![c] = IF c \in idSet[r] THEN t ELSE @]
    <2>1. UNCHANGED exitVars
      BY <1>1, <1>6 DEF RefDec
    <2>2. okAt' = okAt
      BY <1>2, <1>6
    <2> QED BY <1>5, <2>1, <2>2
  <1>7. CASE RefInc(c) /\ UNCHANGED okAt
    <2>1. CASE c \in idSet[r]
      BY <1>1, <1>5, <1>7, <2>1 DEF RefInc
    <2>2. CASE c \notin idSet[r]
      <3>1. idSet' = [idSet EXCEPT ![r] = @ \cup {c}] /\ endTime' = endTime
        BY <1>1, <1>7, <2>2 DEF RefInc
      <3>2. idSet'[r] = idSet[r] \cup {c} /\ \A q \in Ranks : q # r => idSet'[q] = idSet[q]
        BY <1>0, <1>2, <3>1 DEF CountInv, Placement
      <3>3. \A d \in Comps : Home[d] # x => \A q \in Ranks : d \in idSet'[q] <=> d \in idSet[q]
        BY <1>1, <3>2
      <3>4. idSet'[r] \cap PlacedOn(x) # {}
        BY <1>2, <3>2
      <3>5. okAt' = okAt
        BY <1>7
      <3>6. \A d \in Comps : okAt[d] <= okAt'[d] /\ (Home[d] = x => okAt'[d] <= now'[x])
        BY <1>1, <1>3, <1>4, <3>5
      <3>7. endTime[r] <= endTime'[r]
        BY <1>2, <1>3, <3>1
      <3> QED BY <3>1, <3>3, <3>4, <3>5, <3>6, <3>7
    <2> QED BY <2>1, <2>2
  <1>8. CASE c \in idSet[r] /\ RefDec(c, t)
             /\ okAt' = [okAt EXCEPT ![c] = IF c \in idSet[r] THEN t ELSE @]
    <2>1. ~Serial
      BY SimAssumption DEF Serial
    <2>2. /\ idSet' = [idSet EXCEPT ![r] = @ \ {c}]
          /\ endTime' = [endTime EXCEPT ![r] = IF LastOfThread(c) THEN MaxOf(@, t) ELSE @]
      BY <1>1, <1>8, <2>1 DEF RefDec
    <2>3. /\ idSet'[r] = idSet[r] \ {c} /\ \A q \in Ranks : q # r => idSet'[q] = idSet[q]
          /\ \A q \in Ranks : q # r => endTime'[q] = endTime[q]
          /\ endTime'[r] = IF LastOfThread(c) THEN MaxOf(endTime[r], t) ELSE endTime[r]
      BY <1>0, <1>2, <2>2 DEF CountInv, Placement
    <2>4. okAt'[c] = t /\ \A d \in Comps : d # c => okAt'[d] = okAt[d]
      BY <1>2, <1>8
    <2>5. \A d \in Comps : Home[d] # x => \A q \in Ranks : d \in idSet'[q] <=> d \in idSet[q]
      BY <1>1, <2>3
    <2>6. endTime[r] <= endTime'[r] /\ (LastOfThread(c) => t <= endTime'[r])
          /\ (endTime'[r] = endTime[r] \/ endTime'[r] = t)
      BY <1>2, <1>3, <2>3 DEF MaxOf
    <2>7. idSet'[r] \cap PlacedOn(x) = {} => LastOfThread(c)
      <3> SUFFICES ASSUME idSet'[r] \cap PlacedOn(x) = {} PROVE LastOfThread(c)
        OBVIOUS
      <3>1. idSet[r] \cap PlacedOn(x) = {c}
        BY <1>2, <1>8, <2>3
      <3>2. threadCount[x] = 1
        BY <1>0, <3>1, FS_Singleton DEF CountInv, CountsMatch
      <3> QED BY <1>1, <1>8, <3>2 DEF LastOfThread
    <2>8. \A d \in PlacedOn(x) : okAt'[d] <= t
      BY <1>3, <1>4, <2>4 DEF PlacedOn
    <2>9. idSet'[r] \cap PlacedOn(x) = {} => \A d \in PlacedOn(x) : okAt'[d] <= endTime'[r]
      <3>1. \A d \in PlacedOn(x) : okAt'[d] \in Nat
        BY <1>3, <2>4 DEF PlacedOn
      <3>2. endTime'[r] \in Nat
        BY <1>2, <1>3, <2>6
      <3> QED BY <1>3, <2>6, <2>7, <2>8, <3>1, <3>2
    <2>10. \A d \in Comps : okAt[d] <= okAt'[d] /\ (Home[d] = x => okAt'[d] <= now'[x])
      BY <1>1, <1>3, <1>4, <2>4
    <2>11. endTime'[r] = endTime[r] \/ \E d \in PlacedIn(r) : endTime'[r] = okAt'[d]
      BY <1>2, <2>4, <2>6
    <2> QED BY <1>1, <2>3, <2>4, <2>5, <2>6, <2>9, <2>10, <2>11
  <1> QED BY <1>1, <1>5, <1>6, <1>7, <1>8


(* Only a component that handles an event says anything. *)
LEMMA OnlyHandleSays ==
  ASSUME SyncInv, RoomInv, [Next]_vars, ~ \E x \in RankInfo : Handle(x)
  PROVE  okAt' = okAt /\ idSet' = idSet /\ refCount' = refCount
  <1>1. ASSUME NEW x \in RankInfo, ThreadStep(x) PROVE okAt' = okAt
    BY <1>1 DEF ThreadStep, Stop, Sync, LeaveLoop, Before, SendRank, ReceiveRank, ReceivedAll,
                After, EndOrNext, InsertNext, compVars
  <1>2. ASSUME Meeting \/ Finished \/ UNCHANGED vars PROVE okAt' = okAt
    BY <1>2 DEF Meeting, Barrier, ReduceNext, CheckRanks, FinalEndTime, Finished, vars, compVars
  <1>3. okAt' = okAt
    BY <1>1, <1>2 DEF Next
  <1> QED BY <1>3, StepKeeps

LEMMA SaidBeforeStep ==
  ASSUME SyncInv, PlaceInv, ForwardInv, SaidBefore, [Next]_vars PROVE SaidBefore'
  <1> SUFFICES ASSUME NEW c \in Comps PROVE okAt'[c] <= now'[Home[c]]
    BY DEF SaidBefore
  <1>0. TypeInv /\ RoomInv /\ Home[c] \in RankInfo
    BY HomeOf DEF SyncInv, PlaceInv
  <1>1. okAt[c] <= now[Home[c]] /\ okAt[c] \in Nat /\ now[Home[c]] \in Nat
    <2>1. okAt[c] \in SimTime /\ now[Home[c]] \in SimTime
      BY <1>0 DEF TypeInv, Shapes
    <2> QED BY <2>1, TimeBounds DEF SaidBefore
  <1>2. ASSUME NEW x \in RankInfo, Handle(x) PROVE okAt'[c] <= now'[Home[c]]
    <2>1. CASE Home[c] = x
      BY <1>0, <1>2, <2>1, SaysHere
    <2>2. CASE Home[c] # x
      <3>1. okAt'[c] = okAt[c]
        BY <1>0, <1>2, <2>2, SaysHere
      <3>2. now'[Home[c]] = now[Home[c]]
        BY <1>0, <1>2, <2>2, HandleEffect DEF OthersKeep
      <3> QED BY <1>1, <3>1, <3>2
    <2> QED BY <2>1, <2>2
  <1>3. ASSUME ~ \E x \in RankInfo : Handle(x), NEW x \in RankInfo, Stop(x) \/ Sync(x)
        PROVE  okAt'[c] <= now'[Home[c]]
    <2>1. okAt' = okAt
      BY <1>0, <1>3, OnlyHandleSays
    <2>2. now[x] <= now'[x] /\ now' = [now EXCEPT ![x] = now'[x]]
      BY <1>3, AdvanceOrdered
    <2>3. now' \in [RankInfo -> SimTime] /\ \A y \in RankInfo : y # x => now'[y] = now[y]
      <3>1. PICK a \in Earliest(tv[x]) : Pop(x, a)
        BY <1>3 DEF Stop, Sync
      <3> QED BY <1>0, <3>1, Popped
    <2>4. now'[Home[c]] \in Nat
      BY <1>0, <2>3, TimeBounds
    <2>5. now[Home[c]] <= now'[Home[c]]
      <3>1. CASE Home[c] = x
        BY <2>2, <3>1
      <3>2. CASE Home[c] # x
        BY <1>0, <1>1, <2>3, <3>2
      <3> QED BY <3>1, <3>2
    <2> QED BY <1>1, <2>1, <2>4, <2>5
  <1>4. CASE ~ \E x \in RankInfo : Handle(x) \/ Stop(x) \/ Sync(x)
    <2>1. okAt' = okAt /\ now' = now
      BY <1>0, <1>4, OnlyHandleSays, ClockStays
    <2> QED BY <1>1, <2>1
  <1> QED BY <1>2, <1>3, <1>4

----------------------------------------------------------------------------
(* Who is in the sync that ends it.                                        *)

(* One who is, and one whom a sync has ended, runs no components. *)
LEMMA EndingPlace ==
  ASSUME SyncInv, NEW x \in RankInfo
  PROVE  /\ Ending(x) => ~(pc[x] = "run" /\ ~endSim[x])
         /\ Ending(x) /\ ~endSim[x] => Phase(x) \in {"check", "end"}
         /\ endSim[x] => (Ending(x) <=> back[x] = "next") /\ (ByStop(x) <=> ~Ending(x))
         /\ ~endSim[x] => ~ByStop(x)
         /\ ~endSim[x] /\ pc[x] # "end" /\ ~(pc[x] = "R4" /\ pc[Master(x[1])] = "R4") => ~Ending(x)
  <1>1. endSim[x] \in BOOLEAN /\ back[x] \in {"run", "next"}
        /\ (endSim[x] => pc[x] \notin {"end", "R4"})
    BY DEF SyncInv, TypeInv, Shapes, EndInv
  <1> QED BY <1>1, PhaseAt DEF Ending, ByStop

LEMMA OverStays ==
  ASSUME NEW y \in RankInfo, config' = config, syncType'[y] = syncType[y],
         globalCount'[y[1]] = globalCount[y[1]],
         syncType[y] = "RANK" \/ refCount'[y[1]] = refCount[y[1]]
  PROVE  Over(y)' <=> Over(y)
  BY SameTogether DEF Over

LEMMA ThreadEnding ==
  ASSUME SyncInv, RoomInv, NEW x \in RankInfo, ThreadStep(x), NEW y \in RankInfo
  PROVE  Ending(y)' <=> Ending(y)
  <1>0. TypeInv
    BY DEF SyncInv
  <1>1. OthersKeep(x) /\ Effect(x)
    BY ThreadEffect
  <1>2. globalCount' = globalCount /\ config' = config
    BY <1>1, ThreadCounts DEF OthersKeep
  <1>3. pc'[x] # "R4" /\ pc[x] # "R4"
    <2>1. syncType[x] \in {"RANK", "THREAD"} /\ back[x] \in {"run", "next"}
      BY <1>0 DEF TypeInv, Shapes
    <2> QED BY <1>1, <2>1 DEF Effect, Runs, Finishes, Begins, Moves, FindsNext, Inserts
  <1>4. Master(y[1])' = Master(y[1]) /\ Master(y[1]) \in RankInfo
    BY Threads DEF Master
  <1>5. CASE y # x
    <2>1. /\ pc'[y] = pc[y] /\ back'[y] = back[y] /\ syncType'[y] = syncType[y]
          /\ endSim'[y] = endSim[y]
      BY <1>1, <1>5 DEF OthersKeep
    <2>2. pc'[Master(y[1])] = "R4" <=> pc[Master(y[1])] = "R4"
      BY <1>1, <1>3, <1>4 DEF OthersKeep
    <2>3. pc[y] \in {"R4", "end"} => (Over(y)' <=> Over(y))
      <3> SUFFICES ASSUME pc[y] \in {"R4", "end"} PROVE Over(y)' <=> Over(y)
        OBVIOUS
      <3>1. refCount'[y[1]] = refCount[y[1]]
        <4>1. CASE Handle(x) /\ x[1] = y[1]
          <5>1. Phase(x) = "run"
            BY <4>1, PhaseAt DEF Handle, Pop
          <5>2. Phase(y) = "run"
            BY <4>1, <5>1 DEF SyncInv, Lockstep
          <5> QED BY <5>2, PhaseAt
        <4>2. CASE ~(Handle(x) /\ x[1] = y[1])
          BY <4>2, ThreadCounts, Threads
        <4> QED BY <4>1, <4>2
      <3> QED BY <1>2, <2>1, <3>1, OverStays
    <2> QED BY <1>4, <2>1, <2>2, <2>3 DEF Ending
  <1>6. CASE y = x
    <2>1. CASE EndOrNext(x)
      <3>1. /\ pc[x] = "end" /\ endSim[x] = FALSE /\ back[x] \in {"run", "next"}
            /\ back \in [RankInfo -> {"run", "next"}] /\ endSim \in [RankInfo -> BOOLEAN]
            /\ pc \in [RankInfo -> PCs]
        BY <1>0, <2>1 DEF EndOrNext, TypeInv, Shapes, EndInv
      <3>2. Ending(x) <=> Over(x)
        BY <3>1 DEF Ending
      <3>3. CASE Over(x)
        <4>1. endSim'[x] = TRUE /\ back'[x] = "next"
          BY <2>1, <3>1, <3>3 DEF EndOrNext, EndSimulation
        <4> QED BY <1>6, <3>2, <3>3, <4>1 DEF Ending
      <3>4. CASE ~Over(x)
        <4>1. pc'[x] = "next" /\ endSim'[x] = FALSE
          BY <2>1, <3>1, <3>4 DEF EndOrNext, Goto, endVars
        <4> QED BY <1>6, <3>2, <3>4, <4>1 DEF Ending
      <3> QED BY <3>3, <3>4
    <2>2. CASE ~EndOrNext(x)
      <3>1. pc[x] # "end"
        BY <2>2 DEF ThreadStep, Handle, Stop, Sync, Pop, LeaveLoop, Before, SendRank, ReceiveRank,
                    ReceivedAll, After, InsertNext
      <3>2. pc'[x] # "end" /\ ((endSim'[x] /\ back'[x] = "next") <=> (endSim[x] /\ back[x] = "next"))
        <4>1. CASE Stop(x)
          <5>1. endSim[x] = FALSE /\ pc'[x] = "exitB" /\ back'[x] = "run"
            BY <1>0, <4>1 DEF Stop, Pop, EndSimulation, TypeInv, Shapes
          <5> QED BY <5>1
        <4>2. CASE ~Stop(x)
          <5>1. UNCHANGED <<back, endSim>>
            BY <2>2, <4>2 DEF ThreadStep, Handle, Sync, LeaveLoop, Before, SendRank, ReceiveRank,
                    ReceivedAll, After, InsertNext, endVars
          <5>2. syncType[x] \in {"RANK", "THREAD"}
            BY <1>0 DEF TypeInv, Shapes
          <5>3. pc'[x] # "end"
            BY <1>1, <3>1, <5>2 DEF Effect, Runs, Finishes, Begins, Moves, FindsNext, Inserts
          <5> QED BY <5>1, <5>3
        <4> QED BY <4>1, <4>2
      <3> QED BY <1>3, <1>6, <3>1, <3>2 DEF Ending
    <2> QED BY <2>1, <2>2
  <1> QED BY <1>5, <1>6


(* A barrier only decides that the threads of a rank end if it ends a      *)
(* thread sync, where their rank's count tells. *)
LEMMA BarrierEnding ==
  ASSUME SyncInv, NEW r \in Ranks, NEW b \in Barriers, Barrier(r, b), NEW y \in RankInfo
  PROVE  Ending(y)' <=> \/ Ending(y)
                        \/ y[1] = r /\ b = "T2" /\ MinPart = MaxTime /\ refCount[r] = 0
  <1>0. TypeInv
    BY DEF SyncInv
  <1>1. /\ y[1] = r => pc[y] = b /\ pc'[y] = Resume(y, b)
        /\ y[1] # r => pc'[y] = pc[y]
        /\ UNCHANGED <<back, syncType, endSim, config, exitVars>>
    BY <1>0, BarrierStep
  <1>2. Master(y[1])' = Master(y[1]) /\ Master(y[1]) \in RankInfo /\ Master(y[1])[1] = y[1]
        /\ Master(Master(y[1])[1]) = Master(y[1])
    BY Threads DEF Master
  <1>3. /\ Master(y[1])[1] = r => pc[Master(y[1])] = b /\ pc'[Master(y[1])] = Resume(Master(y[1]), b)
        /\ Master(y[1])[1] # r => pc'[Master(y[1])] = pc[Master(y[1])]
    BY <1>0, <1>2, BarrierStep
  <1>4. Over(y)' <=> Over(y)
    BY <1>1, OverStays DEF exitVars
  <1>5. CASE y[1] # r
    BY <1>1, <1>2, <1>3, <1>4, <1>5 DEF Ending
  <1>6. CASE y[1] = r
    <2>1. pc[y] = b /\ pc[Master(r)] = b /\ pc'[y] = Resume(y, b) /\ pc'[Master(r)] = Resume(Master(r), b)
          /\ Master(y[1]) = Master(r)
      BY <1>1, <1>2, <1>3, <1>6
    <2>2. CASE b = "R4"
      BY <1>1, <1>2, <1>4, <1>6, <2>1, <2>2, ResumeAt DEF Ending
    <2>3. CASE b = "T2"
      <3>1. syncType[y] = "THREAD"
        BY <2>1, <2>3 DEF SyncInv, TypeOfSync
      <3>2. Over(y) <=> MinPart = MaxTime /\ refCount[r] = 0
        BY <1>6, <3>1 DEF Over
      <3>3. pc'[y] = "end"
        BY <2>1, <2>3, ResumeAt
      <3> QED BY <1>1, <1>2, <1>4, <1>6, <2>1, <2>3, <3>2, <3>3 DEF Ending
    <2>4. CASE b \notin {"R4", "T2"}
      <3>1. back[y] \in {"run", "next"}
        BY <1>0 DEF TypeInv, Shapes
      <3>2. pc'[y] # "end" /\ ~(pc'[y] = "R4" /\ pc'[Master(r)] = "R4")
        <4>1. CASE b = "R3"
          <5>1. pc'[Master(r)] = "check"
            BY <1>2, <1>6, <2>1, <4>1, ResumeAt
          <5>2. pc'[y] \in {"check", "R4"}
            BY <2>1, <4>1, ResumeAt
          <5> QED BY <5>1, <5>2
        <4>2. CASE b # "R3"
          BY <1>0, <2>1, <2>4, <3>1, <4>2, ResumeAt, BarrierFrame
        <4> QED BY <4>1, <4>2
      <3>3. b # "end"
        BY BarrierFrame
      <3> QED BY <1>1, <1>2, <1>6, <2>1, <2>4, <3>2, <3>3 DEF Ending
    <2> QED BY <2>2, <2>3, <2>4
  <1> QED BY <1>5, <1>6

LEMMA ReduceEnding ==
  ASSUME SyncInv, ReduceNext, NEW y \in RankInfo
  PROVE  ~Ending(y) /\ ~Ending(y)' /\ ~endSim[y] /\ UNCHANGED <<endSim, back, endCycle, syncType, config, exitVars>>
  <1>1. pc[y] \in {"xReduce", "xAll"} /\ endSim[y] = FALSE
    BY AllReducing DEF SyncInv, BaseInv, TypeInv, EndInv, Shapes
  <1>2. UNCHANGED <<endSim, back, endCycle, syncType, config, exitVars>>
    BY DEF ReduceNext, endVars, compVars
  <1>3. pc'[y] \in {"R2", "xAll", "xReduce"}
    BY <1>1 DEF ReduceNext
  <1> QED BY <1>1, <1>2, <1>3 DEF Ending

(* The collective of a rank sync decides it for all, when nobody holds the *)
(* simulation open. *)
LEMMA CheckEnding ==
  ASSUME SyncInv, CheckRanks, NEW y \in RankInfo
  PROVE  /\ ~Ending(y) /\ ~endSim[y] /\ syncType[y] = "RANK" /\ pc[y] # "run" /\ pc'[y] = "R4"
         /\ Ending(y)' <=> OpenRanks(Ranks) = 0
         /\ UNCHANGED <<endSim, back, endCycle, syncType, okAt, idSet, refCount, config>>
         /\ \A r \in Ranks : endTime'[r] = IF OpenRanks(Ranks) = 0 THEN LatestEnd(Ranks) ELSE endTime[r]
  <1>0. TypeInv
    BY DEF SyncInv
  <1>1. /\ \A z \in Masters : pc[z] = "check"
        /\ pc' = [z \in RankInfo |-> IF z \in Masters THEN "R4" ELSE pc[z]]
        /\ globalCount' = [r \in Ranks |-> OpenRanks(Ranks)]
        /\ UNCHANGED <<endSim, back, endCycle, syncType, okAt, idSet, refCount, config>>
        /\ \A r \in Ranks : endTime'[r] = IF OpenRanks(Ranks) = 0 THEN LatestEnd(Ranks) ELSE endTime[r]
    BY DEF CheckRanks, CheckExit, syncVars, endVars, compVars
  <1>2. ASSUME NEW z \in RankInfo
        PROVE  /\ pc[z] \in {"check", "R4"} /\ pc'[z] = "R4" /\ endSim[z] = FALSE /\ syncType[z] = "RANK"
               /\ Master(z[1]) \in RankInfo /\ pc[Master(z[1])] = "check" /\ z[1] \in Ranks
    <2>1. /\ z[1] \in Ranks /\ Master(z[1]) \in RankInfo /\ Master(z[1])[1] = z[1]
          /\ Master(z[1]) \in Masters
      BY Threads
    <2>2. pc[z] \in {"check", "R4"}
      <3>1. Phase(Master(z[1])) = "check"
        BY <1>1, <2>1, PhaseAt
      <3>2. Phase(z) = "check"
        BY <2>1, <3>1 DEF SyncInv, Lockstep
      <3>3. pc[z] \in PCs
        BY <1>0 DEF TypeInv, Shapes
      <3> QED BY <3>2, <3>3 DEF Phase, PCs, Barriers, SyncCode
    <2>3. pc'[z] = "R4"
      <3>1. z \in Masters \/ pc[z] = "R4"
        BY <2>2 DEF SyncInv, MasterInv
      <3> QED BY <1>1, <3>1
    <2>4. endSim[z] = FALSE
      BY <1>0, <2>2 DEF TypeInv, EndInv, Shapes
    <2>5. syncType[z] = "RANK"
      BY <2>2 DEF SyncInv, TypeOfSync
    <2> QED BY <1>1, <2>1, <2>2, <2>3, <2>4, <2>5
  <1>3. Master(y[1])' = Master(y[1])
    BY DEF Master
  <1>4. Over(y)' <=> OpenRanks(Ranks) = 0
    BY <1>1, <1>2 DEF Over
  <1>5. pc'[Master(y[1])] = "R4"
    BY <1>2
  <1> QED BY <1>1, <1>2, <1>3, <1>4, <1>5 DEF Ending

LEMMA FinalEnding ==
  ASSUME SyncInv, FinalEndTime, NEW y \in RankInfo
  PROVE  /\ endSim[y] /\ pc[y] \in {"final", "done"} /\ (Ending(y)' <=> Ending(y))
         /\ (pc[y] = "final" <=> y \in Masters)
         /\ pc' = [x \in RankInfo |-> IF x \in Masters THEN "done" ELSE pc[x]]
         /\ endCycle' = [x \in RankInfo |-> IF x \in Masters THEN LatestEnd(Ranks) ELSE endCycle[x]]
         /\ UNCHANGED <<endSim, back, syncType, okAt, idSet, refCount, config>>
  <1>0. TypeInv
    BY DEF SyncInv
  <1>1. /\ \A z \in Masters : pc[z] = "final"
        /\ pc' = [x \in RankInfo |-> IF x \in Masters THEN "done" ELSE pc[x]]
        /\ endCycle' = [x \in RankInfo |-> IF x \in Masters THEN LatestEnd(Ranks) ELSE endCycle[x]]
        /\ UNCHANGED <<endSim, back, syncType, okAt, idSet, refCount, config>>
    BY DEF FinalEndTime, syncVars, compVars
  <1>2. /\ y[1] \in Ranks /\ Master(y[1]) \in RankInfo /\ Master(y[1])[1] = y[1]
        /\ Master(y[1]) \in Masters
    BY Threads
  <1>3. pc[y] \in {"final", "done"}
    <2>1. Phase(Master(y[1])) = "final"
      BY <1>1, <1>2, PhaseAt
    <2>2. Phase(y) = "final"
      BY <1>2, <2>1 DEF SyncInv, Lockstep
    <2>3. pc[y] \in PCs
      BY <1>0 DEF TypeInv, Shapes
    <2> QED BY <2>2, <2>3 DEF Phase, PCs, Barriers, SyncCode
  <1>4. endSim[y] /\ endSim[y] \in BOOLEAN
    BY <1>0, <1>3 DEF TypeInv, EndInv, Shapes
  <1>5. pc'[y] \in {"final", "done"}
    BY <1>1, <1>3
  <1> QED BY <1>1, <1>3, <1>4, <1>5 DEF Ending, SyncInv, MasterInv


----------------------------------------------------------------------------
(* The kinds of syncs.                                                     *)

LEMMA KindIs ==
  ASSUME NEW r, NEW n \in SimTime, ThreadLat(r) = MaxTime => n = MaxTime,
         ThreadLat(r) # MaxTime => n < MaxTime /\ (Direct => n > 0)
  PROVE  NextType(r, MaxTime, n) = IF ThreadLat(r) = MaxTime THEN "RANK" ELSE "THREAD"
  <1>1. n \in Nat /\ MaxTime \in Nat
    BY TimeBounds
  <1>2. CASE ThreadLat(r) = MaxTime
    <2>1. ThreadNextSync(r, n) = MaxTime
      BY <1>2, ThreadSyncTime
    <2> QED BY <1>1, <1>2, <2>1 DEF NextType
  <1>3. CASE ThreadLat(r) # MaxTime
    <2>1. ThreadNextSync(r, n) \in {n, n - 1}
      BY <1>3, ThreadSyncTime
    <2>2. ~(MaxTime <= ThreadNextSync(r, n))
      BY <1>1, <1>3, <2>1
    <2> QED BY <1>3, <2>2 DEF NextType
  <1> QED BY <1>2, <1>3

LEMMA KindsInit == Init => SyncKinds
  <1> SUFFICES ASSUME Init, MinPart = MaxTime, NEW x \in RankInfo
               PROVE  /\ syncType[x] = IF ThreadLat(x[1]) = MaxTime THEN "RANK" ELSE "THREAD"
                      /\ pc[x] # "next"
    BY DEF SyncKinds
  <1>1. pc[x] = "run" /\ syncType[x] = NextType(x[1], MaxTime, ThreadLat(x[1])) /\ config \in Configs
    BY DEF Init
  <1>2. ThreadLat(x[1]) \in SimTime \ {0}
    BY <1>1, ConfigFacts
  <1>3. ThreadLat(x[1]) # MaxTime => ThreadLat(x[1]) < MaxTime /\ ThreadLat(x[1]) > 0
    BY <1>2, TimeBounds
  <1>4. NextType(x[1], MaxTime, ThreadLat(x[1])) = IF ThreadLat(x[1]) = MaxTime THEN "RANK" ELSE "THREAD"
    BY <1>2, <1>3, KindIs
  <1> QED BY <1>1, <1>4

(* Who goes on after a thread sync has an event to come, and so a next one. *)
LEMMA NextInTime ==
  ASSUME SyncInv, PlaceInv, ForwardInv, NEW x \in RankInfo, pc[x] = "end", refCount[x[1]] # 0,
         ThreadLat(x[1]) # MaxTime
  PROVE  threadNext[x] < MaxTime
  <1>0. TypeInv /\ RoomInv /\ HeldOpen
    BY DEF SyncInv, PlaceInv, ForwardInv
  <1>1. Busy(x[1]) /\ ~Nothing
    BY <1>0, Threads, HeldBusy DEF TypeInv
  <1>2. Lookahead /\ InTime
    BY <1>0, <1>1, SpreadInTime DEF RoomInv
  <1>3. PICK y \in RankInfo : y[1] = x[1] /\ EventsOf(y) # {}
    BY <1>1 DEF Busy, ThreadsOf
  <1>4. PICK e \in EventsOf(y) : TRUE
    BY <1>3
  <1>5. e \in Pending /\ e.time \in SimTime
    <2>1. e \in Activities
      BY <1>0, <1>3 DEF EventsOf, TypeInv, Shapes
    <2> QED BY <1>4, <2>1, PendingParts, ActivityFields
  <1>6. Post(x) /\ Post(y) /\ Settled(y)
    <2>1. Phase(x) = "end"
      BY PhaseAt
    <2>2. Phase(y) = "end"
      BY <1>3, <2>1 DEF SyncInv, Lockstep
    <2>3. pc[y] \in PCs
      BY <1>0 DEF TypeInv, Shapes
    <2>4. pc[y] \in {"end", "next", "R5"} \/ (pc[y] = "exitB" /\ back[y] # "run")
      BY <2>2, <2>3 DEF Phase, PCs, Barriers, SyncCode
    <2>5. back[y] \in {"run", "next"}
      BY <1>0 DEF TypeInv, Shapes
    <2> QED BY <2>4, <2>5 DEF Post, Settled
  <1>7. threadNext[x] = threadNext[y]
    BY <1>3, <1>6 DEF SyncInv, TimesAgree
  <1>8. threadNext[y] <= e.time + ThreadLat(y[1])
    BY <1>2, <1>3, <1>6 DEF Lookahead, Ahead
  <1>9. e.time + ThreadLat(y[1]) + ThreadLat(y[1]) <= MaxTime
    BY <1>0, <1>2, <1>3, <1>5, Threads, InTimeBounds
  <1>10. /\ e.time \in Nat /\ ThreadLat(y[1]) \in Nat /\ ThreadLat(y[1]) > 0 /\ threadNext[y] \in Nat
         /\ MaxTime \in Nat
    <2>1. ThreadLat(y[1]) \in SimTime \ {0} /\ threadNext[y] \in SimTime
      BY <1>0, ConfigFacts DEF TypeInv, CountInv, Shapes
    <2> QED BY <1>5, <2>1, TimeBounds
  <1> QED BY <1>7, <1>8, <1>9, <1>10

LEMMA ThreadKinds ==
  ASSUME SyncInv, PlaceInv, ForwardInv, SyncKinds, NEW x \in RankInfo, ThreadStep(x)
  PROVE  SyncKinds'
  <1>0. TypeInv /\ RoomInv /\ Forward(x)
    BY DEF SyncInv, PlaceInv, ForwardInv
  <1>1. OthersKeep(x) /\ Effect(x)
    BY ThreadEffect
  <1>2. MinPart' = MinPart /\ (\A rk : ThreadLat(rk)' = ThreadLat(rk))
    BY <1>1, SameConfig DEF OthersKeep
  <1> SUFFICES ASSUME MinPart = MaxTime, NEW y \in RankInfo, ~endSim'[y]
               PROVE  /\ syncType'[y] = IF ThreadLat(y[1]) = MaxTime THEN "RANK" ELSE "THREAD"
                      /\ pc'[y] = "next" /\ ThreadLat(y[1]) # MaxTime => threadNext'[y] < MaxTime
    BY <1>2 DEF SyncKinds
  <1>3. CASE y # x
    BY <1>1, <1>3 DEF OthersKeep, SyncKinds
  <1>4. CASE y = x
    <2>1. CASE pc[x] = "end"
      <3>1. endSim[x] = FALSE
        BY <1>0, <2>1 DEF TypeInv, EndInv, Shapes
      <3>2. EndOrNext(x)
        BY <2>1 DEF ThreadStep, Handle, Stop, Sync, Pop, LeaveLoop, Before, SendRank, ReceiveRank,
                    ReceivedAll, After, InsertNext
      <3>3. ~Over(x)
        BY <1>0, <1>4, <3>2 DEF EndOrNext, EndSimulation, TypeInv, Shapes
      <3>4. UNCHANGED <<syncType, threadNext>>
        BY <3>2 DEF EndOrNext, syncVars
      <3>5. syncType[x] = IF ThreadLat(x[1]) = MaxTime THEN "RANK" ELSE "THREAD"
        BY <3>1 DEF SyncKinds
      <3>6. ThreadLat(x[1]) # MaxTime => threadNext[x] < MaxTime
        BY <2>1, <3>3, <3>5, NextInTime DEF Over
      <3> QED BY <1>4, <3>4, <3>5, <3>6
    <2>2. CASE Inserts(x)
      <3>1. /\ pc[x] = "next" /\ pc'[x] = "R5" /\ ~endSim[x]
            /\ syncType'[x] = NextType(x[1], rankNext[x[1]], threadNext[x])
        BY <1>4, <2>2 DEF Inserts, KeepsLoop
      <3>2. rankNext[x[1]] = MaxTime /\ (ThreadLat(x[1]) = MaxTime => threadNext[x] = MaxTime)
        BY Threads DEF SyncInv, TimesAgree
      <3>3. ThreadLat(x[1]) # MaxTime => threadNext[x] < MaxTime
        BY <3>1 DEF SyncKinds
      <3>4. Direct /\ ThreadLat(x[1]) # MaxTime => now[x] < threadNext[x]
        BY <1>0, <3>1 DEF Forward, Going, SyncAhead
      <3>5. now[x] \in Nat /\ threadNext[x] \in Nat /\ threadNext[x] \in SimTime
        <4>1. now[x] \in SimTime /\ threadNext[x] \in SimTime
          BY <1>0 DEF TypeInv, Shapes
        <4> QED BY <4>1, TimeBounds
      <3>6. Direct /\ ThreadLat(x[1]) # MaxTime => threadNext[x] > 0
        BY <3>4, <3>5
      <3>7. NextType(x[1], MaxTime, threadNext[x]) = IF ThreadLat(x[1]) = MaxTime THEN "RANK" ELSE "THREAD"
        BY <3>2, <3>3, <3>5, <3>6, KindIs
      <3> QED BY <1>4, <3>1, <3>2, <3>7
    <2>3. CASE pc[x] # "end" /\ ~Inserts(x)
      <3>1. syncType[x] \in {"RANK", "THREAD"}
        BY <1>0 DEF TypeInv, Shapes
      <3>2. pc'[x] # "next" /\ syncType'[x] = syncType[x] /\ ~endSim[x]
        BY <1>1, <1>4, <2>3, <3>1 DEF Effect, Runs, Finishes, Begins, Moves, FindsNext,
              KeepsAll, KeepsSync, KeepsLoop
      <3> QED BY <1>4, <3>2 DEF SyncKinds
    <2> QED BY <2>1, <2>2, <2>3
  <1> QED BY <1>3, <1>4

LEMMA KindsStep ==
  ASSUME SyncInv, PlaceInv, ForwardInv, SyncKinds, [Next]_vars
  PROVE  SyncKinds'
  <1>0. TypeInv
    BY DEF SyncInv
  <1>1. ASSUME UNCHANGED <<syncType, threadNext, endSim, config>>,
               \A y \in RankInfo : pc'[y] = "next" => pc[y] = "next" \/ endSim[y]
        PROVE  SyncKinds'
    <2>1. MinPart' = MinPart /\ (\A rk : ThreadLat(rk)' = ThreadLat(rk))
      BY <1>1, SameConfig
    <2> QED BY <1>1, <2>1 DEF SyncKinds
  <1>2. ASSUME NEW r \in Ranks, NEW b \in Barriers, Barrier(r, b) PROVE SyncKinds'
    <2>1. UNCHANGED <<syncType, threadNext, endSim, config>>
      BY <1>0, <1>2, BarrierStep
    <2>2. ASSUME NEW y \in RankInfo, pc'[y] = "next" PROVE pc[y] = "next" \/ endSim[y]
      <3>1. CASE y[1] # r
        BY <1>0, <1>2, <2>2, <3>1, BarrierStep
      <3>2. CASE y[1] = r
        <4>1. pc[y] = b /\ Resume(y, b) = "next"
          BY <1>0, <1>2, <2>2, <3>2, BarrierStep
        <4>2. b = "exitB"
          BY <1>2, <4>1, ResumeAt, BarrierFrame
        <4> QED BY <1>0, <4>1, <4>2 DEF TypeInv, EndInv
      <3> QED BY <3>1, <3>2
    <2> QED BY <1>1, <2>1, <2>2
  <1>3. ASSUME ReduceNext \/ CheckRanks \/ FinalEndTime PROVE SyncKinds'
    <2>1. UNCHANGED <<syncType, threadNext, endSim, config>>
      BY <1>3 DEF ReduceNext, CheckRanks, FinalEndTime, syncVars, endVars, compVars
    <2>2. \A y \in RankInfo : pc'[y] = "next" => pc[y] = "next"
      BY <1>3 DEF ReduceNext, CheckRanks, FinalEndTime
    <2> QED BY <1>1, <2>1, <2>2
  <1>4. ASSUME UNCHANGED vars PROVE SyncKinds'
    BY <1>1, <1>4 DEF vars, syncVars, endVars, compVars
  <1> QED BY <1>2, <1>3, <1>4, ThreadKinds DEF Next, Meeting, Finished


----------------------------------------------------------------------------
(* The end time of a rank, until somebody ends.                            *)

(* What a thread's end depends on changes only if its components say so. *)
LEMMA SameLast ==
  ASSUME config' = config, NEW x,
         \A c \in Comps : Home[c] \in Together(x) => okAt'[c] = okAt[c]
  PROVE  LastOK(x)' = LastOK(x)
  <1> DEFINE C == {c \in Comps : Home[c] \in Together(x)}
             S == {t \in SimTime : \A c \in C : okAt[c] <= t}
             T == {t \in SimTime : \A c \in C : okAt'[c] <= t}
  <1>1. Together(x)' = Together(x)
    BY SameTogether
  <1>2. S = T
    OBVIOUS
  <1>3. LastOK(x) = MinTime(S) /\ LastOK(x)' = MinTime(T)
    BY <1>1 DEF LastOK, LastOf
  <1> QED BY <1>2, <1>3

LEMMA SameSaid ==
  ASSUME config' = config, NEW x,
         \A c \in Comps : Home[c] \in Together(x) =>
           (c \in idSet'[Home[c][1]] <=> c \in idSet[Home[c][1]])
  PROVE  AllSaid(x)' <=> AllSaid(x)
  BY SameTogether DEF AllSaid

(* What a stop does. *)
LEMMA StopEnds ==
  ASSUME SyncInv, NEW x \in RankInfo, Stop(x)
  PROVE  /\ \E a \in StopsOf(x) : a.time < MaxTime /\ now'[x] = a.time /\ endCycle'[x] = a.time
         /\ endSim'[x] = TRUE /\ back'[x] = "run" /\ pc[x] = "run" /\ ~endSim[x]
         /\ pc'[x] = "exitB"
         /\ \A y \in RankInfo : y # x => endCycle'[y] = endCycle[y] /\ StopsOf(y)' = StopsOf(y)
         /\ \A q \in Ranks : q # x[1] => endTime'[q] = endTime[q]
  <1>0. /\ endTime \in [Ranks -> SimTime] /\ endSim \in [RankInfo -> BOOLEAN]
        /\ endCycle \in [RankInfo -> SimTime] /\ back \in [RankInfo -> {"run", "next"}]
        /\ tv \in [RankInfo -> SUBSET Activities] /\ pc \in [RankInfo -> PCs]
        /\ x[1] \in Ranks /\ TypeInv
    BY Threads DEF SyncInv, TypeInv, Shapes
  <1>1. PICK a \in Earliest(tv[x]) :
          /\ a.kind = "stop" /\ Pop(x, a)
          /\ tv' = [tv EXCEPT ![x] = @ \ {a}]
          /\ SetEndTime(x[1], a.time) /\ EndSimulation(x, a.time, "run")
    BY DEF Stop
  <1>2. a \in tv[x] /\ now'[x] = a.time /\ pc[x] = "run" /\ ~endSim[x] /\ a.time < MaxTime
    BY <1>0, <1>1, Popped, PopsBefore
  <1>3. /\ endSim'[x] = TRUE /\ back'[x] = "run" /\ endCycle'[x] = a.time /\ pc'[x] = "exitB"
        /\ \A y \in RankInfo : y # x => endCycle'[y] = endCycle[y]
    BY <1>0, <1>1 DEF EndSimulation
  <1>4. \A q \in Ranks : q # x[1] => endTime'[q] = endTime[q]
    BY <1>0, <1>1 DEF SetEndTime
  <1>5. \A y \in RankInfo : y # x => StopsOf(y)' = StopsOf(y)
    BY <1>0, <1>1 DEF StopsOf
  <1>6. a \in StopsOf(x)
    BY <1>1, <1>2 DEF StopsOf
  <1> QED BY <1>2, <1>3, <1>4, <1>5, <1>6

(* Where nothing is said the bounds stay. *)
LEMMA BoundsStay ==
  ASSUME EndTimeBounds, UNCHANGED <<okAt, idSet>>,
         \A r \in Ranks : Undecided(r)' => Undecided(r) /\ endTime'[r] = endTime[r]
  PROVE  EndTimeBounds'
  BY DEF EndTimeBounds

LEMMA BoundsHandle ==
  ASSUME SyncInv, RoomInv, SaidBefore, EndTimeBounds, NEW x \in RankInfo, Handle(x)
  PROVE  EndTimeBounds'
  <1>0. TypeInv /\ x[1] \in Ranks
    BY Threads DEF SyncInv
  <1> SUFFICES ASSUME NEW r \in Ranks, Undecided(r)'
               PROVE  /\ \A y \in ThreadsOf(r) : idSet'[r] \cap PlacedOn(y) = {} =>
                           \A c \in PlacedOn(y) : okAt'[c] <= endTime'[r]
                      /\ endTime'[r] = 0 \/ \E c \in PlacedIn(r) : endTime'[r] <= okAt'[c]
    BY DEF EndTimeBounds
  <1>1. Undecided(r)
    <2>1. ThreadStep(x) /\ OthersKeep(x) /\ Runs(x)
      BY <1>0, HandleEffect DEF ThreadStep
    <2>2. \A y \in RankInfo : endSim'[y] = endSim[y] /\ (Ending(y)' <=> Ending(y))
      BY <2>1, ThreadEnding DEF OthersKeep, Runs, KeepsLoop
    <2> QED BY <2>2 DEF Undecided, ThreadsOf
  <1>2. /\ \A y \in ThreadsOf(r) : idSet[r] \cap PlacedOn(y) = {} =>
             \A c \in PlacedOn(y) : okAt[c] <= endTime[r]
        /\ endTime[r] = 0 \/ \E c \in PlacedIn(r) : endTime[r] <= okAt[c]
    BY <1>1 DEF EndTimeBounds
  <1>3. /\ \A d \in Comps : Home[d] # x =>
             okAt'[d] = okAt[d] /\ \A q \in Ranks : d \in idSet'[q] <=> d \in idSet[q]
        /\ \A d \in Comps : okAt[d] <= okAt'[d]
        /\ \A q \in Ranks : q # x[1] => endTime'[q] = endTime[q]
        /\ endTime[x[1]] <= endTime'[x[1]]
        /\ \/ endTime'[x[1]] = endTime[x[1]]
           \/ \E c \in PlacedIn(x[1]) : endTime'[x[1]] = okAt'[c]
        /\ idSet'[x[1]] \cap PlacedOn(x) = {} =>
             \/ \A d \in PlacedOn(x) : okAt'[d] <= endTime'[x[1]]
             \/ idSet[x[1]] \cap PlacedOn(x) = {} /\ UNCHANGED <<okAt, endTime>>
    BY SaysHere
  <1>4. /\ \A c \in Comps : okAt[c] \in Nat /\ okAt'[c] \in Nat
        /\ endTime[r] \in Nat /\ endTime'[r] \in Nat
    <2>1. Shapes'
      BY <1>0, HandleHas, HandleTypes
    <2>2. /\ okAt \in [Comps -> SimTime] /\ okAt' \in [Comps -> SimTime]
          /\ endTime \in [Ranks -> SimTime] /\ endTime' \in [Ranks -> SimTime]
      BY <1>0, <2>1 DEF TypeInv, Shapes
    <2> QED BY <2>2, TimeBounds
  <1>5. endTime[r] <= endTime'[r]
    BY <1>3, <1>4
  <1>6. ASSUME NEW y \in ThreadsOf(r), idSet'[r] \cap PlacedOn(y) = {}, NEW c \in PlacedOn(y)
        PROVE  okAt'[c] <= endTime'[r]
    <2>1. CASE y = x
      <3>1. r = x[1]
        BY <2>1 DEF ThreadsOf
      <3>2. CASE \A d \in PlacedOn(x) : okAt'[d] <= endTime'[x[1]]
        BY <1>6, <2>1, <3>1, <3>2
      <3>3. CASE idSet[x[1]] \cap PlacedOn(x) = {} /\ UNCHANGED <<okAt, endTime>>
        BY <1>2, <1>6, <2>1, <3>1, <3>3
      <3> QED BY <1>3, <1>6, <2>1, <3>1, <3>2, <3>3
    <2>2. CASE y # x
      <3>1. \A d \in PlacedOn(y) : d \in Comps /\ Home[d] # x
        BY <2>2 DEF PlacedOn
      <3>2. idSet[r] \cap PlacedOn(y) = {}
        BY <1>3, <1>6, <3>1
      <3>3. okAt[c] <= endTime[r] /\ okAt'[c] = okAt[c]
        BY <1>2, <1>3, <1>6, <3>1, <3>2
      <3> QED BY <1>4, <1>5, <3>1, <3>3
    <2> QED BY <2>1, <2>2
  <1>7. endTime'[r] = 0 \/ \E c \in PlacedIn(r) : endTime'[r] <= okAt'[c]
    <2>1. CASE endTime'[r] = endTime[r]
      <3>1. ASSUME NEW c \in PlacedIn(r), endTime[r] <= okAt[c] PROVE endTime'[r] <= okAt'[c]
        BY <1>3, <1>4, <2>1, <3>1 DEF PlacedIn
      <3> QED BY <1>2, <2>1, <3>1
    <2>2. CASE endTime'[r] # endTime[r]
      <3>1. PICK c \in PlacedIn(r) : endTime'[r] = okAt'[c]
        BY <1>3, <2>2
      <3> QED BY <1>4, <3>1
    <2> QED BY <2>1, <2>2
  <1> QED BY <1>6, <1>7

LEMMA BoundsStep ==
  ASSUME SyncInv, PlaceInv, SaidBefore, EndTimeBounds, [Next]_vars
  PROVE  EndTimeBounds'
  <1>0. TypeInv /\ RoomInv
    BY DEF SyncInv, PlaceInv
  <1>1. CASE \E x \in RankInfo : Handle(x)
    BY <1>0, <1>1, BoundsHandle
  <1>2. CASE ~ \E x \in RankInfo : Handle(x)
    <2>1. UNCHANGED <<okAt, idSet>>
      BY <1>0, <1>2, OnlyHandleSays
    <2>2. ASSUME NEW x \in RankInfo, ThreadStep(x), NEW r \in Ranks, Undecided(r)'
          PROVE  Undecided(r) /\ endTime'[r] = endTime[r]
      <3>1. \A y \in RankInfo : (Ending(y)' <=> Ending(y))
        BY <1>0, <2>2, ThreadEnding
      <3>2. \A y \in RankInfo : ~endSim'[y] => ~endSim[y]
        <4>1. OthersKeep(x) /\ Effect(x)
          BY <2>2, ThreadEffect
        <4> QED BY <4>1 DEF OthersKeep, Effect, Runs, Finishes, Begins, Moves, FindsNext, Inserts,
                            KeepsAll, KeepsLoop
      <3>3. Undecided(r)
        BY <2>2, <3>1, <3>2 DEF Undecided, ThreadsOf
      <3>4. CASE Stop(x)
        <4>1. endSim'[x] /\ \A q \in Ranks : q # x[1] => endTime'[q] = endTime[q]
          BY <3>4, StopEnds
        <4>2. x[1] # r
          BY <2>2, <4>1 DEF Undecided, ThreadsOf
        <4> QED BY <3>3, <4>1, <4>2
      <3>5. CASE ~Stop(x)
        <4>1. endTime' = endTime
          BY <1>2, <2>2, <3>5 DEF ThreadStep, Sync, LeaveLoop, Before, SendRank, ReceiveRank,
                ReceivedAll, After, EndOrNext, InsertNext, exitVars
        <4> QED BY <3>3, <4>1
      <3> QED BY <3>4, <3>5
    <2>3. ASSUME NEW q \in Ranks, NEW b \in Barriers, Barrier(q, b), NEW r \in Ranks, Undecided(r)'
          PROVE  Undecided(r) /\ endTime'[r] = endTime[r]
      <3>1. UNCHANGED <<endSim, exitVars>>
        BY <1>0, <2>3, BarrierStep
      <3>2. \A y \in RankInfo : Ending(y) => Ending(y)'
        BY <2>3, BarrierEnding
      <3> QED BY <2>3, <3>1, <3>2 DEF Undecided, ThreadsOf, exitVars
    <2>4. ASSUME ReduceNext, NEW r \in Ranks, Undecided(r)'
          PROVE  Undecided(r) /\ endTime'[r] = endTime[r]
      <3>1. \A y \in RankInfo : ~Ending(y) /\ ~endSim[y]
        BY <2>4, ReduceEnding
      <3>2. UNCHANGED exitVars
        BY <2>4 DEF ReduceNext
      <3> QED BY <3>1, <3>2 DEF Undecided, ThreadsOf, exitVars
    <2>5. ASSUME CheckRanks, NEW r \in Ranks, Undecided(r)'
          PROVE  Undecided(r) /\ endTime'[r] = endTime[r]
      <3>1. \A y \in RankInfo : ~Ending(y) /\ ~endSim[y]
        BY <2>5, CheckEnding
      <3>2. Master(r) \in ThreadsOf(r) /\ Master(r) \in RankInfo
        BY Threads DEF ThreadsOf
      <3>3. ~Ending(Master(r))'
        BY <2>5, <3>2 DEF Undecided, Master
      <3>4. endTime'[r] = IF OpenRanks(Ranks) = 0 THEN LatestEnd(Ranks) ELSE endTime[r]
        BY <2>5, <3>2, CheckEnding
      <3>5. OpenRanks(Ranks) # 0
        BY <2>5, <3>2, <3>3, CheckEnding
      <3> QED BY <3>1, <3>4, <3>5 DEF Undecided, ThreadsOf
    <2>6. ASSUME FinalEndTime, NEW r \in Ranks, Undecided(r)'
          PROVE  Undecided(r) /\ endTime'[r] = endTime[r]
      <3>1. Master(r) \in ThreadsOf(r) /\ Master(r) \in RankInfo
        BY Threads DEF ThreadsOf
      <3>2. endSim[Master(r)] /\ endSim' = endSim
        BY <2>6, <3>1, FinalEnding
      <3>3. Master(r)' = Master(r) /\ \A y \in ThreadsOf(r) : ~endSim'[y]
        BY <2>6 DEF Master, Undecided, ThreadsOf
      <3> QED BY <3>1, <3>2, <3>3
    <2>7. ASSUME UNCHANGED vars, NEW r \in Ranks, Undecided(r)'
          PROVE  Undecided(r) /\ endTime'[r] = endTime[r]
      <3>1. UNCHANGED <<pc, back, endSim, syncType, globalCount, refCount, config, endTime>>
        BY <2>7 DEF vars, syncVars, endVars, compVars, exitVars
      <3>2. \A y \in RankInfo : Ending(y)' <=> Ending(y)
        BY <3>1, OverStays DEF Ending, Master
      <3> QED BY <2>7, <3>1, <3>2 DEF Undecided, ThreadsOf
    <2>8. \A r \in Ranks : Undecided(r)' => Undecided(r) /\ endTime'[r] = endTime[r]
      BY <2>2, <2>3, <2>4, <2>5, <2>6, <2>7 DEF Next, Meeting, Finished
    <2> QED BY <2>1, <2>8, BoundsStay
  <1> QED BY <1>1, <1>2


----------------------------------------------------------------------------
(* Who ends together, and when.                                            *)

(* Steps of thread x leave what is said of the end of others. *)
LEMMA ThreadEnds ==
  ASSUME SyncInv, RoomInv, SaidBefore, NEW x \in RankInfo, ThreadStep(x), NEW y \in RankInfo
  PROVE  /\ y # x => endCycle'[y] = endCycle[y] /\ endSim'[y] = endSim[y] /\ pc'[y] = pc[y]
         /\ endSim[x] => endCycle'[x] = endCycle[x]
         /\ ((Handle(x) \/ Stop(x)) /\ x[1] = y[1]) \/ endTime'[y[1]] = endTime[y[1]]
         /\ TakenFinal(y) => TakenFinal(y)'
  <1>0. TypeInv /\ y[1] \in Ranks /\ x[1] \in Ranks
    BY Threads DEF SyncInv
  <1>1. OthersKeep(x) /\ Effect(x)
    BY ThreadEffect
  <1>2. (y # x => endCycle'[y] = endCycle[y]) /\ (endSim[x] => endCycle'[x] = endCycle[x])
    <2>1. CASE Stop(x)
      BY <2>1, StopEnds
    <2>2. CASE EndOrNext(x)
      <3>1. ~endSim[x] /\ endCycle \in [RankInfo -> SimTime]
        BY <1>0, <2>2 DEF EndOrNext, TypeInv, EndInv, Shapes
      <3> QED BY <2>2, <3>1 DEF EndOrNext, EndSimulation, endVars
    <2>3. CASE ~Stop(x) /\ ~EndOrNext(x)
      <3>1. endCycle' = endCycle
        BY <2>3 DEF ThreadStep, Handle, Sync, LeaveLoop, Before, SendRank, ReceiveRank, ReceivedAll,
                    After, InsertNext, endVars
      <3> QED BY <3>1
    <2> QED BY <2>1, <2>2, <2>3
  <1>3. ((Handle(x) \/ Stop(x)) /\ x[1] = y[1]) \/ endTime'[y[1]] = endTime[y[1]]
    <2>1. CASE Handle(x) /\ x[1] # y[1]
      BY <1>0, <2>1, SaysHere
    <2>2. CASE Stop(x) /\ x[1] # y[1]
      BY <1>0, <2>2, StopEnds
    <2>3. CASE ~Stop(x) /\ ~Handle(x)
      <3>1. endTime' = endTime
        BY <2>3 DEF ThreadStep, Sync, LeaveLoop, Before, SendRank, ReceiveRank, ReceivedAll,
                    After, EndOrNext, InsertNext, exitVars
      <3> QED BY <3>1
    <2> QED BY <2>1, <2>2, <2>3
  <1>4. TakenFinal(y) => TakenFinal(y)'
    <2>1. pc[x] # "done"
      BY <1>1 DEF Effect, Runs, Finishes, Begins, Moves, FindsNext, Inserts
    <2>2. pc[y] = "done" => pc'[y] = "done"
      BY <1>1, <2>1 DEF OthersKeep
    <2>3. MinPart' = MinPart
      BY <1>1, SameConfig DEF OthersKeep
    <2> QED BY <2>2, <2>3 DEF TakenFinal
  <1> QED BY <1>1, <1>2, <1>3, <1>4 DEF OthersKeep

LEMMA TogetherThread ==
  ASSUME SyncInv, RoomInv, SaidBefore, EndTogether, EndTimes, NEW x \in RankInfo, ThreadStep(x)
  PROVE  EndTogether' /\ EndTimes'
  <1>0. TypeInv /\ OthersKeep(x) /\ Effect(x) /\ config' = config
    BY ThreadEffect DEF SyncInv, OthersKeep
  <1>1. \A y \in RankInfo : (Ending(y)' <=> Ending(y)) /\ Together(y)' = Together(y)
    BY <1>0, ThreadEnding, SameTogether
  <1>2. ASSUME NEW y \in RankInfo, Ending(y)
        PROVE  (AllSaid(y)' <=> AllSaid(y)) /\ LastOK(y)' = LastOK(y)
    <2>1. \A c \in Comps : Home[c] \in Together(y) =>
            okAt'[c] = okAt[c] /\ (c \in idSet'[Home[c][1]] <=> c \in idSet[Home[c][1]])
      <3>1. CASE Handle(x)
        <4>1. pc[x] = "run" /\ ~endSim[x]
          BY <3>1 DEF Handle, Pop
        <4>2. x \notin Together(y)
          BY <1>2, <4>1, EndingPlace DEF EndTogether
        <4> QED BY <3>1, <4>2, SaysHere, HomeOf
      <3>2. CASE ~Handle(x)
        <4>1. okAt' = okAt /\ idSet' = idSet
          BY <3>2 DEF ThreadStep, Stop, SetEndTime, Sync, LeaveLoop, Before, SendRank, ReceiveRank,
                ReceivedAll, After, EndOrNext, InsertNext, exitVars, compVars
        <4> QED BY <4>1
      <3> QED BY <3>1, <3>2
    <2> QED BY <1>0, <2>1, SameLast, SameSaid
  <1>3. EndTogether'
    <2> SUFFICES ASSUME NEW y \in RankInfo, Ending(y)'
                 PROVE  AllSaid(y)' /\ \A z \in Together(y) : Ending(z)'
      BY <1>1 DEF EndTogether
    <2>1. Ending(y) /\ AllSaid(y) /\ \A z \in Together(y) : Ending(z)
      BY <1>1 DEF EndTogether
    <2> QED BY <1>1, <1>2, <2>1, TogetherIs
  <1>4. EndTimes'
    <2> SUFFICES ASSUME NEW y \in RankInfo, Ending(y)'
                 PROVE  IF endSim'[y] THEN TakenFinal(y)' \/ endCycle'[y] = LastOK(y)'
                        ELSE endTime'[y[1]] = LastOK(y)'
      BY DEF EndTimes
    <2>1. Ending(y) /\ LastOK(y)' = LastOK(y)
      BY <1>1, <1>2
    <2>2. endSim[y] \in BOOLEAN /\ endSim'[y] \in BOOLEAN
      <3>1. endSim \in [RankInfo -> BOOLEAN] /\ (y # x => endSim'[y] = endSim[y])
        BY <1>0 DEF TypeInv, Shapes, OthersKeep
      <3>2. endSim'[x] = TRUE \/ endSim'[x] = endSim[x]
        BY <1>0 DEF Effect, Runs, Finishes, Begins, Moves, FindsNext, Inserts, KeepsAll, KeepsLoop
      <3> QED BY <3>1, <3>2
    <2>3. CASE endSim[y]
      <3>1. endCycle'[y] = endCycle[y] /\ (TakenFinal(y) => TakenFinal(y)')
        BY <2>3, ThreadEnds
      <3>2. TakenFinal(y) \/ endCycle[y] = LastOK(y)
        BY <2>1, <2>3 DEF EndTimes
      <3>3. endSim'[y]
        BY <1>0, <2>3 DEF OthersKeep, Effect, Runs, Finishes, Begins, Moves, FindsNext, Inserts, KeepsAll, KeepsLoop
      <3> QED BY <2>1, <3>1, <3>2, <3>3
    <2>4. CASE ~endSim[y]
      <3>1. endTime[y[1]] = LastOK(y) /\ Phase(y) \in {"check", "end"}
        BY <2>1, <2>4, EndingPlace DEF EndTimes
      <3>2. endTime'[y[1]] = endTime[y[1]]
        <4>1. ASSUME Handle(x) \/ Stop(x), x[1] = y[1] PROVE FALSE
          <5>1. Phase(x) = "run"
            BY <4>1, PhaseAt DEF Handle, Stop, Pop
          <5> QED BY <3>1, <4>1, <5>1 DEF SyncInv, Lockstep
        <4> QED BY <4>1, ThreadEnds
      <3>3. CASE ~endSim'[y]
        BY <2>1, <3>1, <3>2, <3>3
      <3>4. CASE endSim'[y]
        <4>1. y = x
          BY <1>0, <2>4, <3>4 DEF OthersKeep
        <4>2. pc[x] # "run"
          BY <2>1, <2>4, <4>1, EndingPlace
        <4>3. EndOrNext(x)
          BY <2>4, <3>4, <4>1, <4>2 DEF ThreadStep, Handle, Stop, Sync, Pop, LeaveLoop, Before, SendRank,
                ReceiveRank, ReceivedAll, After, InsertNext, endVars
        <4>4. endCycle'[x] = endTime[x[1]]
          <5>1. endCycle \in [RankInfo -> SimTime]
            BY <1>0 DEF TypeInv, Shapes
          <5> QED BY <2>4, <3>4, <4>1, <4>3, <5>1 DEF EndOrNext, EndSimulation, endVars
        <4> QED BY <2>1, <3>1, <3>4, <4>1, <4>4
      <3> QED BY <3>3, <3>4
    <2> QED BY <2>2, <2>3, <2>4
  <1> QED BY <1>3, <1>4


(* Where nobody begins to end, nothing changes. *)
LEMMA TogetherStay ==
  ASSUME EndTogether, EndTimes, UNCHANGED <<config, okAt, idSet, endSim>>,
         \A y \in RankInfo : (Ending(y)' <=> Ending(y)) /\ (TakenFinal(y) => TakenFinal(y)'),
         \A y \in RankInfo : Ending(y) =>
           IF endSim[y] THEN endCycle'[y] = endCycle[y] \/ TakenFinal(y)'
           ELSE endTime'[y[1]] = endTime[y[1]]
  PROVE  EndTogether' /\ EndTimes'
  <1>1. \A y \in RankInfo : /\ Together(y)' = Together(y) /\ (AllSaid(y)' <=> AllSaid(y))
                            /\ LastOK(y)' = LastOK(y)
    BY SameTogether, SameLast, SameSaid
  <1>2. EndTogether'
    BY <1>1, TogetherIs DEF EndTogether
  <1>3. EndTimes'
    BY <1>1 DEF EndTimes
  <1> QED BY <1>2, <1>3

(* A rank nobody of which holds the simulation open any more knows when    *)
(* the last one said OK. *)
LEMMA NoneOpen ==
  ASSUME TypeInv, NEW r \in Ranks, refCount[r] = 0 PROVE idSet[r] = {}
  <1>1. refCount[r] = Cardinality(idSet[r]) /\ idSet[r] \in SUBSET Comps
    BY DEF TypeInv, CountInv, Placement, CountsMatch
  <1> QED BY <1>1, FiniteComps, FS_EmptySet

LEMMA RankKnows ==
  ASSUME TypeInv, EndTimeBounds, NEW r \in Ranks, Undecided(r), refCount[r] = 0
  PROVE  /\ \A c \in PlacedIn(r) : okAt[c] <= endTime[r] /\ c \notin idSet[r]
         /\ endTime[r] = 0 \/ \E c \in PlacedIn(r) : endTime[r] <= okAt[c]
  <1>1. idSet[r] = {}
    BY NoneOpen
  <1>2. \A c \in PlacedIn(r) : Home[c] \in ThreadsOf(r) /\ c \in PlacedOn(Home[c])
    BY HomeOf DEF PlacedIn, ThreadsOf
  <1> QED BY <1>1, <1>2 DEF EndTimeBounds

LEMMA TogetherBarrier ==
  ASSUME SyncInv, SyncKinds, EndTimeBounds, EndTogether, EndTimes,
         NEW r \in Ranks, NEW b \in Barriers, Barrier(r, b)
  PROVE  EndTogether' /\ EndTimes'
  <1>0. TypeInv
    BY DEF SyncInv
  <1>1. /\ UNCHANGED <<config, okAt, endSim, endCycle, exitVars>>
        /\ \A y \in RankInfo : pc[y] = "done" => pc'[y] = "done"
    <2>1. \A y \in RankInfo : pc[y] = "done" => y[1] # r
      BY <1>0, BarrierStep, BarrierFrame
    <2> QED BY <1>0, <2>1, BarrierStep
  <1>2. UNCHANGED <<idSet, endTime, refCount>>
    BY <1>1 DEF exitVars
  <1>3. \A y \in RankInfo : TakenFinal(y) => TakenFinal(y)'
    BY <1>1, SameConfig DEF TakenFinal
  <1>4. \A y \in RankInfo : /\ Together(y)' = Together(y) /\ (AllSaid(y)' <=> AllSaid(y))
                            /\ LastOK(y)' = LastOK(y)
    BY <1>1, <1>2, SameTogether, SameLast, SameSaid
  <1>5. CASE b = "T2" /\ MinPart = MaxTime /\ refCount[r] = 0
    <2>1. ASSUME NEW y \in ThreadsOf(r)
          PROVE  /\ ~endSim[y] /\ ~Ending(y) /\ y \in RankInfo /\ y[1] = r
                 /\ Together(y) = ThreadsOf(r) /\ Ending(y)'
      <3>1. y \in RankInfo /\ y[1] = r /\ pc[y] = "T2" /\ syncType[y] = "THREAD"
        BY <1>0, <1>5, BarrierStep DEF ThreadsOf, SyncInv, TypeOfSync
      <3>2. endSim[y] = FALSE
        BY <1>0, <3>1 DEF TypeInv, EndInv, Shapes
      <3>3. ThreadLat(y[1]) # MaxTime
        BY <1>5, <3>1, <3>2 DEF SyncKinds
      <3>4. Together(y) = ThreadsOf(r)
        BY <1>5, <3>1, <3>3, TogetherIs DEF Independent
      <3> QED BY <1>5, <3>1, <3>2, <3>4, EndingPlace, BarrierEnding
    <2>2. Undecided(r)
      BY <2>1 DEF Undecided
    <2>3. /\ \A c \in PlacedIn(r) : okAt[c] <= endTime[r] /\ c \notin idSet[r]
          /\ endTime[r] = 0 \/ \E c \in PlacedIn(r) : endTime[r] <= okAt[c]
      BY <1>0, <1>5, <2>2, RankKnows
    <2>4. ASSUME NEW y \in ThreadsOf(r) PROVE AllSaid(y) /\ LastOK(y) = endTime[r]
      <3>1. {c \in Comps : Home[c] \in Together(y)} = PlacedIn(r)
        BY <2>1, HomeOf DEF ThreadsOf, PlacedIn
      <3>2. okAt \in [Comps -> SimTime] /\ endTime[r] \in SimTime /\ PlacedIn(r) \in SUBSET Comps
        BY <1>0 DEF TypeInv, Shapes, PlacedIn
      <3>3. LastOf(PlacedIn(r)) = endTime[r]
        BY <2>3, <3>2, LastIs
      <3>4. AllSaid(y)
        BY <2>3, <3>1 DEF AllSaid, PlacedIn
      <3> QED BY <3>1, <3>3, <3>4 DEF LastOK
    <2>5. \A y \in RankInfo : y \notin ThreadsOf(r) => (Ending(y)' <=> Ending(y))
      BY <1>5, BarrierEnding DEF ThreadsOf
    <2>6. EndTogether'
      <3> SUFFICES ASSUME NEW y \in RankInfo, Ending(y)'
                   PROVE  AllSaid(y)' /\ \A z \in Together(y) : Ending(z)'
        BY <1>4 DEF EndTogether
      <3>1. CASE y \in ThreadsOf(r)
        BY <1>4, <2>1, <2>4, <3>1
      <3>2. CASE y \notin ThreadsOf(r)
        <4>1. Ending(y)
          BY <2>5, <3>2
        <4>2. AllSaid(y) /\ \A z \in Together(y) : Ending(z)
          BY <4>1 DEF EndTogether
        <4> QED BY <1>4, <2>1, <2>5, <4>2, TogetherIs
      <3> QED BY <3>1, <3>2
    <2>7. EndTimes'
      <3> SUFFICES ASSUME NEW y \in RankInfo, Ending(y)'
                   PROVE  IF endSim[y] THEN TakenFinal(y)' \/ endCycle[y] = LastOK(y)
                          ELSE endTime[y[1]] = LastOK(y)
        BY <1>1, <1>2, <1>4 DEF EndTimes
      <3>1. CASE y \in ThreadsOf(r)
        BY <2>1, <2>4, <3>1
      <3>2. CASE y \notin ThreadsOf(r)
        BY <1>3, <2>5, <3>2 DEF EndTimes
      <3> QED BY <3>1, <3>2
    <2> QED BY <2>6, <2>7
  <1>6. CASE ~(b = "T2" /\ MinPart = MaxTime /\ refCount[r] = 0)
    <2>1. \A y \in RankInfo : Ending(y)' <=> Ending(y)
      BY <1>6, BarrierEnding
    <2> QED BY <1>1, <1>2, <1>3, <2>1, TogetherStay
  <1> QED BY <1>5, <1>6

(* The latest end time of all ranks. *)
LEMMA LatestIs ==
  ASSUME endTime \in [Ranks -> SimTime]
  PROVE  /\ \E r \in Ranks : LatestEnd(Ranks) = endTime[r]
         /\ \A r \in Ranks : endTime[r] <= LatestEnd(Ranks)
  <1> DEFINE S == {endTime[r] : r \in Ranks}
  <1>1. 0 \in Ranks
    BY BaseAssumption DEF Ranks
  <1>2. S \in SUBSET SimTime /\ S # {}
    BY <1>1
  <1>3. \E t \in S : \A u \in S : u <= t
    BY <1>2, LatestTime
  <1>4. \E t \in S : \A r \in Ranks : endTime[r] <= t
    BY <1>3
  <1>5. LatestEnd(Ranks) \in S /\ \A r \in Ranks : endTime[r] <= LatestEnd(Ranks)
    BY <1>4 DEF LatestEnd
  <1> QED BY <1>5

LEMMA NoRankOpen ==
  ASSUME TypeInv, OpenRanks(Ranks) = 0 PROVE \A r \in Ranks : refCount[r] = 0
  <1> DEFINE S == {r \in Ranks : refCount[r] > 0}
  <1>1. IsFiniteSet(S)
    <2>1. IsFiniteSet(Ranks)
      BY FS_Interval, BaseAssumption DEF Ranks
    <2> QED BY <2>1, FS_Subset
  <1>2. S = {}
    BY <1>1, FS_EmptySet DEF OpenRanks
  <1>3. \A r \in Ranks : refCount[r] \in Nat
    BY DEF TypeInv, CountInv, Placement
  <1> QED BY <1>2, <1>3

(* After the last collective all ranks have the time of the last OK: of    *)
(* all their components, or, where there are no links, of none. *)
LEMMA AllKnow ==
  ASSUME SyncInv, SyncKinds, EndTimeBounds, OwnStops, CheckRanks, OpenRanks(Ranks) = 0,
         NEW y \in RankInfo
  PROVE  AllSaid(y) /\ LastOK(y) = LatestEnd(Ranks)
  <1>0. TypeInv
    BY DEF SyncInv
  <1> DEFINE t == LatestEnd(Ranks)
             C == {c \in Comps : Home[c] \in Together(y)}
  <1>1. \A z \in RankInfo : ~Ending(z) /\ ~endSim[z] /\ syncType[z] = "RANK" /\ pc[z] # "run"
    BY CheckEnding
  <1>2. \A r \in Ranks : Undecided(r) /\ refCount[r] = 0
    BY <1>0, <1>1, NoRankOpen DEF Undecided, ThreadsOf
  <1>3. \A r \in Ranks :
          /\ \A c \in PlacedIn(r) : okAt[c] <= endTime[r] /\ c \notin idSet[r]
          /\ endTime[r] = 0 \/ \E c \in PlacedIn(r) : endTime[r] <= okAt[c]
    BY <1>0, <1>2, RankKnows
  <1>4. \A z \in RankInfo : AllSaid(z)
    BY <1>3, HomeOf DEF AllSaid
  <1>5. /\ t \in SimTime /\ t \in Nat /\ \A r \in Ranks : endTime[r] <= t /\ endTime[r] \in Nat
        /\ \A c \in Comps : okAt[c] \in Nat
        /\ okAt \in [Comps -> SimTime] /\ C \in SUBSET Comps
    <2>1. endTime \in [Ranks -> SimTime] /\ okAt \in [Comps -> SimTime]
      BY <1>0 DEF TypeInv, Shapes
    <2> QED BY <2>1, LatestIs, LatestEndTime, TimeBounds
  <1>6. PICK q \in Ranks : t = endTime[q]
    BY <1>0, LatestIs DEF TypeInv, Shapes
  <1>7. \A c \in C : okAt[c] <= t
    <2> SUFFICES ASSUME NEW c \in C PROVE okAt[c] <= t
      OBVIOUS
    <2>1. c \in Comps /\ Home[c][1] \in Ranks /\ c \in PlacedIn(Home[c][1])
      BY HomeOf
    <2>2. okAt[c] <= endTime[Home[c][1]]
      BY <1>3, <2>1
    <2> QED BY <1>5, <2>1, <2>2
  <1>8. t = 0 \/ \E c \in C : t <= okAt[c]
    <2>1. CASE MinPart # MaxTime
      <3>1. \A c \in PlacedIn(q) : c \in C
        BY <2>1, HomeOf, TogetherIs DEF PlacedIn
      <3> QED BY <1>3, <1>6, <3>1
    <2>2. CASE MinPart = MaxTime
      <3>1. \A z \in RankInfo : Independent(z[1])
        BY <1>1, <2>2 DEF SyncKinds, Independent
      <3>2. \A z \in RankInfo : SaidNothing(z)
        BY <1>1, <1>4, <3>1 DEF OwnStops, OwnStop, StopsNow
      <3>3. \A c \in Comps : okAt[c] = 0
        BY <3>2, HomeOf DEF SaidNothing
      <3>4. \A c \in PlacedIn(q) : c \in Comps
        BY DEF PlacedIn
      <3>5. endTime[q] = 0
        BY <1>3, <1>5, <3>3, <3>4
      <3> QED BY <1>6, <3>5
    <2> QED BY <2>1, <2>2
  <1>9. LastOf(C) = t
    BY <1>5, <1>7, <1>8, LastIs
  <1> QED BY <1>4, <1>9 DEF LastOK

LEMMA TogetherStep ==
  ASSUME SyncInv, RoomInv, SaidBefore, SyncKinds, EndTimeBounds, OwnStops, EndTogether, EndTimes,
         FinalInv, [Next]_vars
  PROVE  EndTogether' /\ EndTimes'
  <1>0. TypeInv
    BY DEF SyncInv
  <1>1. ASSUME ReduceNext PROVE EndTogether' /\ EndTimes'
    <2>1. \A y \in RankInfo : ~Ending(y)'
      BY <1>1, ReduceEnding
    <2> QED BY <2>1 DEF EndTogether, EndTimes
  <1>2. ASSUME CheckRanks PROVE EndTogether' /\ EndTimes'
    <2>1. CASE OpenRanks(Ranks) # 0
      <3>1. \A y \in RankInfo : ~Ending(y)'
        BY <1>2, <2>1, CheckEnding
      <3> QED BY <3>1 DEF EndTogether, EndTimes
    <2>2. CASE OpenRanks(Ranks) = 0
      <3>1. \A y \in RankInfo :
              /\ ~endSim[y] /\ Ending(y)' /\ y[1] \in Ranks
              /\ UNCHANGED <<endSim, okAt, idSet, config>>
              /\ \A r \in Ranks : endTime'[r] = LatestEnd(Ranks)
        BY <1>2, <2>2, CheckEnding, Threads
      <3>2. \A y \in RankInfo : AllSaid(y) /\ LastOK(y) = LatestEnd(Ranks)
        BY <1>2, <2>2, AllKnow
      <3>3. \A y \in RankInfo : AllSaid(y)' /\ LastOK(y)' = LatestEnd(Ranks)
            /\ Together(y)' = Together(y)
        BY <3>1, <3>2, SameTogether, SameLast, SameSaid
      <3>4. EndTogether'
        BY <3>1, <3>3, TogetherIs DEF EndTogether
      <3> QED BY <3>1, <3>3, <3>4 DEF EndTimes
    <2> QED BY <2>1, <2>2
  <1>3. ASSUME FinalEndTime PROVE EndTogether' /\ EndTimes'
    <2>1. \A y \in RankInfo :
            /\ endSim[y] /\ (Ending(y)' <=> Ending(y)) /\ (pc[y] = "final" <=> y \in Masters)
            /\ pc[y] \in {"final", "done"}
      BY <1>3, FinalEnding
    <2>2. /\ UNCHANGED <<config, okAt, idSet, endSim>>
          /\ pc' = [x \in RankInfo |-> IF x \in Masters THEN "done" ELSE pc[x]]
          /\ endCycle' = [x \in RankInfo |-> IF x \in Masters THEN LatestEnd(Ranks) ELSE endCycle[x]]
      BY <1>3 DEF FinalEndTime, syncVars, compVars
    <2>3. ASSUME NEW y \in Masters PROVE TakenFinal(y)'
      <3>1. pc[y] = "final" /\ pc'[y] = "done"
        BY <2>1, <2>2, <2>3, Threads
      <3>2. MinPart = MaxTime /\ NumRanks > 1
        BY <2>3, <3>1, Threads DEF FinalInv
      <3> QED BY <2>2, <2>3, <3>1, <3>2, SameConfig DEF TakenFinal, Masters, Master
    <2>4. \A y \in RankInfo : y \notin Masters => endCycle'[y] = endCycle[y]
      BY <2>2
    <2>5. \A y \in RankInfo : TakenFinal(y) => y \in Masters
      BY DEF TakenFinal
    <2> QED BY <2>1, <2>2, <2>3, <2>4, <2>5, TogetherStay
  <1>4. ASSUME UNCHANGED vars PROVE EndTogether' /\ EndTimes'
    <2>1. UNCHANGED <<pc, back, endSim, endCycle, syncType, okAt, config, exitVars>>
      BY <1>4 DEF vars, syncVars, endVars, compVars
    <2>2. \A y \in RankInfo : Ending(y)' <=> Ending(y)
      BY <2>1, OverStays DEF Ending, Master, exitVars
    <2>3. \A y \in RankInfo : TakenFinal(y) => TakenFinal(y)'
      BY <2>1, SameConfig DEF TakenFinal
    <2> QED BY <2>1, <2>2, <2>3, TogetherStay DEF exitVars
  <1> QED BY <1>1, <1>2, <1>3, <1>4, TogetherThread, TogetherBarrier DEF Next, Meeting, Finished


----------------------------------------------------------------------------
(* After the loop.                                                         *)

LEMMA AfterLoop ==
  ASSUME NEW x
  PROVE  Resume(x, "runB") = IF MinPart = MaxTime /\ NumRanks > 1 /\ x = Master(x[1])
                             THEN "final" ELSE "done"
  BY DEF Resume

LEMMA FinalStep ==
  ASSUME SyncInv, RoomInv, SaidBefore, FinalInv, [Next]_vars
  PROVE  FinalInv'
  <1>0. TypeInv /\ Masters \subseteq RankInfo
    BY Threads DEF SyncInv
  <1>1. ASSUME config' = config,
               \A y \in RankInfo :
                 /\ pc'[y] = "final" => pc[y] = "final" \/ (MinPart = MaxTime /\ NumRanks > 1)
                 /\ pc[y] = "done" => pc'[y] = "done" /\ endCycle'[y] = endCycle[y],
               \A y \in Masters : MinPart = MaxTime /\ NumRanks > 1 /\ pc'[y] = "done" => pc[y] = "done"
        PROVE  FinalInv'
    <2>1. MinPart' = MinPart /\ Masters' = Masters
      BY <1>1, SameConfig DEF Masters, Master
    <2>2. \A y \in Masters : TakenFinal(y)' <=> TakenFinal(y)
      BY <1>0, <1>1, <2>1 DEF TakenFinal
    <2>3. \A y \in Masters : TakenFinal(y) => endCycle'[y] = endCycle[y]
      BY <1>0, <1>1 DEF TakenFinal
    <2>4. \A y \in RankInfo : pc'[y] = "final" => MinPart = MaxTime /\ NumRanks > 1
      BY <1>1 DEF FinalInv
    <2>5. \A x, y \in Masters : TakenFinal(x)' => TakenFinal(y)' /\ endCycle'[y] = endCycle'[x]
      BY <2>2, <2>3 DEF FinalInv
    <2> QED BY <2>1, <2>4, <2>5 DEF FinalInv
  <1>2. ASSUME NEW x \in RankInfo, ThreadStep(x) PROVE FinalInv'
    <2>1. OthersKeep(x) /\ Effect(x)
      BY <1>2, ThreadEffect
    <2>2. pc[x] # "done" /\ pc'[x] # "done" /\ pc'[x] # "final"
      <3>1. syncType[x] \in {"RANK", "THREAD"}
        BY <1>0 DEF TypeInv, Shapes
      <3> QED BY <2>1, <3>1 DEF Effect, Runs, Finishes, Begins, Moves, FindsNext, Inserts
    <2>3. \A y \in RankInfo : y # x => pc'[y] = pc[y] /\ endCycle'[y] = endCycle[y]
      BY <1>2, ThreadEnds
    <2>4. config' = config
      BY <2>1 DEF OthersKeep
    <2> QED BY <1>0, <1>1, <2>2, <2>3, <2>4
  <1>3. ASSUME NEW r \in Ranks, NEW b \in Barriers, Barrier(r, b) PROVE FinalInv'
    <2>1. UNCHANGED <<config, endCycle>> /\ b # "done"
      BY <1>0, <1>3, BarrierStep, BarrierFrame
    <2>2. ASSUME NEW y \in RankInfo, pc'[y] \in {"final", "done"}, pc[y] # pc'[y]
          PROVE  pc'[y] = IF MinPart = MaxTime /\ NumRanks > 1 /\ y = Master(y[1])
                          THEN "final" ELSE "done"
      <3>1. y[1] = r /\ pc[y] = b /\ pc'[y] = Resume(y, b) /\ back[y] \in {"run", "next"}
        BY <1>0, <1>3, <2>2, BarrierStep DEF TypeInv, Shapes
      <3>2. b = "runB"
        BY <1>3, <2>2, <3>1, ResumeAt, BarrierFrame
      <3> QED BY <3>1, <3>2, AfterLoop
    <2>3. \A y \in RankInfo : pc[y] = "done" => pc'[y] = "done"
      BY <1>0, <1>3, <2>1, BarrierStep
    <2> QED BY <1>0, <1>1, <2>1, <2>2, <2>3, Threads
  <1>4. ASSUME ReduceNext PROVE FinalInv'
    <2>1. /\ UNCHANGED <<config, endCycle>>
          /\ \A y \in RankInfo : pc[y] \in {"xReduce", "xAll"} /\ pc'[y] \in {"xReduce", "xAll", "R2"}
      <3>1. \A y \in RankInfo : pc[y] \in {"xReduce", "xAll"}
        BY <1>4, AllReducing DEF SyncInv, BaseInv
      <3> QED BY <1>4, <3>1 DEF ReduceNext, endVars, compVars
    <2> QED BY <1>0, <1>1, <2>1
  <1>5. ASSUME CheckRanks PROVE FinalInv'
    <2>1. \A y \in RankInfo : pc'[y] = "R4" /\ pc[y] # "done"
      <3>1. \A y \in RankInfo : ~endSim[y] /\ pc'[y] = "R4"
        BY <1>5, CheckEnding
      <3> QED BY <1>0, <3>1 DEF TypeInv, EndInv
    <2>2. UNCHANGED <<config, endCycle>>
      BY <1>5 DEF CheckRanks, endVars, compVars
    <2> QED BY <1>0, <1>1, <2>1, <2>2
  <1>6. ASSUME FinalEndTime PROVE FinalInv'
    <2>1. /\ pc' = [x \in RankInfo |-> IF x \in Masters THEN "done" ELSE pc[x]]
          /\ endCycle' = [x \in RankInfo |-> IF x \in Masters THEN LatestEnd(Ranks) ELSE endCycle[x]]
          /\ config' = config
      BY <1>6 DEF FinalEndTime, compVars
    <2>2. \A y \in Masters : MinPart = MaxTime /\ NumRanks > 1
      <3>1. \A y \in Masters : pc[y] = "final"
        BY <1>6 DEF FinalEndTime
      <3> QED BY <1>0, <3>1 DEF FinalInv
    <2>3. MinPart' = MinPart /\ Masters' = Masters
      BY <2>1, SameConfig DEF Masters, Master
    <2>4. \A y \in Masters : pc'[y] = "done" /\ endCycle'[y] = LatestEnd(Ranks)
      BY <1>0, <2>1
    <2>5. \A y \in Masters : TakenFinal(y)'
      BY <2>2, <2>3, <2>4 DEF TakenFinal
    <2>6. \A y \in RankInfo : pc'[y] = "final" => pc[y] = "final"
      BY <2>1
    <2> QED BY <2>3, <2>4, <2>5, <2>6 DEF FinalInv
  <1>7. ASSUME UNCHANGED vars PROVE FinalInv'
    <2>1. UNCHANGED <<pc, endCycle, config>>
      BY <1>7 DEF vars, endVars, compVars
    <2> QED BY <1>0, <1>1, <2>1
  <1> QED BY <1>2, <1>3, <1>4, <1>5, <1>6, <1>7 DEF Next, Meeting, Finished


----------------------------------------------------------------------------
(* The stops of a thread.                                                  *)

(* Where a thread stays as it is, or leaves the loop for a sync, so does   *)
(* what is said of its stops. *)
LEMMA StopsStay ==
  ASSUME config' = config, NEW y \in RankInfo,
         Independent(y[1]) => \A c \in Comps : Home[c] = y =>
           okAt'[c] = okAt[c] /\ (c \in idSet'[y[1]] <=> c \in idSet[y[1]]),
         endSim'[y] = endSim[y], back'[y] = back[y],
         pc[y] = "run" /\ ~endSim[y] =>
           pc'[y] = "run" /\ now'[y] = now[y] /\ StopsOf(y)' = StopsOf(y),
         ~endSim[y] => StopsOf(y)' \subseteq StopsOf(y),
         ByStop(y) => endCycle'[y] = endCycle[y] \/ TakenFinal(y)',
         TakenFinal(y) => TakenFinal(y)'
  PROVE  /\ Independent(y[1]) /\ OwnStop(y) => OwnStop(y)'
         /\ StopTime(y) => StopTime(y)'
  <1>1. /\ Together(y)' = Together(y) /\ (\A rk : Independent(rk)' = Independent(rk)) /\ StopCycle' = StopCycle
        /\ (Independent(y[1]) => Together(y) = {y})
    BY SameTogether, TogetherIs
  <1>2. Independent(y[1]) => (AllSaid(y)' <=> AllSaid(y)) /\ LastOK(y)' = LastOK(y)
    BY <1>1, SameLast, SameSaid
  <1>3. Independent(y[1]) => (SaidNothing(y)' <=> SaidNothing(y))
    BY DEF SaidNothing, PlacedOn
  <1>4. ~endSim[y] /\ StopsNow(y) => StopsNow(y)' /\ now'[y] = now[y] /\ StopsOf(y)' = StopsOf(y)
    BY <1>1, <1>2 DEF StopsNow
  <1>5. ASSUME Independent(y[1]), OwnStop(y) PROVE OwnStop(y)'
    <2> SUFFICES ASSUME ~endSim[y], AllSaid(y)
                 PROVE  \/ SaidNothing(y)'
                        \/ StopsNow(y)' /\ now'[y] < MaxTime /\ StopAt(now'[y]) \in tv'[y]
      BY <1>2, <1>5 DEF OwnStop, StopAt, Activity
    <2>1. CASE SaidNothing(y)
      BY <1>3, <1>5, <2>1
    <2>2. CASE StopsNow(y) /\ now[y] < MaxTime /\ StopAt(now[y]) \in tv[y]
      <3>1. StopAt(now[y]) \in StopsOf(y)
        BY <2>2, ActivityKinds DEF StopsOf
      <3>2. StopAt(now[y]) \in tv'[y]
        BY <1>4, <2>2, <3>1 DEF StopsOf
      <3> QED BY <1>4, <2>2, <3>2
    <2> QED BY <1>5, <2>1, <2>2 DEF OwnStop
  <1>6. ASSUME StopTime(y) PROVE StopTime(y)'
    <2>1. ASSUME ~endSim[y], NEW a \in StopsOf(y)'
          PROVE  \/ a.time = MaxTime \/ (StopCycle # 0 /\ a.time = StopCycle)
                 \/ (StopsNow(y)' /\ a.time = now'[y])
      <3>1. a \in StopsOf(y)
        BY <2>1
      <3> QED BY <1>4, <1>6, <2>1, <3>1 DEF StopTime
    <2>2. ByStop(y)' => \/ TakenFinal(y)' \/ Stopped(y)'
                        \/ Independent(y[1])' /\ AllSaid(y)' /\ endCycle'[y] = LastOK(y)'
      <3> SUFFICES ASSUME ByStop(y), ~TakenFinal(y)'
                   PROVE  Stopped(y)' \/ (Independent(y[1]) /\ AllSaid(y)' /\ endCycle'[y] = LastOK(y)')
        BY <1>1 DEF ByStop
      <3>1. endCycle'[y] = endCycle[y] /\ ~TakenFinal(y)
        OBVIOUS
      <3>2. Stopped(y) \/ (Independent(y[1]) /\ AllSaid(y) /\ endCycle[y] = LastOK(y))
        BY <1>6, <3>1 DEF StopTime
      <3> QED BY <1>1, <1>2, <3>1, <3>2 DEF Stopped
    <2> QED BY <1>1, <2>1, <2>2 DEF StopTime
  <1> QED BY <1>5, <1>6

(* Components that have said nothing or stop now: a thread without links   *)
(* that goes on after its last OK has the stop it queued still to come. *)
LEMMA NoneLeft ==
  ASSUME SyncInv, NEW x \in RankInfo, NEW t, OwnStop(x), StopTime(x), ~endSim[x],
         t \in SimTime, now[x] <= t, t < MaxTime,
         \A a \in StopsOf(x) : t < a.time
  PROVE  /\ AllSaid(x) => SaidNothing(x)
         /\ \A a \in StopsOf(x) : a.time = MaxTime \/ (StopCycle # 0 /\ a.time = StopCycle)
  <1>1. t \in Nat /\ now[x] \in Nat /\ \A a \in StopsOf(x) : a.time \in Nat
    <2>1. now[x] \in SimTime /\ tv[x] \in SUBSET Activities
      BY DEF SyncInv, TypeInv, Shapes
    <2> QED BY <2>1, TimeBounds, ActivityFields DEF StopsOf
  <1>2. \A a \in StopsOf(x) : a.time # now[x]
    BY <1>1
  <1>3. StopAt(now[x]) \notin tv[x]
    BY <1>2, ActivityKinds DEF StopsOf
  <1> QED BY <1>2, <1>3 DEF OwnStop, StopTime

LEMMA StopsHandle ==
  ASSUME SyncInv, RoomInv, SaidBefore, OwnStops, StopTimes, NEW x \in RankInfo, Handle(x)
  PROVE  OwnStops' /\ StopTimes'
  <1>0. /\ TypeInv /\ CountInv /\ Shapes
        /\ OthersKeep(x) /\ Runs(x) /\ config' = config /\ endSim[x] = FALSE /\ pc'[x] = "run"
        /\ endSim'[x] = FALSE
    BY HandleEffect DEF SyncInv, TypeInv, OthersKeep, Runs, KeepsLoop, Shapes
  <1>1. PICK c \in Comps, t \in SimTime :
          /\ Home[c] = x /\ now'[x] = t /\ now[x] <= t /\ t < MaxTime
          /\ \A b \in StopsOf(x) : t < b.time
          /\ \A y \in RankInfo : y # x => StopsOf(y)' = StopsOf(y)
          /\ \/ SaysNothing \/ SaysOpen(c) \/ SaysOK(c, t)
          /\ IF SaysOK(c, t) /\ LastOfThread(c) /\ Independent(x[1])
             THEN StopsOf(x)' = StopsOf(x) \cup {StopAt(t)} ELSE StopsOf(x)' = StopsOf(x)
    BY HandleSays
  <1>2. /\ (\A rk : Independent(rk)' = Independent(rk)) /\ StopCycle' = StopCycle
        /\ \A y \in RankInfo : Together(y)' = Together(y)
    BY <1>0, SameTogether
  <1>3. ASSUME NEW y \in RankInfo, y # x
        PROVE  /\ Independent(y[1]) /\ OwnStop(y) => OwnStop(y)'
               /\ StopTime(y) => StopTime(y)'
    <2>1. /\ pc'[y] = pc[y] /\ back'[y] = back[y] /\ now'[y] = now[y] /\ endSim'[y] = endSim[y]
          /\ StopsOf(y)' = StopsOf(y)
      BY <1>0, <1>1, <1>3 DEF OthersKeep
    <2>2. endCycle'[y] = endCycle[y] /\ (TakenFinal(y) => TakenFinal(y)')
      BY <1>3, ThreadEnds DEF ThreadStep
    <2>3. \A d \in Comps : Home[d] = y =>
            okAt'[d] = okAt[d] /\ (d \in idSet'[y[1]] <=> d \in idSet[y[1]])
      BY <1>3, SaysHere, Threads
    <2> QED BY <1>0, <2>1, <2>2, <2>3, StopsStay
  <1>4. /\ Independent(x[1]) /\ AllSaid(x) => SaidNothing(x)
        /\ \A a \in StopsOf(x) : a.time = MaxTime \/ (StopCycle # 0 /\ a.time = StopCycle)
    <2>1. StopTime(x) /\ (Independent(x[1]) => OwnStop(x))
      BY DEF StopTimes, OwnStops
    <2>2. ~Independent(x[1]) => OwnStop(x) \/ \A a \in StopsOf(x) : a.time = MaxTime \/ (StopCycle # 0 /\ a.time = StopCycle)
      BY <1>0, <2>1 DEF StopTime, StopsNow
    <2> QED BY <1>0, <1>1, <2>1, <2>2, NoneLeft
  <1>5. CASE SaysOK(c, t) /\ LastOfThread(c) /\ Independent(x[1])
    <2>1. /\ c \in idSet[x[1]] /\ idSet[x[1]] \cap PlacedOn(x) = {c} /\ x[1] \in Ranks
          /\ idSet \in [Ranks -> SUBSET Comps]
      <3>1. c \in idSet[x[1]] /\ threadCount[x] = 1 /\ x[1] \in Ranks
            /\ idSet \in [Ranks -> SUBSET Comps]
        BY <1>0, <1>1, <1>5, Threads DEF LastOfThread, CountInv, Placement
      <3>2. Cardinality(idSet[x[1]] \cap PlacedOn(x)) = 1
        BY <1>0, <3>1 DEF CountInv, CountsMatch
      <3>3. IsFiniteSet(idSet[x[1]] \cap PlacedOn(x))
        BY FiniteComps, FS_Subset DEF PlacedOn
      <3>4. \E d : idSet[x[1]] \cap PlacedOn(x) = {d}
        BY <3>2, <3>3, FS_Singleton
      <3> QED BY <1>1, <3>1, <3>4 DEF PlacedOn
    <2>2. idSet' = [idSet EXCEPT ![x[1]] = @ \ {c}]
      BY <1>1, <1>5, <2>1 DEF SaysOK, RefDec
    <2>3. AllSaid(x)'
      BY <1>2, <1>5, <2>1, <2>2, TogetherIs DEF AllSaid, PlacedOn
    <2>4. okAt'[c] = t /\ \A d \in PlacedOn(x) : okAt'[d] <= t
      <3>1. okAt'[c] = t
        BY <1>0, <1>1, <1>5, <2>1 DEF SaysOK, Shapes
      <3> QED BY <1>1, <3>1, SaysHere DEF PlacedOn
    <2>5. LastOK(x)' = t
      <3>1. {d \in Comps : Home[d] \in Together(x)} = PlacedOn(x)
        BY <1>5, TogetherIs DEF PlacedOn
      <3>2. LastOK(x)' = MinTime({u \in SimTime : \A d \in PlacedOn(x) : okAt'[d] <= u})
        BY <1>2, <3>1 DEF LastOK, LastOf
      <3>3. okAt' \in [Comps -> SimTime]
        BY <1>0, <1>5 DEF SaysOK, Shapes
      <3>4. PlacedOn(x) \in SUBSET Comps /\ c \in PlacedOn(x) /\ t <= okAt'[c]
        BY <1>1, <2>4, TimeBounds DEF PlacedOn
      <3> HIDE DEF LastOK
      <3> QED BY <2>4, <3>2, <3>3, <3>4, LastTime
    <2>6. StopsNow(x)' /\ now'[x] = t
      BY <1>0, <1>1, <1>2, <1>5, <2>3, <2>5 DEF StopsNow
    <2>7. StopsOf(x)' = StopsOf(x) \cup {StopAt(t)} /\ StopAt(t).time = t
      BY <1>1, <1>5, ActivityKinds
    <2>8. OwnStop(x)'
      <3>1. StopAt(now'[x]) \in tv'[x]
        BY <2>6, <2>7 DEF StopsOf
      <3> QED BY <1>1, <2>6, <3>1 DEF OwnStop, StopAt, Activity
    <2>9. StopTime(x)'
      BY <1>0, <1>2, <1>4, <2>6, <2>7 DEF StopTime, ByStop
    <2> QED BY <1>2, <1>3, <1>5, <2>8, <2>9 DEF OwnStops, StopTimes
  <1>6. CASE ~(SaysOK(c, t) /\ LastOfThread(c) /\ Independent(x[1]))
    <2>1. StopTime(x)'
      BY <1>0, <1>1, <1>2, <1>4, <1>6 DEF StopTime, ByStop
    <2>2. Independent(x[1]) => OwnStop(x)'
      <3> SUFFICES ASSUME Independent(x[1]), AllSaid(x)' PROVE SaidNothing(x)'
        BY DEF OwnStop
      <3>1. \A d \in PlacedOn(x) : d \notin idSet'[x[1]]
        BY <1>2, TogetherIs DEF AllSaid, PlacedOn
      <3>2. /\ x[1] \in Ranks /\ idSet \in [Ranks -> SUBSET Comps] /\ c \in PlacedOn(x)
            /\ okAt \in [Comps -> SimTime]
        BY <1>0, <1>1, Threads DEF CountInv, Placement, PlacedOn, Shapes
      <3>3. ASSUME UNCHANGED <<exitVars, okAt>> PROVE SaidNothing(x)'
        <4>1. idSet' = idSet /\ okAt' = okAt
          BY <3>3 DEF exitVars
        <4>2. AllSaid(x)
          BY <1>2, <4>1 DEF AllSaid
        <4> QED BY <1>4, <4>1, <4>2 DEF SaidNothing, PlacedOn
      <3>4. CASE SaysNothing
        BY <3>3, <3>4 DEF SaysNothing
      <3>5. CASE SaysOpen(c)
        <4>1. c \in idSet'[x[1]]
          <5>1. CASE c \in idSet[x[1]]
            BY <1>1, <3>5, <5>1 DEF SaysOpen, RefInc, exitVars
          <5>2. CASE c \notin idSet[x[1]]
            BY <1>1, <3>2, <3>5, <5>2 DEF SaysOpen, RefInc
          <5> QED BY <5>1, <5>2
        <4> QED BY <3>1, <3>2, <4>1
      <3>6. CASE SaysOK(c, t)
        <4>1. CASE c \notin idSet[x[1]]
          <5>1. UNCHANGED exitVars /\ okAt' = okAt
            BY <1>1, <3>2, <3>6, <4>1 DEF SaysOK, RefDec
          <5> QED BY <3>3, <5>1
        <4>2. CASE c \in idSet[x[1]]
          <5>1. idSet' = [idSet EXCEPT ![x[1]] = @ \ {c}]
            BY <1>1, <3>6, <4>2 DEF SaysOK, RefDec
          <5>2. idSet[x[1]] \cap PlacedOn(x) = {c}
            BY <3>1, <3>2, <4>2, <5>1
          <5>3. threadCount[x] = 1
            BY <1>0, <5>2, FS_Singleton DEF CountInv, CountsMatch
          <5> QED BY <1>1, <1>6, <3>6, <4>2, <5>3 DEF LastOfThread
        <4> QED BY <4>1, <4>2
      <3> QED BY <1>1, <3>4, <3>5, <3>6
    <2> QED BY <1>2, <1>3, <2>1, <2>2 DEF OwnStops, StopTimes
  <1> QED BY <1>5, <1>6


(* Threads without links only meet at the end of time. *)
LEMMA NoSyncBefore ==
  ASSUME SyncInv, NEW x \in RankInfo, Independent(x[1]) PROVE NextSync(x) = MaxTime
  <1>1. /\ rankNext[x[1]] = MaxTime /\ threadNext[x] = MaxTime /\ ThreadLat(x[1]) = MaxTime
        /\ MaxTime \in SimTime /\ MaxTime <= MaxTime
    BY Threads, TimeBounds DEF SyncInv, TimesAgree, Independent
  <1>2. ThreadNextSync(x[1], MaxTime) = MaxTime
    BY <1>1, ThreadSyncTime
  <1> QED BY <1>1, <1>2 DEF NextSync, NextCycle

LEMMA StopsStop ==
  ASSUME SyncInv, OwnStops, StopTimes, NEW x \in RankInfo, Stop(x)
  PROVE  (Independent(x[1]) => OwnStop(x)') /\ StopTime(x)'
  <1>1. PICK a \in StopsOf(x) : a.time < MaxTime /\ now'[x] = a.time /\ endCycle'[x] = a.time
    BY StopEnds
  <1>2. endSim'[x] = TRUE /\ ~endSim[x]
    BY StopEnds
  <1>3. config' = config /\ okAt' = okAt /\ idSet' = idSet
    BY DEF Stop, SetEndTime, compVars
  <1>4. /\ (\A rk : Independent(rk)' = Independent(rk)) /\ StopCycle' = StopCycle
        /\ (AllSaid(x)' <=> AllSaid(x)) /\ LastOK(x)' = LastOK(x)
    BY <1>3, SameTogether, SameLast, SameSaid
  <1>5. a.time # MaxTime
    BY <1>1, TimeBounds
  <1>6. (StopCycle # 0 /\ a.time = StopCycle) \/ (StopsNow(x) /\ a.time = now[x])
    BY <1>2, <1>5 DEF StopTimes, StopTime
  <1>7. Stopped(x)' \/ (Independent(x[1])' /\ AllSaid(x)' /\ endCycle'[x] = LastOK(x)')
    BY <1>1, <1>4, <1>6 DEF Stopped, StopsNow
  <1> QED BY <1>2, <1>7 DEF OwnStop, StopTime

LEMMA StopsSync ==
  ASSUME SyncInv, OwnStops, StopTimes, NEW x \in RankInfo, Sync(x)
  PROVE  (Independent(x[1]) => OwnStop(x)') /\ StopTime(x)'
  <1>0. TypeInv
    BY DEF SyncInv
  <1>1. PICK a \in Earliest(tv[x]) :
          /\ a.kind = "sync" /\ Pop(x, a) /\ tv' = [tv EXCEPT ![x] = @ \ {a}]
          /\ UNCHANGED <<back, endVars, compVars, exitVars>>
    BY DEF Sync
  <1>2. /\ a \in tv[x] /\ \A b \in tv[x] : a.time <= b.time
        /\ pc[x] = "run" /\ endSim[x] = FALSE
    BY <1>0, <1>1, Popped
  <1>3. UNCHANGED <<back, endSim, config, okAt, idSet>>
    BY <1>1 DEF endVars, compVars, exitVars
  <1>4. StopsOf(x)' = StopsOf(x)
    <2>1. tv'[x] = tv[x] \ {a}
      BY <1>0, <1>1 DEF TypeInv, Shapes
    <2> QED BY <1>1, <2>1 DEF StopsOf
  <1>5. /\ (\A rk : Independent(rk)' = Independent(rk)) /\ StopCycle' = StopCycle
        /\ (AllSaid(x)' <=> AllSaid(x)) /\ (SaidNothing(x)' <=> SaidNothing(x))
    BY <1>3, SameTogether, SameSaid DEF SaidNothing, PlacedOn
  <1>6. Independent(x[1]) => a.time = MaxTime
    <2> SUFFICES ASSUME Independent(x[1]) PROVE a.time = MaxTime
      OBVIOUS
    <2>1. a = SyncAt(NextSync(x))
      BY <1>1, <1>2 DEF SyncInv, Queued
    <2> QED BY <2>1, NoSyncBefore, ActivityKinds
  <1>7. Independent(x[1]) => \A b \in StopsOf(x) : b.time = MaxTime
    <2> SUFFICES ASSUME Independent(x[1]), NEW b \in StopsOf(x) PROVE b.time = MaxTime
      OBVIOUS
    <2>1. b \in tv[x] /\ b.time \in SimTime
      BY <1>0, ActivityFields DEF StopsOf, TypeInv, Shapes
    <2>2. MaxTime <= b.time
      BY <1>2, <1>6, <2>1
    <2> QED BY <2>1, <2>2, TimeBounds
  <1>8. Independent(x[1]) => OwnStop(x)'
    <2> SUFFICES ASSUME Independent(x[1]), AllSaid(x) PROVE SaidNothing(x)
      BY <1>5 DEF OwnStop
    <2>1. SUFFICES ASSUME now[x] < MaxTime, StopAt(now[x]) \in tv[x] PROVE FALSE
      BY <1>2 DEF OwnStops, OwnStop
    <2>2. now[x] = MaxTime
      BY <1>7, <2>1, ActivityKinds DEF StopsOf
    <2> QED BY <2>1, <2>2, TimeBounds
  <1>9. StopTime(x)'
    <2>1. \A b \in StopsOf(x) : b.time = MaxTime \/ (StopCycle # 0 /\ b.time = StopCycle)
      BY <1>2, <1>7 DEF StopTimes, StopTime, StopsNow
    <2> QED BY <1>2, <1>3, <1>4, <1>5, <2>1 DEF StopTime, ByStop
  <1> QED BY <1>8, <1>9

(* The rest of a sync takes no stop from a vortex and adds none. *)
LEMMA StopsKept ==
  ASSUME SyncInv, NEW x \in RankInfo,
         \/ LeaveLoop(x) \/ Before(x) \/ SendRank(x) \/ (\E r \in Ranks : ReceiveRank(x, r))
         \/ ReceivedAll(x) \/ After(x) \/ EndOrNext(x) \/ InsertNext(x)
  PROVE  /\ StopsOf(x)' = StopsOf(x) /\ okAt' = okAt /\ idSet' = idSet
         /\ pc[x] = "run" => endSim[x]
         /\ ~EndOrNext(x) => UNCHANGED <<back, endSim, endCycle>>
  <1>0. /\ tv \in [RankInfo -> SUBSET Activities] /\ tq \in [RankInfo -> SUBSET Events]
        /\ net \in [Ranks \X RankInfo -> Seq(SUBSET Events)]
    BY DEF SyncInv, TypeInv, Shapes
  <1>1. /\ okAt' = okAt /\ idSet' = idSet /\ (pc[x] = "run" => endSim[x])
        /\ ~EndOrNext(x) => UNCHANGED <<back, endSim, endCycle>>
    BY DEF LeaveLoop, Before, SendRank, ReceiveRank, ReceivedAll, After, EndOrNext, InsertNext,
           endVars, compVars, exitVars
  <1>2. ASSUME NEW S \in SUBSET Events, tv' = [tv EXCEPT ![x] = @ \cup Delivered(S, now[x])]
        PROVE  StopsOf(x)' = StopsOf(x)
    <2>1. tv'[x] = tv[x] \cup Delivered(S, now[x])
      BY <1>0, <1>2
    <2>2. \A e \in Delivered(S, now[x]) : e.kind = "event"
      <3>1. now[x] \in SimTime
        BY DEF SyncInv, TypeInv, Shapes
      <3>2. Delivered(S, now[x]) \in SUBSET Events
        BY <3>1, DeliveredEvents
      <3> QED BY <3>2, ActivityKinds
    <2> QED BY <2>1, <2>2 DEF StopsOf
  <1>3. CASE Before(x)
    <2>1. tv' = [tv EXCEPT ![x] = @ \cup Delivered(tq[x], now[x])]
      BY <1>3 DEF Before, Delivered
    <2> QED BY <1>0, <1>1, <1>2, <2>1
  <1>4. ASSUME NEW r \in Ranks, ReceiveRank(x, r) PROVE StopsOf(x)' = StopsOf(x)
    <2>1. tv' = [tv EXCEPT ![x] = @ \cup Delivered(Head(net[r, x]), now[x])] /\ net[r, x] # <<>>
      BY <1>4 DEF ReceiveRank, Delivered
    <2>2. net[r, x] \in Seq(SUBSET Events)
      BY <1>0
    <2>3. Head(net[r, x]) \in SUBSET Events
      BY <2>1, <2>2, HeadTailProperties
    <2> QED BY <1>2, <2>1, <2>3
  <1>5. CASE InsertNext(x)
    <2>1. tv'[x] = tv[x] \cup {SyncAt(NextSync(x))}
      BY <1>0, <1>5 DEF InsertNext, NextSync
    <2>2. StopsOf(x)' = StopsOf(x)
      BY <2>1, ActivityKinds DEF StopsOf
    <2> QED BY <1>1, <2>2
  <1>6. CASE LeaveLoop(x) \/ SendRank(x) \/ ReceivedAll(x) \/ After(x) \/ EndOrNext(x)
    <2>1. tv' = tv
      BY <1>6 DEF LeaveLoop, SendRank, ReceivedAll, After, EndOrNext
    <2> QED BY <1>1, <2>1 DEF StopsOf
  <1> QED BY <1>1, <1>3, <1>4, <1>5, <1>6

LEMMA StopsThread ==
  ASSUME SyncInv, RoomInv, SaidBefore, OwnStops, StopTimes, NEW x \in RankInfo, ThreadStep(x)
  PROVE  OwnStops' /\ StopTimes'
  <1>0. TypeInv /\ OthersKeep(x) /\ Effect(x) /\ config' = config
    BY ThreadEffect DEF SyncInv, OthersKeep
  <1>1. (\A rk : Independent(rk)' = Independent(rk))
    BY <1>0, SameTogether
  <1>2. CASE Handle(x)
    BY <1>2, StopsHandle
  <1>3. CASE ~Handle(x)
    <2>1. okAt' = okAt /\ idSet' = idSet
      BY <1>3, StopsKept DEF ThreadStep, Stop, SetEndTime, Sync, compVars, exitVars
    <2>2. ASSUME NEW y \in RankInfo, y # x
          PROVE  /\ Independent(y[1]) /\ OwnStop(y) => OwnStop(y)'
                 /\ StopTime(y) => StopTime(y)'
      <3>1. /\ pc'[y] = pc[y] /\ back'[y] = back[y] /\ now'[y] = now[y] /\ endSim'[y] = endSim[y]
        BY <1>0, <2>2 DEF OthersKeep
      <3>2. tv'[y] = tv[y]
        <4>1. CASE pc[x] # "run"
          BY <1>0, <2>2, <4>1 DEF OthersKeep
        <4>2. CASE Stop(x) \/ Sync(x) \/ LeaveLoop(x)
          <5>1. tv \in [RankInfo -> SUBSET Activities]
            BY <1>0 DEF TypeInv, Shapes
          <5> QED BY <2>2, <4>2, <5>1 DEF Stop, Sync, LeaveLoop
        <4> QED BY <1>3, <4>1, <4>2 DEF ThreadStep, Before, SendRank, ReceiveRank, ReceivedAll,
                                       After, EndOrNext, InsertNext
      <3>3. endCycle'[y] = endCycle[y] /\ (TakenFinal(y) => TakenFinal(y)')
        BY <2>2, ThreadEnds
      <3>4. StopsOf(y)' = StopsOf(y)
        BY <3>2 DEF StopsOf
      <3> QED BY <1>0, <2>1, <3>1, <3>3, <3>4, StopsStay
    <2>3. (Independent(x[1]) => OwnStop(x)') /\ StopTime(x)'
      <3>1. CASE Stop(x)
        BY <3>1, StopsStop
      <3>2. CASE Sync(x)
        BY <3>2, StopsSync
      <3>3. CASE ~Stop(x) /\ ~Sync(x)
        <4>1. /\ StopsOf(x)' = StopsOf(x)
              /\ pc[x] = "run" => endSim[x]
              /\ ~EndOrNext(x) => UNCHANGED <<back, endSim, endCycle>>
          BY <1>3, <3>3, StopsKept DEF ThreadStep
        <4>2. CASE EndOrNext(x) /\ Over(x)
          <5>1. endSim'[x] = TRUE /\ back'[x] = "next"
            BY <1>0, <4>2 DEF EndOrNext, EndSimulation, TypeInv, Shapes
          <5> QED BY <5>1 DEF OwnStop, StopTime, ByStop
        <4>3. CASE ~(EndOrNext(x) /\ Over(x))
          <5>1. UNCHANGED <<back, endSim, endCycle>>
            BY <4>1, <4>3 DEF EndOrNext, endVars
          <5>2. OwnStops /\ StopTimes /\ (TakenFinal(x) => TakenFinal(x)')
            BY ThreadEnds
          <5>3. /\ Independent(x[1]) /\ OwnStop(x) => OwnStop(x)'
                /\ StopTime(x) => StopTime(x)'
            BY <1>0, <2>1, <4>1, <5>1, <5>2, StopsStay
          <5> QED BY <5>2, <5>3 DEF OwnStops, StopTimes
        <4> QED BY <4>2, <4>3
      <3> QED BY <3>1, <3>2, <3>3
    <2>4. \A y \in RankInfo : StopTime(y)' /\ (Independent(y[1]) => OwnStop(y)')
      BY <2>2, <2>3 DEF OwnStops, StopTimes
    <2> QED BY <1>1, <2>4 DEF OwnStops, StopTimes
  <1> QED BY <1>2, <1>3


LEMMA StopsStep ==
  ASSUME SyncInv, RoomInv, SaidBefore, FinalInv, OwnStops, StopTimes, [Next]_vars
  PROVE  OwnStops' /\ StopTimes'
  <1>0. TypeInv
    BY DEF SyncInv
  <1>1. ASSUME config' = config, okAt' = okAt, idSet' = idSet, UNCHANGED <<tv, now, endSim, back>>,
               \A y \in RankInfo :
                 /\ pc[y] = "run" /\ ~endSim[y] => pc'[y] = "run"
                 /\ ByStop(y) => endCycle'[y] = endCycle[y] \/ TakenFinal(y)'
                 /\ TakenFinal(y) => TakenFinal(y)'
        PROVE  OwnStops' /\ StopTimes'
    <2>1. (\A rk : Independent(rk)' = Independent(rk))
      BY <1>1, SameTogether
    <2>2. \A y \in RankInfo : StopsOf(y)' = StopsOf(y)
      BY <1>1 DEF StopsOf
    <2>3. ASSUME NEW y \in RankInfo
          PROVE  /\ Independent(y[1]) /\ OwnStop(y) => OwnStop(y)'
                 /\ StopTime(y) => StopTime(y)'
      BY <1>1, <2>2, StopsStay
    <2> QED BY <2>1, <2>3 DEF OwnStops, StopTimes
  <1>2. ASSUME NEW r \in Ranks, NEW b \in Barriers, Barrier(r, b) PROVE OwnStops' /\ StopTimes'
    <2>1. UNCHANGED <<config, okAt, tv, now, endSim, back, endCycle, exitVars>> /\ b \notin {"run", "done"}
      BY <1>0, <1>2, BarrierStep, BarrierFrame
    <2>2. \A y \in RankInfo : pc[y] \in {"run", "done"} => pc'[y] = pc[y]
      BY <1>0, <1>2, <2>1, BarrierStep
    <2>3. \A y \in RankInfo : TakenFinal(y) => TakenFinal(y)'
      BY <2>1, <2>2, SameConfig DEF TakenFinal
    <2> QED BY <1>1, <2>1, <2>2, <2>3 DEF exitVars
  <1>3. ASSUME ReduceNext \/ CheckRanks PROVE OwnStops' /\ StopTimes'
    <2>1. UNCHANGED <<config, okAt, idSet, tv, now, endSim, back, endCycle>>
      BY <1>3 DEF ReduceNext, CheckRanks, CheckExit, endVars, compVars, exitVars
    <2>2. \A y \in RankInfo : pc[y] \in {"run", "done"} => pc'[y] = pc[y]
      BY <1>3, Threads DEF ReduceNext, CheckRanks
    <2>3. \A y \in RankInfo : TakenFinal(y) => TakenFinal(y)'
      BY <2>1, <2>2, SameConfig DEF TakenFinal
    <2> QED BY <1>1, <2>1, <2>2, <2>3
  <1>4. ASSUME FinalEndTime PROVE OwnStops' /\ StopTimes'
    <2>1. /\ UNCHANGED <<config, okAt, idSet, tv, now, endSim, back>>
          /\ \A y \in Masters : pc[y] = "final"
          /\ pc' = [x \in RankInfo |-> IF x \in Masters THEN "done" ELSE pc[x]]
          /\ endCycle' = [x \in RankInfo |-> IF x \in Masters THEN LatestEnd(Ranks) ELSE endCycle[x]]
      BY <1>4 DEF FinalEndTime, compVars
    <2>2. MinPart' = MinPart /\ Masters' = Masters /\ Masters \subseteq RankInfo
      BY <2>1, SameConfig, Threads DEF Masters, Master
    <2>3. \A y \in Masters : TakenFinal(y)'
      BY <2>1, <2>2 DEF FinalInv, TakenFinal
    <2>4. \A y \in RankInfo : y \notin Masters => endCycle'[y] = endCycle[y] /\ ~TakenFinal(y)
      BY <2>1 DEF TakenFinal
    <2>5. \A y \in RankInfo : pc[y] = "run" => pc'[y] = "run"
      BY <2>1
    <2> QED BY <1>1, <2>1, <2>3, <2>4, <2>5
  <1>5. ASSUME UNCHANGED vars PROVE OwnStops' /\ StopTimes'
    <2>1. UNCHANGED <<config, okAt, idSet, tv, now, endSim, back, endCycle, pc>>
      BY <1>5 DEF vars, endVars, compVars, exitVars
    <2>2. \A y \in RankInfo : TakenFinal(y) => TakenFinal(y)'
      BY <2>1, SameConfig DEF TakenFinal
    <2> QED BY <1>1, <2>1, <2>2
  <1> QED BY <1>2, <1>3, <1>4, <1>5, StopsThread DEF Next, Meeting, Finished

----------------------------------------------------------------------------
(* The start of a run, where nobody has said or stopped anything yet.      *)

LEMMA StopsInit ==
  ASSUME Init, NEW x \in RankInfo PROVE OwnStop(x) /\ StopTime(x)
  <1>0. TypeInv
    BY SyncInvInit DEF SyncInv
  <1>1. /\ pc[x] = "run" /\ now[x] = 0 /\ ~endSim[x]
        /\ okAt = [c \in Comps |-> 0] /\ idSet = [r \in Ranks |-> Primary \cap PlacedIn(r)]
        /\ tv[x] = InitialStops(x)
                     \cup {SyncAt(NextCycle(x[1], MinPart, ThreadLat(x[1])))}
                     \cup {EventTo(c, config.start[c], c, 1) : c \in Active \cap PlacedOn(x)}
    BY DEF Init, ExitInit
  <1>2. OwnStop(x)
    BY <1>1 DEF OwnStop, SaidNothing, PlacedOn
  <1>3. ASSUME NEW a \in StopsOf(x)
        PROVE  a.time = MaxTime \/ (StopCycle # 0 /\ a.time = StopCycle) \/ (StopsNow(x) /\ a.time = now[x])
    <2>1. a \in InitialStops(x)
      BY <1>1, ActivityKinds DEF StopsOf, EventTo, Activity
    <2>2. CASE Independent(x[1]) /\ PlacedOn(x) = {} /\ a = StopAt(0)
      <3>1. Together(x) = {x}
        BY <2>2, TogetherIs
      <3>2. {c \in Comps : Home[c] \in Together(x)} = {}
        BY <2>2, <3>1 DEF PlacedOn
      <3>3. okAt \in [Comps -> SimTime] /\ 0 \in SimTime
        BY <1>1, TimeBounds
      <3>4. LastOf({}) = 0
        BY <3>3, LastIs
      <3>5. AllSaid(x)
        BY <3>2 DEF AllSaid
      <3> QED BY <1>1, <2>2, <3>2, <3>4, <3>5, ActivityKinds DEF StopsNow, LastOK
    <2>3. CASE a = StopAt(MaxTime) \/ (StopCycle # 0 /\ a = StopAt(StopCycle))
      BY <2>3, ActivityKinds
    <2> QED BY <2>1, <2>2, <2>3 DEF InitialStops
  <1> QED BY <1>1, <1>2, <1>3 DEF StopTime, ByStop

LEMMA EndingInit == Init => EndingInv
  <1> SUFFICES ASSUME Init PROVE EndingInv
    OBVIOUS
  <1>0. TypeInv
    BY SyncInvInit DEF SyncInv
  <1>1. /\ \A x \in RankInfo : pc[x] = "run" /\ now[x] = 0 /\ ~endSim[x]
        /\ \A c \in Comps : okAt[c] = 0
        /\ \A r \in Ranks : endTime[r] = 0
    BY DEF Init, ExitInit
  <1>2. \A x \in RankInfo : ~Ending(x) /\ ~TakenFinal(x)
    BY <1>1 DEF Ending, TakenFinal
  <1>3. SyncKinds
    BY KindsInit
  <1>4. SaidBefore
    BY <1>1, HomeOf DEF SaidBefore
  <1>5. EndTimeBounds
    BY <1>1 DEF EndTimeBounds, PlacedOn
  <1>6. OwnStops /\ StopTimes
    BY StopsInit DEF OwnStops, StopTimes
  <1>7. EndTogether /\ EndTimes
    BY <1>2 DEF EndTogether, EndTimes
  <1>8. FinalInv
    BY <1>1, <1>2, Threads DEF FinalInv
  <1> QED BY <1>3, <1>4, <1>5, <1>6, <1>7, <1>8 DEF EndingInv

LEMMA EndingStep ==
  SyncInv /\ PlaceInv /\ ForwardInv /\ EndingInv /\ [Next]_vars => EndingInv'
  <1> SUFFICES ASSUME SyncInv, PlaceInv, ForwardInv, EndingInv, [Next]_vars PROVE EndingInv'
    OBVIOUS
  <1>0. /\ RoomInv /\ SyncKinds /\ SaidBefore /\ EndTimeBounds /\ OwnStops /\ StopTimes
        /\ EndTogether /\ EndTimes /\ FinalInv
    BY DEF PlaceInv, EndingInv
  <1>1. SyncKinds'
    BY <1>0, KindsStep
  <1>2. SaidBefore'
    BY <1>0, SaidBeforeStep
  <1>3. EndTimeBounds'
    BY <1>0, BoundsStep
  <1>4. OwnStops' /\ StopTimes'
    BY <1>0, StopsStep
  <1>5. EndTogether' /\ EndTimes'
    BY <1>0, TogetherStep
  <1>6. FinalInv'
    BY <1>0, FinalStep
  <1> QED BY <1>1, <1>2, <1>3, <1>4, <1>5, <1>6 DEF EndingInv

LEMMA EndingInvariance ==
  ASSUME Room, Occupied PROVE Spec => []SyncInv /\ []EndingInv
  <1>1. Init => PlaceInv
    BY PlaceInvInit
  <1>2. Init => ForwardInv
    BY ForwardInit
  <1> QED BY <1>1, <1>2, PlaceInvStep, ForwardInvStep, SyncInvariance, EndingInit, EndingStep,
             PTL DEF Spec


----------------------------------------------------------------------------
(* What that says of the end.                                              *)

(* Whoever has ended was ended by a stop, or by a sync and with all the    *)
(* others it is held together with. *)
LEMMA EndedHow ==
  ASSUME SyncInv, EndingInv, NEW x \in RankInfo, endSim[x], ~TakenFinal(x)
  PROVE  \/ ByStop(x) /\ ~Ending(x) /\ Stopped(x)
         \/ /\ ByStop(x) /\ ~Ending(x)
            /\ Independent(x[1]) /\ AllSaid(x) /\ endCycle[x] = LastOK(x)
         \/ /\ Ending(x) /\ AllSaid(x) /\ endCycle[x] = LastOK(x)
            /\ \A y \in Together(x) : Ending(y)
  <1>1. CASE Ending(x)
    BY <1>1 DEF EndingInv, EndTogether, EndTimes
  <1>2. CASE ~Ending(x)
    <2>1. ByStop(x)
      BY <1>2, EndingPlace
    <2> QED BY <1>2, <2>1 DEF EndingInv, StopTimes, StopTime
  <1> QED BY <1>1, <1>2

LEMMA SaidOK ==
  ASSUME NEW x \in RankInfo, AllSaid(x)
  PROVE  \A y \in Together(x) : idSet[y[1]] \cap PlacedOn(y) = {}
  BY DEF AllSaid, PlacedOn

LEMMA EndAgreed ==
  ASSUME SyncInv, EndingInv, NEW x \in RankInfo, ~Independent(x[1]), NEW y \in Together(x),
         endSim[x], endSim[y], ~TakenFinal(x), ~TakenFinal(y)
  PROVE  endCycle[x] = endCycle[y] /\ (endCycle[x] = LastOK(x) \/ Stopped(x))
  <1>0. ~Independent(y[1])
    BY DEF Independent, Together, ThreadsOf
  <1>1. y \in RankInfo /\ x \in Together(y) /\ Together(y) = Together(x)
    BY TogetherIs
  <1>2. LastOK(y) = LastOK(x)
    BY <1>1 DEF LastOK
  <1>3. Ending(x) <=> Ending(y)
    BY <1>0, <1>1, EndedHow
  <1>4. CASE Ending(x)
    BY <1>0, <1>1, <1>2, <1>3, <1>4, EndedHow
  <1>5. CASE ~Ending(x)
    <2>1. Stopped(x) /\ Stopped(y)
      BY <1>0, <1>1, <1>3, <1>5, EndedHow
    <2> QED BY <2>1 DEF Stopped
  <1> QED BY <1>4, <1>5

(* For any number of ranks, threads and components: unless --stop-at ends  *)
(* it, a thread only ends when every component of the threads that are     *)
(* held together with it by links has said OK, and none of them takes it   *)
(* back afterwards (component.h:86-88), however the components' calls      *)
(* interleave with the two barriers of a sync that looks at the counts.    *)
THEOREM EndsWhenOK == ASSUME Room, Occupied PROVE Spec => []EndsAllOK
  <1>1. SyncInv /\ EndingInv => EndsAllOK
    <2> SUFFICES ASSUME SyncInv, EndingInv, NEW x \in RankInfo, ~Independent(x[1]),
                        endSim[x], ~Stopped(x), ~TakenFinal(x)
                 PROVE  \A y \in Together(x) : idSet[y[1]] \cap PlacedOn(y) = {}
      BY DEF EndsAllOK
    <2> QED BY EndedHow, SaidOK
  <1>2. Spec => []SyncInv /\ []EndingInv
    BY EndingInvariance
  <1> QED BY <1>1, <1>2, PTL

(* For any number of ranks, threads and components: the threads that are   *)
(* held together by links end with one simulated time, that of --stop-at   *)
(* or the cycle at which the last of their components said OK, whichever   *)
(* of them that was (exit.cc:113, exit.cc:149).                            *)
THEOREM EndsAtLastOK == ASSUME Room, Occupied PROVE Spec => []EndTimeAgreed
  <1>1. SyncInv /\ EndingInv => EndTimeAgreed
    BY EndAgreed DEF EndTimeAgreed
  <1>2. Spec => []SyncInv /\ []EndingInv
    BY EndingInvariance
  <1> QED BY <1>1, <1>2, PTL

(* For any number of ranks, threads and components without links between   *)
(* threads: each thread ends at the cycle at which its own last component  *)
(* said OK, with the stop event that call queued (exit.cc:115-120), and    *)
(* not later with another one, unless --stop-at ends it first.             *)
THEOREM EndsAlone == ASSUME Room, Occupied PROVE Spec => []OwnEnd
  <1>1. SyncInv /\ EndingInv => OwnEnd
    <2> SUFFICES ASSUME SyncInv, EndingInv, NEW x \in RankInfo, Independent(x[1]),
                        endSim[x], ~TakenFinal(x), ~Stopped(x)
                 PROVE  idSet[x[1]] \cap PlacedOn(x) = {} /\ endCycle[x] = LastOK(x)
      BY DEF OwnEnd
    <2>1. AllSaid(x) /\ endCycle[x] = LastOK(x)
      BY EndedHow
    <2> QED BY <2>1, SaidOK, TogetherIs
  <1>2. Spec => []SyncInv /\ []EndingInv
    BY EndingInvariance
  <1> QED BY <1>1, <1>2, PTL

(* For any number of ranks, threads and components: the first threads of   *)
(* all ranks come out of the run with one simulated time, agreed on in the *)
(* last rank sync or, where no link crosses ranks, after the loop          *)
(* (simulation.cc:735-738).                                                *)
THEOREM EndsTogether == ASSUME Room, Occupied PROVE Spec => []FinalTimeAgreed
  <1>1. SyncInv /\ EndingInv => FinalTimeAgreed
    <2> SUFFICES ASSUME SyncInv, EndingInv, NEW x \in Masters, NEW y \in Masters,
                        pc[x] = "done", pc[y] = "done"
                 PROVE  endCycle[x] = endCycle[y]
      BY DEF FinalTimeAgreed
    <2>1. x \in RankInfo /\ y \in RankInfo /\ endSim[x] /\ endSim[y] /\ config \in Configs
      <3>1. x \in RankInfo /\ y \in RankInfo
        BY Threads
      <3> QED BY <3>1 DEF SyncInv, TypeInv, CountInv, EndInv
    <2>2. CASE MinPart = MaxTime /\ NumRanks > 1
      <3>1. TakenFinal(x) /\ TakenFinal(y)
        BY <2>2 DEF TakenFinal
      <3> QED BY <3>1 DEF EndingInv, FinalInv
    <2>3. CASE MinPart # MaxTime
      <3>1. ~Independent(x[1]) /\ ~TakenFinal(x) /\ ~TakenFinal(y)
        BY <2>3 DEF Independent, TakenFinal
      <3>2. y \in Together(x)
        BY <2>1, <2>3, TogetherIs
      <3> QED BY <2>1, <3>1, <3>2, EndAgreed
    <2>4. CASE ~(NumRanks > 1)
      <3>1. NumRanks = 1
        BY <2>4, BaseAssumption
      <3>2. x[1] = 0 /\ y[1] = 0
        <4>1. x[1] \in Ranks /\ y[1] \in Ranks
          BY <2>1, Threads
        <4> QED BY <3>1, <4>1 DEF Ranks
      <3>3. x = y
        BY <3>2, Threads
      <3> QED BY <3>3
    <2> QED BY <2>2, <2>3, <2>4
  <1>2. Spec => []SyncInv /\ []EndingInv
    BY EndingInvariance
  <1> QED BY <1>1, <1>2, PTL
=============================================================================
