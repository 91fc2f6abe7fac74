------------------------------ MODULE BinnedMap ------------------------------
(***************************************************************************)
(* The time vortex that keeps activities in bins (timeVortexBinnedMap.cc): *)
(* a TimeUnit for every delivery time that occurs, in a map, and the unit  *)
(* the owner works on outside of it.  Used units go back to a pool.  With  *)
(* --interthread-links other threads insert while the owner pops.          *)
(*                                                                         *)
(* insert and front are cut into the steps between which other threads see *)
(* the vortex; what is done with slock or tu_lock held is one step.  The   *)
(* lookahead of ThreadSyncDirectSkip is the window: until all threads have *)
(* met at its end, the owner stays before it and the others insert at its  *)
(* end or later.                                                           *)
(***************************************************************************)
EXTENDS Integers, Sequences, FiniteSets

CONSTANTS Owner,            \* the thread whose vortex this is
          Writers,          \* other threads that insert directly
          Readers,          \* threads that call front() in a sync
          Units,            \* TimeUnit objects
          NoUnit,
          Rereads,          \* the build loads current_time_unit twice in insert
          Prios,            \* priorities of activities
          Window,           \* cycles between two syncs
          MaxInserts,       \* bound: insertions
          LastTime          \* bound: delivery times

Threads == {Owner} \cup Writers \cup Readers
Times == 0 .. LastTime
Acts == [time : Times, prio : Prios, order : 1 .. MaxInserts]

ASSUME BinnedAssumption ==
  /\ Owner \notin Writers /\ NoUnit \notin Units
  /\ Window \in Nat \ {0} /\ MaxInserts \in Nat \ {0} /\ LastTime \in Nat \ {0}
  /\ Prios \subseteq Nat /\ 30 \in Prios /\ Rereads \in BOOLEAN

VARIABLES current,          \* current_time_unit
          map,              \* the map: from delivery times to units
          pool,             \* units handed back
          unit,             \* sort_time, activities and sorted of each unit
          insertOrder,      \* insertOrder, also the number of insertions
          depth,            \* current_depth
          pc,               \* where a thread is in insert() or front()
          local,            \* its local variables there
          windowEnd,        \* the next sync, as the lookahead guarantees it
          asked,            \* readers that have called front() in this sync
          popped            \* what pop() has returned last

vars == <<current, map, pool, unit, insertOrder, depth, pc, local, windowEnd,
          asked, popped>>

NoAct == [time |-> 0, prio |-> 0, order |-> 0]
NoLocal == [act |-> NoAct, unit |-> NoUnit, i |-> 0, val |-> NoAct]
PCs == {"idle", "look", "find", "push", "pop", "read", "place"}

TypeOK ==
  /\ current \in Units /\ pool \subseteq Units
  /\ DOMAIN map \subseteq Times /\ \A t \in DOMAIN map : map[t] \in Units
  /\ unit \in [Units -> [time : Times, acts : Seq(Acts), sorted : BOOLEAN]]
  /\ insertOrder \in 0 .. MaxInserts /\ depth \in 0 .. MaxInserts
  /\ pc \in [Threads -> PCs] /\ windowEnd \in Nat
  /\ asked \subseteq Readers /\ popped \in Acts \cup {NoAct}

(* Activity::less; the units are sorted the other way, last comes first. *)
Less(a, b) ==
  \/ a.time < b.time
  \/ a.time = b.time /\ a.prio < b.prio
  \/ a.time = b.time /\ a.prio = b.prio /\ a.order < b.order

(* std::sort of a whole unit, by a thread that is alone with it. *)
Sorted(s) ==
  CHOOSE t \in [DOMAIN s -> {s[i] : i \in DOMAIN s}] :
    \A i, j \in DOMAIN s : i < j => Less(t[j], t[i])

FirstOf(m) == CHOOSE t \in DOMAIN m : \A u \in DOMAIN m : t <= u
WithUnit(m, t, u) == [x \in DOMAIN m \cup {t} |-> IF x = t THEN u ELSE m[x]]
WithoutTime(m, t) == [x \in DOMAIN m \ {t} |-> m[x]]

(* A vortex is never empty: it starts with the stop at the end of time. *)
EndStop == [time |-> LastTime, prio |-> 30, order |-> 1]

Init ==
  /\ current \in Units
  /\ \E u \in Units \ {current} :
       /\ map = [t \in {LastTime} |-> u]
       /\ unit = [v \in Units |->
                    IF v = u THEN [time |-> LastTime, acts |-> <<EndStop>>, sorted |-> FALSE]
                    ELSE [time |-> 0, acts |-> <<>>, sorted |-> FALSE]]
       /\ pool = Units \ {current, u}
  /\ insertOrder = 1 /\ depth = 1
  /\ pc = [t \in Threads |-> "idle"]
  /\ local = [t \in Threads |-> NoLocal]
  /\ windowEnd = Window
  /\ asked = {} /\ popped = NoAct

----------------------------------------------------------------------------
(* insert(activity) by thread t: the owner inserts from its current cycle  *)
(* on, the others one window ahead.  Nobody inserts while readers look for *)
(* the earliest activity.                                                  *)
InsertCall(t) ==
  /\ pc[t] = "idle" /\ asked = {} /\ \A r \in Readers : pc[r] \notin {"read", "place"}
  /\ insertOrder < MaxInserts
  /\ \E time \in (IF t = Owner THEN unit[current].time ELSE windowEnd) .. LastTime,
        p \in Prios :
       local' = [local EXCEPT ![t] =
                   [NoLocal EXCEPT
                      !.act = [time |-> time, prio |-> p, order |-> insertOrder + 1],
                      !.unit = current]]
  /\ insertOrder' = insertOrder + 1 /\ depth' = depth + 1
  /\ pc' = [pc EXCEPT ![t] = "look"]
  /\ UNCHANGED <<current, map, pool, unit, windowEnd, asked, popped>>

(* Is it for the unit the owner works on?  The pointer is not atomic: a    *)
(* build without optimization loads it again to insert there.              *)
Look(t) ==
  /\ pc[t] = "look"
  /\ IF unit[local[t].unit].time = local[t].act.time
     THEN /\ local' = IF Rereads THEN [local EXCEPT ![t].unit = current] ELSE local
          /\ pc' = [pc EXCEPT ![t] = "push"]
     ELSE /\ pc' = [pc EXCEPT ![t] = "find"]
          /\ UNCHANGED local
  /\ UNCHANGED <<current, map, pool, unit, insertOrder, depth, windowEnd, asked,
                 popped>>

(* fault: a unit from the pool keeps its delivery time *)
FindKeepsTime(t) ==
  LET a == local[t].act
  IN  /\ pc[t] = "find"
      /\ \/ /\ a.time \in DOMAIN map
            /\ local' = [local EXCEPT ![t].unit = map[a.time]]
            /\ UNCHANGED <<map, pool, unit>>
         \/ /\ a.time \notin DOMAIN map
            /\ \E u \in pool :
                 /\ pool' = pool \ {u}
                 /\ map' = WithUnit(map, a.time, u)
                 /\ local' = [local EXCEPT ![t].unit = u]
            /\ UNCHANGED unit
      /\ pc' = [pc EXCEPT ![t] = "push"]
      /\ UNCHANGED <<current, insertOrder, depth, windowEnd, asked, popped>>

(* Under slock: the unit of the delivery time, from the pool if need be. *)
Find(t) ==
  LET a == local[t].act
  IN  /\ pc[t] = "find"
      /\ \/ /\ a.time \in DOMAIN map
            /\ local' = [local EXCEPT ![t].unit = map[a.time]]
            /\ UNCHANGED <<map, pool, unit>>
         \/ /\ a.time \notin DOMAIN map
            /\ \E u \in pool :
                 /\ pool' = pool \ {u}
                 /\ unit' = [unit EXCEPT ![u].time = a.time]
                 /\ map' = WithUnit(map, a.time, u)
                 /\ local' = [local EXCEPT ![t].unit = u]
      /\ pc' = [pc EXCEPT ![t] = "push"]
      /\ UNCHANGED <<current, insertOrder, depth, windowEnd, asked, popped>>

(* fault: the unit is still taken to be sorted *)
PushKeepsSorted(t) ==
  /\ pc[t] = "push"
  /\ unit' = [unit EXCEPT ![local[t].unit].acts = Append(@, local[t].act)]
  /\ local' = [local EXCEPT ![t] = NoLocal]
  /\ pc' = [pc EXCEPT ![t] = "idle"]
  /\ UNCHANGED <<current, map, pool, insertOrder, depth, windowEnd, asked, popped>>

(* Under tu_lock: TimeUnit::insert. *)
Push(t) ==
  /\ pc[t] = "push"
  /\ unit' = [unit EXCEPT ![local[t].unit].acts = Append(@, local[t].act),
                          ![local[t].unit].sorted = FALSE]
  /\ local' = [local EXCEPT ![t] = NoLocal]
  /\ pc' = [pc EXCEPT ![t] = "idle"]
  /\ UNCHANGED <<current, map, pool, insertOrder, depth, windowEnd, asked, popped>>

----------------------------------------------------------------------------
(* pop() by the owner, as long as something is due before the next sync.   *)
Due == \/ unit[current].acts # <<>>
       \/ DOMAIN map # {} /\ FirstOf(map) < windowEnd

PopCurrent ==
  /\ \/ pc[Owner] = "idle" /\ asked = {} /\ Due
     \/ pc[Owner] = "pop"
  /\ unit[current].acts # <<>>
  /\ LET s == unit[current].acts
         t == IF unit[current].sorted THEN s ELSE Sorted(s)
     IN  /\ popped' = t[Len(t)]
         /\ unit' = [unit EXCEPT ![current].acts = SubSeq(t, 1, Len(t) - 1),
                                 ![current].sorted = TRUE]
  /\ depth' = depth - 1
  /\ pc' = [pc EXCEPT ![Owner] = "idle"]
  /\ UNCHANGED <<current, map, pool, insertOrder, local, windowEnd, asked>>

(* Under slock: the current unit is used up, the next one is taken.        *)
NextUnit ==
  /\ pc[Owner] = "idle" /\ asked = {} /\ Due
  /\ unit[current].acts = <<>>
  /\ pool' = pool \cup {current}
  /\ current' = map[FirstOf(map)]
  /\ map' = WithoutTime(map, unit[current'].time)
  /\ pc' = [pc EXCEPT ![Owner] = "pop"]
  /\ UNCHANGED <<unit, insertOrder, depth, local, windowEnd, asked, popped>>

----------------------------------------------------------------------------
(* front() by a reader in the sync at the end of a window.  Where the unit *)
(* is not sorted it sorts it, as std::sort does with a short vector: one   *)
(* element after the other is read and put in its place.                   *)
InSync == ~Due /\ \A t \in Writers \cup {Owner} : pc[t] \in {"idle", "read", "place"}

FrontUnit == IF unit[current].acts # <<>> THEN current ELSE map[FirstOf(map)]

FrontCall(r) ==
  /\ InSync /\ r \notin asked /\ pc[r] = "idle" /\ depth > 0
  /\ LET u == FrontUnit
     IN  IF unit[u].sorted \/ Len(unit[u].acts) = 1
         THEN /\ unit' = [unit EXCEPT ![u].sorted = TRUE]
              /\ asked' = asked \cup {r}
              /\ UNCHANGED <<pc, local>>
         ELSE /\ pc' = [pc EXCEPT ![r] = "read"]
              /\ local' = [local EXCEPT ![r].unit = u, ![r].i = 2]
              /\ UNCHANGED <<unit, asked>>
  /\ UNCHANGED <<current, map, pool, insertOrder, depth, windowEnd, popped>>

SortRead(r) ==
  /\ pc[r] = "read"
  /\ local' = [local EXCEPT ![r].val = unit[local[r].unit].acts[local[r].i]]
  /\ pc' = [pc EXCEPT ![r] = "place"]
  /\ UNCHANGED <<current, map, pool, unit, insertOrder, depth, windowEnd, asked,
                 popped>>

(* Elements that come out before v move up, v takes the place they leave. *)
Placed(s, i, v) ==
  LET p == CHOOSE n \in 1 .. i :
             /\ \A j \in n .. i - 1 : Less(s[j], v)
             /\ n > 1 => ~Less(s[n - 1], v)
  IN  [j \in DOMAIN s |-> IF j = p THEN v
                          ELSE IF j \in p + 1 .. i THEN s[j - 1] ELSE s[j]]

SortPlace(r) ==
  LET u == local[r].unit
      i == local[r].i
      last == i = Len(unit[u].acts)
  IN  /\ pc[r] = "place"
      /\ unit' = [unit EXCEPT ![u].acts = Placed(@, i, local[r].val),
                              ![u].sorted = IF last THEN TRUE ELSE @]
      /\ asked' = IF last THEN asked \cup {r} ELSE asked
      /\ pc' = [pc EXCEPT ![r] = IF last THEN "idle" ELSE "read"]
      /\ local' = [local EXCEPT ![r] = IF last THEN NoLocal
                                       ELSE [@ EXCEPT !.i = i + 1]]
      /\ UNCHANGED <<current, map, pool, insertOrder, depth, windowEnd, popped>>

(* All threads have met in the sync: the next window begins. *)
Meet ==
  /\ InSync /\ asked = Readers /\ windowEnd <= LastTime
  /\ windowEnd' = windowEnd + Window
  /\ asked' = {}
  /\ UNCHANGED <<current, map, pool, unit, insertOrder, depth, pc, local, popped>>

Next ==
  \/ \E t \in {Owner} \cup Writers : InsertCall(t) \/ Look(t) \/ Find(t) \/ Push(t)
  \/ PopCurrent \/ NextUnit
  \/ \E r \in Readers : FrontCall(r) \/ SortRead(r) \/ SortPlace(r)
  \/ Meet

Spec == Init /\ [][Next]_vars

----------------------------------------------------------------------------
(* Properties.                                                             *)

InUse == {current} \cup {map[t] : t \in DOMAIN map}
Contents == UNION {{unit[u].acts[i] : i \in DOMAIN unit[u].acts} : u \in InUse}

(* The bins are an ordered queue: whatever other threads insert meanwhile, *)
(* everything comes out once and the least first (timeVortexBinnedMap.cc:  *)
(* 90-95, :136).                                                           *)
Bag == INSTANCE OrderedBag WITH bag <- Contents, out <- popped
QueueRefined == Bag!Spec

(* Only one thread at a time touches the unit the owner works on, which    *)
(* its pop does not lock (timeVortexBinnedMap.cc:92-94), and nobody        *)
(* inserts into a unit that has gone back to the pool.                     *)
UnitsApart ==
  /\ pool \cap InUse = {} /\ current \notin {map[t] : t \in DOMAIN map}
  /\ \A u \in pool : unit[u].acts = <<>>
  /\ \A t \in DOMAIN map : unit[map[t]].time = t
  /\ \A w \in Writers : pc[w] = "push" =>
       local[w].unit \in InUse \ {current} /\ unit[local[w].unit].time = local[w].act.time

UnitInv == TypeOK /\ UnitsApart
=============================================================================
