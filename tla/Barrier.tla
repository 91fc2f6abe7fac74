------------------------------ MODULE Barrier ------------------------------
(***************************************************************************)
(* Core::ThreadSafe::Barrier of threadsafe.h: a spinning barrier that is   *)
(* reused round after round.  One action per atomic access of wait(), so   *)
(* that threads of two successive rounds interleave inside it.             *)
(*                                                                         *)
(* size_t is modelled by the residues modulo SizeMod, so that generation   *)
(* wraps.  enabled is TRUE throughout: every barrier of the engine is      *)
(* resized before the first wait() and disable() has no caller.            *)
(***************************************************************************)
EXTENDS Integers, FiniteSets

CONSTANTS Threads,          \* the threads that share the barrier
          SizeMod           \* 2 ^ width of size_t

ASSUME ThreadsAssumption == IsFiniteSet(Threads) /\ Threads # {}

\* origCount fits into a size_t, and so does every generation.
ASSUME SizeAssumption == SizeMod \in Nat /\ Cardinality(Threads) < SizeMod

VARIABLES count,            \* threads still missing in the current round
          generation,       \* number of the round, modulo SizeMod
          gen,              \* wait()'s local copy of generation, per thread
          pc                \* where each thread is in wait()

vars == <<count, generation, gen, pc>>

origCount == Cardinality(Threads)

PCs == {"out", "load", "dec", "reset", "bump", "spin", "leave"}

TypeOK ==
  /\ count \in 0 .. origCount
  /\ generation \in 0 .. SizeMod - 1
  /\ gen \in [Threads -> 0 .. SizeMod - 1]
  /\ pc \in [Threads -> PCs]

(* Barrier(count), or resize(newCount) while nobody is in wait(). *)
Init ==
  /\ count = origCount
  /\ generation = 0
  /\ gen = [t \in Threads |-> 0]
  /\ pc = [t \in Threads |-> "out"]

----------------------------------------------------------------------------
Goto(t, l) == pc' = [pc EXCEPT ![t] = l]

(* Faults a change of wait() could bring in. *)

(* the barrier takes itself for complete one thread too early *)
FetchSubEarly(t) ==
  /\ pc[t] = "dec"
  /\ count' = (count - 1) % SizeMod
  /\ Goto(t, IF count' <= 1 THEN "reset" ELSE "spin")
  /\ UNCHANGED <<generation, gen>>

(* a stale generation is used: the load is skipped *)
LoadGenStale(t) ==
  /\ pc[t] = "load"
  /\ Goto(t, "dec")
  /\ UNCHANGED <<count, generation, gen>>

(* the count is not restored before the release *)
ResetSkipped(t) ==
  /\ pc[t] = "reset"
  /\ Goto(t, "bump")
  /\ UNCHANGED <<count, generation, gen>>

(* the spin loop waits for the count, which the next round counts down *)
SpinOnCount(t) ==
  /\ pc[t] = "spin"
  /\ Goto(t, IF count = origCount THEN "leave" ELSE "spin")
  /\ UNCHANGED <<count, generation, gen>>

----------------------------------------------------------------------------

(* A thread calls wait(). *)
Call(t) ==
  /\ pc[t] = "out"
  /\ Goto(t, "load")
  /\ UNCHANGED <<count, generation, gen>>

(* gen = generation.load() *)
LoadGen(t) ==
  /\ pc[t] = "load"
  /\ gen' = [gen EXCEPT ![t] = generation]
  /\ Goto(t, "dec")
  /\ UNCHANGED <<count, generation>>

(* c = count.fetch_sub(1) - 1: the thread that brings it to 0 releases. *)
FetchSub(t) ==
  /\ pc[t] = "dec"
  /\ count' = (count - 1) % SizeMod
  /\ Goto(t, IF count' = 0 THEN "reset" ELSE "spin")
  /\ UNCHANGED <<generation, gen>>

(* count.store(origCount), before the others are let go *)
Reset(t) ==
  /\ pc[t] = "reset"
  /\ count' = origCount
  /\ Goto(t, "bump")
  /\ UNCHANGED <<generation, gen>>

(* generation.fetch_add(1): "incrementing generation causes release" *)
Bump(t) ==
  /\ pc[t] = "bump"
  /\ generation' = (generation + 1) % SizeMod
  /\ Goto(t, "leave")
  /\ UNCHANGED <<count, gen>>

(* One turn of the spin loop, which ends when it reads another generation. *)
Spin(t) ==
  /\ pc[t] = "spin"
  /\ Goto(t, IF generation = gen[t] THEN "spin" ELSE "leave")
  /\ UNCHANGED <<count, generation, gen>>

Return(t) ==
  /\ pc[t] = "leave"
  /\ Goto(t, "out")
  /\ UNCHANGED <<count, generation, gen>>

InWait(t) ==
  LoadGen(t) \/ FetchSub(t) \/ Reset(t) \/ Bump(t) \/ Spin(t) \/ Return(t)

Next == \E t \in Threads : Call(t) \/ InWait(t)

Spec == Init /\ [][Next]_vars

(* A thread inside wait() is scheduled; nothing says it calls wait() again. *)
FairSpec == Spec /\ \A t \in Threads : WF_vars(InWait(t))

----------------------------------------------------------------------------
(* The threads counted in the round that is not released yet. *)
Waiting ==
  {t \in Threads : \/ pc[t] \in {"reset", "bump"}
                   \/ pc[t] = "spin" /\ gen[t] = generation}

Status ==
  [t \in Threads |->
     IF t \in Waiting THEN "waiting"
     ELSE IF pc[t] \in {"spin", "leave"} THEN "released" ELSE "out"]

Abs == INSTANCE BarrierSpec WITH status <- Status

(* The barrier implements BarrierSpec: no interleaving of two rounds lets a *)
(* thread out of wait() before every thread has come in (threadsafe.h:77). *)
BarrierRefined == Abs!Spec

(* The count is that of the open round, whoever is still leaving the last  *)
(* one; the releaser is alone and nobody can be decrementing under it; a   *)
(* thread's generation is at most one behind.  This is the argument for    *)
(* reusing the barrier at once (count.store before generation.fetch_add).  *)
RoundInv ==
  /\ \A t \in Threads :
       /\ pc[t] = "dec" => gen[t] = generation
       /\ pc[t] = "spin" => \/ gen[t] = generation
                            \/ generation = (gen[t] + 1) % SizeMod
       /\ pc[t] \in {"reset", "bump"} =>
            /\ Waiting = Threads
            /\ \A u \in Threads : pc[u] \in {"reset", "bump"} => u = t
            /\ count = IF pc[t] = "reset" THEN 0 ELSE origCount
  /\ (\A t \in Threads : pc[t] # "bump") =>
       count = origCount - Cardinality(Waiting)

(* Nobody is left spinning: a thread that spins gets out of wait(), unless *)
(* somebody it waits for stays outside (no missed release, no stuck round).*)
SpinnerReleased ==
  \A t \in Threads :
    pc[t] = "spin" ~> (pc[t] = "leave" \/ \E u \in Threads : pc[u] = "out")
=============================================================================
