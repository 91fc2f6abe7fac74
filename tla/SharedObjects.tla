--------------------------- MODULE SharedObjects ---------------------------
(***************************************************************************)
(* The shared objects (sharedObject.cc, sharedMap.h): a map that several   *)
(* components fill while the simulation is initialized.  Every rank has a  *)
(* replica; what is written goes to the other ranks when thread 0 of every *)
(* rank calls updateState between two rounds of init().  A component's     *)
(* instance counts from initialize() on, in its constructor or in init().  *)
(* The object lock makes a write one step.                                 *)
(***************************************************************************)
EXTENDS SimBase

CONSTANTS Sharers,          \* components with an instance of the map
          Early,            \* the sets of them that may call initialize()
                            \* before the first round
          Keys,
          Values,
          Unset,            \* stands for "no value"
          Verify,           \* verify_type is not NO_VERIFY
          MaxWrites         \* bound: different things a component writes

ASSUME SharedAssumption ==
  /\ Sharers \subseteq Comps /\ Early \subseteq SUBSET Sharers
  /\ Unset \notin Values /\ Verify \in BOOLEAN /\ MaxWrites \in Nat

VARIABLES replica,          \* Data::map, per rank
          changes,          \* ChangeSet::changes, per rank
          sharing,          \* instances that have called initialize()
          published,        \* instances that have called publish()
          fullyPublished,   \* fully_published, per rank
          locked,           \* locked, per rank
          failed,           \* two different values met, and the run is over
          counted,          \* history: sharing at the last updateState
          written           \* history: everything written, [by, key, value]

sharedVars == <<replica, changes, sharing, published, fullyPublished, locked,
                failed, counted, written>>

Contents == [Keys -> Values \cup {Unset}]
Empty == [k \in Keys |-> Unset]

SharedTypeOK ==
  /\ replica \in [Ranks -> Contents] /\ changes \in [Ranks -> Contents]
  /\ sharing \subseteq Sharers /\ published \subseteq sharing /\ counted \subseteq sharing
  /\ fullyPublished \in [Ranks -> BOOLEAN] /\ locked \in [Ranks -> BOOLEAN]
  /\ failed \in BOOLEAN /\ written \subseteq [by : Sharers, key : Keys, value : Values]

SharedInit ==
  /\ replica = [r \in Ranks |-> Empty] /\ changes = replica
  /\ sharing \in Early /\ published = {} /\ counted = {} /\ written = {} /\ failed = FALSE
  /\ fullyPublished = [r \in Ranks |-> FALSE] /\ locked = fullyPublished

(* initialize() by component c. *)
Initialize(c) ==
  /\ c \in Sharers \ sharing /\ ~locked[Home[c][1]]
  /\ sharing' = sharing \cup {c}
  /\ UNCHANGED <<replica, changes, published, fullyPublished, locked, failed, counted, written>>

(* update_write: the first value of a key stays, another one is an error   *)
(* unless nobody wants to know.                                            *)
Kept(m, k, v) == IF m[k] = Unset THEN v ELSE m[k]
Clash(m, k, v) == Verify /\ m[k] \notin {Unset, v}

(* write(k, v) by component c; the set of changes keeps the last value. *)
Write(c, k, v) ==
  LET r == Home[c][1]
  IN  /\ c \in sharing \ published /\ ~locked[r]
      /\ Cardinality({w \in written : w.by = c}) < MaxWrites
      /\ replica' = [replica EXCEPT ![r][k] = Kept(replica[r], k, v)]
      /\ failed' = Clash(replica[r], k, v)
      /\ changes' = [changes EXCEPT ![r][k] = v]
      /\ written' = written \cup {[by |-> c, key |-> k, value |-> v]}
      /\ UNCHANGED <<sharing, published, fullyPublished, locked, counted>>

Publish(c) ==
  /\ c \in sharing \ published
  /\ published' = published \cup {c}
  /\ UNCHANGED <<replica, changes, sharing, fullyPublished, locked, failed, counted, written>>

(* The values rank r has for k when the changes of the other ranks have    *)
(* been applied one after the other.                                       *)
Candidates(r, k) ==
  ({replica[r][k]} \cup {changes[s][k] : s \in Ranks \ {r}}) \ {Unset}

FirstChange(r, k) ==
  LET from == {s \in Ranks \ {r} : changes[s][k] # Unset}
  IN  IF from = {} THEN Unset ELSE changes[MinTime(from)][k]

Applied(r) ==
  [k \in Keys |-> IF replica[r][k] # Unset THEN replica[r][k] ELSE FirstChange(r, k)]

(* fault: a rank looks at its own instances only *)
UpdateOwnCount(finalize) ==
  /\ replica' = [r \in Ranks |-> Applied(r)]
  /\ failed' = (Verify /\ \E r \in Ranks, k \in Keys :
                             \E v, w \in Candidates(r, k) : v # w)
  /\ changes' = [r \in Ranks |-> Empty]
  /\ fullyPublished' =
       [r \in Ranks |-> finalize \/ {c \in sharing : Home[c][1] = r} \subseteq published]
  /\ locked' = [r \in Ranks |-> finalize \/ locked[r]]
  /\ counted' = sharing
  /\ UNCHANGED <<sharing, published, written>>

(* updateState(finalize), a collective of all ranks. *)
UpdateState(finalize) ==
  /\ replica' = [r \in Ranks |-> Applied(r)]
  /\ failed' = (Verify /\ \E r \in Ranks, k \in Keys :
                             \E v, w \in Candidates(r, k) : v # w)
  /\ changes' = [r \in Ranks |-> Empty]
  /\ fullyPublished' = [r \in Ranks |-> finalize \/ (sharing # {} /\ published = sharing)]
  /\ locked' = [r \in Ranks |-> finalize \/ locked[r]]
  /\ counted' = sharing
  /\ UNCHANGED <<sharing, published, written>>

----------------------------------------------------------------------------
(* Properties.                                                             *)

(* When a rank is told that everything is published, its replica holds     *)
(* everything that anybody has written anywhere (sharedObject.h:101-103),  *)
(* but for instances that have been initialized since (sharedMap.h:165).   *)
PublishedComplete ==
  ~failed =>
    \A r \in Ranks, w \in written :
      fullyPublished[r] /\ w.by \in counted => replica[r][w.key] = w.value
=============================================================================
