------------------------------ MODULE DedupQueue ------------------------------
(***************************************************************************)
(* The bounded memory of recently processed command UUIDs that             *)
(* CommandProcessor keeps (DedupQueue in services/mqtt/commands.rs).       *)
(*                                                                         *)
(* recorded is a history variable: every UUID the current process recorded,*)
(* in order.  The code keeps only the last DEDUP_CAPACITY of them.         *)
(***************************************************************************)
EXTENDS Naturals, Sequences, FiniteSets, Functions

CONSTANTS
  Uuid,            (* Command identifiers.                                 *)
  DEDUP_CAPACITY   (* Number of identifiers remembered (256 in the code).  *)

ASSUME DedupCapacityAssumption == DEDUP_CAPACITY \in Nat \ {0}

VARIABLES
  seen,      (* The HashSet that answers "was this UUID seen?".            *)
  order,     (* The VecDeque with the insertion order, oldest first.       *)
  recorded   (* History: all UUIDs recorded since the process started.     *)

dedupVars == <<seen, order, recorded>>

DedupTypeOK ==
  /\ seen \subseteq Uuid
  /\ order \in Seq(Uuid)
  /\ recorded \in Seq(Uuid)

DedupInit ==
  /\ seen = {}
  /\ order = <<>>
  /\ recorded = <<>>

DedupReset ==
  /\ seen' = {}
  /\ order' = <<>>
  /\ recorded' = <<>>

-----------------------------------------------------------------------------
(* Mutants of Record: plausible slips in the eviction.                      *)

RecordEvictingEarly(uuid) ==
  /\ uuid \notin seen
  /\ LET all == Append(order, uuid)
         evict == Len(all) >= DEDUP_CAPACITY
     IN  /\ seen' = IF evict THEN (seen \cup {uuid}) \ {Head(all)} ELSE seen \cup {uuid}
         /\ order' = IF evict THEN Tail(all) ELSE all
  /\ recorded' = Append(recorded, uuid)

RecordKeepingEvicted(uuid) ==
  /\ uuid \notin seen
  /\ LET evict == Cardinality(seen) >= DEDUP_CAPACITY /\ order # <<>>
     IN  /\ seen' = seen \cup {uuid}
         /\ order' = Append(IF evict THEN Tail(order) ELSE order, uuid)
  /\ recorded' = Append(recorded, uuid)

(* DedupQueue::record, the branch that returns true: at capacity the oldest *)
(* UUID leaves both collections, then the new one enters both.              *)
Record(uuid) ==
  /\ uuid \notin seen
  /\ LET evict == Cardinality(seen) >= DEDUP_CAPACITY /\ order # <<>>
     IN  /\ seen' = (IF evict THEN seen \ {Head(order)} ELSE seen) \cup {uuid}
         /\ order' = Append(IF evict THEN Tail(order) ELSE order, uuid)
  /\ recorded' = Append(recorded, uuid)

(* DedupQueue::record, the branch that returns false.                       *)
Duplicate(uuid) ==
  /\ uuid \in seen
  /\ UNCHANGED dedupVars

-----------------------------------------------------------------------------
(* The two collections hold the same UUIDs, each once, and never more than  *)
(* the capacity: an insertion or an eviction that touched only one of them  *)
(* would leave a UUID that is rejected forever or one that is never evicted.*)
DedupConsistent ==
  /\ seen = Range(order)
  /\ \A i, j \in 1..Len(order) : order[i] = order[j] => i = j
  /\ Len(order) <= DEDUP_CAPACITY

(* The queue is exactly the tail of the history: the last                   *)
(* min(DEDUP_CAPACITY, length) recorded UUIDs in their order.               *)
DedupRemembersSuffix ==
  /\ Len(order) <= Len(recorded)
  /\ Len(order) < DEDUP_CAPACITY => Len(order) = Len(recorded)
  /\ \A i \in 1..Len(order) :
       order[i] = recorded[Len(recorded) - Len(order) + i]

(* Two executions of one UUID by the same process are separated by at least *)
(* DEDUP_CAPACITY other commands: the window within which a QoS 1           *)
(* redelivery cannot run a command a second time (commands.rs:71).          *)
DedupWindow ==
  \A i, j \in 1..Len(recorded) :
     i < j /\ recorded[i] = recorded[j] => j - i > DEDUP_CAPACITY
=============================================================================
