------------------------ MODULE CommandProcessor_proofs ------------------------
(***************************************************************************)
(* Theorems about the command path, for every set of UUIDs and names and   *)
(* every channel capacity: first about its bounded memory of UUIDs, in     *)
(* lemmas on the operation Record, then about the tasks.                   *)
(***************************************************************************)
EXTENDS CommandProcessor, FiniteSetTheorems, SequenceTheorems, TLAPS

-----------------------------------------------------------------------------
(* The memory of UUIDs.                                                     *)

(* The inductive strengthening: HashSet::len(), which decides the eviction, *)
(* counts the same UUIDs as the VecDeque, so an eviction always leaves room.*)
DedupInv ==
  /\ DedupTypeOK
  /\ IsFiniteSet(seen)
  /\ Cardinality(seen) = Len(order)
  /\ DedupConsistent
  /\ DedupRemembersSuffix
  /\ DedupWindow

(* Empty collections satisfy the invariant.                                 *)
LEMMA DedupInitInv == DedupInit => DedupInv
<1> SUFFICES ASSUME DedupInit PROVE DedupInv
  OBVIOUS
<1>1. IsFiniteSet(seen) /\ Cardinality(seen) = 0
  BY FS_EmptySet DEF DedupInit
<1>2. QED
  BY <1>1, DedupCapacityAssumption
  DEF DedupInit, DedupInv, DedupTypeOK, DedupConsistent, DedupRemembersSuffix,
      DedupWindow, Range

(* A reset, as a process start performs it, establishes the invariant.      *)
LEMMA DedupResetInv == DedupReset => DedupInv'
<1> SUFFICES ASSUME DedupReset PROVE DedupInv'
  OBVIOUS
<1>1. IsFiniteSet(seen') /\ Cardinality(seen') = 0
  BY FS_EmptySet DEF DedupReset
<1>2. QED
  BY <1>1, DedupCapacityAssumption
  DEF DedupReset, DedupInv, DedupTypeOK, DedupConsistent,
      DedupRemembersSuffix, DedupWindow, Range

(* Recording a new UUID preserves the invariant: by cases on whether the    *)
(* queue is full.                                                           *)
LEMMA RecordInv ==
  ASSUME NEW u \in Uuid, DedupInv, Record(u)
  PROVE  DedupInv'
<1> DEFINE evict == Cardinality(seen) >= DEDUP_CAPACITY /\ order # <<>>
<1> DEFINE kept == IF evict THEN Tail(order) ELSE order
<1> DEFINE left == IF evict THEN seen \ {Head(order)} ELSE seen
<1>0. /\ u \notin seen
      /\ seen' = left \cup {u}
      /\ order' = Append(kept, u)
      /\ recorded' = Append(recorded, u)
  BY DEF Record
<1>t. /\ order \in Seq(Uuid) /\ recorded \in Seq(Uuid) /\ seen \subseteq Uuid
      /\ Len(order) \in Nat /\ Len(recorded) \in Nat
      /\ DEDUP_CAPACITY \in Nat \ {0}
      /\ Len(order) <= DEDUP_CAPACITY /\ Len(order) <= Len(recorded)
      /\ Len(order) < DEDUP_CAPACITY => Len(order) = Len(recorded)
  BY DedupCapacityAssumption
  DEF DedupInv, DedupTypeOK, DedupConsistent, DedupRemembersSuffix
<1>c. IsFiniteSet(seen) /\ Cardinality(seen) = Len(order)
  BY DEF DedupInv
<1>e. evict <=> Len(order) = DEDUP_CAPACITY
  BY <1>t, <1>c
<1>k. /\ kept \in Seq(Uuid)
      /\ Len(kept) = IF evict THEN Len(order) - 1 ELSE Len(order)
      /\ \A i \in 1..Len(kept) :
            kept[i] = IF evict THEN order[i + 1] ELSE order[i]
  BY <1>t
<1>kc. Len(kept) \in Nat /\ Len(kept) < DEDUP_CAPACITY
  BY <1>k, <1>e, <1>t
<1>d. \A i, j \in 1..Len(order) : order[i] = order[j] => i = j
  BY DEF DedupInv, DedupConsistent
<1>r. seen = {order[i] : i \in 1..Len(order)}
  BY <1>t DEF DedupInv, DedupConsistent, Range
<1>l. left = {kept[i] : i \in 1..Len(kept)}
  <2>1. CASE ~evict
    BY <2>1, <1>r
  <2>2. CASE evict
    <3>1. Head(order) = order[1] /\ 1 \in 1..Len(order)
      BY <2>2, <1>t
    <3>2. ASSUME NEW x \in left PROVE x \in {kept[i] : i \in 1..Len(kept)}
      <4>1. PICK i \in 1..Len(order) : order[i] = x /\ i # 1
        BY <3>1, <3>2, <2>2, <1>r
      <4>2. i - 1 \in 1..Len(kept) /\ kept[i - 1] = x
        BY <4>1, <2>2, <1>k, <1>t
      <4>3. QED
        BY <4>2
    <3>3. ASSUME NEW i \in 1..Len(kept) PROVE kept[i] \in left
      <4>1. kept[i] = order[i + 1] /\ i + 1 \in 1..Len(order) /\ i + 1 # 1
        BY <2>2, <1>k, <1>t
      <4>2. order[i + 1] # order[1]
        BY <4>1, <3>1, <1>d
      <4>3. QED
        BY <4>1, <4>2, <3>1, <2>2, <1>r
    <3>4. QED
      BY <3>2, <3>3
  <2>3. QED
    BY <2>1, <2>2
<1>o. /\ order' \in Seq(Uuid)
      /\ Len(order') = Len(kept) + 1
      /\ \A i \in 1..Len(kept) : order'[i] = kept[i]
      /\ order'[Len(kept) + 1] = u
  BY <1>0, <1>k, <1>t
<1>h. /\ recorded' \in Seq(Uuid)
      /\ Len(recorded') = Len(recorded) + 1
      /\ \A i \in 1..Len(recorded) : recorded'[i] = recorded[i]
      /\ recorded'[Len(recorded) + 1] = u
  BY <1>0, <1>t
<1> HIDE DEF kept, left, evict
<1>1. DedupTypeOK'
  <2>1. left \subseteq Uuid
    BY <1>t DEF left
  <2>2. QED
    BY <2>1, <1>0, <1>o, <1>h DEF DedupTypeOK
<1>2. IsFiniteSet(seen') /\ Cardinality(seen') = Len(order')
  <2>1. IsFiniteSet(left) /\ Cardinality(left) = Len(kept)
    <3>1. CASE ~evict
      BY <3>1, <1>c DEF left, kept
    <3>2. CASE evict
      <4>1. Head(order) \in seen
        BY <3>2, <1>r, <1>t, <1>e
      <4>2. QED
        BY <4>1, <3>2, <1>c, <1>k, FS_RemoveElement DEF left
    <3>3. QED
      BY <3>1, <3>2
  <2>2. u \notin left
    BY <1>0 DEF left
  <2>3. /\ IsFiniteSet(left \cup {u})
        /\ Cardinality(left \cup {u}) = Cardinality(left) + 1
    BY <2>1, <2>2, FS_AddElement
  <2>4. seen' = left \cup {u} /\ Len(order') = Len(kept) + 1
    BY <1>0, <1>o DEF left
  <2>5. QED
    BY <2>1, <2>3, <2>4, <1>kc
<1>3. DedupConsistent'
  <2>1. seen' = {order'[i] : i \in 1..Len(order')}
    <3>1. \A i \in 1..Len(order') : i \in 1..Len(kept) \/ i = Len(kept) + 1
      BY <1>o, <1>kc
    <3>2. 1..Len(kept) \subseteq 1..Len(order') /\ Len(kept) + 1 \in 1..Len(order')
      BY <1>o, <1>kc
    <3>3. QED
      BY <3>1, <3>2, <1>0, <1>l, <1>o
  <2>2. seen' = Range(order')
    BY <2>1, <1>o DEF Range
  <2>3. ASSUME NEW i \in 1..Len(order'), NEW j \in 1..Len(order'),
               order'[i] = order'[j]
        PROVE  i = j
    <3>1. u \notin left
      BY <1>0 DEF left
    <3>2. \A m \in 1..Len(kept) : kept[m] # u
      BY <3>1, <1>l
    <3>3. \A m, n \in 1..Len(kept) : kept[m] = kept[n] => m = n
      <4> SUFFICES ASSUME NEW m \in 1..Len(kept), NEW n \in 1..Len(kept),
                          kept[m] = kept[n]
                   PROVE  m = n
        OBVIOUS
      <4>1. CASE ~evict
        BY <4>1, <1>k, <1>d, <1>t
      <4>2. CASE evict
        <5>1. m + 1 \in 1..Len(order) /\ n + 1 \in 1..Len(order)
          BY <4>2, <1>k, <1>t
        <5>2. order[m + 1] = order[n + 1]
          BY <4>2, <1>k
        <5>3. QED
          BY <5>1, <5>2, <1>d
      <4>3. QED
        BY <4>1, <4>2
    <3>4. QED
      BY <2>3, <3>2, <3>3, <1>o, <1>kc
  <2>4. Len(order') <= DEDUP_CAPACITY
    BY <1>o, <1>kc, <1>t
  <2>5. QED
    BY <2>2, <2>3, <2>4 DEF DedupConsistent
<1>4. DedupRemembersSuffix'
  <2>1. /\ Len(order') <= Len(recorded')
        /\ Len(order') < DEDUP_CAPACITY => Len(order') = Len(recorded')
    BY <1>o, <1>h, <1>k, <1>e, <1>t
  <2>2. ASSUME NEW i \in 1..Len(order')
        PROVE  order'[i] = recorded'[Len(recorded') - Len(order') + i]
    <3>1. CASE i = Len(order')
      BY <3>1, <1>o, <1>h, <1>kc, <1>t
    <3>2. CASE i \in 1..Len(kept)
      <4>1. order'[i] = kept[i]
        BY <3>2, <1>o
      <4>2. \A n \in 1..Len(order) :
              order[n] = recorded[Len(recorded) - Len(order) + n]
        BY DEF DedupInv, DedupRemembersSuffix
      <4>3. CASE evict
        <5>1. i + 1 \in 1..Len(order) /\ kept[i] = order[i + 1]
          BY <4>3, <3>2, <1>k, <1>t
        <5>2. order[i + 1] = recorded[Len(recorded) - Len(order) + (i + 1)]
          BY <5>1, <4>2
        <5>3. Len(recorded) - Len(order) + (i + 1) \in 1..Len(recorded)
          BY <5>1, <1>t
        <5>4. Len(recorded') - Len(order') + i
                = Len(recorded) - Len(order) + (i + 1)
          BY <4>3, <1>o, <1>h, <1>k, <1>t
        <5>5. QED
          BY <4>1, <5>1, <5>2, <5>3, <5>4, <1>h
      <4>4. CASE ~evict
        <5>1. i \in 1..Len(order) /\ kept[i] = order[i]
          BY <4>4, <3>2, <1>k, <1>t
        <5>2. order[i] = recorded[Len(recorded) - Len(order) + i]
          BY <5>1, <4>2
        <5>3. Len(recorded) - Len(order) + i \in 1..Len(recorded)
          BY <5>1, <1>t
        <5>4. Len(recorded') - Len(order') + i
                = Len(recorded) - Len(order) + i
          BY <4>4, <1>o, <1>h, <1>k, <1>t
        <5>5. QED
          BY <4>1, <5>1, <5>2, <5>3, <5>4, <1>h
      <4>5. QED
        BY <4>3, <4>4
    <3>3. QED
      BY <3>1, <3>2, <1>o, <1>kc
  <2>3. QED
    BY <2>1, <2>2 DEF DedupRemembersSuffix
<1>5. DedupWindow'
  <2> SUFFICES ASSUME NEW i \in 1..Len(recorded'), NEW j \in 1..Len(recorded'),
                      i < j, recorded'[i] = recorded'[j]
               PROVE  j - i > DEDUP_CAPACITY
    BY DEF DedupWindow
  <2>1. CASE j <= Len(recorded)
    <3>1. i \in 1..Len(recorded) /\ j \in 1..Len(recorded)
      BY <2>1, <1>h, <1>t
    <3>2. recorded[i] = recorded[j]
      BY <3>1, <1>h
    <3>3. QED
      BY <3>1, <3>2 DEF DedupInv, DedupWindow
  <2>2. CASE j = Len(recorded) + 1
    <3>1. i \in 1..Len(recorded) /\ recorded[i] = u
      BY <2>2, <1>h, <1>t
    <3>2. ASSUME Len(recorded) - i < DEDUP_CAPACITY PROVE FALSE
      <4> DEFINE n == i - (Len(recorded) - Len(order))
      <4>1. n \in 1..Len(order) /\ Len(recorded) - Len(order) + n = i
        BY <3>1, <3>2, <1>t
      <4>2. order[n] = u
        BY <4>1, <3>1 DEF DedupInv, DedupRemembersSuffix
      <4>3. QED
        BY <4>1, <4>2, <1>r, <1>0
    <3>3. QED
      BY <3>1, <3>2, <2>2, <1>t
  <2>3. QED
    BY <2>1, <2>2, <1>h, <1>t
<1>6. QED
  BY <1>1, <1>2, <1>3, <1>4, <1>5 DEF DedupInv

(* A UUID that the queue does not hold is none of the last DEDUP_CAPACITY   *)
(* recorded ones.                                                           *)
LEMMA NotSeenNotRecent ==
  ASSUME DedupInv, NEW u \in Uuid, u \notin seen,
         NEW i \in 1..Len(recorded), recorded[i] = u
  PROVE  Len(recorded) - i >= DEDUP_CAPACITY
<1>t. /\ order \in Seq(Uuid) /\ recorded \in Seq(Uuid)
      /\ Len(order) \in Nat /\ Len(recorded) \in Nat
      /\ DEDUP_CAPACITY \in Nat \ {0}
      /\ Len(order) <= DEDUP_CAPACITY /\ Len(order) <= Len(recorded)
      /\ Len(order) < DEDUP_CAPACITY => Len(order) = Len(recorded)
  BY DedupCapacityAssumption
  DEF DedupInv, DedupTypeOK, DedupConsistent, DedupRemembersSuffix
<1>r. seen = {order[m] : m \in 1..Len(order)}
  BY <1>t DEF DedupInv, DedupConsistent, Range
<1>1. ASSUME Len(recorded) - i < DEDUP_CAPACITY PROVE FALSE
  <2> DEFINE n == i - (Len(recorded) - Len(order))
  <2>1. n \in 1..Len(order) /\ Len(recorded) - Len(order) + n = i
    BY <1>1, <1>t
  <2>2. order[n] = u
    BY <2>1 DEF DedupInv, DedupRemembersSuffix
  <2>3. QED
    BY <2>1, <2>2, <1>r
<1>2. QED
  BY <1>1, <1>t

-----------------------------------------------------------------------------
(* The tasks.                                                               *)

(* The events the transport builds are events.                              *)
LEMMA EventRecords ==
  ASSUME NEW n \in Nat
  PROVE  /\ [kind |-> "Connected", id |-> n] \in Event
         /\ [kind |-> "Disconnected", id |-> n] \in Event
         /\ \A m \in Command \cup {Garbage} :
              [kind |-> "Message", id |-> n, msg |-> m] \in Event
BY DEF Event

(* What the tasks may read from an event.                                   *)
LEMMA EventFields ==
  ASSUME NEW e \in Event
  PROVE  /\ e.id \in Nat
         /\ e.kind = "Message" => e.msg \in Command \cup {Garbage}
BY DEF Event

(* The two sequences that are assigned as constants.                        *)
LEMMA ConstantQueues ==
  /\ <<"Subscribe">> \in Seq({"Subscribe", "Publish"})
  /\ Len(<<"Subscribe">>) = 1
  /\ Len(<<>>) = 0
  /\ \A S : <<>> \in Seq(S)
<1>1. <<"Subscribe">> \in Seq({"Subscribe", "Publish"}) /\ Len(<<"Subscribe">>) = 1
  OBVIOUS
<1>2. Len(<<>>) = 0 /\ \A S : <<>> \in Seq(S)
  OBVIOUS
<1>3. QED
  BY <1>1, <1>2

(* The initial state has the declared types.                                *)
LEMMA InitType == Init => TypeOK
<1> SUFFICES ASSUME Init PROVE TypeOK
  OBVIOUS
<1>1. DedupTypeOK
  BY DedupInitInv DEF Init, DedupInv
<1>2. /\ session \in Seq(Command \cup {Garbage}) /\ sent \in 0..Len(session)
      /\ outbox \in Seq({"Subscribe", "Publish"}) /\ Len(outbox) <= REQUEST_CAPACITY
      /\ broadcast \in Seq(Event) /\ Len(broadcast) <= EVENT_CHANNEL_CAPACITY
      /\ held \in Seq(Event) /\ Len(held) <= 1
      /\ bridge \in Seq(Event) /\ Len(bridge) <= BRIDGE_CHANNEL_CAPACITY
  BY ConstantQueues, CapacityAssumption DEF Init
<1>3. /\ status \in [Uuid -> CommandState]
      /\ result \in [Uuid -> {"None", "Ok", "Error"}]
  BY DEF Init, CommandState
<1>4. QED
  BY <1>1, <1>2, <1>3 DEF Init, TypeOK, Control

(* A forwarded event keeps the types of the broadcast channel.              *)
LEMMA ForwardType ==
  ASSUME TypeOK, NEW e \in Event, Forward(e)
  PROVE  /\ events' \in Nat
         /\ broadcast' \in Seq(Event)
         /\ Len(broadcast') <= EVENT_CHANNEL_CAPACITY
         /\ lagged' \in BOOLEAN
         /\ lost' \subseteq Nat
<1>t. /\ broadcast \in Seq(Event) /\ Len(broadcast) <= EVENT_CHANNEL_CAPACITY
      /\ events \in Nat /\ lagged \in BOOLEAN /\ lost \subseteq Nat
      /\ EVENT_CHANNEL_CAPACITY \in Nat \ {0}
  BY CapacityAssumption DEF TypeOK
<1>1. CASE eventLoop # "running"
  BY <1>1, <1>t DEF Forward
<1>2. CASE eventLoop = "running" /\ Len(broadcast) < EVENT_CHANNEL_CAPACITY
  <2>1. /\ broadcast' = Append(broadcast, e) /\ events' = events + 1
        /\ UNCHANGED <<lagged, lost>>
    BY <1>2 DEF Forward, Send
  <2>2. QED
    BY <2>1, <1>2, <1>t
<1>3. CASE eventLoop = "running" /\ ~(Len(broadcast) < EVENT_CHANNEL_CAPACITY)
  <2>1. /\ broadcast' = Append(Tail(broadcast), e) /\ events' = events + 1
        /\ lagged' = TRUE /\ lost' = lost \cup {Head(broadcast).id}
    BY <1>3 DEF Forward, Send
  <2>2. /\ broadcast # <<>> /\ Head(broadcast) \in Event
        /\ Tail(broadcast) \in Seq(Event)
        /\ Len(Tail(broadcast)) = Len(broadcast) - 1
    BY <1>3, <1>t
  <2>3. Head(broadcast).id \in Nat
    BY <2>2, EventFields
  <2>4. /\ broadcast' \in Seq(Event)
        /\ Len(broadcast') <= EVENT_CHANNEL_CAPACITY
    BY <2>1, <2>2, <1>t
  <2>5. lost' \subseteq Nat
    BY <2>1, <2>3, <1>t
  <2>6. events' \in Nat /\ lagged' \in BOOLEAN
    BY <2>1, <1>t
  <2>7. QED
    BY <2>4, <2>5, <2>6
<1>4. QED
  BY <1>1, <1>2, <1>3

(* Every step preserves the types; one case per action.                     *)
LEMMA NextType == TypeOK /\ [Next]_vars => TypeOK'
<1> SUFFICES ASSUME TypeOK, [Next]_vars PROVE TypeOK'
  OBVIOUS
<1> USE CapacityAssumption
<1>n. events + 1 \in Nat
  BY DEF TypeOK
<1>1. ASSUME NEW m \in Messages, Issue(m) PROVE TypeOK'
  <2>1. m \in Command \cup {Garbage}
    BY MessagesAssumption
  <2>2. QED
    BY <1>1, <2>1
    DEF Issue, TypeOK, DedupTypeOK, dedupVars, bridgeVars, reportVars, runVars
<1>2. CASE Ack
  BY <1>2
  DEF Ack, TypeOK, DedupTypeOK, dedupVars, bridgeVars, reportVars, countVars, runVars
<1>3. CASE Cancel
  BY <1>3
  DEF Cancel, TypeOK, DedupTypeOK, dedupVars, brokerVars, bridgeVars, reportVars,
      countVars, runVars
<1>4. CASE ConnAck
  <2>1. [kind |-> "Connected", id |-> events + 1] \in Event
    BY <1>n, EventRecords
  <2>2. /\ events' \in Nat /\ broadcast' \in Seq(Event)
        /\ Len(broadcast') <= EVENT_CHANNEL_CAPACITY
        /\ lagged' \in BOOLEAN /\ lost' \subseteq Nat
    BY <1>4, <2>1, ForwardType DEF ConnAck
  <2>3. QED
    BY <1>4, <2>2
    DEF ConnAck, TypeOK, DedupTypeOK, dedupVars, reportVars, countVars, runVars
<1>5. CASE ConnError
  <2>1. [kind |-> "Disconnected", id |-> events + 1] \in Event
    BY <1>n, EventRecords
  <2>2. /\ events' \in Nat /\ broadcast' \in Seq(Event)
        /\ Len(broadcast') <= EVENT_CHANNEL_CAPACITY
        /\ lagged' \in BOOLEAN /\ lost' \subseteq Nat
    BY <1>5, <2>1, ForwardType DEF ConnError
  <2>3. /\ outbox' \in Seq({"Subscribe", "Publish"})
        /\ Len(outbox') <= REQUEST_CAPACITY
        /\ eventLoop' \in {"running", "flushing", "stopped"}
    <3>1. CASE eventLoop = "running"
      BY <1>5, <3>1 DEF ConnError, TypeOK
    <3>2. CASE eventLoop # "running"
      BY <1>5, <3>2, ConstantQueues DEF ConnError
    <3>3. QED
      BY <3>1, <3>2
  <2>4. session' \in Seq(Command \cup {Garbage}) /\ sent' \in 0..Len(session')
    BY <1>5 DEF ConnError, TypeOK
  <2>a. connected' \in BOOLEAN
    BY <1>5, Zenon DEF ConnError
  <2>b. errors' \in Nat
    BY <1>5 DEF ConnError, TypeOK
  <2>5. UNCHANGED <<dedupVars, subscribed, bridgeDone, held, bridge, status,
                    result, issued, boots, cancelled, pc, cur, runVars, done>>
    BY <1>5 DEF ConnError
  <2>6. QED
    BY <2>2, <2>3, <2>4, <2>5, <2>a, <2>b
    DEF TypeOK, DedupTypeOK, dedupVars, runVars
<1>6. CASE Deliver
  <2>1. session[sent + 1] \in Command \cup {Garbage}
    BY <1>6 DEF Deliver, TypeOK
  <2>2. [kind |-> "Message", id |-> events + 1, msg |-> session[sent + 1]] \in Event
    BY <1>n, <2>1, EventRecords
  <2>3. /\ events' \in Nat /\ broadcast' \in Seq(Event)
        /\ Len(broadcast') <= EVENT_CHANNEL_CAPACITY
        /\ lagged' \in BOOLEAN /\ lost' \subseteq Nat
    BY <1>6, <2>2, ForwardType DEF Deliver
  <2>4. QED
    BY <1>6, <2>3
    DEF Deliver, TypeOK, DedupTypeOK, dedupVars, reportVars, countVars, runVars
<1>7. CASE Flush
  BY <1>7
  DEF Flush, TypeOK, DedupTypeOK, dedupVars, bridgeVars, countVars, runVars
<1>8. CASE BeginFlush
  BY <1>8
  DEF BeginFlush, TypeOK, DedupTypeOK, dedupVars, brokerVars, bridgeVars,
      reportVars, countVars, runVars
<1>9. CASE EndFlush
  <2>1. /\ outbox' \in Seq({"Subscribe", "Publish"})
        /\ Len(outbox') <= REQUEST_CAPACITY
    BY <1>9, ConstantQueues DEF EndFlush
  <2>2. session' \in Seq(Command \cup {Garbage}) /\ sent' \in 0..Len(session')
    BY <1>9 DEF EndFlush, TypeOK
  <2>3. QED
    BY <1>9, <2>1, <2>2
    DEF EndFlush, TypeOK, DedupTypeOK, dedupVars, bridgeVars, countVars, runVars
<1>10. CASE Bridge
  <2> USE DEF dedupVars, brokerVars, reportVars, countVars, transportVars,
              processorVars, runVars
  <2>1. CASE BridgeRecv
    BY <2>1 DEF BridgeRecv, TypeOK, DedupTypeOK
  <2>2. CASE BridgeLagged
    BY <2>2 DEF BridgeLagged, TypeOK, DedupTypeOK
  <2>3. CASE BridgeSend
    <3>1. bridge' \in Seq(Event) /\ Len(bridge') <= BRIDGE_CHANNEL_CAPACITY
      <4>1. Head(held) \in Event
        BY <2>3 DEF BridgeSend, TypeOK
      <4>2. CASE pc = "done"
        BY <2>3, <4>2 DEF BridgeSend, TypeOK
      <4>3. CASE pc # "done"
        <5>1. /\ bridge' = Append(bridge, Head(held))
              /\ Len(bridge) < BRIDGE_CHANNEL_CAPACITY
          BY <2>3, <4>3 DEF BridgeSend
        <5>2. bridge \in Seq(Event) /\ Len(bridge) \in Nat
          BY DEF TypeOK
        <5>3. QED
          BY <4>1, <5>1, <5>2
      <4>4. QED
        BY <4>2, <4>3
    <3>2. held' \in Seq(Event) /\ Len(held') <= 1
      BY <2>3, ConstantQueues DEF BridgeSend
    <3>3. QED
      BY <2>3, <3>1, <3>2 DEF BridgeSend, TypeOK, DedupTypeOK
  <2>4. CASE BridgeCancelled
    BY <2>4 DEF BridgeCancelled, TypeOK, DedupTypeOK
  <2>5. QED
    BY <1>10, <2>1, <2>2, <2>3, <2>4 DEF Bridge
<1>11. CASE Processor \/ HandlerReturn
  <2> USE DEF dedupVars, brokerVars, reportVars, countVars, transportVars,
              processorOthers, runVars, Control
  <2>1. CASE DrainCancelled
    BY <2>1 DEF DrainCancelled, TypeOK, DedupTypeOK
  <2>2. CASE DrainClosed
    BY <2>2 DEF DrainClosed, TypeOK, DedupTypeOK
  <2>h. ASSUME Take
        PROVE  /\ Head(bridge) \in Event /\ bridge' \in Seq(Event)
               /\ Len(bridge') <= BRIDGE_CHANNEL_CAPACITY
               /\ done' \in Nat
    <3>1. Head(bridge) \in Event /\ bridge' \in Seq(Event)
          /\ Len(bridge') <= BRIDGE_CHANNEL_CAPACITY
      BY <2>h DEF Take, TypeOK
    <3>2. QED
      BY <2>h, <3>1, EventFields DEF Take
  <2>3. CASE TakeConnected
    BY <2>3, <2>h DEF TakeConnected, Take, TypeOK, DedupTypeOK
  <2>4. CASE TakeIgnored
    BY <2>4, <2>h DEF TakeIgnored, Take, TypeOK, DedupTypeOK
  <2>5. CASE TakeDuplicate
    BY <2>5, <2>h DEF TakeDuplicate, Take, Duplicate, TypeOK, DedupTypeOK
  <2>6. ASSUME NEW late \in BOOLEAN, TakeCommand(late) PROVE TypeOK'
    <3> DEFINE m == Head(bridge).msg
    <3>1. m \in Command /\ m.uuid \in Uuid
      BY <2>6, <2>h, EventFields DEF TakeCommand, Command
    <3>2. /\ seen' \subseteq Uuid /\ order' \in Seq(Uuid)
          /\ recorded' \in Seq(Uuid)
      BY <2>6, <3>1 DEF TakeCommand, Record, TypeOK, DedupTypeOK
    <3>3. QED
      BY <2>6, <2>h, <3>1, <3>2
      DEF TakeCommand, Take, TypeOK, DedupTypeOK, CommandState
  <2>e. ASSUME NEW request \in {"Subscribe", "Publish"}, Enqueue(request)
        PROVE  /\ outbox' \in Seq({"Subscribe", "Publish"})
               /\ Len(outbox') <= REQUEST_CAPACITY
    <3>1. /\ outbox \in Seq({"Subscribe", "Publish"})
          /\ Len(outbox) <= REQUEST_CAPACITY
      BY DEF TypeOK
    <3>2. CASE outbox' = Append(outbox, request) /\ Len(outbox) < REQUEST_CAPACITY
      BY <3>1, <3>2
    <3>3. QED
      BY <2>e, <3>1, <3>2 DEF Enqueue
  <2>7. CASE Resubscribe
    BY <2>7, <2>e DEF Resubscribe, TypeOK, DedupTypeOK
  <2>8. ASSUME NEW at \in Control \ {"select", "subscribe", "done"},
               NEW state \in CommandState, NEW next \in Control \ {"done"},
               next # "subscribe", PublishStatus(at, state, next)
        PROVE  TypeOK'
    BY <2>8, <2>e DEF PublishStatus, TypeOK, DedupTypeOK, Command
  <2>9. ASSUME NEW at \in {"resultOk", "resultError"},
               NEW outcome \in {"Ok", "Error"}, PublishResult(at, outcome)
        PROVE  TypeOK'
    BY <2>9, <2>e DEF PublishResult, TypeOK, DedupTypeOK, Command
  <2>10. CASE Publish
    BY <2>10, <2>8, <2>9
    DEF Publish, PublishExpired, PublishAccepted, PublishRejected,
        PublishInProgress, PublishCompleted, PublishFailed, CommandState
  <2>11. CASE StartHandler
    BY <2>11 DEF StartHandler, TypeOK, DedupTypeOK, Command
  <2>12. CASE HandlerCancelled
    BY <2>12 DEF HandlerCancelled, TypeOK, DedupTypeOK
  <2>13. CASE HandlerReturn
    BY <2>13 DEF HandlerReturn, HandlerReturns, TypeOK, DedupTypeOK
  <2>14. QED
    BY <1>11, <2>1, <2>2, <2>3, <2>4, <2>5, <2>6, <2>7, <2>10, <2>11, <2>12,
       <2>13
    DEF Processor
<1>12. CASE Boot
  <2>1. DedupTypeOK'
    BY <1>12, DedupResetInv DEF Boot, DedupInv
  <2>2. /\ status' \in [Uuid -> CommandState]
        /\ result' \in [Uuid -> {"None", "Ok", "Error"}]
    BY <1>12 DEF Boot, CommandState
  <2>3. session' \in Seq(Command \cup {Garbage}) /\ sent' \in 0..Len(session')
    BY <1>12 DEF Boot, TypeOK
  <2>4. /\ outbox' \in Seq({"Subscribe", "Publish"})
        /\ Len(outbox') <= REQUEST_CAPACITY
        /\ broadcast' \in Seq(Event) /\ Len(broadcast') <= EVENT_CHANNEL_CAPACITY
        /\ held' \in Seq(Event) /\ Len(held') <= 1
        /\ bridge' \in Seq(Event) /\ Len(bridge') <= BRIDGE_CHANNEL_CAPACITY
    BY <1>12, ConstantQueues DEF Boot
  <2>5. /\ connected' \in BOOLEAN /\ cancelled' \in BOOLEAN
        /\ lagged' \in BOOLEAN /\ bridgeDone' \in BOOLEAN
    BY <1>12, Zenon DEF Boot
  <2>a. eventLoop' \in {"running", "flushing", "stopped"}
    BY <1>12 DEF Boot
  <2>b. pc' \in Control /\ pc' = "select"
    BY <1>12 DEF Boot, Control
  <2>c. cur' \in Command \cup {Garbage}
    BY <1>12 DEF Boot
  <2>d. /\ events' \in Nat /\ lost' \subseteq Nat /\ done' \in Nat
        /\ boots' \in Nat
    BY <1>12 DEF Boot, TypeOK
  <2>6. UNCHANGED <<subscribed, issued, errors>>
    BY <1>12 DEF Boot
  <2>e. executed' \subseteq Uuid /\ repeated' \subseteq executed'
    BY <1>12 DEF Boot
  <2>7. QED
    BY <2>1, <2>2, <2>3, <2>4, <2>5, <2>6, <2>e, <2>a, <2>b, <2>c, <2>d DEF TypeOK
<1>13. CASE UNCHANGED vars
  BY <1>13
  DEF vars, TypeOK, DedupTypeOK, dedupVars, brokerVars, bridgeVars, reportVars,
      countVars, runVars
<1>14. QED
  BY <1>1, <1>2, <1>3, <1>4, <1>5, <1>6, <1>7, <1>8, <1>9, <1>10, <1>11,
     <1>12, <1>13
  DEF Next, Broker, Transport

(* The declared types hold in every reachable state, with every queue       *)
(* within its capacity.                                                     *)
THEOREM TypeCorrect == Spec => []TypeOK
BY InitType, NextType, PTL DEF Spec

-----------------------------------------------------------------------------
(* The memory of UUIDs keeps its invariant in the service: only TakeCommand *)
(* and Boot touch it.                                                       *)
LEMMA NextDedup == TypeOK /\ DedupInv /\ [Next]_vars => DedupInv'
<1> SUFFICES ASSUME TypeOK, DedupInv, [Next]_vars PROVE DedupInv'
  OBVIOUS
<1>u. ASSUME UNCHANGED dedupVars PROVE DedupInv'
  BY <1>u
  DEF dedupVars, DedupInv, DedupTypeOK, DedupConsistent, DedupRemembersSuffix,
      DedupWindow
<1>1. CASE Broker \/ Cancel \/ Transport \/ Bridge \/ UNCHANGED vars
  <2>1. UNCHANGED dedupVars
    BY <1>1
    DEF Broker, Issue, Ack, Cancel, Transport, ConnAck, ConnError, Deliver,
        Flush, BeginFlush, EndFlush, Bridge, BridgeRecv, BridgeLagged,
        BridgeSend, BridgeCancelled, vars
  <2>2. QED
    BY <2>1, <1>u
<1>2. ASSUME NEW late \in BOOLEAN, TakeCommand(late) PROVE DedupInv'
  <2>1. Head(bridge) \in Event
    BY <1>2 DEF TakeCommand, Take, TypeOK
  <2>2. Head(bridge).msg.uuid \in Uuid
    BY <1>2, <2>1, EventFields DEF TakeCommand, Command
  <2>3. Record(Head(bridge).msg.uuid)
    BY <1>2 DEF TakeCommand
  <2>4. QED
    BY <2>2, <2>3, RecordInv
<1>3. CASE Boot
  BY <1>3, DedupResetInv DEF Boot
<1>4. CASE \/ DrainCancelled \/ DrainClosed
           \/ TakeConnected \/ TakeIgnored \/ TakeDuplicate
           \/ Resubscribe \/ Publish \/ StartHandler \/ HandlerCancelled
           \/ HandlerReturn
  <2>1. UNCHANGED dedupVars
    BY <1>4
    DEF DrainCancelled, DrainClosed, TakeConnected, TakeIgnored, TakeDuplicate,
        Duplicate, Resubscribe, Publish, PublishExpired, PublishAccepted,
        PublishRejected, PublishInProgress, PublishCompleted, PublishFailed,
        PublishStatus, PublishResult, StartHandler, HandlerCancelled,
        HandlerReturn, HandlerReturns
  <2>2. QED
    BY <2>1, <1>u
<1>5. QED
  BY <1>1, <1>2, <1>3, <1>4 DEF Next, Processor

(* The invariant of the memory holds in every reachable state.              *)
LEMMA DedupInvariant == Spec => []DedupInv
<1>1. Init => DedupInv
  BY DedupInitInv DEF Init
<1>2. QED
  BY <1>1, NextDedup, TypeCorrect, PTL DEF Spec

(* The HashSet and the VecDeque always hold the same UUIDs, at most         *)
(* DEDUP_CAPACITY of them.                                                  *)
THEOREM DedupAlwaysConsistent == Spec => []DedupConsistent
BY DedupInvariant, PTL DEF DedupInv

(* The queue remembers exactly the last recorded UUIDs.                     *)
THEOREM DedupAlwaysSuffix == Spec => []DedupRemembersSuffix
BY DedupInvariant, PTL DEF DedupInv

(* One process never records, and so never runs, a UUID twice within        *)
(* DEDUP_CAPACITY commands: redeliveries inside the window are recognised.  *)
THEOREM DedupAlwaysWindow == Spec => []DedupWindow
BY DedupInvariant, PTL DEF DedupInv

-----------------------------------------------------------------------------
(* Positions of process_command before the first poll of the handler.       *)
Unstarted == {"expired", "accept", "reject", "inprogress", "handling"}

(* Links the handlers that ran to the memory of UUIDs: the open command is  *)
(* the last one recorded, and each handler that ran belongs to a recorded   *)
(* command, to an earlier one while the open command has not started.       *)
ExecutionInv ==
  /\ Open => recorded # <<>> /\ recorded[Len(recorded)] = cur.uuid
  /\ \A u \in executed : \E i \in 1..Len(recorded) :
        recorded[i] = u /\ (pc \in Unstarted => i < Len(recorded))
  /\ NoDuplicateExecution

(* A step that takes no command and starts no handler keeps it.             *)
LEMMA ExecutionFrame ==
  ASSUME ExecutionInv, UNCHANGED <<recorded, executed, repeated>>,
         Open' => Open /\ cur' = cur,
         pc' \in Unstarted => pc \in Unstarted
  PROVE  ExecutionInv'
BY DEF ExecutionInv, NoDuplicateExecution

(* Every step keeps the link; the window of the memory separates two runs.  *)
LEMMA NextExecution ==
  TypeOK /\ DedupInv /\ ExecutionInv /\ [Next]_vars => ExecutionInv'
<1> SUFFICES ASSUME TypeOK, DedupInv, ExecutionInv, [Next]_vars
             PROVE  ExecutionInv'
  OBVIOUS
<1>t. /\ recorded \in Seq(Uuid) /\ executed \subseteq Uuid
      /\ DEDUP_CAPACITY \in Nat
  BY DedupCapacityAssumption DEF TypeOK, DedupTypeOK
<1>1. CASE \/ Broker \/ Cancel \/ Transport \/ Bridge \/ UNCHANGED vars
  <2>1. UNCHANGED <<recorded, executed, repeated, pc, cur>>
    BY <1>1
    DEF Broker, Issue, Ack, Cancel, Transport, ConnAck, ConnError, Deliver,
        Flush, BeginFlush, EndFlush, Bridge, BridgeRecv, BridgeLagged,
        BridgeSend, BridgeCancelled, vars, dedupVars, runVars, processorVars
  <2>2. QED
    BY <2>1, ExecutionFrame DEF Open
<1>2. CASE \/ DrainCancelled \/ DrainClosed \/ TakeConnected \/ TakeIgnored
           \/ TakeDuplicate \/ Resubscribe \/ HandlerCancelled
  <2>1. UNCHANGED <<recorded, executed, repeated>>
    BY <1>2
    DEF DrainCancelled, DrainClosed, TakeConnected, TakeIgnored, TakeDuplicate,
        Duplicate, Resubscribe, HandlerCancelled, dedupVars, runVars
  <2>2. pc' \in {"select", "subscribe", "done"}
    BY <1>2
    DEF DrainCancelled, DrainClosed, TakeConnected, TakeIgnored, TakeDuplicate,
        Take, Resubscribe, HandlerCancelled
  <2>3. QED
    BY <2>1, <2>2, ExecutionFrame DEF Open, Unstarted
<1>3. CASE Publish \/ HandlerReturn
  <2>1. UNCHANGED <<recorded, executed, repeated, cur>>
    BY <1>3
    DEF Publish, PublishExpired, PublishAccepted, PublishRejected,
        PublishInProgress, PublishCompleted, PublishFailed, PublishStatus,
        PublishResult, HandlerReturn, HandlerReturns, dedupVars, runVars
  <2>2. /\ Open' => Open
        /\ pc' \in Unstarted => pc \in Unstarted
    BY <1>3
    DEF Publish, PublishExpired, PublishAccepted, PublishRejected,
        PublishInProgress, PublishCompleted, PublishFailed, PublishStatus,
        PublishResult, HandlerReturn, HandlerReturns, Open, Unstarted
  <2>3. QED
    BY <2>1, <2>2, ExecutionFrame
<1>4. ASSUME NEW late \in BOOLEAN, TakeCommand(late) PROVE ExecutionInv'
  <2> DEFINE m == Head(bridge).msg
  <2>1. Head(bridge) \in Event
    BY <1>4 DEF TakeCommand, Take, TypeOK
  <2>2. m.uuid \in Uuid
    BY <1>4, <2>1, EventFields DEF TakeCommand, Command
  <2>3. recorded' = Append(recorded, m.uuid) /\ cur' = m
    BY <1>4 DEF TakeCommand, Record
  <2>4. UNCHANGED <<executed, repeated>>
    BY <1>4 DEF TakeCommand, runVars
  <2>5. /\ Len(recorded') = Len(recorded) + 1
        /\ recorded'[Len(recorded')] = m.uuid
        /\ \A i \in 1..Len(recorded) : recorded'[i] = recorded[i]
    BY <2>2, <2>3, <1>t
  <2>6. Open' => recorded' # <<>> /\ recorded'[Len(recorded')] = cur'.uuid
    BY <2>3, <2>5, <1>t
  <2>7. ASSUME NEW u \in executed
        PROVE  \E i \in 1..Len(recorded') : recorded'[i] = u /\ i < Len(recorded')
    <3>1. PICK i \in 1..Len(recorded) : recorded[i] = u
      BY DEF ExecutionInv
    <3>2. QED
      BY <3>1, <2>5, <1>t
  <2>8. ASSUME NEW u \in repeated
        PROVE  \E i, j \in 1..Len(recorded') :
                 i + DEDUP_CAPACITY < j /\ recorded'[i] = u /\ recorded'[j] = u
    <3>1. PICK i, j \in 1..Len(recorded) :
            i + DEDUP_CAPACITY < j /\ recorded[i] = u /\ recorded[j] = u
      BY DEF ExecutionInv, NoDuplicateExecution
    <3>2. QED
      BY <3>1, <2>5, <1>t
  <2>9. QED
    BY <2>4, <2>6, <2>7, <2>8 DEF ExecutionInv, NoDuplicateExecution
<1>5. CASE StartHandler
  <2>1. /\ pc = "handling" /\ pc' = "running"
        /\ UNCHANGED <<recorded, cur>>
        /\ executed' = executed \cup {cur.uuid}
        /\ repeated' = repeated \cup (executed \cap {cur.uuid})
    BY <1>5 DEF StartHandler, dedupVars
  <2>2. /\ Len(recorded) \in 1..Len(recorded)
        /\ recorded[Len(recorded)] = cur.uuid
    BY <2>1, <1>t DEF ExecutionInv, Open
  <2>3. ASSUME NEW u \in executed'
        PROVE  \E i \in 1..Len(recorded) : recorded[i] = u
    BY <2>1, <2>2 DEF ExecutionInv
  <2>4. ASSUME NEW u \in executed \cap {cur.uuid}
        PROVE  \E i, j \in 1..Len(recorded) :
                 i + DEDUP_CAPACITY < j /\ recorded[i] = u /\ recorded[j] = u
    <3>1. PICK i \in 1..Len(recorded) : recorded[i] = u /\ i < Len(recorded)
      BY <2>1 DEF ExecutionInv, Unstarted
    <3>2. Len(recorded) - i > DEDUP_CAPACITY
      BY <3>1, <2>2 DEF DedupInv, DedupWindow
    <3>3. i + DEDUP_CAPACITY < Len(recorded)
      BY <3>2, <1>t
    <3>4. QED
      BY <3>1, <3>3, <2>2
  <2>5. NoDuplicateExecution'
    BY <2>1, <2>4 DEF ExecutionInv, NoDuplicateExecution
  <2>6. QED
    BY <2>1, <2>2, <2>3, <2>5 DEF ExecutionInv, Unstarted
<1>6. CASE Boot
  BY <1>6 DEF Boot, ExecutionInv, NoDuplicateExecution, Open
<1>7. QED
  BY <1>1, <1>2, <1>3, <1>4, <1>5, <1>6 DEF Next, Processor

(* Within one process a handler runs twice for a UUID only when more than   *)
(* DEDUP_CAPACITY commands were taken between the two.                      *)
THEOREM ExecutionsSeparated == Spec => []NoDuplicateExecution
<1>1. Init => ExecutionInv
  BY DEF Init, ExecutionInv, NoDuplicateExecution, Open
<1>2. ExecutionInv => NoDuplicateExecution
  BY DEF ExecutionInv
<1>3. QED
  BY <1>1, <1>2, NextExecution, TypeCorrect, DedupInvariant, PTL DEF Spec

-----------------------------------------------------------------------------
(* The status a command shows follows the position of the processor.        *)
LEMMA NextStatus ==
  TypeOK /\ StatusFollowsControl /\ [Next]_vars => StatusFollowsControl'
<1> SUFFICES ASSUME TypeOK, StatusFollowsControl, [Next]_vars
             PROVE  StatusFollowsControl'
  OBVIOUS
<1> USE DEF StatusFollowsControl, Open
<1>1. CASE \/ Broker \/ Cancel \/ Transport \/ Bridge \/ UNCHANGED vars
  <2>1. UNCHANGED <<pc, cur, status>>
    BY <1>1
    DEF Broker, Issue, Ack, Cancel, Transport, ConnAck, ConnError, Deliver,
        Flush, BeginFlush, EndFlush, Bridge, BridgeRecv, BridgeLagged,
        BridgeSend, BridgeCancelled, vars, reportVars, processorVars
  <2>2. /\ cancelled => cancelled'
        /\ eventLoop = "stopped" => eventLoop' = "stopped"
        /\ eventLoop' # "running" => cancelled'
    BY <1>1
    DEF Broker, Issue, Ack, Cancel, Transport, ConnAck, ConnError, Deliver,
        Flush, BeginFlush, EndFlush, Bridge, BridgeRecv, BridgeLagged,
        BridgeSend, BridgeCancelled, vars, transportVars
  <2>3. QED
    BY <2>1, <2>2
<1> USE DEF processorOthers, transportVars, reportVars
<1>2. CASE \/ DrainCancelled \/ DrainClosed \/ TakeConnected \/ TakeIgnored
           \/ TakeDuplicate \/ Resubscribe \/ HandlerCancelled
  <2>1. UNCHANGED <<eventLoop, cancelled>>
    BY <1>2
    DEF DrainCancelled, DrainClosed, TakeConnected, TakeIgnored, TakeDuplicate,
        Resubscribe, HandlerCancelled
  <2>2. pc' \in {"select", "subscribe", "done"}
    BY <1>2
    DEF DrainCancelled, DrainClosed, TakeConnected, TakeIgnored, TakeDuplicate,
        Take, Resubscribe, HandlerCancelled
  <2>3. QED
    BY <2>1, <2>2
<1>3. ASSUME NEW late \in BOOLEAN, TakeCommand(late) PROVE StatusFollowsControl'
  <2> DEFINE m == Head(bridge).msg
  <2>1. Head(bridge) \in Event
    BY <1>3 DEF TakeCommand, Take, TypeOK
  <2>2. m \in Command /\ m.uuid \in Uuid
    BY <1>3, <2>1, EventFields DEF TakeCommand, Command
  <2>3. status'[m.uuid] = "Received" /\ cur' = m /\ pc' \in {"expired", "accept"}
    BY <1>3, <2>2 DEF TakeCommand, TypeOK
  <2>4. LastPublished["expired"] = "Received" /\ LastPublished["accept"] = "Received"
    BY DEF LastPublished, Control
  <2>5. UNCHANGED <<eventLoop, cancelled>>
    BY <1>3 DEF TakeCommand
  <2>6. QED
    BY <2>3, <2>4, <2>5
<1>4. ASSUME NEW at, NEW state, NEW next, PublishStatus(at, state, next),
             at \notin {"select", "subscribe", "done"},
             next \in {"select"} \/ LastPublished[next] = state
      PROVE  StatusFollowsControl'
  <2>1. cur.uuid \in Uuid /\ status \in [Uuid -> CommandState]
    BY <1>4 DEF PublishStatus, TypeOK, Command
  <2>2. QED
    BY <1>4, <2>1 DEF PublishStatus
<1>5. CASE Publish
  <2>1. /\ LastPublished["reject"] = "Accepted"
        /\ LastPublished["inprogress"] = "Accepted"
        /\ LastPublished["handling"] = "InProgress"
        /\ LastPublished["resultOk"] = "Completed"
        /\ LastPublished["resultError"] = "Failed"
    BY DEF LastPublished, Control
  <2>2. ASSUME NEW at, NEW outcome, PublishResult(at, outcome)
        PROVE  StatusFollowsControl'
    BY <2>2 DEF PublishResult
  <2>3. CASE PublishAccepted
    BY <2>1, <2>3, <1>4 DEF PublishAccepted
  <2>4. CASE PublishExpired \/ PublishRejected
    BY <2>4, <1>4 DEF PublishExpired, PublishRejected
  <2>5. CASE PublishInProgress \/ PublishCompleted \/ PublishFailed
    BY <2>1, <2>5, <1>4 DEF PublishInProgress, PublishCompleted, PublishFailed
  <2>6. QED
    BY <1>5, <2>2, <2>3, <2>4, <2>5 DEF Publish
<1>6. CASE StartHandler \/ HandlerReturn
  <2>1. /\ LastPublished["handling"] = "InProgress"
        /\ LastPublished["running"] = "InProgress"
        /\ LastPublished["completed"] = "InProgress"
        /\ LastPublished["failed"] = "InProgress"
    BY DEF LastPublished, Control
  <2>2. QED
    BY <1>6, <2>1 DEF StartHandler, HandlerReturn, HandlerReturns
<1>7. CASE Boot
  BY <1>7 DEF Boot
<1>8. QED
  BY <1>1, <1>2, <1>3, <1>5, <1>6, <1>7 DEF Next, Processor

(* In every reachable state the last published status is the one that the   *)
(* position in process_command requires, unless the event loop is gone, and *)
(* the event loop goes only after the token.                                *)
THEOREM StatusAlwaysFollows == Spec => []StatusFollowsControl
<1>1. Init => StatusFollowsControl
  BY DEF Init, StatusFollowsControl, Open
<1>2. QED
  BY <1>1, NextStatus, TypeCorrect, PTL DEF Spec

-----------------------------------------------------------------------------
(* The order of events.  Every queue is in order by itself, what is nearer  *)
(* to the processor is older, and the numbers lie above the last one that   *)
(* was processed and not above the last one that was broadcast.             *)
IdsOf(s) == {s[i].id : i \in 1..Len(s)}
Ascending(s) == \A i, j \in 1..Len(s) : i < j => s[i].id < s[j].id
Older(M, N) == \A m \in M, n \in N : m < n

PipelineInv ==
  /\ Ascending(bridge) /\ Ascending(held) /\ Ascending(broadcast)
  /\ Older(IdsOf(bridge), IdsOf(held))
  /\ Older(IdsOf(bridge), IdsOf(broadcast))
  /\ Older(IdsOf(held), IdsOf(broadcast))
  /\ \A n \in IdsOf(bridge) \cup IdsOf(held) \cup IdsOf(broadcast) :
       done < n /\ n <= events
  /\ done <= events
  /\ ~bridgeDone /\ pc # "done" =>
       \A n \in (done + 1)..events :
         n \in lost \cup IdsOf(bridge) \cup IdsOf(held) \cup IdsOf(broadcast)

(* Queues of at most one event.                                             *)
LEMMA ShortQueues ==
  /\ IdsOf(<<>>) = {} /\ Ascending(<<>>)
  /\ \A e \in Event : IdsOf(<<e>>) = {e.id} /\ Ascending(<<e>>)
<1>1. Len(<<>>) = 0
  OBVIOUS
<1>2. IdsOf(<<>>) = {} /\ Ascending(<<>>)
  BY <1>1 DEF IdsOf, Ascending
<1>3. ASSUME NEW e \in Event PROVE IdsOf(<<e>>) = {e.id} /\ Ascending(<<e>>)
  <2>1. Len(<<e>>) = 1 /\ <<e>>[1] = e
    OBVIOUS
  <2>2. QED
    BY <2>1 DEF IdsOf, Ascending
<1>4. QED
  BY <1>2, <1>3

(* The oldest event leaves a queue that is in order.                        *)
LEMMA TailIds ==
  ASSUME NEW s \in Seq(Event), s # <<>>
  PROVE  /\ Head(s) \in Event
         /\ IdsOf(s) = {Head(s).id} \cup IdsOf(Tail(s))
         /\ Ascending(s) => Ascending(Tail(s)) /\ Older({Head(s).id}, IdsOf(Tail(s)))
<1>1. /\ Head(s) = s[1] /\ Len(s) \in Nat \ {0} /\ Len(Tail(s)) = Len(s) - 1
      /\ \A i \in 1..Len(Tail(s)) : Tail(s)[i] = s[i + 1]
      /\ s[1] \in Event
  OBVIOUS
<1>2. ASSUME NEW n \in IdsOf(s) PROVE n \in {Head(s).id} \cup IdsOf(Tail(s))
  <2>1. PICK i \in 1..Len(s) : n = s[i].id
    BY DEF IdsOf
  <2>2. CASE i = 1
    BY <2>1, <2>2, <1>1
  <2>3. CASE i # 1
    <3>1. i - 1 \in 1..Len(Tail(s)) /\ Tail(s)[i - 1] = s[i]
      BY <2>3, <1>1
    <3>2. QED
      BY <3>1, <2>1 DEF IdsOf
  <2>4. QED
    BY <2>2, <2>3
<1>3. ASSUME NEW n \in IdsOf(Tail(s)) PROVE n \in IdsOf(s)
  <2>1. PICK i \in 1..Len(Tail(s)) : n = Tail(s)[i].id
    BY DEF IdsOf
  <2>2. i + 1 \in 1..Len(s) /\ Tail(s)[i] = s[i + 1]
    BY <1>1
  <2>3. QED
    BY <2>1, <2>2 DEF IdsOf
<1>4. Head(s).id \in IdsOf(s)
  BY <1>1 DEF IdsOf
<1>5. ASSUME Ascending(s)
      PROVE  Ascending(Tail(s)) /\ Older({Head(s).id}, IdsOf(Tail(s)))
  <2>1. ASSUME NEW i \in 1..Len(Tail(s)), NEW j \in 1..Len(Tail(s)), i < j
        PROVE  Tail(s)[i].id < Tail(s)[j].id
    <3>1. i + 1 \in 1..Len(s) /\ j + 1 \in 1..Len(s) /\ i + 1 < j + 1
      BY <1>1, <2>1
    <3>2. s[i + 1].id < s[j + 1].id
      BY <3>1, <1>5 DEF Ascending
    <3>3. QED
      BY <3>2, <1>1
  <2>2. ASSUME NEW i \in 1..Len(Tail(s)) PROVE Head(s).id < Tail(s)[i].id
    <3>1. i + 1 \in 1..Len(s) /\ 1 \in 1..Len(s) /\ 1 < i + 1
      BY <1>1
    <3>2. s[1].id < s[i + 1].id
      BY <3>1, <1>5 DEF Ascending
    <3>3. QED
      BY <3>2, <1>1
  <2>3. Ascending(Tail(s))
    BY <2>1 DEF Ascending
  <2>4. QED
    BY <2>2, <2>3 DEF Older, IdsOf
<1>6. QED
  BY <1>1, <1>2, <1>3, <1>4, <1>5

(* A younger event joins it.                                                *)
LEMMA AppendIds ==
  ASSUME NEW s \in Seq(Event), NEW e \in Event
  PROVE  /\ IdsOf(Append(s, e)) = IdsOf(s) \cup {e.id}
         /\ Ascending(s) /\ Older(IdsOf(s), {e.id}) => Ascending(Append(s, e))
<1> DEFINE t == Append(s, e)
<1>1. /\ Len(s) \in Nat /\ Len(t) = Len(s) + 1 /\ t[Len(s) + 1] = e
      /\ \A i \in 1..Len(s) : t[i] = s[i]
  OBVIOUS
<1> HIDE DEF t
<1>2. IdsOf(t) = IdsOf(s) \cup {e.id}
  <2>1. 1..Len(t) = 1..Len(s) \cup {Len(s) + 1}
    BY <1>1
  <2>2. QED
    BY <2>1, <1>1 DEF IdsOf
<1>3. ASSUME Ascending(s), Older(IdsOf(s), {e.id}) PROVE Ascending(t)
  <2>1. ASSUME NEW i \in 1..Len(t), NEW j \in 1..Len(t), i < j
        PROVE  t[i].id < t[j].id
    <3>1. i \in 1..Len(s) /\ t[i] = s[i] /\ s[i].id \in IdsOf(s)
      BY <2>1, <1>1 DEF IdsOf
    <3>2. CASE j \in 1..Len(s)
      BY <2>1, <3>1, <3>2, <1>1, <1>3 DEF Ascending
    <3>3. CASE j = Len(s) + 1
      BY <3>1, <3>3, <1>1, <1>3 DEF Older
    <3>4. QED
      BY <3>2, <3>3, <1>1
  <2>2. QED
    BY <2>1 DEF Ascending
<1>4. QED
  BY <1>2, <1>3 DEF t

(* A step that touches neither the queues nor their bounds.                 *)
LEMMA PipelineFrame ==
  ASSUME PipelineInv, UNCHANGED <<bridge, held, broadcast, events, lost, done>>,
         bridgeDone => bridgeDone', pc = "done" => pc' = "done"
  PROVE  PipelineInv'
<1>1. /\ UNCHANGED <<IdsOf(bridge), IdsOf(held), IdsOf(broadcast)>>
      /\ UNCHANGED <<Ascending(bridge), Ascending(held), Ascending(broadcast)>>
  BY DEF IdsOf, Ascending
<1>2. QED
  BY <1>1 DEF PipelineInv, Older

(* The transport broadcasts the next event, and perhaps loses the oldest.   *)
LEMMA ForwardPipeline ==
  ASSUME TypeOK, PipelineInv, NEW e \in Event, e.id = events + 1, Forward(e),
         UNCHANGED <<bridge, held, done, bridgeDone, pc>>
  PROVE  PipelineInv'
<1>t. /\ broadcast \in Seq(Event) /\ events \in Nat /\ done \in Nat
      /\ bridge \in Seq(Event) /\ held \in Seq(Event)
      /\ EVENT_CHANNEL_CAPACITY \in Nat \ {0}
  BY CapacityAssumption DEF TypeOK
<1>u. /\ UNCHANGED <<IdsOf(bridge), IdsOf(held)>>
      /\ UNCHANGED <<Ascending(bridge), Ascending(held)>>
  BY DEF IdsOf, Ascending
<1>i. \A s \in Seq(Event) : IdsOf(s) \subseteq Nat
  BY EventFields DEF IdsOf
<1>1. CASE eventLoop # "running"
  BY <1>1, PipelineFrame DEF Forward
<1>2. CASE eventLoop = "running" /\ Len(broadcast) < EVENT_CHANNEL_CAPACITY
  <2>1. /\ broadcast' = Append(broadcast, e) /\ events' = events + 1
        /\ UNCHANGED lost
    BY <1>2 DEF Forward, Send
  <2>2. Older(IdsOf(broadcast), {e.id})
    BY <1>t, <1>i DEF PipelineInv, Older
  <2>3. IdsOf(broadcast') = IdsOf(broadcast) \cup {events + 1} /\ Ascending(broadcast')
    BY <2>1, <2>2, <1>t, AppendIds DEF PipelineInv
  <2>4. QED
    BY <2>1, <2>3, <1>u, <1>t, <1>i DEF PipelineInv, Older
<1>3. CASE eventLoop = "running" /\ ~(Len(broadcast) < EVENT_CHANNEL_CAPACITY)
  <2> DEFINE rest == Tail(broadcast)
             oldest == Head(broadcast).id
  <2>1. /\ broadcast' = Append(rest, e) /\ events' = events + 1
        /\ lost' = lost \cup {oldest}
    BY <1>3 DEF Forward, Send
  <2>2. broadcast # <<>> /\ rest \in Seq(Event)
    BY <1>3, <1>t
  <2>3. IdsOf(broadcast) = {oldest} \cup IdsOf(rest) /\ Ascending(rest)
    BY <2>2, <1>t, TailIds DEF PipelineInv
  <2> HIDE DEF rest, oldest
  <2>4. Older(IdsOf(rest), {e.id})
    BY <2>2, <2>3, <1>t, <1>i DEF PipelineInv, Older
  <2>5. IdsOf(broadcast') = IdsOf(rest) \cup {events + 1} /\ Ascending(broadcast')
    BY <2>1, <2>2, <2>3, <2>4, AppendIds
  <2>6. QED
    BY <2>1, <2>3, <2>5, <1>u, <1>t, <1>i DEF PipelineInv, Older
<1>4. QED
  BY <1>1, <1>2, <1>3

(* Numbers above the later of two are above the earlier.                    *)
LEMMA Above ==
  ASSUME NEW m \in Nat, NEW n \in Nat, NEW k \in Nat, m < n, NEW i, i \in (n + 1)..k
  PROVE  i \in (m + 1)..k /\ i # n
OBVIOUS

(* Every step preserves the invariant.                                      *)
LEMMA NextPipeline == TypeOK /\ PipelineInv /\ [Next]_vars => PipelineInv'
<1> SUFFICES ASSUME TypeOK, PipelineInv, [Next]_vars PROVE PipelineInv'
  OBVIOUS
<1>t. /\ broadcast \in Seq(Event) /\ events \in Nat /\ done \in Nat
      /\ bridge \in Seq(Event) /\ held \in Seq(Event) /\ Len(held) <= 1
  BY DEF TypeOK
<1>n. events \in Nat /\ done \in Nat
  BY <1>t
<1>i. \A s \in Seq(Event) : IdsOf(s) \subseteq Nat
  BY EventFields DEF IdsOf
<1>1. CASE \/ Broker \/ Cancel \/ Flush \/ BeginFlush \/ EndFlush
           \/ BridgeLagged \/ BridgeCancelled \/ DrainClosed
           \/ Resubscribe \/ Publish \/ StartHandler \/ HandlerCancelled
           \/ HandlerReturn \/ UNCHANGED vars
  <2>1. /\ UNCHANGED <<bridge, held, broadcast, events, lost, done>>
        /\ bridgeDone => bridgeDone'
        /\ pc = "done" => pc' = "done"
    BY <1>1
    DEF Broker, Issue, Ack, Cancel, Flush, BeginFlush, EndFlush, BridgeLagged,
        BridgeCancelled, DrainClosed, Resubscribe, Publish, PublishExpired,
        PublishAccepted, PublishRejected, PublishInProgress, PublishCompleted,
        PublishFailed, PublishStatus, PublishResult, StartHandler, HandlerCancelled,
        HandlerReturn, HandlerReturns, vars, bridgeVars, processorVars, processorOthers
  <2>2. QED
    BY <2>1, PipelineFrame
<1>2. CASE ConnAck \/ ConnError \/ Deliver
  <2>1. PICK e \in Event : e.id = events + 1 /\ Forward(e)
    <3>1. events + 1 \in Nat
      BY <1>t
    <3>2. CASE ConnAck
      BY <3>1, <3>2, EventRecords DEF ConnAck
    <3>3. CASE ConnError
      BY <3>1, <3>3, EventRecords DEF ConnError
    <3>4. CASE Deliver
      <4>1. session[sent + 1] \in Command \cup {Garbage}
        BY <3>4 DEF Deliver, TypeOK
      <4>2. QED
        BY <3>1, <3>4, <4>1, EventRecords DEF Deliver
    <3>5. QED
      BY <1>2, <3>2, <3>3, <3>4
  <2>2. UNCHANGED <<bridge, held, done, bridgeDone, pc>>
    BY <1>2 DEF ConnAck, ConnError, Deliver
  <2>3. QED
    BY <2>1, <2>2, ForwardPipeline
<1>3. CASE BridgeRecv
  <2>1. /\ held = <<>> /\ broadcast # <<>>
        /\ held' = <<Head(broadcast)>> /\ broadcast' = Tail(broadcast)
        /\ UNCHANGED <<bridge, events, lost, done, bridgeDone, pc>>
    BY <1>3 DEF BridgeRecv, processorVars
  <2>2. /\ Head(broadcast) \in Event
        /\ IdsOf(broadcast) = {Head(broadcast).id} \cup IdsOf(broadcast')
        /\ Ascending(broadcast')
        /\ Older({Head(broadcast).id}, IdsOf(broadcast'))
    BY <2>1, <1>t, TailIds DEF PipelineInv
  <2>3. /\ IdsOf(held') = {Head(broadcast).id} /\ Ascending(held')
        /\ IdsOf(held) = {}
    BY <2>1, <2>2, ShortQueues
  <2>4. IdsOf(bridge') = IdsOf(bridge) /\ Ascending(bridge')
    BY <2>1 DEF IdsOf, Ascending, PipelineInv
  <2>5. QED
    BY <2>1, <2>2, <2>3, <2>4, <1>t DEF PipelineInv, Older
<1>4. CASE BridgeSend
  <2>1. /\ held # <<>> /\ held' = <<>>
        /\ UNCHANGED <<broadcast, events, lost, done, pc>>
    BY <1>4 DEF BridgeSend, processorVars
  <2>2. IdsOf(held') = {} /\ Ascending(held')
    BY <2>1, ShortQueues
  <2>3. IdsOf(broadcast') = IdsOf(broadcast) /\ Ascending(broadcast')
    BY <2>1 DEF IdsOf, Ascending, PipelineInv
  <2>4. CASE pc = "done"
    <3>1. bridge' = bridge /\ bridgeDone'
      BY <1>4, <2>4 DEF BridgeSend
    <3>2. IdsOf(bridge') = IdsOf(bridge) /\ Ascending(bridge')
      BY <3>1 DEF IdsOf, Ascending, PipelineInv
    <3>3. QED
      BY <2>1, <2>2, <2>3, <3>1, <3>2 DEF PipelineInv, Older
  <2>5. CASE pc # "done"
    <3>1. bridge' = Append(bridge, Head(held)) /\ UNCHANGED bridgeDone
      BY <1>4, <2>5 DEF BridgeSend
    <3>2. /\ Head(held) \in Event /\ Tail(held) \in Seq(Event)
          /\ IdsOf(held) = {Head(held).id} \cup IdsOf(Tail(held))
          /\ Len(Tail(held)) = Len(held) - 1
      BY <2>1, <1>t, TailIds, HeadTailProperties
    <3>3. IdsOf(held) = {Head(held).id}
      <4>1. Tail(held) = <<>>
        BY <3>2, <1>t, EmptySeq
      <4>2. QED
        BY <3>2, <4>1, ShortQueues
    <3>4. Older(IdsOf(bridge), {Head(held).id})
      BY <3>3 DEF PipelineInv
    <3>5. IdsOf(bridge') = IdsOf(bridge) \cup {Head(held).id} /\ Ascending(bridge')
      BY <3>1, <3>2, <3>4, <1>t, AppendIds DEF PipelineInv
    <3>6. QED
      BY <2>1, <2>2, <2>3, <3>1, <3>3, <3>5 DEF PipelineInv, Older
  <2>6. QED
    BY <2>4, <2>5
<1>5. CASE \/ TakeConnected \/ TakeIgnored \/ TakeDuplicate
           \/ \E late \in BOOLEAN : TakeCommand(late)
  <2>1. /\ Take /\ pc = "select"
        /\ UNCHANGED <<held, broadcast, events, lost, bridgeDone>>
    BY <1>5
    DEF TakeConnected, TakeIgnored, TakeDuplicate, TakeCommand, Take, processorOthers
  <2>2. bridge # <<>> /\ bridge' = Tail(bridge) /\ done' = Head(bridge).id
    BY <2>1 DEF Take
  <2>3. /\ Head(bridge) \in Event
        /\ IdsOf(bridge) = {done'} \cup IdsOf(bridge')
        /\ Ascending(bridge') /\ Older({done'}, IdsOf(bridge'))
    BY <2>2, <1>t, TailIds DEF PipelineInv
  <2>4. /\ UNCHANGED <<IdsOf(held), IdsOf(broadcast)>>
        /\ Ascending(held') /\ Ascending(broadcast')
    BY <2>1 DEF IdsOf, Ascending, PipelineInv
  <2>5. done' \in Nat /\ done < done' /\ done' <= events
    BY <2>2, <2>3, EventFields DEF PipelineInv
  <2>6. ASSUME NEW n, n \in (done' + 1)..events, ~bridgeDone
        PROVE  n \in lost \cup IdsOf(bridge') \cup IdsOf(held) \cup IdsOf(broadcast)
    <3>1. n \in (done + 1)..events /\ n # done'
      BY <2>5, <2>6, <1>n, Above
    <3>2. QED
      BY <3>1, <2>6, <2>1, <2>3 DEF PipelineInv
  <2>7. /\ \A n \in IdsOf(bridge') \cup IdsOf(held') \cup IdsOf(broadcast') :
             done' < n /\ n <= events'
        /\ done' <= events'
    BY <2>1, <2>3, <2>4, <2>5 DEF PipelineInv, Older
  <2>8. /\ Older(IdsOf(bridge'), IdsOf(held')) /\ Older(IdsOf(bridge'), IdsOf(broadcast'))
        /\ Older(IdsOf(held'), IdsOf(broadcast'))
    BY <2>3, <2>4 DEF PipelineInv, Older
  <2>9. ~bridgeDone' /\ pc' # "done" =>
          \A n \in (done' + 1)..events' :
            n \in lost' \cup IdsOf(bridge') \cup IdsOf(held') \cup IdsOf(broadcast')
    BY <2>1, <2>4, <2>5, <2>6, <1>n
  <2>10. QED
    BY <2>1, <2>3, <2>4, <2>7, <2>8, <2>9 DEF PipelineInv
<1>6. CASE DrainCancelled
  <2>1. /\ bridge' = <<>> /\ pc' = "done"
        /\ UNCHANGED <<held, broadcast, events, lost, done, bridgeDone>>
    BY <1>6 DEF DrainCancelled, processorOthers
  <2>2. IdsOf(bridge') = {} /\ Ascending(bridge')
    BY <2>1, ShortQueues
  <2>3. /\ UNCHANGED <<IdsOf(held), IdsOf(broadcast)>>
        /\ Ascending(held') /\ Ascending(broadcast')
    BY <2>1 DEF IdsOf, Ascending, PipelineInv
  <2>4. QED
    BY <2>1, <2>2, <2>3 DEF PipelineInv, Older
<1>7. CASE Boot
  <2>1. /\ bridge' = <<>> /\ held' = <<>> /\ broadcast' = <<>>
        /\ events' = 0 /\ done' = 0
    BY <1>7 DEF Boot
  <2>2. /\ IdsOf(bridge') = {} /\ IdsOf(held') = {} /\ IdsOf(broadcast') = {}
        /\ Ascending(bridge') /\ Ascending(held') /\ Ascending(broadcast')
    BY <2>1, ShortQueues
  <2>3. QED
    BY <2>1, <2>2 DEF PipelineInv, Older
<1>8. QED
  BY <1>1, <1>2, <1>3, <1>4, <1>5, <1>6, <1>7 DEF Next, Transport, Bridge, Processor

(* It holds in every reachable state.                                       *)
LEMMA PipelineInvariant == Spec => []PipelineInv
<1>1. Init => PipelineInv
  <2> SUFFICES ASSUME Init PROVE PipelineInv
    OBVIOUS
  <2>1. /\ IdsOf(bridge) = {} /\ IdsOf(held) = {} /\ IdsOf(broadcast) = {}
        /\ Ascending(bridge) /\ Ascending(held) /\ Ascending(broadcast)
    BY ShortQueues DEF Init
  <2>2. QED
    BY <2>1 DEF Init, PipelineInv, Older
<1>2. QED
  BY <1>1, NextPipeline, TypeCorrect, PTL DEF Spec

(* An index of the pipeline is an index of one of its three parts.          *)
LEMMA PipelineParts ==
  ASSUME TypeOK
  PROVE  /\ Len(Pipeline) = Len(bridge) + Len(held) + Len(broadcast)
         /\ \A i \in 1..Len(Pipeline) :
              Pipeline[i] = IF i <= Len(bridge) THEN bridge[i]
                            ELSE IF i <= Len(bridge) + Len(held) THEN held[i - Len(bridge)]
                            ELSE broadcast[i - Len(bridge) - Len(held)]
<1>1. bridge \in Seq(Event) /\ held \in Seq(Event) /\ broadcast \in Seq(Event)
  BY DEF TypeOK
<1> DEFINE front == bridge \o held
<1>2. /\ front \in Seq(Event) /\ Len(front) = Len(bridge) + Len(held)
      /\ \A i \in 1..Len(front) :
           front[i] = IF i <= Len(bridge) THEN bridge[i] ELSE held[i - Len(bridge)]
  BY <1>1
<1> HIDE DEF front
<1>3. /\ Len(front \o broadcast) = Len(front) + Len(broadcast)
      /\ \A i \in 1..Len(front \o broadcast) :
           (front \o broadcast)[i] = IF i <= Len(front) THEN front[i]
                                                        ELSE broadcast[i - Len(front)]
  <2>1. front \in Seq(Event)
    BY <1>2
  <2>2. QED
    BY <1>1, <2>1
<1>4. Pipeline = front \o broadcast
  BY DEF Pipeline, front
<1>5. Len(bridge) \in Nat /\ Len(held) \in Nat /\ Len(broadcast) \in Nat
  BY <1>1
<1>6. QED
  BY <1>2, <1>3, <1>4, <1>5

(* For all capacities, commands are taken in the order of their delivery    *)
(* and no event is taken twice, whatever the three queues lose or hold.     *)
THEOREM PipelineAlwaysOrdered == Spec => []PipelineOrdered
<1>1. ASSUME TypeOK, PipelineInv PROVE PipelineOrdered
  <2>n. Len(bridge) \in Nat /\ Len(held) \in Nat /\ Len(broadcast) \in Nat
    BY <1>1 DEF TypeOK
  <2>p. Len(Pipeline) = Len(bridge) + Len(held) + Len(broadcast)
    BY <1>1, PipelineParts
  <2>1. ASSUME NEW i \in 1..Len(Pipeline)
        PROVE  \/ /\ i \in 1..Len(bridge) /\ Pipeline[i] = bridge[i]
                  /\ Pipeline[i].id \in IdsOf(bridge)
               \/ /\ i - Len(bridge) \in 1..Len(held)
                  /\ Pipeline[i] = held[i - Len(bridge)]
                  /\ Pipeline[i].id \in IdsOf(held)
               \/ /\ i - Len(bridge) - Len(held) \in 1..Len(broadcast)
                  /\ Pipeline[i] = broadcast[i - Len(bridge) - Len(held)]
                  /\ Pipeline[i].id \in IdsOf(broadcast)
    <3>1. CASE i <= Len(bridge)
      <4>1. i \in 1..Len(bridge) /\ Pipeline[i] = bridge[i]
        BY <1>1, <2>n, <3>1, PipelineParts
      <4>2. QED
        BY <4>1 DEF IdsOf
    <3>2. CASE Len(bridge) < i /\ i <= Len(bridge) + Len(held)
      <4>1. /\ i - Len(bridge) \in 1..Len(held)
            /\ Pipeline[i] = held[i - Len(bridge)]
        BY <1>1, <2>n, <3>2, PipelineParts
      <4>2. QED
        BY <4>1 DEF IdsOf
    <3>3. CASE Len(bridge) + Len(held) < i
      <4>1. /\ i - Len(bridge) - Len(held) \in 1..Len(broadcast)
            /\ Pipeline[i] = broadcast[i - Len(bridge) - Len(held)]
        BY <1>1, <2>n, <2>p, <3>3, PipelineParts
      <4>2. QED
        BY <4>1 DEF IdsOf
    <3>4. QED
      BY <2>n, <3>1, <3>2, <3>3
  <2>2. ASSUME NEW i \in 1..Len(Pipeline) PROVE done < Pipeline[i].id
    BY <1>1, <2>1 DEF PipelineInv
  <2>3. ASSUME NEW i \in 1..Len(Pipeline), NEW j \in 1..Len(Pipeline), i < j
        PROVE  Pipeline[i].id < Pipeline[j].id
    <3>1. CASE i <= Len(bridge)
      <4>1. CASE j <= Len(bridge)
        <5>1. i \in 1..Len(bridge) /\ j \in 1..Len(bridge)
          BY <3>1, <4>1, <2>n
        <5>2. Pipeline[i] = bridge[i] /\ Pipeline[j] = bridge[j]
          BY <1>1, <3>1, <4>1, PipelineParts
        <5>3. QED
          BY <5>1, <5>2, <2>3, <1>1 DEF PipelineInv, Ascending
      <4>2. CASE Len(bridge) < j
        <5>1. Pipeline[i].id \in IdsOf(bridge)
          BY <3>1, <2>1, <2>n
        <5>2. Pipeline[j].id \in IdsOf(held) \cup IdsOf(broadcast)
          BY <4>2, <2>1, <2>n
        <5>3. QED
          BY <5>1, <5>2, <1>1 DEF PipelineInv, Older
      <4>3. QED
        BY <4>1, <4>2, <2>n
    <3>2. CASE Len(bridge) < i /\ i <= Len(bridge) + Len(held)
      <4>1. CASE j <= Len(bridge) + Len(held)
        BY <3>2, <4>1, <2>3, <1>1, <2>n DEF TypeOK
      <4>2. CASE Len(bridge) + Len(held) < j
        <5>1. Pipeline[i].id \in IdsOf(held)
          BY <3>2, <2>1, <2>n
        <5>2. Pipeline[j].id \in IdsOf(broadcast)
          BY <4>2, <2>1, <2>n
        <5>3. QED
          BY <5>1, <5>2, <1>1 DEF PipelineInv, Older
      <4>3. QED
        BY <4>1, <4>2, <2>n
    <3>3. CASE Len(bridge) + Len(held) < i
      <4> DEFINE m == Len(bridge) + Len(held)
      <4>1. /\ m \in Nat /\ m < i /\ m < j
            /\ i - m \in 1..Len(broadcast) /\ j - m \in 1..Len(broadcast)
            /\ i - m < j - m
        BY <3>3, <2>3, <2>n, <2>p
      <4>2. Pipeline[i] = broadcast[i - m] /\ Pipeline[j] = broadcast[j - m]
        BY <1>1, <4>1, <2>n, PipelineParts
      <4> HIDE DEF m
      <4>3. QED
        BY <4>1, <4>2, <1>1 DEF PipelineInv, Ascending
    <3>4. QED
      BY <3>1, <3>2, <3>3, <2>n
  <2>4. QED
    BY <2>2, <2>3 DEF PipelineOrdered
<1>2. QED
  BY <1>1, TypeCorrect, PipelineInvariant, PTL

(* For all capacities no event disappears silently: it was taken, is under  *)
(* way or was counted as overwritten, as long as both tasks live.           *)
THEOREM EventsAlwaysAccounted == Spec => []EventsAccounted
<1>1. ASSUME TypeOK, PipelineInv PROVE EventsAccounted
  <2>n. Len(bridge) \in Nat /\ Len(held) \in Nat /\ Len(broadcast) \in Nat
    BY <1>1 DEF TypeOK
  <2>1. ASSUME NEW n \in IdsOf(bridge) \cup IdsOf(held) \cup IdsOf(broadcast)
        PROVE  \E i \in 1..Len(Pipeline) : Pipeline[i].id = n
    <3>1. CASE n \in IdsOf(bridge)
      <4>1. PICK i \in 1..Len(bridge) : n = bridge[i].id
        BY <3>1 DEF IdsOf
      <4>2. i \in 1..Len(Pipeline) /\ Pipeline[i] = bridge[i]
        BY <1>1, <2>n, PipelineParts
      <4>3. QED
        BY <4>1, <4>2
    <3>2. CASE n \in IdsOf(held)
      <4>1. PICK i \in 1..Len(held) : n = held[i].id
        BY <3>2 DEF IdsOf
      <4>2. /\ Len(bridge) + i \in 1..Len(Pipeline)
            /\ Pipeline[Len(bridge) + i] = held[i]
        BY <1>1, <2>n, PipelineParts
      <4>3. QED
        BY <4>1, <4>2
    <3>3. CASE n \in IdsOf(broadcast)
      <4>1. PICK i \in 1..Len(broadcast) : n = broadcast[i].id
        BY <3>3 DEF IdsOf
      <4>2. /\ Len(bridge) + Len(held) + i \in 1..Len(Pipeline)
            /\ Pipeline[Len(bridge) + Len(held) + i] = broadcast[i]
        BY <1>1, <2>n, PipelineParts
      <4>3. QED
        BY <4>1, <4>2
    <3>4. QED
      BY <3>1, <3>2, <3>3
  <2>2. QED
    BY <1>1, <2>1 DEF EventsAccounted, PipelineInv
<1>2. QED
  BY <1>1, TypeCorrect, PipelineInvariant, PTL

-----------------------------------------------------------------------------
(* The service starts where the lifecycle starts.                           *)
LEMMA LifecycleInit == Init => LC!Init
BY DEF Init, DedupInit, LC!Init, Open

(* A step of the service is a step of the lifecycle or a stutter.           *)
LEMMA LifecycleStep ==
  TypeOK /\ DedupInv /\ StatusFollowsControl /\ [Next]_vars
    => [LC!Next]_(LC!lifecycleVars)
<1> SUFFICES ASSUME TypeOK, DedupInv, StatusFollowsControl, [Next]_vars
             PROVE  LC!Next \/ UNCHANGED LC!lifecycleVars
  OBVIOUS
<1> DEFINE open == IF Open THEN cur.uuid ELSE Garbage
<1>g. Garbage \notin Uuid /\ Garbage \notin Command
  BY MessagesAssumption
<1>o. Open => cur \in Command /\ cur.uuid \in Uuid /\ cur.uuid # Garbage
  BY <1>g DEF TypeOK, Open, Command
<1>s. ASSUME UNCHANGED <<recorded, status, result, pc, cur, cancelled>>
      PROVE  UNCHANGED LC!lifecycleVars
  BY <1>s DEF LC!lifecycleVars, Open
<1>1. CASE Broker \/ Transport \/ Bridge \/ UNCHANGED vars
  <2>1. UNCHANGED <<recorded, status, result, pc, cur, cancelled>>
    BY <1>1
    DEF Broker, Issue, Ack, Transport, ConnAck, ConnError, Deliver, Flush,
        BeginFlush, EndFlush, Bridge, BridgeRecv, BridgeLagged, BridgeSend,
        BridgeCancelled, vars, reportVars, processorVars, transportVars,
        dedupVars
  <2>2. QED
    BY <2>1, <1>s
<1>2. CASE Cancel
  <2>1. LC!BeginStop
    BY <1>2 DEF Cancel, LC!BeginStop, dedupVars, reportVars, Open
  <2>2. QED
    BY <2>1 DEF LC!Next
<1> USE DEF processorOthers, transportVars, reportVars, dedupVars
<1>3. CASE \/ DrainCancelled \/ DrainClosed \/ TakeConnected \/ TakeIgnored
           \/ TakeDuplicate \/ Resubscribe
  <2>1. UNCHANGED <<recorded, status, result, cancelled>> /\ ~Open /\ ~Open'
    BY <1>3
    DEF DrainCancelled, DrainClosed, TakeConnected, TakeIgnored, TakeDuplicate,
        Duplicate, Take, Resubscribe, Open
  <2>2. QED
    BY <2>1 DEF LC!lifecycleVars
<1>4. ASSUME NEW late \in BOOLEAN, TakeCommand(late) PROVE LC!Next
  <2> DEFINE m == Head(bridge).msg
  <2>1. Head(bridge) \in Event
    BY <1>4 DEF TakeCommand, Take, TypeOK
  <2>2. m \in Command /\ m.uuid \in Uuid
    BY <1>4, <2>1, EventFields DEF TakeCommand, Command
  <2>3. m.uuid \notin seen /\ recorded' = Append(recorded, m.uuid)
    BY <1>4 DEF TakeCommand, Record
  <2>4. ~LC!Remembered(m.uuid)
    <3> SUFFICES ASSUME NEW i \in 1..Len(recorded), recorded[i] = m.uuid
                 PROVE  ~(Len(recorded) - i < DEDUP_CAPACITY)
      BY DEF LC!Remembered
    <3>1. Len(recorded) - i >= DEDUP_CAPACITY
      BY <2>2, <2>3, NotSeenNotRecent
    <3>2. Len(recorded) \in Nat /\ DEDUP_CAPACITY \in Nat
      BY DedupCapacityAssumption DEF TypeOK, DedupTypeOK
    <3>3. QED
      BY <3>1, <3>2
  <2>5. /\ ~Open /\ Open' /\ cur'.uuid = m.uuid /\ cancelled' = cancelled
        /\ status' = [status EXCEPT ![m.uuid] = "Received"]
        /\ result' = [result EXCEPT ![m.uuid] = "None"]
    BY <1>4 DEF TakeCommand, Take, Open
  <2>6. LC!Receive(m.uuid)
    BY <2>3, <2>4, <2>5 DEF LC!Receive
  <2>7. QED
    BY <2>2, <2>6 DEF LC!Next
<1>5. ASSUME NEW at, NEW state, NEW next, PublishStatus(at, state, next),
             at \notin {"select", "subscribe", "done"}
      PROVE  /\ Open /\ cur' = cur
             /\ UNCHANGED <<recorded, result, cancelled>>
             /\ eventLoop = "stopped" => cancelled /\ status' = status
             /\ eventLoop # "stopped" =>
                  /\ status[cur.uuid] = LastPublished[at]
                  /\ status' = [status EXCEPT ![cur.uuid] = state]
             /\ pc' = next
  BY <1>5 DEF PublishStatus, StatusFollowsControl, Open
<1>6. ASSUME NEW at, NEW state, NEW next, PublishStatus(at, state, next),
             at \notin {"select", "subscribe", "done"},
             next \notin {"select", "subscribe", "done"},
             LC!Report(LastPublished[at], state) => LC!Next
      PROVE  LC!Next \/ UNCHANGED LC!lifecycleVars
  <2>1. Open /\ Open' /\ cur' = cur
    BY <1>5, <1>6 DEF Open
  <2>2. CASE eventLoop = "stopped"
    BY <2>1, <2>2, <1>5, <1>6 DEF LC!lifecycleVars
  <2>3. CASE eventLoop # "stopped"
    <3>1. LC!Report(LastPublished[at], state)
      BY <2>1, <2>3, <1>5, <1>6, <1>o DEF LC!Report
    <3>2. QED
      BY <3>1, <1>6
  <2>4. QED
    BY <2>2, <2>3
<1>7. ASSUME NEW at, NEW state, PublishStatus(at, state, "select"),
             at \notin {"select", "subscribe", "done"},
             LC!Refuse(LastPublished[at], state) => LC!Next
      PROVE  LC!Next
  <2>1. Open /\ ~Open' /\ cur' = cur
    BY <1>5, <1>7 DEF Open
  <2>2. CASE eventLoop = "stopped"
    <3>1. LC!Abandon
      BY <2>1, <2>2, <1>5, <1>7, <1>o DEF LC!Abandon
    <3>2. QED
      BY <3>1 DEF LC!Next
  <2>3. CASE eventLoop # "stopped"
    <3>1. LC!Refuse(LastPublished[at], state)
      BY <2>1, <2>3, <1>5, <1>7, <1>o DEF LC!Refuse
    <3>2. QED
      BY <3>1, <1>7
  <2>4. QED
    BY <2>2, <2>3
<1>8. ASSUME NEW at, NEW outcome, PublishResult(at, outcome),
             at \in {"resultOk", "resultError"},
             LC!Conclude(LastPublished[at], outcome) => LC!Next
      PROVE  LC!Next
  <2>1. /\ Open /\ ~Open' /\ UNCHANGED <<recorded, status, cancelled>>
        /\ eventLoop = "stopped" => cancelled /\ result' = result
        /\ eventLoop # "stopped" =>
             /\ status[cur.uuid] = LastPublished[at]
             /\ result' = [result EXCEPT ![cur.uuid] = outcome]
    BY <1>8 DEF PublishResult, StatusFollowsControl, Open
  <2>2. CASE eventLoop = "stopped"
    <3>1. LC!Abandon
      BY <2>1, <2>2, <1>o DEF LC!Abandon
    <3>2. QED
      BY <3>1 DEF LC!Next
  <2>3. CASE eventLoop # "stopped"
    <3>1. LC!Conclude(LastPublished[at], outcome)
      BY <2>1, <2>3, <1>o DEF LC!Conclude
    <3>2. QED
      BY <3>1, <1>8
  <2>4. QED
    BY <2>2, <2>3
<1>9. CASE Publish
  <2>1. /\ LastPublished["expired"] = "Received"
        /\ LastPublished["accept"] = "Received"
        /\ LastPublished["reject"] = "Accepted"
        /\ LastPublished["inprogress"] = "Accepted"
        /\ LastPublished["completed"] = "InProgress"
        /\ LastPublished["failed"] = "InProgress"
        /\ LastPublished["resultOk"] = "Completed"
        /\ LastPublished["resultError"] = "Failed"
    BY DEF LastPublished, Control
  <2>2. /\ LC!Report("Received", "Accepted") => LC!Next
        /\ LC!Report("Accepted", "InProgress") => LC!Next
        /\ LC!Report("InProgress", "Completed") => LC!Next
        /\ LC!Report("InProgress", "Failed") => LC!Next
        /\ LC!Refuse("Received", "Expired") => LC!Next
        /\ LC!Refuse("Accepted", "Rejected") => LC!Next
        /\ LC!Conclude("Completed", "Ok") => LC!Next
        /\ LC!Conclude("Failed", "Error") => LC!Next
    BY DEF LC!Next
  <2>3. CASE PublishAccepted
    BY <2>1, <2>2, <2>3, <1>6 DEF PublishAccepted
  <2>4. CASE PublishInProgress \/ PublishCompleted \/ PublishFailed
    BY <2>1, <2>2, <2>4, <1>6
    DEF PublishInProgress, PublishCompleted, PublishFailed
  <2>5. CASE PublishExpired \/ PublishRejected
    BY <2>1, <2>2, <2>5, <1>7 DEF PublishExpired, PublishRejected
  <2>6. CASE PublishResult("resultOk", "Ok") \/ PublishResult("resultError", "Error")
    BY <2>1, <2>2, <2>6, <1>8
  <2>7. QED
    BY <1>9, <2>3, <2>4, <2>5, <2>6 DEF Publish
<1>10. CASE StartHandler \/ HandlerReturn
  <2>1. /\ UNCHANGED <<recorded, status, result, cur, cancelled>>
        /\ Open /\ Open'
    BY <1>10 DEF StartHandler, HandlerReturn, HandlerReturns, Open
  <2>2. QED
    BY <2>1 DEF LC!lifecycleVars
<1>11. CASE HandlerCancelled
  <2>1. /\ UNCHANGED <<recorded, status, result, cancelled>>
        /\ Open /\ ~Open' /\ cancelled
    BY <1>11 DEF HandlerCancelled, Open
  <2>2. LC!Abandon
    BY <2>1, <1>o DEF LC!Abandon
  <2>3. QED
    BY <2>2 DEF LC!Next
<1>12. CASE Boot
  <2>1. LC!Reboot
    BY <1>12 DEF Boot, DedupReset, LC!Reboot, Open
  <2>2. QED
    BY <2>1 DEF LC!Next
<1>13. QED
  BY <1>1, <1>2, <1>3, <1>4, <1>9, <1>10, <1>11, <1>12 DEF Next, Processor

(* The command service implements the lifecycle: whatever happens in the    *)
(* queues, the server sees one command at a time go through legal states,   *)
(* results that match them, and no command dropped before shutdown.         *)
THEOREM LifecycleImplemented == Spec => ImplementsLifecycle
BY LifecycleInit, LifecycleStep, TypeCorrect, DedupInvariant,
   StatusAlwaysFollows, PTL
DEF Spec, ImplementsLifecycle, LC!Spec

-----------------------------------------------------------------------------
(* What follows from the lifecycle.  The open command has no result yet and *)
(* no state that is final without one.                                      *)
OpenUuid == IF Open THEN cur.uuid ELSE Garbage

AnswerInv ==
  /\ LC!AnsweredInFull
  /\ Open => /\ result[cur.uuid] = "None"
             /\ status[cur.uuid] \in {"Received", "Accepted", "InProgress", "Completed",
                                     "Failed"}

LEMMA OpenIsOne ==
  /\ TypeOK => /\ Open => OpenUuid = cur.uuid /\ OpenUuid \in Uuid
               /\ ~Open => OpenUuid = Garbage
  /\ TypeOK' => /\ Open' => OpenUuid' = cur'.uuid /\ OpenUuid' \in Uuid
                /\ ~Open' => OpenUuid' = Garbage
  /\ Garbage \notin Uuid
<1>1. Garbage \notin Uuid /\ Garbage \notin Command
  BY MessagesAssumption
<1>2. TypeOK /\ Open => cur.uuid \in Uuid
  BY <1>1 DEF TypeOK, Open, Command
<1>3. TypeOK' /\ Open' => cur'.uuid \in Uuid
  BY <1>1 DEF TypeOK, Open, Command
<1> QED
  BY <1>1, <1>2, <1>3 DEF OpenUuid

(* What a step of the lifecycle does to the commands, one by one.           *)
LEMMA AnswerMoves ==
  ASSUME TypeOK, AnswerInv, LC!Next, NEW u \in Uuid
  PROVE  \/ u = OpenUuid'
         \/ cancelled'
         \/ LC!Answered(u)'
<1>t. /\ status \in [Uuid -> CommandState]
      /\ result \in [Uuid -> {"None", "Ok", "Error"}]
  BY DEF TypeOK
<1>o. /\ Open => OpenUuid = cur.uuid /\ OpenUuid \in Uuid
      /\ ~Open => OpenUuid = Garbage
      /\ Garbage \notin Uuid
  BY OpenIsOne
<1>i. u = OpenUuid \/ cancelled \/ LC!Answered(u)
  BY DEF AnswerInv, LC!AnsweredInFull, OpenUuid
<1>1. ASSUME NEW v \in Uuid, LC!Receive(v)
      PROVE  u = OpenUuid' \/ cancelled' \/ LC!Answered(u)'
  BY <1>1, <1>t, <1>o, <1>i DEF LC!Receive, LC!Answered, OpenUuid
<1>2. ASSUME NEW from, NEW to, LC!Report(from, to)
      PROVE  u = OpenUuid' \/ cancelled' \/ LC!Answered(u)'
  BY <1>2, <1>t, <1>o, <1>i DEF LC!Report, LC!Answered, OpenUuid
<1>3. ASSUME NEW from, NEW to \in {"Expired", "Rejected"}, LC!Refuse(from, to)
      PROVE  u = OpenUuid' \/ cancelled' \/ LC!Answered(u)'
  BY <1>3, <1>t, <1>o, <1>i DEF LC!Refuse, LC!Answered, OpenUuid, AnswerInv
<1>4. CASE LC!Conclude("Completed", "Ok") \/ LC!Conclude("Failed", "Error")
  BY <1>4, <1>t, <1>o, <1>i DEF LC!Conclude, LC!Answered, OpenUuid
<1>5. CASE LC!BeginStop \/ LC!Abandon
  BY <1>5 DEF LC!BeginStop, LC!Abandon
<1>6. CASE LC!Reboot
  BY <1>6 DEF LC!Reboot, LC!Answered
<1> QED
  BY <1>1, <1>2, <1>3, <1>4, <1>5, <1>6 DEF LC!Next

LEMMA ResultMoves ==
  ASSUME TypeOK, AnswerInv, LC!Next, NEW u \in Uuid
  PROVE  result'[u] = "None" \/ LC!Answered(u)'
<1>t. /\ status \in [Uuid -> CommandState]
      /\ result \in [Uuid -> {"None", "Ok", "Error"}]
  BY DEF TypeOK
<1>o. /\ Open => OpenUuid = cur.uuid /\ OpenUuid \in Uuid
      /\ ~Open => OpenUuid = Garbage
      /\ Garbage \notin Uuid
  BY OpenIsOne
<1>i. /\ result[u] = "None" \/ LC!Answered(u)
      /\ OpenUuid = u => result[u] = "None"
  BY <1>o DEF AnswerInv, LC!AnsweredInFull
<1>1. ASSUME NEW v \in Uuid, LC!Receive(v)
      PROVE  result'[u] = "None" \/ LC!Answered(u)'
  BY <1>1, <1>t, <1>o, <1>i DEF LC!Receive, LC!Answered
<1>2. ASSUME NEW from, NEW to, LC!Report(from, to) \/ LC!Refuse(from, to)
      PROVE  result'[u] = "None" \/ LC!Answered(u)'
  BY <1>2, <1>t, <1>o, <1>i DEF LC!Report, LC!Refuse, LC!Answered, OpenUuid
<1>3. CASE LC!Conclude("Completed", "Ok") \/ LC!Conclude("Failed", "Error")
  BY <1>3, <1>t, <1>o, <1>i DEF LC!Conclude, LC!Answered, OpenUuid
<1>4. CASE LC!BeginStop \/ LC!Abandon
  BY <1>4, <1>i DEF LC!BeginStop, LC!Abandon, LC!Answered
<1>5. CASE LC!Reboot
  BY <1>5 DEF LC!Reboot, LC!Answered
<1> QED
  BY <1>1, <1>2, <1>3, <1>4, <1>5 DEF LC!Next

LEMMA OpenMoves ==
  ASSUME TypeOK, TypeOK', AnswerInv, LC!Next, Open'
  PROVE  /\ result'[cur'.uuid] = "None"
         /\ status'[cur'.uuid] \in {"Received", "Accepted", "InProgress", "Completed",
                                    "Failed"}
<1>t. /\ status \in [Uuid -> CommandState]
      /\ result \in [Uuid -> {"None", "Ok", "Error"}]
  BY DEF TypeOK
<1>o. /\ Open => OpenUuid = cur.uuid /\ OpenUuid \in Uuid
      /\ ~Open => OpenUuid = Garbage
      /\ Garbage \notin Uuid
  BY OpenIsOne
<1>p. OpenUuid' = cur'.uuid /\ OpenUuid' \in Uuid
  BY OpenIsOne
<1>i. Open => /\ result[OpenUuid] = "None"
              /\ status[OpenUuid] \in {"Received", "Accepted", "InProgress", "Completed",
                                       "Failed"}
  BY <1>o DEF AnswerInv
<1>1. ASSUME NEW v \in Uuid, LC!Receive(v)
      PROVE  /\ result'[OpenUuid'] = "None"
             /\ status'[OpenUuid'] = "Received"
  BY <1>1, <1>t DEF LC!Receive, OpenUuid
<1>2. ASSUME NEW from, NEW to \in {"Accepted", "InProgress", "Completed", "Failed"},
             LC!Report(from, to)
      PROVE  /\ result'[OpenUuid'] = "None"
             /\ status'[OpenUuid'] = to
  <2>1. /\ OpenUuid # Garbage /\ OpenUuid' = OpenUuid /\ result' = result
        /\ status' = [status EXCEPT ![OpenUuid] = to]
    BY <1>2 DEF LC!Report, OpenUuid
  <2> QED
    BY <2>1, <1>t, <1>o, <1>i
<1>3. \A from, to : ~LC!Refuse(from, to) /\ ~LC!Conclude(from, to)
  BY <1>o, <1>p DEF LC!Refuse, LC!Conclude, OpenUuid
<1>4. CASE LC!BeginStop
  BY <1>4, <1>o, <1>p, <1>i DEF LC!BeginStop, OpenUuid
<1>5. ~LC!Abandon /\ ~LC!Reboot
  BY <1>o, <1>p DEF LC!Abandon, LC!Reboot, OpenUuid
<1> QED
  BY <1>p, <1>1, <1>2, <1>3, <1>4, <1>5 DEF LC!Next

LEMMA AnswerAlways == Spec => []AnswerInv
<1>1. Init => AnswerInv
  BY DEF Init, AnswerInv, LC!AnsweredInFull, LC!Answered, Open
<1>2. TypeOK /\ TypeOK' /\ AnswerInv /\ [LC!Next]_(LC!lifecycleVars) => AnswerInv'
  <2> SUFFICES ASSUME TypeOK, TypeOK', AnswerInv, [LC!Next]_(LC!lifecycleVars)
               PROVE  AnswerInv'
    OBVIOUS
  <2>1. CASE LC!Next
    <3>1. LC!AnsweredInFull'
      BY <2>1, AnswerMoves, ResultMoves DEF LC!AnsweredInFull, OpenUuid
    <3> QED
      BY <2>1, <3>1, OpenMoves DEF AnswerInv
  <2>2. CASE UNCHANGED LC!lifecycleVars
    <3>1. /\ UNCHANGED <<status, result, cancelled>> /\ OpenUuid' = OpenUuid
      BY <2>2 DEF LC!lifecycleVars, OpenUuid
    <3>2. LC!AnsweredInFull'
      BY <3>1 DEF AnswerInv, LC!AnsweredInFull, LC!Answered, OpenUuid
    <3>3. Open' => Open /\ cur'.uuid = cur.uuid
      BY <3>1, OpenIsOne
    <3> QED
      BY <3>1, <3>2, <3>3 DEF AnswerInv
  <2> QED
    BY <2>1, <2>2
<1> QED
  BY <1>1, <1>2, TypeCorrect, LifecycleImplemented, PTL
  DEF Spec, ImplementsLifecycle, LC!Spec

(* Until the shutdown begins, every command that was taken is the open one  *)
(* or was answered in full: its final state and, if it was executed, the    *)
(* result that agrees with it (commands.rs: process_command).               *)
THEOREM CommandsAnsweredInFull == Spec => []LC!AnsweredInFull
<1>1. AnswerInv => LC!AnsweredInFull
  BY DEF AnswerInv
<1> QED
  BY <1>1, AnswerAlways, PTL

(* The answer to a closed command changes only if its UUID is taken again   *)
(* or the process starts anew: reports go to the open command alone.        *)
THEOREM AnswersAlwaysStay == Spec => LC!AnswersStay
<1> DEFINE Stay ==
      \A u \in Uuid :
        u # OpenUuid /\ (status'[u] # status[u] \/ result'[u] # result[u])
          => LC!Receive(u) \/ LC!Reboot
<1>1. TypeOK /\ [LC!Next]_(LC!lifecycleVars) => Stay \/ UNCHANGED LC!lifecycleVars
  <2> SUFFICES ASSUME TypeOK, LC!Next, NEW u \in Uuid, u # OpenUuid,
                      status'[u] # status[u] \/ result'[u] # result[u]
               PROVE  LC!Receive(u) \/ LC!Reboot
    OBVIOUS
  <2>t. /\ status \in [Uuid -> CommandState]
        /\ result \in [Uuid -> {"None", "Ok", "Error"}]
    BY DEF TypeOK
  <2>1. ASSUME NEW v \in Uuid, LC!Receive(v)
        PROVE  u = v
    BY <2>1, <2>t DEF LC!Receive
  <2>2. \A from, to : ~LC!Report(from, to) /\ ~LC!Refuse(from, to) /\ ~LC!Conclude(from, to)
    BY <2>t DEF LC!Report, LC!Refuse, LC!Conclude, OpenUuid
  <2>3. ~LC!BeginStop /\ ~LC!Abandon
    BY DEF LC!BeginStop, LC!Abandon
  <2> QED
    BY <2>1, <2>2, <2>3 DEF LC!Next
<1>2. Spec => [][Stay]_(LC!lifecycleVars)
  BY <1>1, TypeCorrect, LifecycleImplemented, PTL
  DEF ImplementsLifecycle, LC!Spec
<1> QED
  BY <1>2 DEF LC!AnswersStay, OpenUuid
=============================================================================
