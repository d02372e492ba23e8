--------------------------- MODULE NodeStatus_proofs ---------------------------
(***************************************************************************)
(* Theorems about the retained status, for every capacity and every bound. *)
(***************************************************************************)
EXTENDS NodeStatus, SequenceTheorems, TLAPS

(* No status is on its way that could bring the node online.                *)
NoOnline == \A i \in 1..Len(outbox) : outbox[i] # "Online"

(* Until the process is connected it has nothing to say Online for, and     *)
(* what it finds at the broker was settled when its connection was taken.   *)
NeverConnected ==
  ~everConnected =>
    /\ NoOnline
    /\ link = "up" => retained[1] # "Online"
    /\ \A i \in 1..Len(inbox) : inbox[i] # "Connected"
    /\ ~lagged
    /\ publisher # "publish"

(* Between its last requests the transport has queued Offline behind all    *)
(* else, or found no room; then there is none for DISCONNECT either.        *)
LastIsOffline ==
  eventLoop = "leaving" /\ everConnected =>
    \/ Len(outbox) = REQUEST_CAPACITY
    \/ Len(outbox) > 0 /\ outbox[Len(outbox)] = "Offline"

(* When the request at i reaches the broker, the status is not Online.      *)
Covered(i) ==
  \/ \E j \in 1..(i - 1) :
       outbox[j] = "Offline" /\ \A k \in (j + 1)..(i - 1) : outbox[k] # "Online"
  \/ retained[1] # "Online" /\ \A k \in 1..(i - 1) : outbox[k] # "Online"

DisconnectCovered ==
  \A i \in 1..Len(outbox) :
    outbox[i] = "Disconnect" =>
      eventLoop = "flushing" /\ (everConnected => Covered(i))

StatusInv ==
  TypeOK /\ NotOnlineWhenGone /\ NeverConnected /\ LastIsOffline /\ DisconnectCovered

-----------------------------------------------------------------------------
(* Types.                                                                   *)

Requests == {"Online", "Offline", "Telemetry", "Disconnect"}

(* What a request does to the channel.                                      *)
LEMMA AppendRequest ==
  ASSUME outbox \in Seq(Requests), NEW request \in Requests,
         outbox' = Append(outbox, request)
  PROVE  /\ outbox' \in Seq(Requests)
         /\ Len(outbox') = Len(outbox) + 1
         /\ outbox'[Len(outbox) + 1] = request
         /\ \A i \in 1..Len(outbox) : outbox'[i] = outbox[i]
BY DEF Requests

(* A queued request does not exceed the channel.                            *)
LEMMA TryQueueType ==
  ASSUME TypeOK, NEW request \in Requests, TryQueue(request)
  PROVE  outbox' \in Seq(Requests) /\ Len(outbox') <= REQUEST_CAPACITY
<1>1. outbox \in Seq(Requests) /\ Len(outbox) <= REQUEST_CAPACITY
  BY DEF TypeOK, Requests
<1>2. CASE Len(outbox) < REQUEST_CAPACITY
  BY <1>1, <1>2, CapacityAssumption, AppendRequest DEF TryQueue
<1>3. CASE ~(Len(outbox) < REQUEST_CAPACITY)
  BY <1>1, <1>3 DEF TryQueue
<1>4. QED
  BY <1>2, <1>3

LEMMA QueueType ==
  ASSUME TypeOK, NEW request \in Requests, Queue(request)
  PROVE  outbox' \in Seq(Requests) /\ Len(outbox') <= REQUEST_CAPACITY
<1>1. outbox \in Seq(Requests) /\ Len(outbox) <= REQUEST_CAPACITY
  BY DEF TypeOK, Requests
<1>2. CASE eventLoop = "stopped"
  BY <1>1, <1>2 DEF Queue
<1>3. CASE eventLoop # "stopped"
  <2>1. Len(outbox) < REQUEST_CAPACITY /\ outbox' = Append(outbox, request)
    BY <1>3 DEF Queue
  <2>2. QED
    BY <1>1, <2>1, CapacityAssumption, AppendRequest
<1>4. QED
  BY <1>2, <1>3

(* A broadcast event does not exceed the channel.                           *)
LEMMA BroadcastType ==
  ASSUME TypeOK, NEW event \in {"Connected", "Other"}, Broadcast(event)
  PROVE  /\ inbox' \in Seq({"Connected", "Other"})
         /\ Len(inbox') <= EVENT_CHANNEL_CAPACITY
         /\ lagged' \in BOOLEAN
<1>1. /\ inbox \in Seq({"Connected", "Other"}) /\ Len(inbox) <= EVENT_CHANNEL_CAPACITY
      /\ lagged \in BOOLEAN
  BY DEF TypeOK
<1>2. CASE eventLoop # "running"
  BY <1>1, <1>2 DEF Broadcast
<1>3. CASE eventLoop = "running" /\ Len(inbox) < EVENT_CHANNEL_CAPACITY
  <2>1. inbox' = Append(inbox, event) /\ lagged' = lagged
    BY <1>3 DEF Broadcast
  <2>2. QED
    BY <1>1, <1>3, <2>1, CapacityAssumption
<1>4. CASE eventLoop = "running" /\ ~(Len(inbox) < EVENT_CHANNEL_CAPACITY)
  <2>1. inbox' = Append(Tail(inbox), event) /\ lagged' = TRUE
    BY <1>4 DEF Broadcast
  <2>2. inbox # <<>>
    BY <1>1, <1>4, CapacityAssumption
  <2>3. Tail(inbox) \in Seq({"Connected", "Other"}) /\ Len(Tail(inbox)) = Len(inbox) - 1
    BY <1>1, <2>2, HeadTailProperties
  <2>4. QED
    BY <1>1, <1>4, <2>1, <2>3, CapacityAssumption
<1>5. QED
  BY <1>2, <1>3, <1>4

(* An empty channel.                                                        *)
LEMMA EmptyChannel == Len(<<>>) = 0 /\ \A S : <<>> \in Seq(S)
<1>1. Len(<<>>) = 0
  OBVIOUS
<1>2. \A S : <<>> \in Seq(S)
  OBVIOUS
<1>3. QED
  BY <1>1, <1>2

LEMMA InitNodeType == Init => TypeOK
<1> SUFFICES ASSUME Init PROVE TypeOK
  OBVIOUS
<1>1. boot \in 1..MaxBoots /\ retained \in Status /\ will \in Session
  BY BoundAssumption DEF Init, Status, Session
<1>2. /\ outbox \in Seq({"Online", "Offline", "Telemetry", "Disconnect"})
      /\ Len(outbox) <= REQUEST_CAPACITY
      /\ inbox \in Seq({"Connected", "Other"}) /\ Len(inbox) <= EVENT_CHANNEL_CAPACITY
  BY CapacityAssumption, EmptyChannel DEF Init
<1>3. QED
  BY <1>1, <1>2 DEF Init, TypeOK

(* Every step preserves the types; one case per action.                     *)
LEMMA NextNodeType == TypeOK /\ [Next]_vars => TypeOK'
<1> SUFFICES ASSUME TypeOK, [Next]_vars PROVE TypeOK'
  OBVIOUS
<1> USE CapacityAssumption, BoundAssumption
<1>b. boot \in Session /\ will \in Session /\ <<"Offline", will>> \in Status
  BY DEF TypeOK, Session, Status
<1>1. CASE Notice
  BY <1>1, <1>b DEF Notice, LastWill, TypeOK, transportVars, publisherVars
<1>2. CASE Cancel
  BY <1>2 DEF Cancel, TypeOK, brokerVars, transportVars, publisherVars
<1>3. CASE ConnAck
  <2>1. /\ inbox' \in Seq({"Connected", "Other"})
        /\ Len(inbox') <= EVENT_CHANNEL_CAPACITY /\ lagged' \in BOOLEAN
    BY <1>3, BroadcastType DEF ConnAck
  <2>2. everConnected' \in BOOLEAN
    BY <1>3 DEF ConnAck, TypeOK
  <2>3. retained' \in Status
    BY <1>3, <1>b DEF ConnAck, LastWill, TypeOK
  <2>4. QED
    BY <1>3, <1>b, <2>1, <2>2, <2>3 DEF ConnAck, TypeOK
<1>4. CASE ConnError
  <2>1. /\ inbox' \in Seq({"Connected", "Other"})
        /\ Len(inbox') <= EVENT_CHANNEL_CAPACITY /\ lagged' \in BOOLEAN
    BY <1>4, BroadcastType DEF ConnError
  <2>2. QED
    BY <1>4, <2>1 DEF ConnError, TypeOK, transportVars
<1>5. CASE Message
  <2>1. /\ inbox' \in Seq({"Connected", "Other"})
        /\ Len(inbox') <= EVENT_CHANNEL_CAPACITY /\ lagged' \in BOOLEAN
    BY <1>5, BroadcastType DEF Message
  <2>2. QED
    BY <1>5, <2>1 DEF Message, TypeOK, brokerVars, transportVars
<1>6. CASE Flush
  <2>1. /\ outbox \in Seq(Requests) /\ outbox # <<>>
        /\ Len(outbox) <= REQUEST_CAPACITY
    BY <1>6 DEF Flush, TypeOK, Requests
  <2>2. /\ Head(outbox) \in Requests /\ Tail(outbox) \in Seq(Requests)
        /\ Len(Tail(outbox)) = Len(outbox) - 1
    BY <2>1, HeadTailProperties
  <2>3. CASE Head(outbox) = "Disconnect"
    BY <1>6, <2>3 DEF Flush, TypeOK, publisherVars
  <2>4. CASE Head(outbox) # "Disconnect"
    <3>1. retained' \in Status
      BY <1>6, <1>b, <2>2, <2>4 DEF Flush, TypeOK, Requests, Status
    <3>2. outbox' = Tail(outbox) /\ UNCHANGED <<link, eventLoop>>
      BY <1>6, <2>4 DEF Flush
    <3>3. outbox' \in Seq(Requests) /\ Len(outbox') <= REQUEST_CAPACITY
      BY <2>1, <2>2, <3>2
    <3>4. QED
      BY <1>6, <3>1, <3>2, <3>3 DEF Flush, TypeOK, publisherVars, Requests
  <2>5. QED
    BY <2>3, <2>4
<1>7. CASE Leave
  <2>1. outbox' \in Seq(Requests) /\ Len(outbox') <= REQUEST_CAPACITY
    BY <1>7, TryQueueType DEF Leave, Requests, TypeOK
  <2>2. QED
    BY <1>7, <2>1 DEF Leave, TypeOK, brokerVars, publisherVars, Requests
<1>8. CASE BeginFlush
  <2>1. outbox' \in Seq(Requests) /\ Len(outbox') <= REQUEST_CAPACITY
    BY <1>8, TryQueueType DEF BeginFlush, Requests
  <2>2. QED
    BY <1>8, <2>1 DEF BeginFlush, TypeOK, brokerVars, publisherVars, Requests
<1>9. CASE EndFlush
  BY <1>9 DEF EndFlush, TypeOK, publisherVars
<1>10. CASE Receive
  <2>1. Tail(inbox) \in Seq({"Connected", "Other"}) /\ Len(Tail(inbox)) = Len(inbox) - 1
    BY <1>10, HeadTailProperties DEF Receive, TypeOK
  <2>2. QED
    BY <1>10, <2>1 DEF Receive, TypeOK, publisherFrame, brokerVars, transportVars
<1>11. CASE ReceiveLagged
  BY <1>11 DEF ReceiveLagged, TypeOK, publisherFrame, brokerVars, transportVars
<1>12. CASE PublishOnline
  <2>1. outbox' \in Seq(Requests) /\ Len(outbox') <= REQUEST_CAPACITY
    BY <1>12, QueueType DEF PublishOnline, Requests
  <2>2. QED
    BY <1>12, <2>1
    DEF PublishOnline, TypeOK, publisherFrame, brokerVars, transportVars, Requests
<1>13. CASE PublisherCancelled
  BY <1>13 DEF PublisherCancelled, TypeOK, publisherFrame, brokerVars, transportVars
<1>14. CASE PublishTelemetry
  <2>1. outbox' \in Seq(Requests) /\ Len(outbox') <= REQUEST_CAPACITY
    BY <1>14, QueueType DEF PublishTelemetry, Requests
  <2>2. QED
    BY <1>14, <2>1
    DEF PublishTelemetry, TypeOK, brokerVars, transportVars, publisherVars, Requests
<1>15. CASE Boot
  <2>1. boot' \in 1..MaxBoots
    BY <1>15 DEF Boot, TypeOK
  <2>2. /\ outbox' \in Seq({"Online", "Offline", "Telemetry", "Disconnect"})
        /\ Len(outbox') <= REQUEST_CAPACITY
        /\ inbox' \in Seq({"Connected", "Other"})
        /\ Len(inbox') <= EVENT_CHANNEL_CAPACITY
    BY <1>15, EmptyChannel DEF Boot
  <2>3. QED
    BY <1>15, <2>1, <2>2 DEF Boot, TypeOK
<1>16. CASE UNCHANGED vars
  BY <1>16 DEF vars, TypeOK, brokerVars, transportVars, publisherVars
<1>17. QED
  BY <1>1, <1>2, <1>3, <1>4, <1>5, <1>6, <1>7, <1>8, <1>9, <1>10, <1>11, <1>12, <1>13,
     <1>14, <1>15, <1>16
  DEF Next, Transport, Publisher

(* Every reachable state is well typed; in particular the request channel   *)
(* and the broadcast buffer stay within their capacity (transport.rs:58,    *)
(* 222).                                                                    *)
THEOREM NodeTypeCorrect == Spec => []TypeOK
BY InitNodeType, NextNodeType, PTL DEF Spec

-----------------------------------------------------------------------------
(* The retained status.                                                     *)

LEMMA InitStatus == Init => StatusInv
<1> SUFFICES ASSUME Init PROVE StatusInv
  OBVIOUS
<1>1. TypeOK
  BY InitNodeType
<1>2. Len(outbox) = 0 /\ Len(inbox) = 0
  BY EmptyChannel DEF Init
<1>3. retained[1] # "Online" /\ eventLoop = "running"
  BY DEF Init
<1>4. NotOnlineWhenGone
  BY <1>3 DEF NotOnlineWhenGone
<1>5. NeverConnected /\ LastIsOffline /\ DisconnectCovered
  BY <1>2, <1>3 DEF Init, NeverConnected, NoOnline, LastIsOffline, DisconnectCovered
<1>6. QED
  BY <1>1, <1>4, <1>5 DEF StatusInv

(* While the channel stays as it is, the status may only lose an Online.    *)
LEMMA CoveredKept ==
  ASSUME StatusInv, UNCHANGED <<outbox, eventLoop, everConnected>>,
         retained' = retained \/ retained'[1] # "Online"
  PROVE  LastIsOffline' /\ DisconnectCovered'
<1>1. LastIsOffline'
  BY DEF StatusInv, LastIsOffline
<1>2. ASSUME NEW i \in 1..Len(outbox), Covered(i) PROVE Covered(i)'
  BY <1>2 DEF Covered
<1>3. DisconnectCovered'
  BY <1>2 DEF StatusInv, DisconnectCovered
<1>4. QED
  BY <1>1, <1>3

(* A request behind a DISCONNECT does not come before it.                   *)
LEMMA CoveredAppended ==
  ASSUME TypeOK, NEW request \in Requests, outbox' = Append(outbox, request),
         UNCHANGED retained, NEW i \in 1..Len(outbox), Covered(i)
  PROVE  Covered(i)'
<1>1. outbox \in Seq(Requests)
  BY DEF TypeOK, Requests
<1>2. Len(outbox) \in Nat /\ \A k \in 1..Len(outbox) : outbox'[k] = outbox[k]
  BY <1>1, AppendRequest
<1>3. \A k \in 1..(i - 1) : outbox'[k] = outbox[k]
  BY <1>2
<1>4. \A j \in 1..(i - 1) : \A k \in (j + 1)..(i - 1) : outbox'[k] = outbox[k]
  BY <1>2
<1>5. QED
  BY <1>3, <1>4 DEF Covered

(* Another task queues a request, which it does not between the last two of *)
(* the transport.                                                           *)
LEMMA QueueKeeps ==
  ASSUME StatusInv, Adjacent, NEW request \in {"Online", "Telemetry"}, Queue(request),
         UNCHANGED <<boot, retained, link, eventLoop, everConnected>>
  PROVE  /\ NoOnline /\ request # "Online" => NoOnline'
         /\ LastIsOffline' /\ DisconnectCovered'
<1>t. outbox \in Seq(Requests) /\ request \in Requests /\ TypeOK
  BY DEF StatusInv, TypeOK, Requests
<1>1. CASE eventLoop = "stopped"
  <2>1. UNCHANGED outbox
    BY <1>1 DEF Queue
  <2>2. QED
    BY <2>1, CoveredKept DEF NoOnline
<1>2. CASE eventLoop # "stopped"
  <2>1. outbox' = Append(outbox, request)
    BY <1>2 DEF Queue
  <2>2. /\ Len(outbox') = Len(outbox) + 1 /\ Len(outbox) \in Nat
        /\ outbox'[Len(outbox) + 1] = request
        /\ \A i \in 1..Len(outbox) : outbox'[i] = outbox[i]
    BY <1>t, <2>1, AppendRequest
  <2>3. NoOnline /\ request # "Online" => NoOnline'
    BY <2>2 DEF NoOnline
  <2>4. LastIsOffline'
    BY DEF Queue, LastIsOffline
  <2>5. ASSUME NEW i \in 1..Len(outbox'), outbox'[i] = "Disconnect"
        PROVE  eventLoop' = "flushing" /\ (everConnected' => Covered(i)')
    <3>1. i \in 1..Len(outbox) /\ outbox[i] = "Disconnect"
      BY <2>2, <2>5
    <3>2. eventLoop = "flushing" /\ (everConnected => Covered(i))
      BY <3>1 DEF StatusInv, DisconnectCovered
    <3>3. QED
      BY <1>t, <2>1, <3>1, <3>2, CoveredAppended
  <2>6. DisconnectCovered'
    BY <2>5 DEF DisconnectCovered
  <2>7. QED
    BY <2>3, <2>4, <2>6
<1>3. QED
  BY <1>1, <1>2

(* An event that is not a connection announces none.                        *)
LEMMA BroadcastKeeps ==
  ASSUME TypeOK, ~everConnected, Broadcast("Other"), ~lagged,
         \A i \in 1..Len(inbox) : inbox[i] # "Connected"
  PROVE  ~lagged' /\ \A i \in 1..Len(inbox') : inbox'[i] # "Connected"
<1>1. inbox \in Seq({"Connected", "Other"})
  BY DEF TypeOK
<1>2. CASE eventLoop # "running"
  BY <1>2 DEF Broadcast
<1>3. CASE eventLoop = "running"
  <2>1. inbox' = Append(inbox, "Other") /\ lagged' = lagged
    BY <1>3 DEF Broadcast
  <2>2. QED
    BY <1>1, <2>1
<1>4. QED
  BY <1>2, <1>3

(* Every step preserves the invariant; one case per action.                 *)
LEMMA NextStatus == StatusInv /\ Adjacent /\ [Next]_vars => StatusInv'
<1> SUFFICES ASSUME StatusInv, Adjacent, [Next]_vars PROVE StatusInv'
  OBVIOUS
<1>t. TypeOK /\ TypeOK'
  BY NextNodeType DEF StatusInv
<1>q. outbox \in Seq(Requests) /\ Len(outbox) \in Nat /\ Len(outbox) <= REQUEST_CAPACITY
  BY <1>t DEF TypeOK, Requests
<1>w. (retained[1] # "Online" /\ link = "none") \/ link # "none"
  BY DEF StatusInv, NotOnlineWhenGone
<1>1. CASE Notice
  <2>1. retained'[1] # "Online" /\ link' = "none"
    BY <1>1 DEF Notice, LastWill
  <2>2. LastIsOffline' /\ DisconnectCovered'
    BY <1>1, <2>1, CoveredKept DEF Notice, transportVars
  <2>3. NotOnlineWhenGone' /\ NeverConnected'
    BY <1>1, <2>1
    DEF Notice, StatusInv, NotOnlineWhenGone, NeverConnected, NoOnline, transportVars,
        publisherVars
  <2>4. QED
    BY <1>t, <2>2, <2>3 DEF StatusInv
<1>2. CASE Cancel \/ PublisherCancelled \/ UNCHANGED vars
  <2>1. /\ UNCHANGED <<retained, link, outbox, eventLoop, everConnected, inbox, lagged>>
        /\ publisher' \in {publisher, "done"}
    BY <1>2
    DEF Cancel, PublisherCancelled, vars, brokerVars, transportVars, publisherVars,
        publisherFrame
  <2>2. LastIsOffline' /\ DisconnectCovered'
    BY <2>1, CoveredKept
  <2>3. NotOnlineWhenGone' /\ NeverConnected'
    BY <2>1 DEF StatusInv, NotOnlineWhenGone, NeverConnected, NoOnline
  <2>4. QED
    BY <1>t, <2>2, <2>3 DEF StatusInv
<1>3. CASE ConnAck
  <2>1. /\ link' = "up" /\ UNCHANGED <<eventLoop, outbox, publisher>>
        /\ (retained' = retained /\ link = "none") \/ retained'[1] # "Online"
    BY <1>3, <1>t DEF ConnAck, LastWill, TypeOK
  <2>2. retained'[1] # "Online"
    BY <1>w, <2>1
  <2>3. NotOnlineWhenGone'
    BY <2>1 DEF NotOnlineWhenGone
  <2>4. CASE eventLoop = "running"
    <3>1. everConnected' = TRUE
      BY <1>3, <2>4 DEF ConnAck
    <3>2. \A i \in 1..Len(outbox) : outbox[i] # "Disconnect"
      BY <2>4 DEF StatusInv, DisconnectCovered
    <3>3. NeverConnected' /\ LastIsOffline' /\ DisconnectCovered'
      BY <2>1, <2>4, <3>1, <3>2 DEF NeverConnected, LastIsOffline, DisconnectCovered
    <3>4. QED
      BY <1>t, <2>3, <3>3 DEF StatusInv
  <2>5. CASE eventLoop # "running"
    <3>1. everConnected' = everConnected /\ UNCHANGED <<inbox, lagged>>
      BY <1>3, <1>t, <2>5 DEF ConnAck, Broadcast, TypeOK
    <3>2. LastIsOffline' /\ DisconnectCovered'
      BY <2>1, <2>2, <3>1, CoveredKept
    <3>3. NeverConnected'
      BY <2>1, <2>2, <3>1 DEF StatusInv, NeverConnected, NoOnline
    <3>4. QED
      BY <1>t, <2>3, <3>2, <3>3 DEF StatusInv
  <2>6. QED
    BY <2>4, <2>5
<1>4. CASE ConnError \/ Message
  <2>1. /\ UNCHANGED <<retained, outbox, eventLoop, everConnected, publisher>>
        /\ Broadcast("Other")
        /\ link' = link \/ link' = "stale"
    BY <1>4 DEF ConnError, Message, brokerVars, transportVars
  <2>2. LastIsOffline' /\ DisconnectCovered'
    BY <2>1, CoveredKept
  <2>3. NotOnlineWhenGone'
    BY <2>1 DEF StatusInv, NotOnlineWhenGone
  <2>4. NeverConnected'
    BY <1>t, <2>1, BroadcastKeeps DEF StatusInv, NeverConnected, NoOnline
  <2>5. QED
    BY <1>t, <2>2, <2>3, <2>4 DEF StatusInv
<1>5. CASE Flush
  <2>1. /\ outbox # <<>> /\ link = "up" /\ Len(outbox) > 0 /\ Head(outbox) = outbox[1]
        /\ Head(outbox) \in Requests
        /\ UNCHANGED <<everConnected, inbox, lagged, publisher>>
    BY <1>5, <1>q DEF Flush, publisherVars
  <2>2. Len(Tail(outbox)) = Len(outbox) - 1
        /\ \A i \in 1..Len(Tail(outbox)) : Tail(outbox)[i] = outbox[i + 1]
    BY <1>q, <2>1, HeadTailProperties
  <2>3. CASE Head(outbox) = "Disconnect"
    <3>1. /\ link' = "none" /\ eventLoop' = "stopped" /\ outbox' = <<>>
          /\ UNCHANGED retained
      BY <1>5, <2>3 DEF Flush
    <3>2. 1 \in 1..Len(outbox) /\ outbox[1] = "Disconnect"
      BY <1>q, <2>1, <2>3
    <3>3. everConnected => Covered(1)
      BY <3>2 DEF StatusInv, DisconnectCovered
    <3>4. retained[1] # "Online"
      BY <2>1, <3>3 DEF StatusInv, NeverConnected, Covered
    <3>5. NotOnlineWhenGone' /\ LastIsOffline' /\ DisconnectCovered'
      BY <3>1, <3>4, EmptyChannel
      DEF NotOnlineWhenGone, LastIsOffline, DisconnectCovered
    <3>6. NeverConnected'
      BY <2>1, <3>1, EmptyChannel DEF StatusInv, NeverConnected, NoOnline
    <3>7. QED
      BY <1>t, <3>5, <3>6 DEF StatusInv
  <2>4. CASE Head(outbox) # "Disconnect"
    <3>1. /\ outbox' = Tail(outbox) /\ UNCHANGED <<link, eventLoop>>
          /\ eventLoop # "leaving"
          /\ \/ Head(outbox) = "Telemetry" /\ retained' = retained
             \/ Head(outbox) \in {"Online", "Offline"} /\ retained'[1] = Head(outbox)
      BY <1>5, <2>1, <2>4 DEF Flush, Requests
    <3>2. Len(outbox') = Len(outbox) - 1
          /\ \A i \in 1..Len(outbox') : outbox'[i] = outbox[i + 1]
      BY <2>2, <3>1
    <3>3. NotOnlineWhenGone' /\ LastIsOffline'
      BY <2>1, <3>1 DEF NotOnlineWhenGone, LastIsOffline
    <3>4. NeverConnected'
      <4>1. NoOnline => NoOnline'
        BY <1>q, <3>2 DEF NoOnline
      <4>2. NoOnline => Head(outbox) # "Online"
        BY <1>q, <2>1 DEF NoOnline
      <4>3. QED
        BY <2>1, <3>1, <4>1, <4>2 DEF StatusInv, NeverConnected
    <3>5. ASSUME NEW i \in 1..Len(outbox'), Covered(i + 1) PROVE Covered(i)'
      <4>i. i + 1 \in 1..Len(outbox) /\ i \in Nat /\ i >= 1
        BY <1>q, <3>2
      <4>s. \A k \in 1..(i - 1) : outbox'[k] = outbox[k + 1]
        BY <1>q, <3>2
      <4>1. ASSUME NEW j \in 1..i, outbox[j] = "Offline",
                   \A k \in (j + 1)..i : outbox[k] # "Online"
            PROVE  Covered(i)'
        <5>1. CASE j = 1
          <6>1. retained'[1] = "Offline"
            BY <2>1, <3>1, <4>1, <5>1
          <6>2. \A k \in 1..(i - 1) : outbox'[k] # "Online"
            BY <4>i, <4>s, <4>1, <5>1
          <6>3. QED
            BY <6>1, <6>2 DEF Covered
        <5>2. CASE j # 1
          <6>1. j - 1 \in 1..(i - 1) /\ outbox'[j - 1] = "Offline"
            BY <4>i, <4>s, <4>1, <5>2
          <6>2. \A k \in ((j - 1) + 1)..(i - 1) : outbox'[k] # "Online"
            BY <4>i, <4>s, <4>1, <5>2
          <6>3. QED
            BY <6>1, <6>2 DEF Covered
        <5>3. QED
          BY <5>1, <5>2
      <4>2. ASSUME retained[1] # "Online", \A k \in 1..i : outbox[k] # "Online"
            PROVE  Covered(i)'
        <5>1. retained'[1] # "Online"
          BY <2>1, <3>1, <4>i, <4>2
        <5>2. \A k \in 1..(i - 1) : outbox'[k] # "Online"
          BY <4>i, <4>s, <4>2
        <5>3. QED
          BY <5>1, <5>2 DEF Covered
      <4>3. (i + 1) - 1 = i
        BY <4>i
      <4>4. QED
        BY <3>5, <4>1, <4>2, <4>3 DEF Covered
    <3>6. ASSUME NEW i \in 1..Len(outbox'), outbox'[i] = "Disconnect"
          PROVE  eventLoop' = "flushing" /\ (everConnected' => Covered(i)')
      <4>1. i + 1 \in 1..Len(outbox) /\ outbox[i + 1] = "Disconnect"
        BY <1>q, <3>2, <3>6
      <4>2. eventLoop = "flushing" /\ (everConnected => Covered(i + 1))
        BY <4>1 DEF StatusInv, DisconnectCovered
      <4>3. QED
        BY <2>1, <3>1, <3>5, <4>2
    <3>7. DisconnectCovered'
      BY <3>6 DEF DisconnectCovered
    <3>8. QED
      BY <1>t, <3>3, <3>4, <3>7 DEF StatusInv
  <2>5. QED
    BY <2>3, <2>4
<1>6. CASE Leave
  <2>1. /\ eventLoop = "running" /\ eventLoop' = "leaving"
        /\ UNCHANGED <<retained, link, everConnected, inbox, lagged, publisher>>
    BY <1>6 DEF Leave, brokerVars, publisherVars
  <2>2. \A i \in 1..Len(outbox) : outbox[i] # "Disconnect"
    BY <2>1 DEF StatusInv, DisconnectCovered
  <2>3. CASE ~everConnected \/ ~(Len(outbox) < REQUEST_CAPACITY)
    <3>1. UNCHANGED outbox /\ (everConnected => Len(outbox) = REQUEST_CAPACITY)
      BY <1>6, <1>q, <2>3, CapacityAssumption DEF Leave, TryQueue
    <3>2. LastIsOffline' /\ DisconnectCovered'
      BY <2>1, <2>2, <3>1 DEF LastIsOffline, DisconnectCovered
    <3>3. NotOnlineWhenGone' /\ NeverConnected'
      BY <2>1, <3>1 DEF StatusInv, NotOnlineWhenGone, NeverConnected, NoOnline
    <3>4. QED
      BY <1>t, <3>2, <3>3 DEF StatusInv
  <2>4. CASE everConnected /\ Len(outbox) < REQUEST_CAPACITY
    <3>1. outbox' = Append(outbox, "Offline") /\ "Offline" \in Requests
      BY <1>6, <2>4 DEF Leave, TryQueue, Requests
    <3>2. /\ Len(outbox') = Len(outbox) + 1
          /\ outbox'[Len(outbox) + 1] = "Offline"
          /\ \A i \in 1..Len(outbox) : outbox'[i] = outbox[i]
      BY <1>q, <3>1, AppendRequest
    <3>3. LastIsOffline'
      BY <1>q, <3>2 DEF LastIsOffline
    <3>4. \A i \in 1..Len(outbox') : outbox'[i] # "Disconnect"
      BY <1>q, <2>2, <3>2
    <3>5. NotOnlineWhenGone' /\ NeverConnected' /\ DisconnectCovered'
      BY <2>1, <2>4, <3>4
      DEF StatusInv, NotOnlineWhenGone, NeverConnected, DisconnectCovered
    <3>6. QED
      BY <1>t, <3>3, <3>5 DEF StatusInv
  <2>5. QED
    BY <2>3, <2>4
<1>7. CASE BeginFlush
  <2>1. /\ eventLoop = "leaving" /\ eventLoop' = "flushing"
        /\ UNCHANGED <<retained, link, everConnected, inbox, lagged, publisher>>
    BY <1>7 DEF BeginFlush, brokerVars, publisherVars
  <2>2. \A i \in 1..Len(outbox) : outbox[i] # "Disconnect"
    BY <2>1 DEF StatusInv, DisconnectCovered
  <2>3. NotOnlineWhenGone' /\ LastIsOffline'
    BY <2>1 DEF StatusInv, NotOnlineWhenGone, LastIsOffline
  <2>4. CASE ~(Len(outbox) < REQUEST_CAPACITY)
    <3>1. UNCHANGED outbox
      BY <1>7, <2>4 DEF BeginFlush, TryQueue
    <3>2. NeverConnected' /\ DisconnectCovered'
      BY <2>1, <2>2, <3>1 DEF StatusInv, NeverConnected, NoOnline, DisconnectCovered
    <3>3. QED
      BY <1>t, <2>3, <3>2 DEF StatusInv
  <2>5. CASE Len(outbox) < REQUEST_CAPACITY
    <3>1. outbox' = Append(outbox, "Disconnect") /\ "Disconnect" \in Requests
      BY <1>7, <2>5 DEF BeginFlush, TryQueue, Requests
    <3>2. /\ Len(outbox') = Len(outbox) + 1
          /\ outbox'[Len(outbox) + 1] = "Disconnect"
          /\ \A i \in 1..Len(outbox) : outbox'[i] = outbox[i]
      BY <1>q, <3>1, AppendRequest
    <3>3. NeverConnected'
      BY <1>q, <2>1, <3>2 DEF StatusInv, NeverConnected, NoOnline
    <3>4. ASSUME NEW i \in 1..Len(outbox'), outbox'[i] = "Disconnect", everConnected
          PROVE  Covered(i)'
      <4>1. i = Len(outbox) + 1
        BY <1>q, <2>2, <3>2, <3>4
      <4>2. Len(outbox) > 0 /\ outbox[Len(outbox)] = "Offline"
        BY <1>q, <2>1, <2>5, <3>4, CapacityAssumption DEF StatusInv, LastIsOffline
      <4>3. Len(outbox) \in 1..(i - 1) /\ outbox'[Len(outbox)] = "Offline"
        BY <1>q, <3>2, <4>1, <4>2
      <4>4. \A k \in (Len(outbox) + 1)..(i - 1) : outbox'[k] # "Online"
        BY <1>q, <4>1
      <4>5. PICK j \in 1..(i - 1) :
              outbox'[j] = "Offline" /\ \A k \in (j + 1)..(i - 1) : outbox'[k] # "Online"
        BY <4>3, <4>4
      <4>6. QED
        BY <4>5 DEF Covered
    <3>5. DisconnectCovered'
      BY <2>1, <3>4 DEF DisconnectCovered
    <3>6. QED
      BY <1>t, <2>3, <3>3, <3>5 DEF StatusInv
  <2>6. QED
    BY <2>4, <2>5
<1>8. CASE EndFlush \/ Boot
  <2>1. /\ outbox' = <<>> /\ eventLoop' \in {"stopped", "running"} /\ UNCHANGED retained
        /\ link' # "up" /\ (link' = "none" => link = "none")
    BY <1>8, <1>t DEF EndFlush, Boot, TypeOK
  <2>2. NotOnlineWhenGone' /\ LastIsOffline' /\ DisconnectCovered'
    BY <2>1, EmptyChannel
    DEF StatusInv, NotOnlineWhenGone, LastIsOffline, DisconnectCovered
  <2>3. \/ UNCHANGED <<everConnected, inbox, lagged, publisher>>
        \/ inbox' = <<>> /\ lagged' = FALSE /\ publisher' = "select"
    BY <1>8 DEF EndFlush, Boot, publisherVars
  <2>4. NeverConnected'
    BY <2>1, <2>3, EmptyChannel DEF StatusInv, NeverConnected, NoOnline
  <2>5. QED
    BY <1>t, <2>2, <2>4 DEF StatusInv
<1>9. CASE Receive \/ ReceiveLagged
  <2>1. UNCHANGED <<retained, link, outbox, eventLoop, everConnected>>
    BY <1>9 DEF Receive, ReceiveLagged, publisherFrame, brokerVars, transportVars
  <2>2. LastIsOffline' /\ DisconnectCovered'
    BY <2>1, CoveredKept
  <2>3. NotOnlineWhenGone'
    BY <2>1 DEF StatusInv, NotOnlineWhenGone
  <2>4. ASSUME ~everConnected PROVE NeverConnected'
    <3>1. Receive
      BY <1>9, <2>4 DEF ReceiveLagged, StatusInv, NeverConnected
    <3>2. /\ inbox \in Seq({"Connected", "Other"}) /\ inbox # <<>>
          /\ inbox' = Tail(inbox) /\ UNCHANGED lagged
      BY <1>t, <3>1 DEF Receive, TypeOK
    <3>3. /\ Len(inbox') = Len(inbox) - 1 /\ Head(inbox) = inbox[1] /\ Len(inbox) \in Nat
          /\ \A i \in 1..Len(inbox') : inbox'[i] = inbox[i + 1]
      BY <3>2, HeadTailProperties
    <3>4. Head(inbox) # "Connected" /\ \A i \in 1..Len(inbox') : inbox'[i] # "Connected"
      <4>1. 1 \in 1..Len(inbox)
        BY <3>2, <3>3
      <4>2. \A i \in 1..Len(inbox') : i + 1 \in 1..Len(inbox)
        BY <3>3
      <4>3. QED
        BY <2>4, <3>3, <4>1, <4>2 DEF StatusInv, NeverConnected
    <3>5. publisher' = "select"
      BY <3>1, <3>4 DEF Receive
    <3>6. QED
      BY <2>1, <2>4, <3>2, <3>4, <3>5 DEF StatusInv, NeverConnected, NoOnline
  <2>5. everConnected => NeverConnected'
    BY <2>1 DEF NeverConnected
  <2>6. QED
    BY <1>t, <2>2, <2>3, <2>4, <2>5 DEF StatusInv
<1>10. CASE PublishOnline
  <2>1. /\ publisher = "publish" /\ publisher' = "select" /\ Queue("Online")
        /\ UNCHANGED <<boot, retained, link, eventLoop, everConnected, inbox, lagged>>
    BY <1>10 DEF PublishOnline, publisherFrame, brokerVars, transportVars
  <2>2. everConnected
    BY <2>1 DEF StatusInv, NeverConnected
  <2>3. LastIsOffline' /\ DisconnectCovered'
    BY <2>1, <2>2, QueueKeeps
  <2>4. NotOnlineWhenGone' /\ NeverConnected'
    BY <2>1, <2>2 DEF StatusInv, NotOnlineWhenGone, NeverConnected
  <2>5. QED
    BY <1>t, <2>3, <2>4 DEF StatusInv
<1>11. CASE PublishTelemetry
  <2>1. /\ Queue("Telemetry") /\ UNCHANGED publisher
        /\ UNCHANGED <<boot, retained, link, eventLoop, everConnected, inbox, lagged>>
    BY <1>11 DEF PublishTelemetry, publisherVars, brokerVars, transportVars
  <2>2. /\ NoOnline => NoOnline'
        /\ LastIsOffline' /\ DisconnectCovered'
    BY <2>1, QueueKeeps
  <2>3. NotOnlineWhenGone' /\ NeverConnected'
    BY <2>1, <2>2 DEF StatusInv, NotOnlineWhenGone, NeverConnected
  <2>4. QED
    BY <1>t, <2>2, <2>3 DEF StatusInv
<1>12. QED
  BY <1>1, <1>2, <1>3, <1>4, <1>5, <1>6, <1>7, <1>8, <1>9, <1>10, <1>11
  DEF Next, Transport, Publisher

(* README.md:342, "automatic offline detection": for every capacity, if     *)
(* nothing slips between its last two requests, no node that the broker     *)
(* knows to be gone is shown online.                                        *)
THEOREM GoneIsNeverOnline == Adjacent => (Spec => []NotOnlineWhenGone)
<1>1. ASSUME Adjacent PROVE StatusInv /\ [Next]_vars => StatusInv'
  BY <1>1, NextStatus
<1>2. StatusInv => NotOnlineWhenGone
  BY DEF StatusInv
<1>3. ASSUME Adjacent PROVE Spec => []NotOnlineWhenGone
  BY <1>1, <1>2, <1>3, InitStatus, PTL DEF Spec
<1>4. QED
  BY <1>3

-----------------------------------------------------------------------------
(* No connection is forgotten.                                              *)

(* Before the transport begins to leave it has queued none of its last      *)
(* requests.                                                                *)
OnlyOnlineYet ==
  eventLoop = "running" =>
    \A i \in 1..Len(outbox) : outbox[i] \in {"Online", "Telemetry"}

(* The event of the connection, or what stands for it, is on its way.       *)
EventAhead == lagged \/ \E i \in 1..Len(inbox) : inbox[i] = "Connected"

(* A connection that the event loop serves is already shown as Online of    *)
(* this process, or Online is queued, or the publisher is about to queue    *)
(* it, or will hear of the connection or that events were lost             *)
(* (status.rs:94-113).  Only a publisher that was told to end forgets it.   *)
OnlineUnderWay ==
  link = "up" /\ eventLoop = "running" /\ publisher # "done" =>
    \/ retained = <<"Online", boot>>
    \/ ~NoOnline
    \/ publisher = "publish"
    \/ EventAhead

OnlineInv == TypeOK /\ OnlyOnlineYet /\ OnlineUnderWay

LEMMA InitOnline == Init => OnlineInv
<1> SUFFICES ASSUME Init PROVE OnlineInv
  OBVIOUS
<1>1. Len(outbox) = 0
  BY EmptyChannel DEF Init
<1>2. OnlyOnlineYet /\ OnlineUnderWay
  BY <1>1 DEF Init, OnlyOnlineYet, OnlineUnderWay
<1>3. QED
  BY <1>2, InitNodeType DEF OnlineInv

(* A broadcast event loses no other without a trace.                        *)
LEMMA BroadcastAhead ==
  ASSUME TypeOK, NEW event \in {"Connected", "Other"}, Broadcast(event),
         eventLoop = "running"
  PROVE  EventAhead \/ event = "Connected" => EventAhead'
<1>1. inbox \in Seq({"Connected", "Other"}) /\ Len(inbox) \in Nat
  BY DEF TypeOK
<1>2. CASE Len(inbox) < EVENT_CHANNEL_CAPACITY
  <2>1. inbox' = Append(inbox, event) /\ UNCHANGED lagged
    BY <1>2 DEF Broadcast
  <2>2. /\ Len(inbox') = Len(inbox) + 1 /\ inbox'[Len(inbox) + 1] = event
        /\ \A i \in 1..Len(inbox) : inbox'[i] = inbox[i]
    BY <1>1, <2>1
  <2>3. Len(inbox) + 1 \in 1..Len(inbox') /\ \A i \in 1..Len(inbox) : i \in 1..Len(inbox')
    BY <1>1, <2>2
  <2>4. QED
    BY <2>1, <2>2, <2>3 DEF EventAhead
<1>3. CASE ~(Len(inbox) < EVENT_CHANNEL_CAPACITY)
  <2>1. lagged' = TRUE
    BY <1>3 DEF Broadcast
  <2>2. QED
    BY <2>1 DEF EventAhead
<1>4. QED
  BY <1>2, <1>3

(* Another request in the channel changes nothing that was said.            *)
LEMMA QueueAhead ==
  ASSUME OnlineInv, NEW request \in {"Online", "Telemetry"}, Queue(request),
         UNCHANGED eventLoop
  PROVE  /\ OnlyOnlineYet'
         /\ eventLoop = "running" => (~NoOnline \/ request = "Online" => ~NoOnline')
<1>1. outbox \in Seq(Requests) /\ Len(outbox) \in Nat /\ request \in Requests
  BY DEF OnlineInv, TypeOK, Requests
<1>2. CASE eventLoop # "running"
  BY <1>2 DEF OnlyOnlineYet
<1>3. CASE eventLoop = "running"
  <2>1. outbox' = Append(outbox, request)
    BY <1>3 DEF Queue
  <2>2. /\ Len(outbox') = Len(outbox) + 1
        /\ outbox'[Len(outbox) + 1] = request
        /\ \A i \in 1..Len(outbox) : outbox'[i] = outbox[i]
    BY <1>1, <2>1, AppendRequest
  <2>3. OnlyOnlineYet'
    BY <1>1, <1>3, <2>2 DEF OnlineInv, OnlyOnlineYet
  <2>4. ~NoOnline \/ request = "Online" => ~NoOnline'
    <3>1. /\ Len(outbox) + 1 \in 1..Len(outbox')
          /\ \A i \in 1..Len(outbox) : i \in 1..Len(outbox')
      BY <1>1, <2>2
    <3>2. QED
      BY <2>2, <3>1 DEF NoOnline
  <2>5. QED
    BY <2>3, <2>4
<1>4. QED
  BY <1>2, <1>3

(* Every step preserves the invariant; one case per action.                 *)
LEMMA NextOnline == OnlineInv /\ [Next]_vars => OnlineInv'
<1> SUFFICES ASSUME OnlineInv, [Next]_vars PROVE OnlineInv'
  OBVIOUS
<1>t. TypeOK /\ TypeOK'
  BY NextNodeType DEF OnlineInv
<1>q. outbox \in Seq(Requests) /\ Len(outbox) \in Nat
  BY <1>t DEF TypeOK, Requests
<1>1. CASE Notice \/ Boot \/ EndFlush
  <2>1. link' # "up" /\ OnlyOnlineYet'
    <3>1. CASE Notice
      BY <3>1 DEF Notice, OnlineInv, OnlyOnlineYet, transportVars
    <3>2. CASE Boot \/ EndFlush
      <4>1. outbox' = <<>> /\ link' # "up"
        BY <1>t, <3>2 DEF Boot, EndFlush, TypeOK
      <4>2. QED
        BY <4>1, EmptyChannel DEF OnlyOnlineYet
    <3>3. QED
      BY <1>1, <3>1, <3>2
  <2>2. QED
    BY <1>t, <2>1 DEF OnlineInv, OnlineUnderWay
<1>2. CASE Cancel \/ PublisherCancelled \/ UNCHANGED vars
  <2>1. /\ UNCHANGED <<boot, retained, link, outbox, eventLoop, inbox, lagged>>
        /\ publisher' \in {publisher, "done"}
    BY <1>2
    DEF Cancel, PublisherCancelled, vars, brokerVars, transportVars, publisherVars,
        publisherFrame
  <2>2. OnlyOnlineYet' /\ OnlineUnderWay'
    BY <2>1 DEF OnlineInv, OnlyOnlineYet, OnlineUnderWay, NoOnline, EventAhead
  <2>3. QED
    BY <1>t, <2>2 DEF OnlineInv
<1>3. CASE ConnAck
  <2>1. Broadcast("Connected") /\ UNCHANGED <<outbox, eventLoop>>
    BY <1>3 DEF ConnAck
  <2>2. eventLoop = "running" => EventAhead'
    BY <1>t, <2>1, BroadcastAhead
  <2>3. OnlyOnlineYet' /\ OnlineUnderWay'
    BY <2>1, <2>2 DEF OnlineInv, OnlyOnlineYet, OnlineUnderWay
  <2>4. QED
    BY <1>t, <2>3 DEF OnlineInv
<1>4. CASE ConnError \/ Message
  <2>1. /\ Broadcast("Other") /\ (link' = "up" => link = "up")
        /\ UNCHANGED <<boot, retained, outbox, eventLoop, publisher>>
    BY <1>4 DEF ConnError, Message, brokerVars, transportVars
  <2>2. eventLoop = "running" /\ EventAhead => EventAhead'
    BY <1>t, <2>1, BroadcastAhead
  <2>3. OnlyOnlineYet' /\ OnlineUnderWay'
    BY <2>1, <2>2 DEF OnlineInv, OnlyOnlineYet, OnlineUnderWay, NoOnline
  <2>4. QED
    BY <1>t, <2>3 DEF OnlineInv
<1>5. CASE Flush
  <2>1. /\ outbox # <<>> /\ link = "up"
        /\ 1 \in 1..Len(outbox) /\ Head(outbox) = outbox[1]
        /\ UNCHANGED <<boot, inbox, lagged, publisher>>
    BY <1>5, <1>q DEF Flush, publisherVars
  <2>2. /\ Len(Tail(outbox)) = Len(outbox) - 1
        /\ \A i \in 1..Len(Tail(outbox)) : Tail(outbox)[i] = outbox[i + 1]
    BY <1>q, <2>1, HeadTailProperties
  <2>3. CASE eventLoop' # "running"
    BY <1>t, <2>3 DEF OnlineInv, OnlyOnlineYet, OnlineUnderWay
  <2>4. CASE eventLoop' = "running"
    <3>1. /\ outbox' = Tail(outbox) /\ eventLoop = "running"
          /\ retained' = IF Head(outbox) = "Telemetry" THEN retained
                         ELSE <<Head(outbox), boot>>
      BY <1>5, <2>4 DEF Flush
    <3>2. \A i \in 1..Len(outbox) : outbox[i] \in {"Online", "Telemetry"}
      BY <3>1 DEF OnlineInv, OnlyOnlineYet
    <3>3. /\ Len(outbox') = Len(outbox) - 1
          /\ \A i \in 1..Len(outbox') : outbox'[i] = outbox[i + 1]
      BY <2>2, <3>1
    <3>4. OnlyOnlineYet'
      <4>1. \A i \in 1..Len(outbox') : i + 1 \in 1..Len(outbox)
        BY <1>q, <3>3
      <4>2. QED
        BY <3>2, <3>3, <4>1 DEF OnlyOnlineYet
    <3>5. Head(outbox) \in {"Online", "Telemetry"}
      BY <2>1, <3>2
    <3>6. CASE Head(outbox) = "Online"
      BY <1>t, <2>1, <3>1, <3>4, <3>6 DEF OnlineInv, OnlineUnderWay
    <3>7. CASE Head(outbox) = "Telemetry"
      <4>1. retained' = retained
        BY <3>1, <3>7
      <4>2. ~NoOnline => ~NoOnline'
        <5>1. ASSUME NEW i \in 1..Len(outbox), outbox[i] = "Online" PROVE ~NoOnline'
          <6>1. i # 1
            BY <2>1, <3>7, <5>1
          <6>2. i - 1 \in 1..Len(outbox') /\ outbox'[i - 1] = "Online"
            BY <1>q, <3>3, <5>1, <6>1
          <6>3. QED
            BY <6>2 DEF NoOnline
        <5>2. QED
          BY <5>1 DEF NoOnline
      <4>3. OnlineUnderWay'
        BY <2>1, <3>1, <4>1, <4>2 DEF OnlineInv, OnlineUnderWay, EventAhead
      <4>4. QED
        BY <1>t, <3>4, <4>3 DEF OnlineInv
    <3>8. QED
      BY <3>5, <3>6, <3>7
  <2>5. QED
    BY <2>3, <2>4
<1>6. CASE Leave \/ BeginFlush
  <2>1. eventLoop' # "running"
    BY <1>6 DEF Leave, BeginFlush
  <2>2. QED
    BY <1>t, <2>1 DEF OnlineInv, OnlyOnlineYet, OnlineUnderWay
<1>7. CASE Receive
  <2>1. /\ inbox \in Seq({"Connected", "Other"}) /\ inbox # <<>> /\ ~lagged
        /\ inbox' = Tail(inbox) /\ publisher = "select"
        /\ publisher' = IF Head(inbox) = "Connected" THEN "publish" ELSE "select"
        /\ UNCHANGED <<boot, retained, link, outbox, eventLoop, lagged>>
    BY <1>7, <1>t DEF Receive, TypeOK, publisherFrame, brokerVars, transportVars
  <2>2. /\ Len(inbox') = Len(inbox) - 1 /\ Head(inbox) = inbox[1] /\ Len(inbox) \in Nat
        /\ \A i \in 1..Len(inbox') : inbox'[i] = inbox[i + 1]
    BY <2>1, HeadTailProperties
  <2>3. EventAhead => publisher' = "publish" \/ EventAhead'
    <3>1. ASSUME NEW i \in 1..Len(inbox), inbox[i] = "Connected",
                 Head(inbox) # "Connected"
          PROVE  EventAhead'
      <4>1. i - 1 \in 1..Len(inbox') /\ inbox'[i - 1] = "Connected"
        BY <2>2, <3>1
      <4>2. QED
        BY <4>1 DEF EventAhead
    <3>2. QED
      BY <2>1, <3>1 DEF EventAhead
  <2>4. OnlyOnlineYet' /\ OnlineUnderWay'
    BY <2>1, <2>3 DEF OnlineInv, OnlyOnlineYet, OnlineUnderWay, NoOnline
  <2>5. QED
    BY <1>t, <2>4 DEF OnlineInv
<1>8. CASE ReceiveLagged
  <2>1. publisher' = "publish" /\ UNCHANGED <<outbox, eventLoop>>
    BY <1>8 DEF ReceiveLagged, publisherFrame, transportVars
  <2>2. OnlyOnlineYet' /\ OnlineUnderWay'
    BY <2>1 DEF OnlineInv, OnlyOnlineYet, OnlineUnderWay
  <2>3. QED
    BY <1>t, <2>2 DEF OnlineInv
<1>9. CASE PublishOnline
  <2>1. Queue("Online") /\ UNCHANGED eventLoop
    BY <1>9 DEF PublishOnline, publisherFrame, transportVars
  <2>2. OnlyOnlineYet' /\ (eventLoop' = "running" => ~NoOnline')
    BY <2>1, QueueAhead
  <2>3. QED
    BY <1>t, <2>2 DEF OnlineInv, OnlineUnderWay
<1>10. CASE PublishTelemetry
  <2>1. /\ Queue("Telemetry")
        /\ UNCHANGED <<boot, retained, link, eventLoop, inbox, lagged, publisher>>
    BY <1>10 DEF PublishTelemetry, brokerVars, transportVars, publisherVars
  <2>2. OnlyOnlineYet' /\ (eventLoop = "running" => (~NoOnline => ~NoOnline'))
    BY <2>1, QueueAhead
  <2>3. OnlineUnderWay'
    BY <2>1, <2>2 DEF OnlineInv, OnlineUnderWay, EventAhead
  <2>4. QED
    BY <1>t, <2>2, <2>3 DEF OnlineInv
<1>11. QED
  BY <1>1, <1>2, <1>3, <1>4, <1>5, <1>6, <1>7, <1>8, <1>9, <1>10
  DEF Next, Transport, Publisher

(* The safety behind OnlineFollowsConnect, for every capacity and whatever  *)
(* else is queued: until the publisher ends, no connection of the running   *)
(* event loop is forgotten, in particular not when its event is overwritten *)
(* (status.rs:94-113).                                                      *)
THEOREM OnlineNeverForgotten == Spec => []OnlineUnderWay
<1>1. OnlineInv => OnlineUnderWay
  BY DEF OnlineInv
<1>2. QED
  BY <1>1, InitOnline, NextOnline, PTL DEF Spec
=============================================================================
