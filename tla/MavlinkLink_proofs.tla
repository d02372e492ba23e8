-------------------------- MODULE MavlinkLink_proofs --------------------------
(***************************************************************************)
(* Proofs about MavlinkLink: what the sniffer takes for a flight           *)
(* controller, what the drone component sends, and what the reporter       *)
(* queues for its two targets, for every number of systems, connections    *)
(* and frames.                                                             *)
(***************************************************************************)
EXTENDS MavlinkLink, SequenceTheorems, FiniteSetTheorems, TLAPS

(* The outgoing queue, within its capacity.                                 *)
QueueInv ==
  /\ \E S : outgoing \in Seq(S)
  /\ Len(outgoing) <= OUTGOING_CAPACITY

(* Every frame that the next tick may send was queued on this connection.   *)
FreshInv ==
  /\ connects \in Nat
  /\ drone = "up" => \A i \in 1..Len(outgoing) : outgoing[i].made = connects
  /\ FreshFrames

(* A real flight controller was heard.                                      *)
Heard == get_fc_sysids \cap Vehicles # {}

(* No heartbeat of the node is under way before one was heard.              *)
GenuineInv ==
  /\ DiscoveryGenuine
  /\ beat \in [Loop -> {"wait", "beat"}]
  /\ \A l \in Loop : beat[l] # "wait" => Heard
  /\ \A i \in 1..Len(outgoing) : outgoing[i].kind = "heartbeat" => Heard
  /\ \A s \in air : s \in Vehicles \cup Others \/ Heard

(* Room that was found for the pair is still there, and the first frame of  *)
(* it is what the second target lacks.                                      *)
PairInv ==
  /\ reporter \in {"sleep", "check", "gcs", "bs"}
  /\ raced \in BOOLEAN
  /\ shown = [t \in Target |-> shown[t]]
  /\ ~raced /\ reporter # "bs" => shown[gcs_sysid] = shown[bs_sysid]
  /\ ~raced /\ reporter = "gcs" => Len(outgoing) + 2 <= OUTGOING_CAPACITY
  /\ ~raced /\ reporter = "bs" => /\ shown[gcs_sysid] = shown[bs_sysid] \cup {Body}
                                  /\ Len(outgoing) + 1 <= OUTGOING_CAPACITY

-----------------------------------------------------------------------------
(* The queue.                                                               *)

(* A frame is queued.                                                       *)
Queues(f) ==
  /\ Len(outgoing) < OUTGOING_CAPACITY
  /\ outgoing' = Append(outgoing, f)

LEMMA Appended ==
  ASSUME NEW S, NEW q \in Seq(S), NEW f
  PROVE  /\ Append(q, f) \in Seq(S \cup {f})
         /\ Len(q) \in Nat
         /\ Len(Append(q, f)) = Len(q) + 1
         /\ \A i \in 1..(Len(q) + 1) :
              Append(q, f)[i] = IF i = Len(q) + 1 THEN f ELSE q[i]
<1>1. q \in Seq(S \cup {f})
  OBVIOUS
<1> QED
  BY <1>1, AppendProperties

(* A bound on the frames in the queue: what holds of all of them, and of    *)
(* one that is queued, holds of all of them then.                           *)
LEMMA QueuedFrames ==
  ASSUME QueueInv, NEW f, Queues(f)
  PROVE  /\ QueueInv'
         /\ Len(outgoing') = Len(outgoing) + 1
         /\ \A i \in 1..Len(outgoing') :
              \/ outgoing'[i] = f
              \/ i \in 1..Len(outgoing) /\ outgoing'[i] = outgoing[i]
<1>1. PICK S : outgoing \in Seq(S)
  BY DEF QueueInv
<1>2. /\ outgoing' \in Seq(S \cup {f})
      /\ Len(outgoing) \in Nat
      /\ Len(outgoing') = Len(outgoing) + 1
      /\ \A i \in 1..(Len(outgoing) + 1) :
           outgoing'[i] = IF i = Len(outgoing) + 1 THEN f ELSE outgoing[i]
  BY <1>1, Appended DEF Queues
<1>3. Len(outgoing) + 1 <= OUTGOING_CAPACITY
  BY <1>2, SizeAssumption DEF Queues
<1>4. \A i \in 1..(Len(outgoing) + 1) : i = Len(outgoing) + 1 \/ i \in 1..Len(outgoing)
  BY <1>2
<1> QED
  BY <1>2, <1>3, <1>4 DEF QueueInv

(* The queue is emptied.                                                    *)
LEMMA EmptyQueue ==
  ASSUME outgoing' = <<>>
  PROVE  QueueInv' /\ Len(outgoing') = 0
<1>1. <<>> \in Seq({}) /\ Len(<<>>) = 0
  BY EmptySeq
<1>2. 0 <= OUTGOING_CAPACITY
  BY SizeAssumption
<1> QED
  BY <1>1, <1>2 DEF QueueInv

(* The steps, by what they do to the queue.                                 *)
Drains == Connect \/ \E n \in 0..Len(outgoing) : Tick(n)
Beating == \E l \in Loop : Beat(l)
Sending == SendToGcs \/ SendToBs
Still == \/ Sniffer \/ (\E l \in Loop : StartBeating(l)) \/ StartReport \/ Check \/ Cancel
         \/ UNCHANGED vars

LEMMA Steps ==
  ASSUME [Next]_vars
  PROVE  Drains \/ Beating \/ Sending \/ Still
BY DEF Next, Drone, Beats, Report, Drains, Beating, Sending, Still

LEMMA StillQueue ==
  ASSUME Still
  PROVE  UNCHANGED <<outgoing, connects, drone, wire>>
BY DEF Still, Sniffer, SnifferConnect, SnifferLost, Hear, handle_heartbeat, StartBeating,
   StartReport, Check, Cancel, snifferFrame, droneVars, beatFrame, reportFrame, vars

LEMMA DrainedQueue ==
  ASSUME Drains
  PROVE  outgoing' = <<>>
BY DEF Drains, Connect, Tick

(* A frame that is queued was made now; a heartbeat by a loop that beats.   *)
LEMMA QueuedNow ==
  ASSUME Beating \/ Sending
  PROVE  /\ UNCHANGED <<connects, drone, wire>>
         /\ \/ UNCHANGED outgoing
            \/ \E f : /\ Queues(f)
                      /\ f.made = Made
                      /\ f.kind = "heartbeat" => \E l \in Loop : beat[l] = "beat"
<1>1. CASE Beating
  <2>1. PICK l \in Loop : Beat(l)
    BY <1>1 DEF Beating
  <2>2. Heartbeat(l).made = Made /\ beat[l] = "beat"
    BY <2>1 DEF Heartbeat, Beat
  <2>3. UNCHANGED outgoing \/ Queues(Heartbeat(l))
    BY <2>1 DEF Beat, Queues
  <2>4. UNCHANGED <<connects, drone, wire>>
    BY <2>1 DEF Beat, beatFrame, droneVars
  <2> QED
    BY <2>2, <2>3, <2>4
<1>2. CASE Sending
  <2>1. build_command_long.made = Made /\ build_command_long.kind # "heartbeat"
    BY DEF build_command_long
  <2>2. UNCHANGED outgoing \/ Queues(build_command_long)
    BY <1>2 DEF Sending, SendToGcs, SendToBs, TrySend, Queues
  <2>3. UNCHANGED <<connects, drone, wire>>
    BY <1>2 DEF Sending, SendToGcs, SendToBs, reportFrame, droneVars
  <2> QED
    BY <2>1, <2>2, <2>3
<1> QED
  BY <1>1, <1>2

LEMMA QueueNext ==
  ASSUME QueueInv, [Next]_vars
  PROVE  QueueInv'
<1>1. CASE Still
  BY <1>1, StillQueue DEF QueueInv
<1>2. CASE Drains
  BY <1>2, DrainedQueue, EmptyQueue
<1>3. CASE Beating \/ Sending
  <2>1. CASE UNCHANGED outgoing
    BY <2>1 DEF QueueInv
  <2>2. CASE \E f : Queues(f)
    BY <2>2, QueuedFrames
  <2> QED
    BY <1>3, <2>1, <2>2, QueuedNow
<1> QED
  BY <1>1, <1>2, <1>3, Steps

-----------------------------------------------------------------------------
(* Frames of an outage.                                                     *)
LEMMA FreshNext ==
  ASSUME QueueInv, FreshInv, [Next]_vars
  PROVE  FreshInv'
<1>1. CASE Still
  BY <1>1, StillQueue DEF FreshInv, FreshFrames
<1>2. CASE Connect
  <2>1. connects' \in Nat
    BY <1>2 DEF Connect, FreshInv
  <2>2. outgoing' = <<>> /\ wire' = {}
    BY <1>2 DEF Connect
  <2>3. \A i \in 1..Len(outgoing') : FALSE
    BY <2>2, EmptyQueue
  <2> QED
    BY <2>1, <2>2, <2>3 DEF FreshInv, FreshFrames
<1>3. CASE \E n \in 0..Len(outgoing) : Tick(n)
  <2>1. PICK n \in 0..Len(outgoing) : Tick(n)
    BY <1>3
  <2>2. /\ drone = "up" /\ outgoing' = <<>> /\ UNCHANGED connects
        /\ wire' = {outgoing[i] : i \in 1..n}
    BY <2>1 DEF Tick
  <2>3. \A i \in 1..n : i \in 1..Len(outgoing)
    <3>1. Len(outgoing) \in Nat
      BY DEF QueueInv
    <3> QED
      BY <3>1
  <2>4. \A i \in 1..Len(outgoing') : FALSE
    BY <2>2, EmptyQueue
  <2> QED
    BY <2>2, <2>3, <2>4 DEF FreshInv, FreshFrames
<1>4. CASE Beating \/ Sending
  <2>1. CASE UNCHANGED outgoing
    BY <1>4, <2>1, QueuedNow DEF FreshInv, FreshFrames
  <2>2. CASE \E f : Queues(f) /\ f.made = Made
    <3>1. PICK f : Queues(f) /\ f.made = Made
      BY <2>2
    <3>2. \A i \in 1..Len(outgoing') :
            \/ outgoing'[i] = f
            \/ i \in 1..Len(outgoing) /\ outgoing'[i] = outgoing[i]
      BY <3>1, QueuedFrames
    <3> QED
      BY <1>4, <3>1, <3>2, QueuedNow DEF FreshInv, FreshFrames, Made
  <2> QED
    BY <1>4, <2>1, <2>2, QueuedNow
<1> QED
  BY <1>1, <1>2, <1>3, <1>4, Steps DEF Drains

(* No frame of an outage or of an earlier connection is ever sent, however  *)
(* many connections there are (drone_component.rs:46-47).                   *)
THEOREM FramesAlwaysFresh == Spec => []FreshFrames
<1>1. Init => QueueInv /\ FreshInv
  <2> SUFFICES ASSUME Init PROVE QueueInv /\ FreshInv
    OBVIOUS
  <2>1. outgoing = <<>> /\ Len(<<>>) = 0 /\ <<>> \in Seq({})
    BY EmptySeq DEF Init
  <2>2. 0 <= OUTGOING_CAPACITY
    BY SizeAssumption
  <2>3. QueueInv
    BY <2>1, <2>2 DEF QueueInv
  <2> QED
    BY <2>1, <2>3 DEF Init, FreshInv, FreshFrames
<1>2. (QueueInv /\ FreshInv) /\ [Next]_vars => (QueueInv /\ FreshInv)'
  BY QueueNext, FreshNext
<1>3. FreshInv => FreshFrames
  BY DEF FreshInv
<1> QED
  BY <1>1, <1>2, <1>3, PTL DEF Spec

-----------------------------------------------------------------------------
(* The node's own heartbeats.                                               *)

(* A system that was discovered stays.                                      *)
LEMMA HeardStays ==
  ASSUME [Next]_vars
  PROVE  Heard => Heard'
<1>1. available_systems \subseteq available_systems'
  BY Steps DEF Drains, Beating, Sending, Still, Sniffer, SnifferConnect, SnifferLost, Hear,
     handle_heartbeat, StartBeating, StartReport, Check, Cancel, Connect, Tick, Beat,
     SendToGcs, SendToBs, snifferFrame, droneFrame, beatFrame, reportFrame, snifferVars, vars
<1> QED
  BY <1>1 DEF Heard, get_fc_sysids

(* What the sniffer reads from air: at first only a vehicle can be taken    *)
(* for a flight controller, and no configured id is one.                    *)
LEMMA HeartbeatHandled ==
  ASSUME GenuineInv, NEW s \in air, handle_heartbeat(s)
  PROVE  DiscoveryGenuine'
<1>1. CASE Heard
  BY <1>1 DEF handle_heartbeat, Heard, DiscoveryGenuine, get_fc_sysids
<1>2. CASE ~Heard
  <2>1. get_fc_sysids = {}
    BY <1>2 DEF GenuineInv, DiscoveryGenuine, Heard
  <2>2. s \in Vehicles \cup Others
    BY <1>2 DEF GenuineInv
  <2>3. CASE s \in Vehicles
    BY <2>1, <2>3, VehiclesAssumption DEF handle_heartbeat, DiscoveryGenuine, get_fc_sysids
  <2>4. CASE s \in Others
    BY <2>1, <2>4, VehiclesAssumption DEF handle_heartbeat, DiscoveryGenuine, get_fc_sysids
  <2> QED
    BY <2>2, <2>3, <2>4
<1> QED
  BY <1>1, <1>2

LEMMA DiscoveryNext ==
  ASSUME GenuineInv, [Next]_vars
  PROVE  DiscoveryGenuine'
<1>1. CASE UNCHANGED available_systems
  BY <1>1 DEF GenuineInv, DiscoveryGenuine, get_fc_sysids
<1>2. CASE \E s \in air : handle_heartbeat(s)
  BY <1>2, HeartbeatHandled
<1>3. UNCHANGED available_systems \/ \E s \in air : handle_heartbeat(s)
  BY Steps DEF Drains, Beating, Sending, Still, Sniffer, SnifferConnect, SnifferLost, Hear,
     StartBeating, StartReport, Check, Cancel, Connect, Tick, Beat,
     SendToGcs, SendToBs, snifferFrame, droneFrame, beatFrame, reportFrame, snifferVars, vars
<1> QED
  BY <1>1, <1>2, <1>3

LEMMA LoopsNext ==
  ASSUME GenuineInv, [Next]_vars
  PROVE  /\ beat' \in [Loop -> {"wait", "beat"}]
         /\ \A l \in Loop : beat'[l] # "wait" => Heard'
<1>1. CASE \E l \in Loop : StartBeating(l)
  <2>1. PICK l \in Loop : StartBeating(l)
    BY <1>1
  <2>2. Heard
    BY <2>1 DEF StartBeating, GenuineInv, DiscoveryGenuine, Heard
  <2>3. beat' \in [Loop -> {"wait", "beat"}]
    BY <2>1 DEF StartBeating, GenuineInv
  <2> QED
    BY <2>2, <2>3, HeardStays
<1>2. CASE UNCHANGED beat
  BY <1>2, HeardStays DEF GenuineInv
<1>3. UNCHANGED beat \/ \E l \in Loop : StartBeating(l)
  BY Steps DEF Drains, Beating, Sending, Still, Sniffer, SnifferConnect, SnifferLost, Hear,
     handle_heartbeat, StartReport, Check, Cancel, Connect, Tick, Beat,
     SendToGcs, SendToBs, snifferFrame, droneFrame, reportFrame, beatVars, vars
<1> QED
  BY <1>1, <1>2, <1>3

LEMMA FramesNext ==
  ASSUME QueueInv, GenuineInv, [Next]_vars
  PROVE  \A i \in 1..Len(outgoing') : outgoing'[i].kind = "heartbeat" => Heard'
<1>1. CASE Still
  BY <1>1, StillQueue, HeardStays DEF GenuineInv
<1>2. CASE Drains
  <2>1. \A i \in 1..Len(outgoing') : FALSE
    BY <1>2, DrainedQueue, EmptyQueue
  <2> QED
    BY <2>1
<1>3. CASE Beating \/ Sending
  <2>1. CASE UNCHANGED outgoing
    BY <2>1, HeardStays DEF GenuineInv
  <2>2. CASE \E f : Queues(f) /\ (f.kind = "heartbeat" => \E l \in Loop : beat[l] = "beat")
    <3>1. PICK f : Queues(f) /\ (f.kind = "heartbeat" => \E l \in Loop : beat[l] = "beat")
      BY <2>2
    <3>2. \A i \in 1..Len(outgoing') :
            \/ outgoing'[i] = f
            \/ i \in 1..Len(outgoing) /\ outgoing'[i] = outgoing[i]
      BY <3>1, QueuedFrames
    <3>3. f.kind = "heartbeat" => Heard
      BY <3>1 DEF GenuineInv
    <3> QED
      BY <3>2, <3>3, HeardStays DEF GenuineInv
  <2> QED
    BY <1>3, <2>1, <2>2, QueuedNow
<1> QED
  BY <1>1, <1>2, <1>3, Steps

LEMMA AirNext ==
  ASSUME QueueInv, GenuineInv, [Next]_vars
  PROVE  \A s \in air' : s \in Vehicles \cup Others \/ Heard'
<1>1. CASE \E n \in 0..Len(outgoing) : Tick(n)
  <2>1. PICK n \in 0..Len(outgoing) : Tick(n)
    BY <1>1
  <2>2. \A i \in 1..n : i \in 1..Len(outgoing)
    <3>1. Len(outgoing) \in Nat
      BY DEF QueueInv
    <3> QED
      BY <3>1
  <2>3. ASSUME NEW s \in air', s \notin air
        PROVE  Heard
    <3>1. PICK i \in 1..n : outgoing[i].kind = "heartbeat"
      BY <2>1, <2>3 DEF Tick
    <3> QED
      BY <2>2, <3>1 DEF GenuineInv
  <2> QED
    BY <2>3, HeardStays DEF GenuineInv
<1>2. CASE \E v \in Vehicles \cup Others : Hear(v)
  BY <1>2, HeardStays DEF Hear, GenuineInv
<1>3. CASE air' \subseteq air
  BY <1>3, HeardStays DEF GenuineInv
<1>4. \/ air' \subseteq air \/ (\E n \in 0..Len(outgoing) : Tick(n))
      \/ \E v \in Vehicles \cup Others : Hear(v)
  BY Steps DEF Drains, Beating, Sending, Still, Sniffer, SnifferConnect, SnifferLost,
     handle_heartbeat, StartBeating, StartReport, Check, Cancel, Connect, Beat,
     SendToGcs, SendToBs, snifferFrame, droneFrame, beatFrame, reportFrame, snifferVars, vars
<1> QED
  BY <1>1, <1>2, <1>3, <1>4

LEMMA QueueInit ==
  ASSUME Init
  PROVE  QueueInv /\ Len(outgoing) = 0
<1>1. outgoing = <<>> /\ Len(<<>>) = 0 /\ <<>> \in Seq({})
  BY EmptySeq DEF Init
<1>2. 0 <= OUTGOING_CAPACITY
  BY SizeAssumption
<1> QED
  BY <1>1, <1>2 DEF QueueInv

(* Among the flight controllers that the node has discovered there is       *)
(* always a real one: its own heartbeats, which the router returns, start   *)
(* only afterwards (drone_component.rs, sniffer_component.rs:147).          *)
THEOREM DiscoveryAlwaysGenuine == Spec => []DiscoveryGenuine
<1>1. Init => QueueInv /\ GenuineInv
  <2> SUFFICES ASSUME Init PROVE QueueInv /\ GenuineInv
    OBVIOUS
  <2>1. \A i \in 1..Len(outgoing) : FALSE
    BY QueueInit
  <2>2. get_fc_sysids = {}
    BY DEF Init, get_fc_sysids
  <2> QED
    BY <2>1, <2>2, QueueInit DEF Init, GenuineInv, DiscoveryGenuine
<1>2. (QueueInv /\ GenuineInv) /\ [Next]_vars => (QueueInv /\ GenuineInv)'
  BY QueueNext, DiscoveryNext, LoopsNext, FramesNext, AirNext DEF GenuineInv
<1>3. GenuineInv => DiscoveryGenuine
  BY DEF GenuineInv
<1> QED
  BY <1>1, <1>2, <1>3, PTL DEF Spec

-----------------------------------------------------------------------------
(* The pair of frames of a message.                                         *)

LEMMA TargetsDiffer == gcs_sysid # bs_sysid /\ Target = {gcs_sysid, bs_sysid}
BY SysidAssumption DEF Target

LEMMA QueueLength ==
  ASSUME QueueInv
  PROVE  Len(outgoing) \in Nat
BY DEF QueueInv

(* A check that finds room, in numbers.                                     *)
LEMMA RoomForTwo ==
  ASSUME NEW n \in Nat, n <= OUTGOING_CAPACITY, ~(OUTGOING_CAPACITY - n < 2)
  PROVE  n + 2 <= OUTGOING_CAPACITY
BY SizeAssumption

LEMMA RoomForOne ==
  ASSUME NEW n \in Nat, n + 2 <= OUTGOING_CAPACITY
  PROVE  n < OUTGOING_CAPACITY /\ (n + 1) + 1 <= OUTGOING_CAPACITY
BY SizeAssumption

LEMMA RoomForLast ==
  ASSUME NEW n \in Nat, n + 1 <= OUTGOING_CAPACITY
  PROVE  n < OUTGOING_CAPACITY
BY SizeAssumption

LEMMA RoomStays ==
  ASSUME NEW n \in Nat, NEW m \in Nat, n <= m, NEW k \in Nat, m + k <= OUTGOING_CAPACITY
  PROVE  n + k <= OUTGOING_CAPACITY
BY SizeAssumption

(* The steps of the other tasks: they leave the tick alone, and the queue   *)
(* gets longer only if they say so.                                         *)
LEMMA Elsewhere ==
  ASSUME QueueInv, PairInv, UNCHANGED reportVars, raced' \in BOOLEAN, raced => raced',
         \/ outgoing' = <<>>
         \/ UNCHANGED outgoing
         \/ raced' \/ reporter \notin {"gcs", "bs"}
  PROVE  PairInv'
<1>1. UNCHANGED <<reporter, shown, lte, message>> /\ Body' = Body
  BY DEF reportVars, Body, build_lte_radio_telemetry, build_lte_ip_telemetry,
     build_neighbor_telemetry, Slot
<1>2. CASE raced' \/ reporter \notin {"gcs", "bs"}
  BY <1>1, <1>2 DEF PairInv
<1>3. CASE outgoing' = <<>> \/ UNCHANGED outgoing
  <2>1. Len(outgoing') \in Nat /\ Len(outgoing) \in Nat /\ Len(outgoing') <= Len(outgoing)
    <3>1. Len(outgoing) \in Nat
      BY QueueLength
    <3>2. CASE outgoing' = <<>>
      BY <3>1, <3>2, EmptyQueue
    <3>3. CASE UNCHANGED outgoing
      BY <3>1, <3>3
    <3> QED
      BY <1>3, <3>2, <3>3
  <2>2. Len(outgoing) + 2 <= OUTGOING_CAPACITY => Len(outgoing') + 2 <= OUTGOING_CAPACITY
    BY <2>1, RoomStays
  <2>3. Len(outgoing) + 1 <= OUTGOING_CAPACITY => Len(outgoing') + 1 <= OUTGOING_CAPACITY
    BY <2>1, RoomStays
  <2> QED
    BY <1>1, <2>2, <2>3 DEF PairInv
<1> QED
  BY <1>2, <1>3

LEMMA PairNext ==
  ASSUME QueueInv, PairInv, [Next]_vars
  PROVE  PairInv'
<1>1. CASE Drains
  <2>1. UNCHANGED <<reportVars, raced>> /\ outgoing' = <<>>
    BY <1>1, DrainedQueue DEF Drains, Connect, Tick, droneFrame
  <2> QED
    BY <2>1, Elsewhere DEF PairInv
<1>2. CASE Beating
  <2>1. PICK l \in Loop : Beat(l)
    BY <1>2 DEF Beating
  <2>2. UNCHANGED reportVars /\ raced' = (raced \/ reporter \in {"gcs", "bs"})
    BY <2>1 DEF Beat, beatFrame
  <2>3. /\ raced' \in BOOLEAN /\ (raced => raced')
        /\ (raced' \/ reporter \notin {"gcs", "bs"})
    BY <2>2, Zenon DEF PairInv
  <2> QED
    BY <2>2, <2>3, Elsewhere
<1>3. CASE Sniffer \/ (\E l \in Loop : StartBeating(l)) \/ Cancel \/ UNCHANGED vars
  <2>1. UNCHANGED <<reportVars, raced, outgoing>>
    BY <1>3 DEF Sniffer, SnifferConnect, SnifferLost, Hear, handle_heartbeat, StartBeating,
       Cancel, snifferFrame, beatFrame, reportVars, vars
  <2> QED
    BY <2>1, Elsewhere DEF PairInv
<1>4. CASE StartReport
  <2>1. /\ shown' = [t \in Target |-> {}] /\ raced' = FALSE /\ reporter' = "check"
    BY <1>4 DEF StartReport
  <2>2. shown'[gcs_sysid] = {} /\ shown'[bs_sysid] = {}
    BY <2>1, TargetsDiffer
  <2> QED
    BY <2>1, <2>2 DEF PairInv
<1>5. CASE Check
  <2>1. UNCHANGED <<shown, raced, outgoing>> /\ reporter = "check"
    BY <1>5 DEF Check
  <2>2. CASE OUTGOING_CAPACITY - Len(outgoing) < 2
    <3>1. reporter' \in {"check", "sleep"}
      BY <1>5, <2>2 DEF Check, NextMessage
    <3> QED
      BY <2>1, <3>1 DEF PairInv
  <2>3. CASE ~(OUTGOING_CAPACITY - Len(outgoing) < 2)
    <3>1. reporter' = "gcs"
      BY <1>5, <2>3 DEF Check
    <3>2. Len(outgoing) + 2 <= OUTGOING_CAPACITY
      BY <2>3, QueueLength, RoomForTwo DEF QueueInv
    <3> QED
      BY <2>1, <3>1, <3>2 DEF PairInv
  <2> QED
    BY <2>2, <2>3
<1>6. CASE SendToGcs
  <2>1. /\ reporter = "gcs" /\ reporter' = "bs" /\ UNCHANGED <<lte, message, raced>>
        /\ TrySend(gcs_sysid)
    BY <1>6 DEF SendToGcs
  <2>2. Body' = Body
    BY <2>1 DEF Body, build_lte_radio_telemetry, build_lte_ip_telemetry,
       build_neighbor_telemetry, Slot
  <2>3. shown' = [t \in Target |-> shown'[t]]
    BY <2>1, TargetsDiffer DEF TrySend, PairInv
  <2>4. CASE raced
    BY <2>1, <2>3, <2>4 DEF PairInv
  <2>5. CASE ~raced
    <3>1. Len(outgoing) \in Nat /\ Len(outgoing) + 2 <= OUTGOING_CAPACITY
      BY <2>1, <2>5, QueueLength DEF PairInv
    <3>2. Len(outgoing) < OUTGOING_CAPACITY /\ (Len(outgoing) + 1) + 1 <= OUTGOING_CAPACITY
      BY <3>1, RoomForOne
    <3>3. Queues(build_command_long) /\ shown' = [shown EXCEPT ![gcs_sysid] = @ \cup {Body}]
      BY <2>1, <3>2 DEF TrySend, Queues
    <3>4. Len(outgoing') = Len(outgoing) + 1
      BY <3>3, QueuedFrames
    <3>5. shown'[gcs_sysid] = shown'[bs_sysid] \cup {Body}
      <4>1. shown = [t \in Target |-> shown[t]] /\ shown[gcs_sysid] = shown[bs_sysid]
        BY <2>1, <2>5 DEF PairInv
      <4> QED
        BY <3>3, <4>1, TargetsDiffer
    <3> QED
      BY <2>1, <2>2, <2>3, <3>2, <3>4, <3>5 DEF PairInv
  <2> QED
    BY <2>4, <2>5
<1>7. CASE SendToBs
  <2>1. reporter = "bs" /\ UNCHANGED raced /\ TrySend(bs_sysid) /\ NextMessage
    BY <1>7 DEF SendToBs
  <2>2. reporter' \in {"check", "sleep"}
    BY <2>1 DEF NextMessage
  <2>3. shown' = [t \in Target |-> shown'[t]]
    BY <2>1, TargetsDiffer DEF TrySend, PairInv
  <2>4. CASE raced
    BY <2>1, <2>2, <2>3, <2>4 DEF PairInv
  <2>5. CASE ~raced
    <3>1. Len(outgoing) < OUTGOING_CAPACITY
      BY <2>1, <2>5, QueueLength, RoomForLast DEF PairInv
    <3>2. shown' = [shown EXCEPT ![bs_sysid] = @ \cup {Body}]
      BY <2>1, <3>1 DEF TrySend
    <3>3. shown = [t \in Target |-> shown[t]] /\ shown[gcs_sysid] = shown[bs_sysid] \cup {Body}
      BY <2>1, <2>5 DEF PairInv
    <3>4. shown'[gcs_sysid] = shown'[bs_sysid]
      BY <3>2, <3>3, TargetsDiffer
    <3> QED
      BY <2>1, <2>2, <2>3, <3>4 DEF PairInv
  <2> QED
    BY <2>4, <2>5
<1> QED
  BY <1>1, <1>2, <1>3, <1>4, <1>5, <1>6, <1>7, Steps DEF Still, Sending

(* At the end of each pair both targets have the same messages of the tick, *)
(* unless another producer queued a frame since room was found for both:    *)
(* however full the queue is and however often it is emptied                *)
(* (telemetry_reporter.rs:123-124).                                         *)
THEOREM AlwaysBothOrNeither == Spec => []BothOrNeither
<1>1. Init => QueueInv /\ PairInv
  <2> SUFFICES ASSUME Init PROVE QueueInv /\ PairInv
    OBVIOUS
  <2>1. shown = [t \in Target |-> {}] /\ raced = FALSE /\ reporter = "sleep"
    BY DEF Init
  <2>2. shown[gcs_sysid] = {} /\ shown[bs_sysid] = {}
    BY <2>1, TargetsDiffer
  <2> QED
    BY <2>1, <2>2, QueueInit DEF PairInv
<1>2. (QueueInv /\ PairInv) /\ [Next]_vars => (QueueInv /\ PairInv)'
  BY QueueNext, PairNext
<1>3. PairInv => BothOrNeither
  BY DEF PairInv, BothOrNeither
<1> QED
  BY <1>1, <1>2, <1>3, PTL DEF Spec

-----------------------------------------------------------------------------
(* The reading that a tick shows.                                           *)

(* How many of a set of numbers come before one of them.                    *)
Place(S, c) == Cardinality({d \in S : d < c})

(* Places are in the order of the numbers, and below their number.          *)
LEMMA Places ==
  ASSUME NEW S \in SUBSET Nat, IsFiniteSet(S)
  PROVE  /\ Cardinality(S) \in Nat
         /\ \A c \in S : Place(S, c) \in Nat /\ Place(S, c) < Cardinality(S)
         /\ \A c, d \in S : Place(S, c) < Place(S, d) <=> c < d
         /\ \A c, d \in S : Place(S, c) = Place(S, d) => c = d
<1> DEFINE Before(c) == {e \in S : e < c}
<1>1. Cardinality(S) \in Nat
  BY FS_CardinalityType
<1>2. ASSUME NEW c \in S
      PROVE  Place(S, c) \in Nat /\ Place(S, c) < Cardinality(S)
  <2>1. Before(c) \in SUBSET S /\ Before(c) # S
    <3>1. c \notin Before(c)
      OBVIOUS
    <3> QED
      BY <3>1
  <2>2. IsFiniteSet(Before(c)) /\ Cardinality(Before(c)) <= Cardinality(S)
        /\ Cardinality(S) # Cardinality(Before(c))
    BY <2>1, FS_Subset
  <2>3. Cardinality(Before(c)) \in Nat
    BY <2>2, FS_CardinalityType
  <2> QED
    BY <1>1, <2>2, <2>3 DEF Place
<1>3. ASSUME NEW c \in S, NEW d \in S, c < d
      PROVE  Place(S, c) < Place(S, d)
  <2>1. Before(d) \in SUBSET S
    OBVIOUS
  <2>2. IsFiniteSet(Before(d))
    BY <2>1, FS_Subset
  <2>3. Before(c) \in SUBSET Before(d) /\ Before(c) # Before(d)
    <3>1. c \in Nat /\ d \in Nat
      OBVIOUS
    <3>2. c \in Before(d) /\ c \notin Before(c)
      BY <1>3, <3>1
    <3>3. \A e \in Nat : e < c => e < d
      BY <1>3, <3>1
    <3> QED
      BY <3>2, <3>3
  <2>4. Cardinality(Before(c)) <= Cardinality(Before(d))
        /\ Cardinality(Before(d)) # Cardinality(Before(c))
    BY <2>2, <2>3, FS_Subset
  <2>5. Place(S, c) = Cardinality(Before(c)) /\ Place(S, d) = Cardinality(Before(d))
    BY DEF Place
  <2>6. Place(S, c) \in Nat /\ Place(S, d) \in Nat
    BY <1>2
  <2> QED
    BY <2>4, <2>5, <2>6
<1>4. ASSUME NEW c \in S, NEW d \in S
      PROVE  /\ Place(S, c) < Place(S, d) <=> c < d
             /\ Place(S, c) = Place(S, d) => c = d
  <2>1. c \in Nat /\ d \in Nat /\ Place(S, c) \in Nat /\ Place(S, d) \in Nat
    BY <1>2
  <2>2. (c < d => Place(S, c) < Place(S, d)) /\ (d < c => Place(S, d) < Place(S, c))
    BY <1>3
  <2> QED
    BY <2>1, <2>2
<1> QED
  BY <1>1, <1>2, <1>4

(* No place is left out.                                                    *)
LEMMA PlacesFilled ==
  ASSUME NEW S \in SUBSET Nat, IsFiniteSet(S), NEW k \in Nat, k < Cardinality(S)
  PROVE  \E c \in S : Place(S, c) = k
<1> DEFINE n == Cardinality(S)
           f == [c \in S |-> Place(S, c)]
<1>1. n \in Nat
  BY Places
<1>2. f \in Injection(S, 0..(n - 1))
  <2>1. \A c \in S : Place(S, c) \in 0..(n - 1)
    BY <1>1, Places
  <2>2. f \in [S -> 0..(n - 1)]
    BY <2>1
  <2>3. \A a, b \in DOMAIN f : f[a] = f[b] => a = b
    BY Places
  <2> QED
    BY <2>2, <2>3 DEF Injection, IsInjective
<1>3. IsFiniteSet(0..(n - 1)) /\ Cardinality(0..(n - 1)) = n
  <2>1. 0 \in Int /\ n - 1 \in Int
    BY <1>1
  <2>2. /\ IsFiniteSet(0..(n - 1))
        /\ Cardinality(0..(n - 1)) = IF 0 > n - 1 THEN 0 ELSE (n - 1) - 0 + 1
    BY <2>1, FS_Interval
  <2>3. (IF 0 > n - 1 THEN 0 ELSE (n - 1) - 0 + 1) = n
    BY <1>1
  <2> QED
    BY <2>2, <2>3
<1>4. f \in Surjection(S, 0..(n - 1))
  BY <1>2, <1>3, FS_Injection
<1>5. k \in 0..(n - 1)
  BY <1>1
<1> QED
  BY <1>4, <1>5 DEF Surjection

(* The neighbours of a reading that have a slot, and the messages that tell *)
(* of it: SlotsOf(lte) is Reported, MessagesOf(lte) what Body takes from.   *)
SlotsOf(R) == {c \in R : Place(R, c) < Slots}
NeighborMessage(R, c) ==
  [subcmd |-> LteIpTelemetryNeighbors(Place(R, c)), value |-> c]
MessagesOf(R) ==
  {build_lte_radio_telemetry, [subcmd |-> LteIpTelemetry, value |-> Cardinality(R)]}
  \cup {NeighborMessage(R, c) : c \in SlotsOf(R)}

(* What was shown in a tick is of one reading, which the reporter still has *)
(* while it works; after the tick it is gone, and the history stays.        *)
ReadingInv ==
  /\ reporter \in {"sleep", "check", "gcs", "bs"}
  /\ shown = [t \in Target |-> shown[t]]
  /\ lte \in Readings \cup {{}}
  /\ message \in Nat \ {0}
  /\ message <= 2 + Cardinality(Reported)
  /\ \E R \in Readings \cup {{}} :
       /\ reporter # "sleep" => R = lte
       /\ \A t \in Target : shown[t] \subseteq MessagesOf(R)

LEMMA ReadingsFinite ==
  ASSUME NEW R \in Readings \cup {{}}
  PROVE  R \in SUBSET Nat /\ IsFiniteSet(R)
BY SizeAssumption, FS_EmptySet

LEMMA SlotIsPlace ==
  /\ \A c : Slot(c) = Place(lte, c)
  /\ Reported = SlotsOf(lte)
BY DEF Slot, Place, Reported, SlotsOf

(* There are no more reported neighbours than slots, and every slot below   *)
(* their number is that of one.                                             *)
LEMMA SlotsFilled ==
  ASSUME NEW R \in Readings \cup {{}}
  PROVE  /\ Cardinality(SlotsOf(R)) \in 0..Slots
         /\ \A k \in Nat : k < Cardinality(SlotsOf(R)) =>
              \E c \in SlotsOf(R) : Place(R, c) = k
<1> DEFINE S == SlotsOf(R)
           f == [c \in S |-> Place(R, c)]
<1>1. R \in SUBSET Nat /\ IsFiniteSet(R) /\ S \in SUBSET R
  BY ReadingsFinite DEF SlotsOf
<1>2. IsFiniteSet(S) /\ Cardinality(S) <= Cardinality(R)
  BY <1>1, FS_Subset
<1>3. Cardinality(S) \in Nat /\ Cardinality(R) \in Nat
  BY <1>1, <1>2, FS_CardinalityType
<1>4. Slots \in Nat
  BY SizeAssumption
<1>5. f \in Injection(S, 0..(Slots - 1))
  <2>1. \A c \in S : Place(R, c) \in Nat /\ Place(R, c) < Slots
    BY <1>1, Places DEF SlotsOf
  <2>2. \A c \in S : Place(R, c) \in 0..(Slots - 1)
    BY <1>4, <2>1
  <2>3. f \in [S -> 0..(Slots - 1)]
    BY <2>2
  <2>4. \A a, b \in S : Place(R, a) = Place(R, b) => a = b
    BY <1>1, Places
  <2>5. \A a, b \in DOMAIN f : f[a] = f[b] => a = b
    BY <2>4
  <2> QED
    BY <2>3, <2>5 DEF Injection, IsInjective
<1>6. IsFiniteSet(0..(Slots - 1)) /\ Cardinality(0..(Slots - 1)) = Slots
  <2>1. 0 \in Int /\ Slots - 1 \in Int
    BY <1>4
  <2>2. /\ IsFiniteSet(0..(Slots - 1))
        /\ Cardinality(0..(Slots - 1)) = IF 0 > Slots - 1 THEN 0 ELSE (Slots - 1) - 0 + 1
    BY <2>1, FS_Interval
  <2>3. (IF 0 > Slots - 1 THEN 0 ELSE (Slots - 1) - 0 + 1) = Slots
    BY <1>4
  <2> QED
    BY <2>2, <2>3
<1>7. Cardinality(S) <= Slots
  BY <1>5, <1>6, FS_Injection
<1>8. ASSUME NEW k \in Nat, k < Cardinality(S)
      PROVE  \E c \in S : Place(R, c) = k
  <2>1. k < Cardinality(R) /\ k < Slots
    BY <1>2, <1>3, <1>4, <1>7, <1>8
  <2>2. PICK c \in R : Place(R, c) = k
    BY <1>1, <2>1, PlacesFilled
  <2>3. c \in S
    BY <2>1, <2>2 DEF SlotsOf
  <2> QED
    BY <2>2, <2>3
<1> QED
  BY <1>3, <1>4, <1>7, <1>8

(* Every message of the tick is one of the reading it took.                 *)
LEMMA BodyOfReading ==
  ASSUME ReadingInv
  PROVE  Body \in MessagesOf(lte)
<1>1. lte \in Readings \cup {{}} /\ message \in Nat \ {0}
      /\ message <= 2 + Cardinality(SlotsOf(lte))
  BY SlotIsPlace DEF ReadingInv
<1>2. CASE message = 1 \/ message = 2
  BY <1>2 DEF Body, MessagesOf, build_lte_ip_telemetry
<1>3. CASE ~(message = 1 \/ message = 2)
  <2>1. /\ message - 3 \in Nat
        /\ message - 3 < Cardinality(SlotsOf(lte))
    BY <1>1, <1>3, SlotsFilled
  <2>2. PICK c \in SlotsOf(lte) : Place(lte, c) = message - 3
    BY <1>1, <2>1, SlotsFilled
  <2> DEFINE d == CHOOSE e \in lte : Slot(e) = message - 3
  <2>3. d \in lte /\ Place(lte, d) = message - 3
    BY <2>2, SlotIsPlace DEF SlotsOf
  <2>4. d \in SlotsOf(lte)
    BY <2>2, <2>3 DEF SlotsOf
  <2>5. Body = build_neighbor_telemetry(d)
    BY <1>3 DEF Body
  <2>6. build_neighbor_telemetry(d) = NeighborMessage(lte, d)
    BY SlotIsPlace DEF build_neighbor_telemetry, NeighborMessage
  <2> HIDE DEF d
  <2> QED
    BY <2>4, <2>5, <2>6 DEF MessagesOf
<1> QED
  BY <1>2, <1>3

(* The messages of one reading agree with one another.                      *)
LEMMA MessagesAgree ==
  ASSUME NEW R \in Readings \cup {{}}, NEW m \in MessagesOf(R), NEW n \in MessagesOf(R)
  PROVE  /\ m.subcmd = LteIpTelemetry /\ n.subcmd \in Neighbors =>
              n.subcmd < LteIpTelemetryNeighbors(m.value)
         /\ {m.subcmd, n.subcmd} \subseteq Neighbors =>
              (m.subcmd < n.subcmd <=> m.value < n.value)
<1>1. R \in SUBSET Nat /\ IsFiniteSet(R)
  BY ReadingsFinite
<1>2. ASSUME NEW x \in MessagesOf(R)
      PROVE  \/ x.subcmd = LteRadioTelemetry
             \/ x.subcmd = LteIpTelemetry /\ x.value = Cardinality(R)
             \/ \E c \in R : x = NeighborMessage(R, c)
  BY DEF MessagesOf, build_lte_radio_telemetry, SlotsOf
<1>3. /\ LteRadioTelemetry \notin Neighbors /\ LteIpTelemetry \notin Neighbors
      /\ LteRadioTelemetry # LteIpTelemetry
  BY DEF LteRadioTelemetry, LteIpTelemetry, Neighbors, LteIpTelemetryNeighbors
<1>4. ASSUME NEW c \in R
      PROVE  /\ NeighborMessage(R, c).subcmd = 31040 + Place(R, c)
             /\ NeighborMessage(R, c).value = c
             /\ Place(R, c) \in Nat
             /\ NeighborMessage(R, c).subcmd # LteIpTelemetry
  BY <1>1, Places DEF NeighborMessage, LteIpTelemetryNeighbors, LteIpTelemetry
<1>5. ASSUME m.subcmd = LteIpTelemetry, n.subcmd \in Neighbors
      PROVE  n.subcmd < LteIpTelemetryNeighbors(m.value)
  <2>1. m.value = Cardinality(R)
    BY <1>2, <1>3, <1>4, <1>5
  <2>2. PICK c \in R : n = NeighborMessage(R, c)
    BY <1>2, <1>3, <1>5
  <2>3. Place(R, c) < Cardinality(R) /\ Cardinality(R) \in Nat
    BY <1>1, Places
  <2>4. n.subcmd = 31040 + Place(R, c) /\ Place(R, c) \in Nat
    BY <1>4, <2>2
  <2> QED
    BY <2>1, <2>3, <2>4 DEF LteIpTelemetryNeighbors
<1>6. ASSUME {m.subcmd, n.subcmd} \subseteq Neighbors
      PROVE  m.subcmd < n.subcmd <=> m.value < n.value
  <2>1. PICK c \in R : m = NeighborMessage(R, c)
    BY <1>2, <1>3, <1>6
  <2>2. PICK d \in R : n = NeighborMessage(R, d)
    BY <1>2, <1>3, <1>6
  <2>3. Place(R, c) < Place(R, d) <=> c < d
    BY <1>1, Places
  <2>4. /\ m.subcmd = 31040 + Place(R, c) /\ m.value = c /\ Place(R, c) \in Nat
        /\ n.subcmd = 31040 + Place(R, d) /\ n.value = d /\ Place(R, d) \in Nat
    BY <1>4, <2>1, <2>2
  <2> QED
    BY <2>3, <2>4
<1> QED
  BY <1>5, <1>6

LEMMA ReadingInit ==
  ASSUME Init
  PROVE  ReadingInv
<1>1. /\ reporter = "sleep" /\ lte = {} /\ message = 1
      /\ shown = [t \in Target |-> {}]
  BY DEF Init
<1>2. Cardinality(Reported) \in Nat
  BY <1>1, SlotIsPlace, SlotsFilled
<1>3. message \in Nat \ {0} /\ message <= 2 + Cardinality(Reported)
  BY <1>1, <1>2
<1>4. /\ shown = [t \in Target |-> shown[t]]
      /\ \A t \in Target : shown[t] \subseteq MessagesOf({})
  BY <1>1
<1> QED
  BY <1>1, <1>3, <1>4 DEF ReadingInv

(* The steps that leave the tick alone.                                     *)
LEMMA ReadingStill ==
  ASSUME ReadingInv, UNCHANGED reportVars
  PROVE  ReadingInv'
BY DEF ReadingInv, reportVars, Reported, Slot

(* What a target gets is of the reading of the tick.                        *)
LEMMA SentOfReading ==
  ASSUME ReadingInv, reporter # "sleep", NEW target \in Target, TrySend(target)
  PROVE  /\ shown' = [t \in Target |-> shown'[t]]
         /\ \A t \in Target : shown'[t] \subseteq MessagesOf(lte)
<1>1. /\ shown = [t \in Target |-> shown[t]]
      /\ \A t \in Target : shown[t] \subseteq MessagesOf(lte)
  BY DEF ReadingInv
<1>2. Body \in MessagesOf(lte)
  BY BodyOfReading
<1>3. CASE UNCHANGED shown
  BY <1>1, <1>3
<1>4. CASE shown' = [shown EXCEPT ![target] = @ \cup {Body}]
  <2>1. \A t \in Target :
          shown'[t] = IF t = target THEN shown[t] \cup {Body} ELSE shown[t]
    BY <1>1, <1>4
  <2>2. shown' = [t \in Target |-> shown'[t]]
    BY <1>1, <1>4
  <2> QED
    BY <1>1, <1>2, <2>1, <2>2
<1> QED
  BY <1>3, <1>4 DEF TrySend

(* The next message, or the end of the tick: what was shown of the reading  *)
(* by then remains.                                                         *)
LEMMA NextOfReading ==
  ASSUME ReadingInv, reporter # "sleep", NextMessage,
         shown' = [t \in Target |-> shown'[t]],
         \A t \in Target : shown'[t] \subseteq MessagesOf(lte)
  PROVE  ReadingInv'
<1>1. /\ lte \in Readings \cup {{}} /\ message \in Nat \ {0}
      /\ Cardinality(Reported) \in Nat
  BY SlotIsPlace, SlotsFilled DEF ReadingInv
<1>2. CASE message < 2 + Cardinality(Reported)
  <2>1. reporter' = "check" /\ message' = message + 1 /\ UNCHANGED lte
    BY <1>2 DEF NextMessage
  <2>2. Reported' = Reported
    BY <2>1 DEF Reported, Slot
  <2>3. message' \in Nat \ {0} /\ message' <= 2 + Cardinality(Reported')
    BY <1>1, <1>2, <2>1, <2>2
  <2> QED
    BY <1>1, <2>1, <2>2, <2>3 DEF ReadingInv
<1>3. CASE ~(message < 2 + Cardinality(Reported))
  <2>1. reporter' = "sleep" /\ message' = 1 /\ lte' = {}
    BY <1>3 DEF NextMessage
  <2>2. Cardinality(Reported') \in Nat
    <3>1. Reported' = {}
      BY <2>1 DEF Reported
    <3> QED
      BY <3>1, FS_EmptySet
  <2>3. message' \in Nat \ {0} /\ message' <= 2 + Cardinality(Reported')
    BY <2>1, <2>2
  <2> QED
    BY <1>1, <2>1, <2>3 DEF ReadingInv
<1> QED
  BY <1>2, <1>3

LEMMA ReadingNext ==
  ASSUME ReadingInv, [Next]_vars
  PROVE  ReadingInv'
<1>1. CASE Drains \/ Beating \/ Sniffer \/ (\E l \in Loop : StartBeating(l)) \/ Cancel
           \/ UNCHANGED vars
  <2>1. UNCHANGED reportVars
    BY <1>1 DEF Drains, Connect, Tick, droneFrame, Beating, Beat, beatFrame, Sniffer,
       SnifferConnect, SnifferLost, Hear, handle_heartbeat, StartBeating, Cancel,
       snifferFrame, reportVars, vars
  <2> QED
    BY <2>1, ReadingStill
<1>2. CASE StartReport
  <2>1. /\ reporter' = "check" /\ message' = 1 /\ lte' \in Readings
        /\ shown' = [t \in Target |-> {}]
    BY <1>2 DEF StartReport
  <2>2. Cardinality(Reported') \in Nat
    <3>1. Reported' = SlotsOf(lte')
      BY DEF Reported, Slot, SlotsOf, Place
    <3> QED
      BY <2>1, <3>1, SlotsFilled
  <2>3. message' \in Nat \ {0} /\ message' <= 2 + Cardinality(Reported')
    BY <2>1, <2>2
  <2>4. /\ shown' = [t \in Target |-> shown'[t]]
        /\ \A t \in Target : shown'[t] \subseteq MessagesOf(lte')
    BY <2>1
  <2> QED
    BY <2>1, <2>3, <2>4 DEF ReadingInv
<1>3. CASE Check
  <2>1. reporter = "check" /\ UNCHANGED shown
    BY <1>3 DEF Check
  <2>2. CASE NextMessage
    <3>1. /\ shown' = [t \in Target |-> shown'[t]]
          /\ \A t \in Target : shown'[t] \subseteq MessagesOf(lte)
      BY <2>1 DEF ReadingInv
    <3> QED
      BY <2>1, <2>2, <3>1, NextOfReading
  <2>3. CASE reporter' = "gcs" /\ UNCHANGED <<lte, message>>
    BY <2>1, <2>3 DEF ReadingInv, Reported, Slot
  <2> QED
    BY <1>3, <2>2, <2>3 DEF Check
<1>4. CASE SendToGcs
  <2>1. /\ reporter = "gcs" /\ reporter' = "bs" /\ UNCHANGED <<lte, message>>
        /\ TrySend(gcs_sysid)
    BY <1>4 DEF SendToGcs
  <2>2. /\ shown' = [t \in Target |-> shown'[t]]
        /\ \A t \in Target : shown'[t] \subseteq MessagesOf(lte)
    BY <2>1, SentOfReading DEF Target
  <2> QED
    BY <2>1, <2>2 DEF ReadingInv, Reported, Slot
<1>5. CASE SendToBs
  <2>1. reporter = "bs" /\ TrySend(bs_sysid) /\ NextMessage
    BY <1>5 DEF SendToBs
  <2>2. /\ shown' = [t \in Target |-> shown'[t]]
        /\ \A t \in Target : shown'[t] \subseteq MessagesOf(lte)
    BY <2>1, SentOfReading DEF Target
  <2> QED
    BY <2>1, <2>2, NextOfReading
<1> QED
  BY <1>1, <1>2, <1>3, <1>4, <1>5, Steps DEF Still, Sending

(* Whatever is dropped of a tick's messages, what both targets get of them  *)
(* describes one reading: slots in the order of the cells, and within the   *)
(* number of neighbours (telemetry_reporter.rs:83), for every reading.      *)
THEOREM TickShowsOneReading == Spec => []OneReading
<1>1. Init => ReadingInv
  BY ReadingInit
<1>2. ReadingInv /\ [Next]_vars => ReadingInv'
  BY ReadingNext
<1>3. ReadingInv => OneReading
  <2> SUFFICES ASSUME ReadingInv, NEW target \in Target,
                      NEW m \in shown[target], NEW n \in shown[target]
               PROVE  /\ m.subcmd = LteIpTelemetry /\ n.subcmd \in Neighbors =>
                           n.subcmd < LteIpTelemetryNeighbors(m.value)
                      /\ {m.subcmd, n.subcmd} \subseteq Neighbors =>
                           (m.subcmd < n.subcmd <=> m.value < n.value)
    BY DEF OneReading
  <2>1. PICK R \in Readings \cup {{}} : \A t \in Target : shown[t] \subseteq MessagesOf(R)
    BY DEF ReadingInv
  <2>2. m \in MessagesOf(R) /\ n \in MessagesOf(R)
    BY <2>1
  <2> QED
    BY <2>2, MessagesAgree
<1> QED
  BY <1>1, <1>2, <1>3, PTL DEF Spec

-----------------------------------------------------------------------------
(* Types.                                                                   *)

(* A set of numbers that is not empty has a least one.                      *)
LEMMA LeastSystem ==
  ASSUME NEW S \in SUBSET (0..255), S # {}
  PROVE  Min(S) \in S
<1>1. IsFiniteSet(0..255) /\ S \in SUBSET Nat
  <2>1. 0 \in Int /\ 255 \in Int
    OBVIOUS
  <2>2. IsFiniteSet(0..255)
    BY <2>1, FS_Interval
  <2>3. 0..255 \subseteq Nat
    OBVIOUS
  <2> QED
    BY <2>2, <2>3
<1>2. IsFiniteSet(S)
  BY <1>1, FS_Subset
<1>3. Cardinality(S) \in Nat /\ Cardinality(S) # 0
  BY <1>2, FS_CardinalityType, FS_EmptySet
<1>4. 0 \in Nat /\ 0 < Cardinality(S)
  BY <1>3
<1>5. PICK c \in S : Place(S, c) = 0
  BY <1>1, <1>2, <1>4, PlacesFilled
<1>6. ASSUME NEW d \in S
      PROVE  c <= d
  <2>1. Place(S, c) \in Nat /\ Place(S, d) \in Nat /\ (Place(S, d) < Place(S, c) <=> d < c)
    BY <1>1, <1>2, Places
  <2>2. c \in Nat /\ d \in Nat
    BY <1>1
  <2> QED
    BY <1>5, <2>1, <2>2
<1> QED
  BY <1>6 DEF Min

LEMMA SelfSysidType ==
  ASSUME available_systems \subseteq 0..255
  PROVE  SelfSysid \in 0..255
<1>1. self_sysid \in 0..255
  BY SysidAssumption
<1>2. get_fc_sysids \in SUBSET (0..255)
  BY DEF get_fc_sysids
<1>3. get_fc_sysids # {} => Min(get_fc_sysids) \in 0..255
  BY <1>2, LeastSystem
<1> QED
  BY <1>1, <1>3 DEF SelfSysid

LEMMA FrameType ==
  ASSUME TypeOK
  PROVE  /\ \A l \in Loop : Heartbeat(l) \in Frame
         /\ build_command_long \in Frame
<1>1. Made \in 0..MaxConnects
  BY SizeAssumption DEF TypeOK, Made
<1>2. \A l \in Loop : Sender(l) \in 0..255
  BY SysidAssumption DEF TypeOK, Sender
<1> QED
  BY <1>1, <1>2 DEF TypeOK, Frame, Heartbeat, build_command_long

LEMMA MessageType ==
  ASSUME NEW R \in Readings \cup {{}}
  PROVE  MessagesOf(R) \subseteq Message
<1>1. R \in SUBSET Nat /\ IsFiniteSet(R)
  BY ReadingsFinite
<1>2. Cardinality(R) \in Nat
  BY <1>1, FS_CardinalityType
<1>3. ASSUME NEW c \in SlotsOf(R)
      PROVE  NeighborMessage(R, c) \in Message
  <2>1. c \in R /\ c \in Nat
    BY <1>1 DEF SlotsOf
  <2>2. Place(R, c) \in Nat /\ Place(R, c) < Slots
    BY <1>1, <2>1, Places DEF SlotsOf
  <2>3. Place(R, c) \in 0..9
    BY <2>2, SizeAssumption
  <2>4. LteIpTelemetryNeighbors(Place(R, c)) \in Subcmd
    BY <2>3 DEF Subcmd, Neighbors
  <2> QED
    BY <2>1, <2>4 DEF NeighborMessage, Message
<1>4. build_lte_radio_telemetry \in Message
  BY DEF build_lte_radio_telemetry, Message, Subcmd
<1>5. [subcmd |-> LteIpTelemetry, value |-> Cardinality(R)] \in Message
  BY <1>2 DEF Message, Subcmd
<1> QED
  BY <1>3, <1>4, <1>5 DEF MessagesOf

(* The queue of frames within its capacity, and what a tick sends of it.    *)
FramesOK ==
  /\ outgoing \in Seq(Frame)
  /\ Len(outgoing) <= OUTGOING_CAPACITY
  /\ wire \subseteq Frame

LEMMA FramesTypeNext ==
  ASSUME TypeOK, [Next]_vars
  PROVE  FramesOK'
<1>1. FramesOK /\ Len(outgoing) \in Nat
  BY DEF TypeOK, FramesOK
<1>2. <<>> \in Seq(Frame) /\ Len(<<>>) <= OUTGOING_CAPACITY
  BY EmptySeq, SizeAssumption
<1>3. ASSUME NEW f \in Frame, Len(outgoing) < OUTGOING_CAPACITY
      PROVE  Append(outgoing, f) \in Seq(Frame) /\ Len(Append(outgoing, f)) <= OUTGOING_CAPACITY
  <2>1. /\ Append(outgoing, f) \in Seq(Frame)
        /\ Len(Append(outgoing, f)) = Len(outgoing) + 1
    BY <1>1, AppendProperties DEF FramesOK
  <2>2. Len(outgoing) + 1 <= OUTGOING_CAPACITY
    BY <1>1, <1>3, SizeAssumption
  <2> QED
    BY <2>1, <2>2
<1>4. CASE Still
  BY <1>1, <1>4, StillQueue DEF FramesOK
<1>5. CASE Connect
  BY <1>2, <1>5 DEF Connect, FramesOK
<1>6. CASE \E n \in 0..Len(outgoing) : Tick(n)
  <2>1. PICK n \in 0..Len(outgoing) : Tick(n)
    BY <1>6
  <2>2. \A i \in 1..n : outgoing[i] \in Frame
    <3>1. \A i \in 1..n : i \in 1..Len(outgoing)
      BY <1>1
    <3> QED
      BY <1>1, <3>1, ElementOfSeq DEF FramesOK
  <2> QED
    BY <1>2, <2>1, <2>2 DEF Tick, FramesOK
<1>7. CASE Beating
  BY <1>1, <1>3, <1>7, FrameType DEF Beating, Beat, beatFrame, FramesOK
<1>8. CASE Sending
  BY <1>1, <1>3, <1>8, FrameType
     DEF Sending, SendToGcs, SendToBs, TrySend, reportFrame, FramesOK
<1> QED
  BY <1>4, <1>5, <1>6, <1>7, <1>8, Steps DEF Drains

(* What the sniffer has heard, and may hear: configured ids, those of       *)
(* vehicles and others, and those of the node's own heartbeats.             *)
HeardOK ==
  /\ available_systems \subseteq 0..255
  /\ sniffer \in {"down", "up"}
  /\ air \subseteq 0..255

LEMMA HeardTypeNext ==
  ASSUME TypeOK, [Next]_vars
  PROVE  HeardOK'
<1>1. HeardOK
  BY DEF TypeOK, HeardOK
<1>2. CASE Sniffer
  <2>1. CASE SnifferConnect \/ SnifferLost
    BY <1>1, <2>1 DEF SnifferConnect, mavlink_connect, SnifferLost, HeardOK
  <2>2. CASE \E s \in Vehicles \cup Others : Hear(s)
    <3>1. PICK s \in Vehicles \cup Others : Hear(s)
      BY <2>2
    <3>2. s \in 0..255
      <4>1. \A v \in Vehicles : v \in 1..255
        BY VehiclesAssumption
      <4>2. \A v \in 1..255 : v \in 0..255
        OBVIOUS
      <4>3. Others \subseteq 0..255
        BY SysidAssumption
      <4> QED
        BY <4>1, <4>2, <4>3
    <3> QED
      BY <1>1, <3>1, <3>2 DEF Hear, HeardOK
  <2>3. CASE \E s \in air : handle_heartbeat(s)
    BY <1>1, <2>3 DEF handle_heartbeat, HeardOK
  <2> QED
    BY <1>2, <2>1, <2>2, <2>3 DEF Sniffer
<1>3. CASE \E n \in 0..Len(outgoing) : Tick(n)
  <2>1. PICK n \in 0..Len(outgoing) : Tick(n)
    BY <1>3
  <2>2. \A i \in 1..n : outgoing[i] \in Frame
    <3>1. outgoing \in Seq(Frame) /\ Len(outgoing) \in Nat
      BY DEF TypeOK
    <3>2. \A i \in 1..n : i \in 1..Len(outgoing)
      BY <3>1
    <3> QED
      BY <3>1, <3>2, ElementOfSeq
  <2>3. \A i \in 1..n : outgoing[i].from \in 0..255
    BY <2>2 DEF Frame
  <2>4. air' \subseteq 0..255
    <3>1. \A s \in air' : s \in air \/ \E i \in 1..n : s = outgoing[i].from
      BY <2>1 DEF Tick
    <3>2. air \subseteq 0..255
      BY <1>1 DEF HeardOK
    <3> QED
      BY <2>3, <3>1, <3>2, Zenon
  <2> QED
    BY <1>1, <2>1, <2>4 DEF Tick, droneFrame, HeardOK
<1>4. CASE UNCHANGED snifferVars
  BY <1>1, <1>4 DEF snifferVars, HeardOK
<1>5. Sniffer \/ (\E n \in 0..Len(outgoing) : Tick(n)) \/ UNCHANGED snifferVars
  BY Steps DEF Drains, Connect, droneFrame, Beating, Beat, beatFrame, Sending, SendToGcs,
     SendToBs, Still, StartBeating, StartReport, Check, reportFrame, Cancel, snifferVars, vars
<1> QED
  BY <1>2, <1>3, <1>4, <1>5

(* The drone component's connections, and the heartbeat loops.              *)
LinkOK ==
  /\ drone \in {"down", "up"}
  /\ connects \in 0..MaxConnects
  /\ beat \in [Loop -> {"wait", "beat", "done"}]
  /\ beatId \in 0..255

LEMMA LinkTypeNext ==
  ASSUME TypeOK, [Next]_vars
  PROVE  LinkOK'
<1>1. LinkOK
  BY DEF TypeOK, LinkOK
<1>2. CASE Connect
  <2>1. connects' \in 0..MaxConnects
    BY <1>1, <1>2, SizeAssumption DEF Connect, LinkOK
  <2> QED
    BY <1>1, <1>2, <2>1 DEF Connect, mavlink_connect, droneFrame, beatVars, LinkOK
<1>3. CASE \E n \in 0..Len(outgoing) : Tick(n)
  BY <1>1, <1>3 DEF Tick, droneFrame, droneVars, beatVars, LinkOK
<1>4. CASE \E l \in Loop : StartBeating(l)
  <2>1. PICK l \in Loop : StartBeating(l)
    BY <1>4
  <2>2. Resolved(l) \in 0..255
    BY <1>1, SelfSysidType DEF TypeOK, Resolved, LinkOK
  <2> QED
    BY <1>1, <2>1, <2>2 DEF StartBeating, beatFrame, droneVars, LinkOK
<1>5. CASE UNCHANGED <<droneVars, beatVars>>
  BY <1>1, <1>5 DEF droneVars, beatVars, LinkOK
<1>6. \/ Connect \/ (\E n \in 0..Len(outgoing) : Tick(n)) \/ (\E l \in Loop : StartBeating(l))
      \/ UNCHANGED <<droneVars, beatVars>>
  BY Steps DEF Drains, Beating, Beat, beatFrame, Sending, SendToGcs, SendToBs, reportFrame,
     Still, Sniffer, SnifferConnect, SnifferLost, Hear, handle_heartbeat, snifferFrame,
     StartReport, Check, Cancel, droneVars, beatVars, vars
<1> QED
  BY <1>2, <1>3, <1>4, <1>5, <1>6

(* The rest of the reporter's state: who sends, and the two flags.          *)
TickOK == sender \in 0..255 /\ raced \in BOOLEAN /\ cancelled \in BOOLEAN

LEMMA TickTypeNext ==
  ASSUME TypeOK, [Next]_vars
  PROVE  TickOK'
<1>1. TickOK /\ SelfSysid \in 0..255
  BY SelfSysidType DEF TypeOK, TickOK
<1>2. CASE StartReport
  BY <1>1, <1>2 DEF StartReport, reportFrame, TickOK
<1>3. CASE Beating
  <2>1. raced' \in BOOLEAN
    BY <1>1, <1>3, Zenon DEF Beating, Beat, TickOK
  <2> QED
    BY <1>1, <1>3, <2>1 DEF Beating, Beat, beatFrame, reportVars, TickOK
<1>4. CASE Cancel
  BY <1>1, <1>4 DEF Cancel, reportVars, TickOK
<1>5. CASE UNCHANGED <<sender, raced, cancelled>>
  BY <1>1, <1>5 DEF TickOK
<1>6. StartReport \/ Beating \/ Cancel \/ UNCHANGED <<sender, raced, cancelled>>
  BY Steps DEF Drains, Connect, Tick, droneFrame, Sending, SendToGcs, SendToBs, reportFrame,
     Still, Sniffer, SnifferConnect, SnifferLost, Hear, handle_heartbeat, snifferFrame,
     StartBeating, beatFrame, Check, reportVars, vars
<1> QED
  BY <1>2, <1>3, <1>4, <1>5, <1>6

(* ReadingInv types the tick's own variables.                               *)
LEMMA ReadingTypes ==
  ASSUME ReadingInv
  PROVE  /\ reporter \in {"sleep", "check", "gcs", "bs"}
         /\ lte \in Readings \cup {{}}
         /\ message \in 1..(Slots + 2)
         /\ shown \in [Target -> SUBSET Message]
<1>1. message \in 1..(Slots + 2)
  <2>1. Cardinality(Reported) \in 0..Slots
    BY SlotIsPlace, SlotsFilled DEF ReadingInv
  <2> QED
    BY <2>1, SizeAssumption DEF ReadingInv
<1>2. shown \in [Target -> SUBSET Message]
  <2>1. PICK R \in Readings \cup {{}} : \A t \in Target : shown[t] \subseteq MessagesOf(R)
    BY DEF ReadingInv
  <2>2. \A t \in Target : shown[t] \in SUBSET Message
    BY <2>1, MessageType
  <2>3. shown = [t \in Target |-> shown[t]]
    BY DEF ReadingInv
  <2> QED
    BY <2>2, <2>3
<1> QED
  BY <1>1, <1>2 DEF ReadingInv

LEMMA TypeParts ==
  TypeOK <=> /\ FramesOK /\ HeardOK /\ LinkOK /\ TickOK
             /\ reporter \in {"sleep", "check", "gcs", "bs"}
             /\ lte \in Readings \cup {{}}
             /\ message \in 1..(Slots + 2)
             /\ shown \in [Target -> SUBSET Message]
BY DEF TypeOK, FramesOK, HeardOK, LinkOK, TickOK

(* Types, with the bounds the code keeps: the queue never holds more than   *)
(* OUTGOING_CAPACITY frames, every frame carries an id that exists, and a   *)
(* tick shows no more neighbours than there are slots.                      *)
THEOREM LinkTypeCorrect == Spec => []TypeOK
<1>1. Init => TypeOK /\ ReadingInv
  <2> SUFFICES ASSUME Init PROVE TypeOK /\ ReadingInv
    OBVIOUS
  <2>1. ReadingInv
    BY ReadingInit
  <2>2. FramesOK
    BY EmptySeq, SizeAssumption DEF Init, FramesOK
  <2>3. HeardOK /\ TickOK
    <3>1. 0 \in 0..255
      OBVIOUS
    <3> QED
      BY <3>1, Zenon DEF Init, HeardOK, TickOK
  <2>4. LinkOK
    <3>1. 0 \in 0..MaxConnects
      BY SizeAssumption
    <3>2. [l \in Loop |-> "wait"] \in [Loop -> {"wait", "beat", "done"}]
      OBVIOUS
    <3> QED
      BY <3>1, <3>2 DEF Init, LinkOK
  <2> QED
    BY <2>1, <2>2, <2>3, <2>4, ReadingTypes, TypeParts
<1>2. TypeOK /\ ReadingInv /\ [Next]_vars => FramesOK' /\ HeardOK' /\ LinkOK' /\ TickOK'
  BY FramesTypeNext, HeardTypeNext, LinkTypeNext, TickTypeNext
<1>3. ReadingInv /\ [Next]_vars => ReadingInv'
  BY ReadingNext
<1>4. FramesOK /\ HeardOK /\ LinkOK /\ TickOK /\ ReadingInv => TypeOK
  BY ReadingTypes, TypeParts
<1> QED
  BY <1>1, <1>2, <1>3, <1>4, PTL DEF Spec
=============================================================================
