------------------------------ MODULE MavlinkLink ------------------------------
(***************************************************************************)
(* The node's two MAVLink connections to mavlink-routerd (src/mavlink): the*)
(* sniffer, which discovers systems from the heartbeats it hears; the drone*)
(* component, which sends what the producers queued; and the producers: two*)
(* heartbeat loops and the telemetry reporter.                             *)
(*                                                                         *)
(* The router (external) forwards what the drone component sends to every  *)
(* other connection, so the sniffer hears the node's own heartbeats.       *)
(***************************************************************************)
EXTENDS Naturals, Sequences, FiniteSets, FiniteSetsExt

CONSTANTS
  Vehicles,           (* System ids of the flight controllers.             *)
  Others,             (* Other systems that send heartbeats.               *)
  self_sysid,         (* Configured id of this node; 0: autodiscovery.     *)
  sniffer_sysid, bs_sysid, gcs_sysid,  (* Configured ids.                  *)
  FC_SYSID_THRESHOLD, (* Ids below it are flight controllers: 200.         *)
  OUTGOING_CAPACITY,  (* Frames that wait to be sent: 500 in the code.     *)
  Readings,           (* The neighbour cells of LTE readings, by their ids.*)
  Slots,              (* Neighbour cells that are reported: 10 in the code.*)
  MaxConnects         (* Bound: connections of the drone component.        *)

is_fc_sysid(id) == id > 0 /\ id < FC_SYSID_THRESHOLD

(* Config::validate; 0 is the sentinel for autodiscovery.                   *)
ASSUME SysidAssumption ==
  /\ {self_sysid, sniffer_sysid, bs_sysid, gcs_sysid} \cup Others \subseteq 0..255
  /\ sniffer_sysid # bs_sysid /\ gcs_sysid # sniffer_sysid /\ gcs_sysid # bs_sysid
  /\ self_sysid \notin {sniffer_sysid, bs_sysid, gcs_sysid} \ {0}
ASSUME VehiclesAssumption ==
  /\ \A v \in Vehicles : v \in 1..255 /\ is_fc_sysid(v)
  /\ Vehicles \cap {sniffer_sysid, bs_sysid, gcs_sysid} = {}
  /\ \A o \in Others : ~is_fc_sysid(o)
ASSUME SizeAssumption ==
  /\ FC_SYSID_THRESHOLD \in 1..256
  /\ OUTGOING_CAPACITY \in Nat \ {0} /\ MaxConnects \in Nat
  /\ \A R \in Readings : R \subseteq Nat /\ IsFiniteSet(R)
  /\ Slots \in 0..10

VARIABLES
  available_systems,  (* Systems discovered from heartbeats.               *)
  sniffer,     (* Its connection: "down" or "up".                          *)
  air,         (* Unknown ids whose heartbeat the sniffer has not read.    *)
  drone,       (* The other connection: "down" or "up".                    *)
  connects,    (* Its number: counts the connections of the drone task.    *)
  outgoing,    (* Frames queued for it.                                    *)
  wire,        (* The frames its last tick sent, on this connection.       *)
  beat,        (* Each heartbeat loop: "wait", "beat" or, when the queue   *)
               (* would be closed, which it never is, "done".              *)
  beatId,      (* The id the drone's heartbeat loop took when it started.  *)
  reporter,    (* Telemetry: "sleep", "check", "gcs" or "bs".              *)
  sender,      (* The id it took for this tick.                            *)
  lte,         (* The neighbour cells of the reading it took for the tick. *)
  message,     (* Which of the tick's messages it sends, from 1.           *)
  shown,       (* History: messages of the tick it queued for each target. *)
  raced,       (* History: another producer queued a frame between a check *)
               (* for room and the sending of the pair, in this tick.      *)
  cancelled    (* The shutdown token.                                      *)

vars == <<available_systems, sniffer, air, drone, connects, outgoing, wire, beat,
          beatId, reporter, sender, lte, message, shown, raced, cancelled>>
snifferVars == <<available_systems, sniffer, air>>
droneVars == <<drone, connects>>
beatVars == <<beat, beatId>>
reportVars == <<reporter, sender, lte, message, shown>>

Loop == {"drone", "sniffer"}

(* MavCmdUser1SubCmd: the three of its ids that are in use.                 *)
LteRadioTelemetry == 31014
LteIpTelemetry == 31015
LteIpTelemetryNeighbors(slot) == 31040 + slot
Neighbors == {LteIpTelemetryNeighbors(slot) : slot \in 0..9}
Subcmd == {LteRadioTelemetry, LteIpTelemetry} \cup Neighbors
Target == {gcs_sysid, bs_sysid}

(* What a telemetry frame says; value: the number of neighbours or the      *)
(* physical id of one of them.  The other parameters are left out.          *)
Message == [subcmd : Subcmd, value : Nat]

(* made: the connection on which the frame was queued, 0 if there was none. *)
Frame == [kind : {"heartbeat", "telemetry"}, from : 0..255, made : 0..MaxConnects]

TypeOK ==
  /\ available_systems \subseteq 0..255
  /\ sniffer \in {"down", "up"}
  /\ air \subseteq 0..255
  /\ drone \in {"down", "up"}
  /\ connects \in 0..MaxConnects
  /\ outgoing \in Seq(Frame)
  /\ Len(outgoing) <= OUTGOING_CAPACITY
  /\ wire \subseteq Frame
  /\ beat \in [Loop -> {"wait", "beat", "done"}]
  /\ beatId \in 0..255
  /\ reporter \in {"sleep", "check", "gcs", "bs"}
  /\ sender \in 0..255
  /\ lte \in Readings \cup {{}}
  /\ message \in 1..(Slots + 2)
  /\ shown \in [Target -> SUBSET Message]
  /\ raced \in BOOLEAN
  /\ cancelled \in BOOLEAN

Init ==
  /\ available_systems = {} /\ sniffer = "down" /\ air = {}
  /\ drone = "down" /\ connects = 0 /\ outgoing = <<>> /\ wire = {}
  /\ beat = [l \in Loop |-> "wait"] /\ beatId = 0
  /\ reporter = "sleep" /\ sender = 0 /\ lte = {} /\ message = 1
  /\ shown = [t \in Target |-> {}] /\ raced = FALSE
  /\ cancelled = FALSE

get_fc_sysids == {s \in available_systems : is_fc_sysid(s)}

(* Context::self_sysid: 0 where the code returns None.                      *)
SelfSysid ==
  IF self_sysid > 0 THEN self_sysid
  ELSE IF get_fc_sysids = {} THEN 0 ELSE Min(get_fc_sysids)

(* Attempts are repeated every second; a failing one changes nothing.       *)
mavlink_connect(now, next) == now = "down" /\ next = "up"

-----------------------------------------------------------------------------
(* The sniffer.                                                             *)

snifferFrame == <<droneVars, outgoing, wire, beatVars, reportVars, raced, cancelled>>

SnifferConnect ==
  /\ mavlink_connect(sniffer, sniffer')
  /\ UNCHANGED <<snifferFrame, available_systems, air>>

(* A read error that is not transient.                                      *)
SnifferLost ==
  /\ sniffer = "up"
  /\ sniffer' = "down"
  /\ air' = {}
  /\ UNCHANGED <<snifferFrame, available_systems>>

(* A flight controller or another system sends a heartbeat.  Those of a     *)
(* system that was discovered change nothing more and are left out.         *)
Hear(s) ==
  /\ sniffer = "up"
  /\ s \notin available_systems
  /\ air' = air \cup {s}
  /\ UNCHANGED <<snifferFrame, available_systems, sniffer>>

(* handle_heartbeat: the configured ids other than self_sysid are skipped.  *)
handle_heartbeat(s) ==
  /\ sniffer = "up"
  /\ s \in air
  /\ air' = air \ {s}
  /\ available_systems' = IF s \in {sniffer_sysid, bs_sysid, gcs_sysid}
                          THEN available_systems ELSE available_systems \cup {s}
  /\ UNCHANGED <<snifferFrame, sniffer>>

-----------------------------------------------------------------------------
(* The drone component.                                                     *)

droneFrame == <<available_systems, sniffer, beatVars, reportVars, raced, cancelled>>

(* Mutant: what was queued during the outage is sent on the new connection. *)
ConnectKeepingQueue ==
  /\ connects < MaxConnects
  /\ mavlink_connect(drone, drone')
  /\ connects' = connects + 1
  /\ wire' = {}
  /\ UNCHANGED <<droneFrame, air, outgoing>>

(* The queue is emptied before the first frame is sent.                     *)
Connect ==
  /\ connects < MaxConnects
  /\ mavlink_connect(drone, drone')
  /\ connects' = connects + 1
  /\ outgoing' = <<>>
  /\ wire' = {}
  /\ UNCHANGED <<droneFrame, air>>

(* send_loop: a tick drains the queue and sends n of the frames; a failing  *)
(* send loses the rest and the connection.                                  *)
Tick(n) ==
  /\ drone = "up"
  /\ outgoing' = <<>>
  /\ wire' = {outgoing[i] : i \in 1..n}
  /\ drone' = IF n = Len(outgoing) THEN "up" ELSE "down"
  /\ air' = IF sniffer # "up" THEN air
            ELSE air \cup ({outgoing[i].from :
                              i \in {j \in 1..n : outgoing[j].kind = "heartbeat"}}
                             \ available_systems)
  /\ UNCHANGED <<droneFrame, connects>>

-----------------------------------------------------------------------------
(* The heartbeat loops.                                                     *)

Made == IF drone = "up" THEN connects ELSE 0

beatFrame == <<snifferVars, droneVars, wire, reportVars, cancelled>>

(* DroneComponent::run resolves the id that its heartbeats come from when   *)
(* there is a flight controller.                                            *)
Resolved(l) == IF l = "drone" THEN SelfSysid ELSE beatId

(* MavlinkSniffer::run has an id of its own for them.                       *)
Sender(l) == IF l = "drone" THEN beatId ELSE sniffer_sysid

(* Mutant: the drone's heartbeats do not wait for a flight controller.      *)
StartBeatingAtOnce(l) ==
  /\ beat[l] = "wait"
  /\ beat' = [beat EXCEPT ![l] = "beat"]
  /\ beatId' = Resolved(l)
  /\ UNCHANGED <<beatFrame, outgoing, raced>>

(* wait_for_fc; the drone's loop takes its id then, once and for all.       *)
StartBeating(l) ==
  /\ beat[l] = "wait"
  /\ get_fc_sysids # {}
  /\ beat' = [beat EXCEPT ![l] = "beat"]
  /\ beatId' = Resolved(l)
  /\ UNCHANGED <<beatFrame, outgoing, raced>>

Heartbeat(l) ==
  [kind |-> "heartbeat", from |-> Sender(l), made |-> Made]

(* Mutant: a full queue ends the loop as a closed one does.                 *)
BeatOrEnd(l) ==
  /\ beat[l] = "beat"
  /\ IF Len(outgoing) < OUTGOING_CAPACITY
       THEN outgoing' = Append(outgoing, Heartbeat(l)) /\ UNCHANGED beat
       ELSE beat' = [beat EXCEPT ![l] = "done"] /\ UNCHANGED outgoing
  /\ raced' = (raced \/ reporter \in {"gcs", "bs"})
  /\ UNCHANGED <<beatFrame, beatId>>

(* try_send: the heartbeat is dropped when the queue is full.               *)
Beat(l) ==
  /\ beat[l] = "beat"
  /\ outgoing' = IF Len(outgoing) < OUTGOING_CAPACITY
                 THEN Append(outgoing, Heartbeat(l)) ELSE outgoing
  /\ raced' = (raced \/ reporter \in {"gcs", "bs"})
  /\ UNCHANGED <<beatFrame, beat, beatId>>

-----------------------------------------------------------------------------
(* The telemetry reporter.                                                  *)

reportFrame == <<snifferVars, droneVars, wire, beatVars, cancelled>>

(* A tick is skipped as long as there is no id to send from.  All of its    *)
(* messages show the reading of this moment.                                *)
StartReport ==
  /\ reporter = "sleep"
  /\ SelfSysid # 0
  /\ sender' = SelfSysid
  /\ lte' \in Readings
  /\ message' = 1 /\ shown' = [t \in Target |-> {}] /\ raced' = FALSE
  /\ reporter' = "check"
  /\ UNCHANGED <<reportFrame, outgoing>>

(* The slot of a neighbour: its place in the list sorted by physical id.    *)
Slot(cell) == Cardinality({c \in lte : c < cell})

(* Of all neighbours, only those of the first slots are reported.           *)
Reported == {c \in lte : Slot(c) < Slots}

build_neighbor_telemetry(cell) ==
  [subcmd |-> LteIpTelemetryNeighbors(Slot(cell)), value |-> cell]

build_lte_ip_telemetry == [subcmd |-> LteIpTelemetry, value |-> Cardinality(lte)]

build_lte_radio_telemetry == [subcmd |-> LteRadioTelemetry, value |-> 0]

Body ==
  CASE message = 1 -> build_lte_radio_telemetry
    [] message = 2 -> build_lte_ip_telemetry
    [] OTHER -> build_neighbor_telemetry(CHOOSE c \in lte : Slot(c) = message - 3)

build_command_long == [kind |-> "telemetry", from |-> sender, made |-> Made]

(* Mutant: each message shows the reading of its own moment, in which cells *)
(* may have come.                                                           *)
NextMessageReadingAgain ==
  IF message < 2 + Cardinality(Reported)
    THEN reporter' = "check" /\ message' = message + 1
         /\ lte' \in {R \in Readings : lte \subseteq R}
    ELSE reporter' = "sleep" /\ message' = 1 /\ lte' = {}

NextMessage ==
  IF message < 2 + Cardinality(Reported)
    THEN reporter' = "check" /\ message' = message + 1 /\ UNCHANGED lte
    ELSE reporter' = "sleep" /\ message' = 1 /\ lte' = {}

(* Mutant: room for one frame is taken for room for both.                   *)
CheckOne ==
  /\ reporter = "check"
  /\ IF OUTGOING_CAPACITY - Len(outgoing) < 1
       THEN NextMessage
       ELSE reporter' = "gcs" /\ UNCHANGED <<lte, message>>
  /\ UNCHANGED <<reportFrame, outgoing, sender, shown, raced>>

(* Both frames are dropped unless there is room for both.                   *)
Check ==
  /\ reporter = "check"
  /\ IF OUTGOING_CAPACITY - Len(outgoing) < 2
       THEN NextMessage
       ELSE reporter' = "gcs" /\ UNCHANGED <<lte, message>>
  /\ UNCHANGED <<reportFrame, outgoing, sender, shown, raced>>

(* Mutant: the frames are queued without regard to the capacity.            *)
SendAnyway(target) ==
  /\ outgoing' = Append(outgoing, build_command_long)
  /\ shown' = [shown EXCEPT ![target] = @ \cup {Body}]

TrySend(target) ==
  IF Len(outgoing) < OUTGOING_CAPACITY
    THEN /\ outgoing' = Append(outgoing, build_command_long)
         /\ shown' = [shown EXCEPT ![target] = @ \cup {Body}]
    ELSE UNCHANGED <<outgoing, shown>>

SendToGcs ==
  /\ reporter = "gcs"
  /\ TrySend(gcs_sysid)
  /\ reporter' = "bs"
  /\ UNCHANGED <<reportFrame, sender, lte, message, raced>>

SendToBs ==
  /\ reporter = "bs"
  /\ TrySend(bs_sysid)
  /\ NextMessage
  /\ UNCHANGED <<reportFrame, sender, raced>>

-----------------------------------------------------------------------------
Cancel ==
  /\ ~cancelled
  /\ cancelled' = TRUE
  /\ UNCHANGED <<snifferVars, droneVars, outgoing, wire, beatVars, reportVars, raced>>

Sniffer ==
  \/ SnifferConnect \/ SnifferLost
  \/ \E s \in Vehicles \cup Others : Hear(s)
  \/ \E s \in air : handle_heartbeat(s)
Drone == Connect \/ \E n \in 0..Len(outgoing) : Tick(n)
Beats == \E l \in Loop : StartBeating(l) \/ Beat(l)
Report == Check \/ SendToGcs \/ SendToBs

(* Each select looks at the token first, so that nothing begins once it is  *)
(* cancelled; the reporter finishes its tick.  How tasks end is in Agent.   *)
Next ==
  \/ ~cancelled /\ (Sniffer \/ Drone \/ Beats \/ StartReport)
  \/ Report \/ Cancel

Spec == Init /\ [][Next]_vars

(* Intervals fire, and the heartbeat's second is long against the period of *)
(* send_loop, so a heartbeat does not fall into a full queue every time.    *)
FairSpec ==
  /\ Spec
  /\ SF_vars(~cancelled /\ Beat("drone") /\ Len(outgoing) < OUTGOING_CAPACITY)
  /\ WF_vars(~cancelled /\ \E n \in 0..Len(outgoing) : Tick(n))

-----------------------------------------------------------------------------
(* Properties.                                                              *)

(* The node never takes its own frames for a flight controller while there  *)
(* is none: the heartbeats that it sends, and that the router returns to    *)
(* its sniffer, begin only after a real one was heard.                      *)
DiscoveryGenuine == get_fc_sysids # {} => get_fc_sysids \cap Vehicles # {}

(* Frames that were queued during an outage, or on an earlier connection,   *)
(* are never sent (drone_component.rs:46-47: "start with fresh state on     *)
(* each new connection").                                                   *)
FreshFrames == \A f \in wire : f.made = connects

(* The GCS and the base station get the same messages of a tick, "to avoid  *)
(* asymmetric drops" (telemetry_reporter.rs:123-124), however often the     *)
(* queue is full or emptied meanwhile, unless another producer took the     *)
(* room that had been found for both.                                       *)
BothOrNeither == ~raced /\ reporter # "bs" => shown[gcs_sysid] = shown[bs_sysid]

(* The messages of a tick describe one reading, whatever is dropped of it:  *)
(* each neighbour has a slot of its own among those that the number of      *)
(* neighbours announces, and the slots are in the order of the cells        *)
(* ("Sort neighbors by pcid", telemetry_reporter.rs:83).                    *)
OneReading ==
  \A target \in Target : \A m, n \in shown[target] :
    /\ m.subcmd = LteIpTelemetry /\ n.subcmd \in Neighbors =>
         n.subcmd < LteIpTelemetryNeighbors(m.value)
    /\ {m.subcmd, n.subcmd} \subseteq Neighbors =>
         (m.subcmd < n.subcmd <=> m.value < n.value)

(* Once the drone's heartbeat loop runs, every connection carries one of    *)
(* its heartbeats, whatever the other producers put into the queue.         *)
HeartbeatSent ==
  \A c \in 1..MaxConnects :
    (drone = "up" /\ connects = c /\ beat["drone"] = "beat")
      ~> (\/ \E f \in wire : f.kind = "heartbeat" /\ f.from = beatId
          \/ drone # "up" \/ connects # c \/ cancelled)

(* sniffer_component.rs:147: "Self-discovery is prevented by                *)
(* drone::heartbeat_loop waiting for FC first".                             *)
NoSelfDiscovery == get_fc_sysids \subseteq Vehicles
=============================================================================
