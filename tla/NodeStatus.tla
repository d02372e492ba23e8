------------------------------ MODULE NodeStatus ------------------------------
(***************************************************************************)
(* The retained status of a node at the broker: the last will that the     *)
(* transport registers, the Online status that StatusPublisher sends on    *)
(* every connection (services/mqtt/status.rs), the Offline status that the *)
(* transport sends when it shuts down (services/mqtt/transport.rs), and    *)
(* the telemetry that shares rumqttc's request channel with them.          *)
(***************************************************************************)
EXTENDS Naturals, Sequences

CONSTANTS
  REQUEST_CAPACITY,        (* rumqttc request channel: 50 in the code.     *)
  EVENT_CHANNEL_CAPACITY,  (* broadcast channel: 256 in the code.          *)
  Adjacent,    (* TRUE: no other task queues a request between the two     *)
               (* calls try_publish and try_disconnect.  Nothing in the    *)
               (* code enforces it.                                        *)
  MaxDrops,    (* Bound: connections lost, per process.                    *)
  MaxMessages, (* Bound: other events and telemetry rounds, per process.   *)
  MaxBoots     (* Bound: process starts.                                   *)

ASSUME CapacityAssumption ==
  REQUEST_CAPACITY \in Nat \ {0} /\ EVENT_CHANNEL_CAPACITY \in Nat \ {0}
ASSUME AdjacentAssumption == Adjacent \in BOOLEAN
ASSUME BoundAssumption ==
  MaxDrops \in Nat /\ MaxMessages \in Nat /\ MaxBoots \in Nat \ {0}

VARIABLES
  boot,         (* The process, which is also its session id.              *)
  retained,     (* Broker: the retained status, <<kind, session>>.         *)
  link,         (* Broker: "none", "up", or "stale": the node gave the     *)
                (* connection up and the broker has not noticed.           *)
  will,         (* Broker: the session named in the last will.             *)
  cancelled,    (* The shutdown token.                                     *)
  eventLoop,    (* Transport task: "running", "leaving" (between its two   *)
                (* last requests), "flushing" or "stopped".                *)
  everConnected,(* last_connected_at is set.                               *)
  outbox,       (* rumqttc's request channel.                              *)
  inbox,        (* Broadcast events the status publisher has not received. *)
  lagged,       (* Its receiver will first report Lagged.                  *)
  publisher,    (* Status publisher: "select", "publish" or "done".        *)
  drops, messages   (* Counters for the bounds.                            *)

brokerVars == <<retained, link, will>>
transportVars == <<eventLoop, everConnected>>
publisherVars == <<inbox, lagged, publisher>>
vars == <<boot, brokerVars, cancelled, transportVars, outbox, publisherVars, drops,
          messages>>

Session == 0..MaxBoots
Status == {"None", "Online", "Offline"} \X Session

TypeOK ==
  /\ boot \in 1..MaxBoots
  /\ retained \in Status
  /\ link \in {"none", "up", "stale"}
  /\ will \in Session
  /\ cancelled \in BOOLEAN
  /\ eventLoop \in {"running", "leaving", "flushing", "stopped"}
  /\ everConnected \in BOOLEAN
  /\ outbox \in Seq({"Online", "Offline", "Telemetry", "Disconnect"})
  /\ Len(outbox) <= REQUEST_CAPACITY
  /\ inbox \in Seq({"Connected", "Other"})
  /\ Len(inbox) <= EVENT_CHANNEL_CAPACITY
  /\ lagged \in BOOLEAN
  /\ publisher \in {"select", "publish", "done"}
  /\ drops \in Nat /\ messages \in Nat

Init ==
  /\ boot = 1
  /\ retained = <<"None", 0>> /\ link = "none" /\ will = 0
  /\ cancelled = FALSE
  /\ eventLoop = "running" /\ everConnected = FALSE
  /\ outbox = <<>>
  /\ inbox = <<>> /\ lagged = FALSE /\ publisher = "select"
  /\ drops = 0 /\ messages = 0

-----------------------------------------------------------------------------
(* The broker.                                                              *)

(* The last will of a connection that ended without DISCONNECT.             *)
LastWill == <<"Offline", will>>

Notice ==
  /\ link = "stale"
  /\ link' = "none"
  /\ retained' = LastWill
  /\ UNCHANGED <<boot, will, cancelled, transportVars, outbox, publisherVars, drops,
                 messages>>

Cancel ==
  /\ ~cancelled
  /\ cancelled' = TRUE
  /\ UNCHANGED <<boot, brokerVars, transportVars, outbox, publisherVars, drops,
                 messages>>

-----------------------------------------------------------------------------
(* The transport task.                                                      *)

(* broadcast::Sender::send: at capacity the oldest unread event goes.  Only *)
(* the running loop broadcasts.  Before the first connection there is one   *)
(* error per second, which cannot fill the buffer unread.                   *)
Broadcast(event) ==
  IF eventLoop # "running"
    THEN UNCHANGED <<inbox, lagged>>
    ELSE IF Len(inbox) < EVENT_CHANNEL_CAPACITY
      THEN inbox' = Append(inbox, event) /\ UNCHANGED lagged
      ELSE /\ everConnected
           /\ inbox' = Append(Tail(inbox), event)
           /\ lagged' = TRUE

(* CONNECT registers the will; a stale connection of the same client id is  *)
(* closed first, and its will published.                                    *)
ConnAck ==
  /\ link # "up"
  /\ eventLoop \in {"running", "flushing"}
  /\ link' = "up"
  /\ will' = boot
  /\ retained' = IF link = "stale" THEN LastWill ELSE retained
  /\ everConnected' = (everConnected \/ eventLoop = "running")
  /\ Broadcast("Connected")
  /\ UNCHANGED <<boot, cancelled, eventLoop, outbox, publisher, drops, messages>>

ConnError ==
  /\ eventLoop = "running"
  /\ drops < MaxDrops
  /\ drops' = drops + 1
  /\ link' = IF link = "up" THEN "stale" ELSE link
  /\ Broadcast("Other")
  /\ UNCHANGED <<boot, retained, will, cancelled, transportVars, outbox, publisher,
                 messages>>

(* A command, which the status publisher receives and ignores.              *)
Message ==
  /\ link = "up"
  /\ eventLoop = "running"
  /\ messages < MaxMessages
  /\ messages' = messages + 1
  /\ Broadcast("Other")
  /\ UNCHANGED <<boot, brokerVars, cancelled, transportVars, outbox, publisher,
                 drops>>

(* The next request reaches the broker.  DISCONNECT discards the will and   *)
(* ends the flush; nothing else can have queued it.                         *)
Flush ==
  /\ link = "up"
  /\ eventLoop \in {"running", "flushing"}
  /\ outbox # <<>>
  /\ LET request == Head(outbox)
     IN  IF request = "Disconnect"
           THEN /\ link' = "none"
                /\ eventLoop' = "stopped"
                /\ outbox' = <<>>
                /\ UNCHANGED retained
           ELSE /\ retained' = IF request = "Telemetry" THEN retained
                               ELSE <<request, boot>>
                /\ outbox' = Tail(outbox)
                /\ UNCHANGED <<link, eventLoop>>
  /\ UNCHANGED <<boot, will, cancelled, everConnected, publisherVars, drops, messages>>

(* Mutant: the request channel has no bound.                                *)
TryQueueUnbounded(request) == outbox' = Append(outbox, request)

(* Queues a request if there is room, and goes on in any case.              *)
TryQueue(request) ==
  outbox' = IF Len(outbox) < REQUEST_CAPACITY THEN Append(outbox, request) ELSE outbox

(* Mutant: a node that says DISCONNECT only.                                *)
LeaveSilently ==
  /\ cancelled
  /\ eventLoop = "running"
  /\ eventLoop' = "leaving"
  /\ UNCHANGED <<boot, brokerVars, cancelled, everConnected, outbox, publisherVars,
                 drops, messages>>

(* try_publish of the Offline status, if the process was ever connected.    *)
Leave ==
  /\ cancelled
  /\ eventLoop = "running"
  /\ eventLoop' = "leaving"
  /\ IF everConnected THEN TryQueue("Offline") ELSE UNCHANGED outbox
  /\ UNCHANGED <<boot, brokerVars, cancelled, everConnected, publisherVars, drops,
                 messages>>

(* try_disconnect.                                                          *)
BeginFlush ==
  /\ eventLoop = "leaving"
  /\ eventLoop' = "flushing"
  /\ TryQueue("Disconnect")
  /\ UNCHANGED <<boot, brokerVars, cancelled, everConnected, publisherVars, drops,
                 messages>>

(* Two seconds passed or poll() failed: the connection is dropped.          *)
EndFlush ==
  /\ eventLoop = "flushing"
  /\ eventLoop' = "stopped"
  /\ link' = IF link = "up" THEN "stale" ELSE link
  /\ outbox' = <<>>
  /\ UNCHANGED <<boot, retained, will, cancelled, everConnected, publisherVars, drops,
                 messages>>

-----------------------------------------------------------------------------
(* The status publisher and the telemetry publisher.                        *)

(* The awaiting publish: waits for room, fails once the event loop is gone. *)
Queue(request) ==
  /\ Adjacent => eventLoop # "leaving"
  /\ IF eventLoop = "stopped"
       THEN UNCHANGED outbox
       ELSE Len(outbox) < REQUEST_CAPACITY /\ outbox' = Append(outbox, request)

publisherFrame == <<boot, brokerVars, cancelled, transportVars, drops, messages>>

Receive ==
  /\ publisher = "select"
  /\ ~lagged
  /\ inbox # <<>>
  /\ inbox' = Tail(inbox)
  /\ publisher' = IF Head(inbox) = "Connected" THEN "publish" ELSE "select"
  /\ UNCHANGED <<publisherFrame, outbox, lagged>>

(* Mutant: the overwritten events are only logged.                          *)
IgnoreLag ==
  /\ publisher = "select"
  /\ lagged
  /\ lagged' = FALSE
  /\ UNCHANGED <<publisherFrame, outbox, inbox, publisher>>

(* A Connected may be among the overwritten events, so it counts as one.    *)
ReceiveLagged ==
  /\ publisher = "select"
  /\ lagged
  /\ lagged' = FALSE
  /\ publisher' = "publish"
  /\ UNCHANGED <<publisherFrame, outbox, inbox>>

PublishOnline ==
  /\ publisher = "publish"
  /\ publisher' = "select"
  /\ Queue("Online")
  /\ UNCHANGED <<publisherFrame, inbox, lagged>>

PublisherCancelled ==
  /\ publisher = "select"
  /\ cancelled
  /\ publisher' = "done"
  /\ UNCHANGED <<publisherFrame, outbox, inbox, lagged>>

(* One reading; the task is not interrupted while it waits for room.        *)
PublishTelemetry ==
  /\ messages < MaxMessages
  /\ messages' = messages + 1
  /\ Queue("Telemetry")
  /\ UNCHANGED <<boot, brokerVars, cancelled, transportVars, publisherVars, drops>>

-----------------------------------------------------------------------------
(* The process ends, at any moment, and the next one starts.                *)
Boot ==
  /\ boot < MaxBoots
  /\ boot' = boot + 1
  /\ link' = IF link = "up" THEN "stale" ELSE link
  /\ cancelled' = FALSE
  /\ eventLoop' = "running" /\ everConnected' = FALSE
  /\ outbox' = <<>>
  /\ inbox' = <<>> /\ lagged' = FALSE /\ publisher' = "select"
  /\ drops' = 0 /\ messages' = 0
  /\ UNCHANGED <<retained, will>>

Publisher == Receive \/ ReceiveLagged \/ PublishOnline \/ PublisherCancelled
Transport ==
  \/ ConnAck \/ ConnError \/ Message \/ Flush \/ Leave \/ BeginFlush \/ EndFlush

Next == Notice \/ Cancel \/ Transport \/ Publisher \/ PublishTelemetry \/ Boot

Spec == Init /\ [][Next]_vars

(* The publisher is polled, rumqttc reconnects and sends what is queued.    *)
ServedSpec == Spec /\ WF_vars(Publisher) /\ WF_vars(ConnAck) /\ WF_vars(Flush)

-----------------------------------------------------------------------------
(* Properties.                                                              *)

(* README.md:342: "automatic offline detection".  Once the broker knows     *)
(* that the node is gone, by DISCONNECT or by the end of the connection, it *)
(* does not show the node as online, whatever was queued, lost, overwritten *)
(* or sent during the flush, and whichever process registered the will.     *)
NotOnlineWhenGone == link = "none" => retained[1] # "Online"

(* Every connection of a running process ends up as the retained Online of  *)
(* that process, even if the Connected event was overwritten while the      *)
(* publisher waited, or the connection replaced one of an earlier process.  *)
OnlineFollowsConnect ==
  \A b \in 1..MaxBoots :
    (boot = b /\ link = "up")
      ~> (retained = <<"Online", b>> \/ link # "up" \/ cancelled \/ boot # b)
=============================================================================
