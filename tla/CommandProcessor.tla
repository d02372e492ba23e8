--------------------------- MODULE CommandProcessor ---------------------------
(***************************************************************************)
(* The MQTT command path of one node: the broker's session, the transport  *)
(* task that turns packets into broadcast events, the bridge task, and the *)
(* task that runs commands (services/mqtt/commands.rs, transport.rs).      *)
(*                                                                         *)
(*   session --Deliver--> broadcast --bridge task--> bridge --> processor  *)
(*   server <---Flush--- outbox <------------- publish_status/_result      *)
(*                                                                         *)
(* Everything but the broker's session is memory of one process and is     *)
(* lost by Boot (a crash or a restart).                                    *)
(***************************************************************************)
EXTENDS DedupQueue

CONSTANTS
  Name,                     (* Command names that occur in topics.         *)
  Registered,               (* Names with a handler.                       *)
  Parking,                  (* Commands whose handler never returns        *)
                            (* (restarts of unitctl itself).               *)
  Garbage,                  (* A message without command name or whose     *)
                            (* payload does not parse.                     *)
  BRIDGE_CHANNEL_CAPACITY,  (* mpsc channel: 64 in the code.               *)
  EVENT_CHANNEL_CAPACITY,   (* broadcast channel: 256 in the code.         *)
  REQUEST_CAPACITY,         (* rumqttc request channel: 50 in the code.    *)
  Messages,                 (* What the server may send.                  *)
  MaxIssued,                (* Bound: messages the server sends.           *)
  MaxErrors,                (* Bound: connection errors.                   *)
  MaxBoots                  (* Bound: process starts.                      *)

Command == [cmd : Name, uuid : Uuid]

ASSUME NamesAssumption == Registered \subseteq Name /\ Parking \subseteq Command
ASSUME MessagesAssumption ==
  /\ Garbage \notin Command \cup Uuid
  /\ Messages \subseteq Command \cup {Garbage}
ASSUME CapacityAssumption ==
  /\ BRIDGE_CHANNEL_CAPACITY \in Nat \ {0}
  /\ EVENT_CHANNEL_CAPACITY \in Nat \ {0}
  /\ REQUEST_CAPACITY \in Nat \ {0}
ASSUME BoundAssumption == MaxIssued \in Nat /\ MaxErrors \in Nat /\ MaxBoots \in Nat

VARIABLES
  session,     (* Broker: messages of the node's session not yet acked.    *)
  sent,        (* Broker: how many of them went over this connection.      *)
  connected,   (* The TCP/TLS connection is up and ConnAck was read.       *)
  subscribed,  (* Broker: the session subscribes to cmnd/+/in.             *)
  cancelled,   (* The shutdown token.                                      *)
  eventLoop,   (* Transport task: running, flushing (after the token) or   *)
               (* stopped.                                                 *)
  outbox,      (* rumqttc's request channel.                               *)
  broadcast,   (* Events the bridge task has not received.                 *)
  lagged,      (* The bridge's receiver will first report Lagged.          *)
  bridgeDone,  (* The bridge task has ended.                               *)
  held,        (* The event the bridge task is sending (at most one).      *)
  bridge,      (* The bounded mpsc channel.                                *)
  pc,          (* Where the processor task is.                             *)
  cur,         (* The command it is processing (meaningful off "select").  *)
  status,      (* Per UUID: the last state published by this process.      *)
  result,      (* Per UUID: the result published by this process.          *)
  executed,    (* History: UUIDs whose handler ran in this process.        *)
  repeated,    (* History: UUIDs whose handler ran more than once.         *)
  events,      (* History: events broadcast by this process.               *)
  lost,        (* History: ids of events overwritten before being received.*)
  done,        (* History: id of the last event taken from the bridge.     *)
  issued, errors, boots   (* Counters for the bounds.                      *)

brokerVars == <<session, sent, connected, subscribed>>
bridgeVars == <<broadcast, lagged, bridgeDone, held, bridge>>
reportVars == <<outbox, status, result>>
countVars == <<issued, errors, boots>>
runVars == <<executed, repeated>>
vars == <<dedupVars, brokerVars, bridgeVars, reportVars, countVars, cancelled,
          eventLoop, pc, cur, runVars, events, lost, done>>

Control ==
  {"select", "subscribe", "expired", "accept", "reject", "inprogress",
   "handling", "running", "completed", "failed", "resultOk", "resultError",
   "done"}

Event ==
  [kind : {"Connected", "Disconnected"}, id : Nat]
    \cup [kind : {"Message"}, id : Nat, msg : Command \cup {Garbage}]

CommandState == {"None", "Received", "Accepted", "InProgress", "Completed",
                 "Failed", "Rejected", "Expired"}

TypeOK ==
  /\ DedupTypeOK
  /\ session \in Seq(Command \cup {Garbage})
  /\ sent \in 0..Len(session)
  /\ connected \in BOOLEAN
  /\ subscribed \in BOOLEAN
  /\ cancelled \in BOOLEAN
  /\ eventLoop \in {"running", "flushing", "stopped"}
  /\ outbox \in Seq({"Subscribe", "Publish"})
  /\ Len(outbox) <= REQUEST_CAPACITY
  /\ broadcast \in Seq(Event)
  /\ Len(broadcast) <= EVENT_CHANNEL_CAPACITY
  /\ lagged \in BOOLEAN
  /\ bridgeDone \in BOOLEAN
  /\ held \in Seq(Event)
  /\ Len(held) <= 1
  /\ bridge \in Seq(Event)
  /\ Len(bridge) <= BRIDGE_CHANNEL_CAPACITY
  /\ pc \in Control
  /\ cur \in Command \cup {Garbage}
  /\ pc \notin {"select", "subscribe", "done"} => cur \in Command
  /\ status \in [Uuid -> CommandState]
  /\ result \in [Uuid -> {"None", "Ok", "Error"}]
  /\ executed \subseteq Uuid
  /\ repeated \subseteq executed
  /\ events \in Nat
  /\ lost \subseteq Nat
  /\ done \in Nat
  /\ issued \in Nat /\ errors \in Nat /\ boots \in Nat

-----------------------------------------------------------------------------
(* A process starts with empty memory and the SUBSCRIBE that main queues    *)
(* before the event loop runs (main.rs:156-183).                            *)
Init ==
  /\ DedupInit
  /\ session = <<>> /\ sent = 0 /\ connected = FALSE /\ subscribed = FALSE
  /\ cancelled = FALSE
  /\ eventLoop = "running"
  /\ outbox = <<"Subscribe">>
  /\ broadcast = <<>> /\ lagged = FALSE
  /\ bridgeDone = FALSE /\ held = <<>> /\ bridge = <<>>
  /\ pc = "select" /\ cur = Garbage
  /\ status = [u \in Uuid |-> "None"]
  /\ result = [u \in Uuid |-> "None"]
  /\ executed = {} /\ repeated = {}
  /\ events = 0 /\ lost = {} /\ done = 0
  /\ issued = 0 /\ errors = 0 /\ boots = 1

-----------------------------------------------------------------------------
(* The broker.                                                              *)

(* The server publishes a command; the broker keeps it for the session,     *)
(* whether or not the node is connected (clean_session is false).           *)
Issue(m) ==
  /\ issued < MaxIssued
  /\ subscribed
  /\ session' = Append(session, m)
  /\ issued' = issued + 1
  /\ UNCHANGED <<dedupVars, sent, connected, subscribed, bridgeVars, reportVars,
                 errors, boots, cancelled, eventLoop, pc, cur,
                 runVars, events, lost, done>>

(* The broker reads the PUBACK that rumqttc sent when it read the message.  *)
(* Until then a new connection redelivers the message.                      *)
Ack ==
  /\ connected
  /\ sent > 0
  /\ session' = Tail(session)
  /\ sent' = sent - 1
  /\ UNCHANGED <<dedupVars, connected, subscribed, bridgeVars, reportVars,
                 countVars, cancelled, eventLoop, pc, cur, runVars,
                 events, lost, done>>

(* SIGTERM or SIGINT cancels the token (main.rs:87-93).                     *)
Cancel ==
  /\ ~cancelled
  /\ cancelled' = TRUE
  /\ UNCHANGED <<dedupVars, brokerVars, bridgeVars, reportVars, countVars,
                 eventLoop, pc, cur, runVars, events, lost, done>>

-----------------------------------------------------------------------------
(* The transport task.                                                      *)

(* broadcast::Sender::send: at capacity the oldest event that the bridge    *)
(* has not received is overwritten, and its receiver will report Lagged.    *)
Send(e) ==
  /\ events' = events + 1
  /\ IF Len(broadcast) < EVENT_CHANNEL_CAPACITY
       THEN /\ broadcast' = Append(broadcast, e)
            /\ UNCHANGED <<lagged, lost>>
       ELSE /\ broadcast' = Append(Tail(broadcast), e)
            /\ lagged' = TRUE
            /\ lost' = lost \cup {Head(broadcast).id}

(* Only the running loop forwards events; the flush after the shutdown      *)
(* token polls the connection and ignores what it reads.                    *)
Forward(e) ==
  IF eventLoop = "running"
    THEN Send(e)
    ELSE UNCHANGED <<events, broadcast, lagged, lost>>

ConnAck ==
  /\ ~connected
  /\ eventLoop # "stopped"
  /\ connected' = TRUE
  /\ sent' = 0
  /\ Forward([kind |-> "Connected", id |-> events + 1])
  /\ UNCHANGED <<dedupVars, session, subscribed, bridgeDone, held, bridge,
                 reportVars, countVars, cancelled, eventLoop, pc, cur,
                 runVars, done>>

(* poll() fails: the loop reports it and polls again, the flush gives up    *)
(* and drops the event loop with everything still queued in it.             *)
ConnError ==
  /\ eventLoop # "stopped"
  /\ errors < MaxErrors
  /\ errors' = errors + 1
  /\ connected' = FALSE
  /\ sent' = 0
  /\ Forward([kind |-> "Disconnected", id |-> events + 1])
  /\ IF eventLoop = "running"
       THEN UNCHANGED <<eventLoop, outbox>>
       ELSE eventLoop' = "stopped" /\ outbox' = <<>>
  /\ UNCHANGED <<dedupVars, session, subscribed, bridgeDone, held, bridge,
                 status, result, issued, boots, cancelled, pc, cur,
                 runVars, done>>

(* The next message of the session is read; rumqttc acknowledges it before  *)
(* anyone has looked at it.                                                 *)
Deliver ==
  /\ connected
  /\ eventLoop # "stopped"
  /\ sent < Len(session)
  /\ sent' = sent + 1
  /\ Forward([kind |-> "Message", id |-> events + 1, msg |-> session[sent + 1]])
  /\ UNCHANGED <<dedupVars, session, connected, subscribed, bridgeDone, held,
                 bridge, reportVars, countVars, cancelled, eventLoop,
                 pc, cur, runVars, done>>

(* poll() takes the next request and writes it to the connection.           *)
Flush ==
  /\ connected
  /\ outbox # <<>>
  /\ outbox' = Tail(outbox)
  /\ subscribed' = (subscribed \/ Head(outbox) = "Subscribe")
  /\ UNCHANGED <<dedupVars, session, sent, connected, bridgeVars, status, result,
                 countVars, cancelled, eventLoop, pc, cur, runVars,
                 events, lost, done>>

(* The task sees the token and starts the bounded flush.                    *)
BeginFlush ==
  /\ cancelled
  /\ eventLoop = "running"
  /\ eventLoop' = "flushing"
  /\ UNCHANGED <<dedupVars, brokerVars, bridgeVars, reportVars, countVars,
                 cancelled, pc, cur, runVars, events, lost, done>>

(* DISCONNECT was written, or two seconds passed: the event loop is dropped *)
(* and publish() fails from now on.                                         *)
EndFlush ==
  /\ eventLoop = "flushing"
  /\ eventLoop' = "stopped"
  /\ outbox' = <<>>
  /\ connected' = FALSE
  /\ sent' = 0
  /\ UNCHANGED <<dedupVars, session, subscribed, bridgeVars, status, result,
                 countVars, cancelled, pc, cur, runVars, events,
                 lost, done>>

-----------------------------------------------------------------------------
(* The bridge task (fill_bridge_queue).                                     *)

transportVars == <<cancelled, eventLoop>>
processorVars == <<pc, cur, runVars, done>>

BridgeRecv ==
  /\ ~bridgeDone
  /\ held = <<>>
  /\ ~lagged
  /\ broadcast # <<>>
  /\ held' = <<Head(broadcast)>>
  /\ broadcast' = Tail(broadcast)
  /\ UNCHANGED <<dedupVars, brokerVars, reportVars, countVars, transportVars,
                 processorVars, lagged, bridgeDone, bridge, events, lost>>

(* Mutant: a lagged receiver ends the task as a closed one does.            *)
BridgeEndingOnLag ==
  /\ ~bridgeDone
  /\ held = <<>>
  /\ lagged
  /\ lagged' = FALSE
  /\ bridgeDone' = TRUE
  /\ UNCHANGED <<dedupVars, brokerVars, reportVars, countVars, transportVars,
                 processorVars, broadcast, held, bridge, events, lost>>

(* The loss is logged and nothing else happens.                             *)
BridgeLagged ==
  /\ ~bridgeDone
  /\ held = <<>>
  /\ lagged
  /\ lagged' = FALSE
  /\ UNCHANGED <<dedupVars, brokerVars, reportVars, countVars, transportVars,
                 processorVars, broadcast, bridgeDone, held, bridge, events,
                 lost>>

(* Mutants of BridgeSend: the event is not taken out of the task's hands;   *)
(* the dropped receiver goes unnoticed; a full channel drops the event.     *)
BridgeTrySend ==
  /\ held # <<>>
  /\ held' = <<>>
  /\ IF pc = "done"
       THEN bridgeDone' = TRUE /\ UNCHANGED bridge
       ELSE /\ bridge' = IF Len(bridge) < BRIDGE_CHANNEL_CAPACITY
                         THEN Append(bridge, Head(held)) ELSE bridge
            /\ UNCHANGED bridgeDone
  /\ UNCHANGED <<dedupVars, brokerVars, reportVars, countVars, transportVars,
                 processorVars, broadcast, lagged, events, lost>>

BridgeSendAgain ==
  /\ held # <<>>
  /\ IF pc = "done"
       THEN bridgeDone' = TRUE /\ held' = <<>> /\ UNCHANGED bridge
       ELSE /\ Len(bridge) < BRIDGE_CHANNEL_CAPACITY
            /\ bridge' = Append(bridge, Head(held))
            /\ UNCHANGED <<bridgeDone, held>>
  /\ UNCHANGED <<dedupVars, brokerVars, reportVars, countVars, transportVars,
                 processorVars, broadcast, lagged, events, lost>>

BridgeSendUnnoticed ==
  /\ held # <<>>
  /\ Len(bridge) < BRIDGE_CHANNEL_CAPACITY
  /\ pc # "done"
  /\ bridge' = Append(bridge, Head(held))
  /\ held' = <<>>
  /\ UNCHANGED <<dedupVars, brokerVars, reportVars, countVars, transportVars,
                 processorVars, broadcast, lagged, bridgeDone, events, lost>>

(* The awaiting send: it waits while the channel is full, does not watch    *)
(* the token, and fails once the processor dropped the receiver.            *)
BridgeSend ==
  /\ held # <<>>
  /\ held' = <<>>
  /\ IF pc = "done"
       THEN bridgeDone' = TRUE /\ UNCHANGED bridge
       ELSE /\ Len(bridge) < BRIDGE_CHANNEL_CAPACITY
            /\ bridge' = Append(bridge, Head(held))
            /\ UNCHANGED bridgeDone
  /\ UNCHANGED <<dedupVars, brokerVars, reportVars, countVars, transportVars,
                 processorVars, broadcast, lagged, events, lost>>

BridgeCancelled ==
  /\ cancelled
  /\ ~bridgeDone
  /\ held = <<>>
  /\ bridgeDone' = TRUE
  /\ UNCHANGED <<dedupVars, brokerVars, reportVars, countVars, transportVars,
                 processorVars, broadcast, lagged, held, bridge, events, lost>>

Bridge == BridgeRecv \/ BridgeLagged \/ BridgeSend \/ BridgeCancelled

-----------------------------------------------------------------------------
(* The processor task (drain_commands, process_command).  Its selects are   *)
(* unbiased: with the token cancelled and an event queued, either wins.     *)

processorOthers == <<brokerVars, countVars, transportVars, broadcast, lagged,
                     bridgeDone, held, events, lost>>

(* The task ends: the receiver goes with what is queued in it.              *)
DrainCancelled ==
  /\ pc = "select"
  /\ cancelled
  /\ pc' = "done"
  /\ bridge' = <<>>
  /\ UNCHANGED <<dedupVars, reportVars, processorOthers, cur, runVars, done>>

DrainClosed ==
  /\ pc = "select"
  /\ bridge = <<>>
  /\ bridgeDone
  /\ pc' = "done"
  /\ UNCHANGED <<dedupVars, reportVars, processorOthers, cur, runVars, done,
                 bridge>>

Take ==
  /\ pc = "select"
  /\ bridge # <<>>
  /\ bridge' = Tail(bridge)
  /\ done' = Head(bridge).id

TakeConnected ==
  /\ Take
  /\ Head(bridge).kind = "Connected"
  /\ pc' = "subscribe"
  /\ UNCHANGED <<dedupVars, reportVars, processorOthers, cur, runVars>>

(* Disconnected, an invalid topic, or a payload that does not parse.        *)
TakeIgnored ==
  /\ Take
  /\ \/ Head(bridge).kind = "Disconnected"
     \/ Head(bridge).kind = "Message" /\ Head(bridge).msg = Garbage
  /\ UNCHANGED <<dedupVars, reportVars, processorOthers, pc, cur, runVars>>

TakeDuplicate ==
  /\ Take
  /\ Head(bridge).kind = "Message"
  /\ Head(bridge).msg # Garbage
  /\ Duplicate(Head(bridge).msg.uuid)
  /\ UNCHANGED <<reportVars, processorOthers, pc, cur, runVars>>

(* The UUID is recorded first, the TTL is checked second; no await between. *)
(* late: the envelope has a TTL and its expiry has passed by now.           *)
TakeCommand(late) ==
  /\ Take
  /\ Head(bridge).kind = "Message"
  /\ Head(bridge).msg # Garbage
  /\ LET m == Head(bridge).msg
     IN  /\ Record(m.uuid)
         /\ cur' = m
         /\ pc' = IF late THEN "expired" ELSE "accept"
         /\ status' = [status EXCEPT ![m.uuid] = "Received"]
         /\ result' = [result EXCEPT ![m.uuid] = "None"]
  /\ UNCHANGED <<processorOthers, outbox, runVars>>

(* Mutant: the request channel has no bound.                                *)
EnqueueUnbounded(request) ==
  outbox' = IF eventLoop = "stopped" THEN outbox ELSE Append(outbox, request)

(* A request to rumqttc: it waits while the request channel is full and     *)
(* fails, which is only logged, once the event loop is gone.                *)
Enqueue(request) ==
  \/ /\ eventLoop # "stopped"
     /\ Len(outbox) < REQUEST_CAPACITY
     /\ outbox' = Append(outbox, request)
  \/ /\ eventLoop = "stopped"
     /\ UNCHANGED outbox

Resubscribe ==
  /\ pc = "subscribe"
  /\ pc' = "select"
  /\ Enqueue("Subscribe")
  /\ UNCHANGED <<dedupVars, processorOthers, bridge, status, result, cur,
                 runVars, done>>

(* publish_status, then on to the next step of process_command.             *)
PublishStatus(at, state, next) ==
  /\ pc = at
  /\ pc' = next
  /\ Enqueue("Publish")
  /\ status' = IF eventLoop = "stopped" THEN status
               ELSE [status EXCEPT ![cur.uuid] = state]
  /\ UNCHANGED <<dedupVars, processorOthers, bridge, result, cur, runVars, done>>

PublishResult(at, outcome) ==
  /\ pc = at
  /\ pc' = "select"
  /\ Enqueue("Publish")
  /\ result' = IF eventLoop = "stopped" THEN result
               ELSE [result EXCEPT ![cur.uuid] = outcome]
  /\ UNCHANGED <<dedupVars, processorOthers, bridge, status, cur, runVars, done>>

PublishExpired == PublishStatus("expired", "Expired", "select")

(* Mutant: a registered command is run without announcing that it runs.     *)
PublishAcceptedHastily ==
  PublishStatus("accept", "Accepted",
                IF cur.cmd \in Registered THEN "handling" ELSE "reject")

PublishAccepted ==
  PublishStatus("accept", "Accepted",
                IF cur.cmd \in Registered THEN "inprogress" ELSE "reject")
PublishRejected == PublishStatus("reject", "Rejected", "select")
PublishInProgress == PublishStatus("inprogress", "InProgress", "handling")
PublishCompleted == PublishStatus("completed", "Completed", "resultOk")
PublishFailed == PublishStatus("failed", "Failed", "resultError")

(* The first poll of the handler's future: its effects begin.               *)
StartHandler ==
  /\ pc = "handling"
  /\ pc' = "running"
  /\ executed' = executed \cup {cur.uuid}
  /\ repeated' = repeated \cup (executed \cap {cur.uuid})
  /\ UNCHANGED <<dedupVars, reportVars, processorOthers, bridge, cur, done>>

(* The handler returns.  A parking handler returns only with an error.      *)
HandlerReturns(outcome) ==
  /\ pc = "running"
  /\ cur \in Parking => outcome = "failed"
  /\ pc' = outcome
  /\ UNCHANGED <<dedupVars, reportVars, processorOthers, bridge, cur,
                 runVars, done>>

(* The token wins the select around the handler, which is dropped; nothing  *)
(* is published.                                                            *)
HandlerCancelled ==
  /\ pc \in {"handling", "running"}
  /\ cancelled
  /\ pc' = "select"
  /\ UNCHANGED <<dedupVars, reportVars, processorOthers, bridge, cur,
                 runVars, done>>

Publish ==
  \/ PublishExpired \/ PublishAccepted \/ PublishRejected \/ PublishInProgress
  \/ PublishCompleted \/ PublishFailed
  \/ PublishResult("resultOk", "Ok") \/ PublishResult("resultError", "Error")

(* Everything the processor task does without waiting for a handler.        *)
Processor ==
  \/ DrainCancelled \/ DrainClosed
  \/ TakeConnected \/ TakeIgnored \/ TakeDuplicate
  \/ \E late \in BOOLEAN : TakeCommand(late)
  \/ Resubscribe \/ Publish
  \/ StartHandler \/ HandlerCancelled

HandlerReturn == \E outcome \in {"completed", "failed"} : HandlerReturns(outcome)

-----------------------------------------------------------------------------
(* A crash at any moment, or the exit after all tasks ended, and the next   *)
(* start by systemd: the broker's session survives, the memory does not.    *)
Boot ==
  /\ boots < MaxBoots
  /\ boots' = boots + 1
  /\ DedupReset
  /\ connected' = FALSE /\ sent' = 0
  /\ cancelled' = FALSE
  /\ eventLoop' = "running"
  /\ outbox' = <<"Subscribe">>
  /\ broadcast' = <<>> /\ lagged' = FALSE
  /\ bridgeDone' = FALSE /\ held' = <<>> /\ bridge' = <<>>
  /\ pc' = "select" /\ cur' = Garbage
  /\ status' = [u \in Uuid |-> "None"]
  /\ result' = [u \in Uuid |-> "None"]
  /\ events' = 0 /\ lost' = {} /\ done' = 0
  /\ executed' = {} /\ repeated' = {}
  /\ UNCHANGED <<session, subscribed, issued, errors>>

Broker == Ack \/ \E m \in Messages : Issue(m)
Transport ==
  ConnAck \/ ConnError \/ Deliver \/ Flush \/ BeginFlush \/ EndFlush

Next ==
  \/ Broker \/ Cancel \/ Transport
  \/ Bridge \/ Processor \/ HandlerReturn
  \/ Boot

Spec == Init /\ [][Next]_vars

(* Tokio polls every task that can go on; the two-second bound ends the     *)
(* flush.  Nothing is assumed of the broker, the clock or the handlers.     *)
TaskFairness ==
  /\ WF_vars(Bridge) /\ WF_vars(Processor)
  /\ WF_vars(BeginFlush) /\ WF_vars(EndFlush)

(* In addition rumqttc reconnects (every second) and writes its requests,   *)
(* and handlers other than the parking ones return.                         *)
ServiceFairness ==
  /\ WF_vars(ConnAck) /\ WF_vars(Flush)
  /\ WF_vars(HandlerReturn /\ cur \notin Parking)

FairSpec == Spec /\ TaskFairness

-----------------------------------------------------------------------------
(* Properties.                                                              *)

(* Events on their way to the processor, oldest first.                      *)
Pipeline == bridge \o held \o broadcast

(* Commands are processed in the order the broker delivered them and no     *)
(* event is processed twice, whatever the three queues, the overwriting of  *)
(* unread events and the two tasks do between them.                         *)
PipelineOrdered ==
  /\ \A i, j \in 1..Len(Pipeline) :
        i < j => Pipeline[i].id < Pipeline[j].id
  /\ \A i \in 1..Len(Pipeline) : done < Pipeline[i].id

(* No event disappears silently: while both tasks are alive, an event       *)
(* broadcast by this process was processed, is under way, or was counted    *)
(* as overwritten.                                                          *)
EventsAccounted ==
  ~bridgeDone /\ pc # "done" =>
    \A n \in (done + 1)..events :
      n \in lost \/ \E i \in 1..Len(Pipeline) : Pipeline[i].id = n

Open == pc \notin {"select", "subscribe", "done"}

(* What the last publication must have been at each step of process_command;*)
(* once the event loop is gone nothing more is published.  Only the token   *)
(* ends the event loop.                                                     *)
LastPublished ==
  [at \in Control \ {"select", "subscribe", "done"} |->
     CASE at \in {"expired", "accept"} -> "Received"
       [] at \in {"reject", "inprogress"} -> "Accepted"
       [] at = "resultOk" -> "Completed"
       [] at = "resultError" -> "Failed"
       [] OTHER -> "InProgress"]

StatusFollowsControl ==
  /\ eventLoop # "running" => cancelled
  /\ Open => eventLoop = "stopped" \/ status[cur.uuid] = LastPublished[pc]

(* The service implements the lifecycle promised to the server: one command *)
(* at a time, legal state sequences, results that agree with the final      *)
(* state, and no command abandoned unless shutdown has begun.               *)
LC == INSTANCE CommandLifecycle WITH
        history <- recorded,
        open <- (IF Open THEN cur.uuid ELSE Garbage),
        stopping <- cancelled,
        Window <- DEDUP_CAPACITY,
        NoUuid <- Garbage

ImplementsLifecycle == LC!Spec

TasksEnded == eventLoop = "stopped" /\ bridgeDone /\ pc = "done"

(* After the token is cancelled all three tasks end, whatever the broker,   *)
(* the connection and the handlers do: no full queue and no parked handler  *)
(* keeps main from joining them (main.rs:201-207).                          *)
ShutdownEnds == cancelled ~> (TasksEnded \/ ~cancelled)

Parked == pc = "running" /\ cur \in Parking

(* As long as the service is fair a queued event does not wait forever      *)
(* behind slow handlers and full queues; the one exception is a handler     *)
(* that parks until the shutdown.                                           *)
EventsProcessed ==
  ServiceFairness =>
    \A n \in 1..(MaxIssued * (MaxErrors + 1) + 2 * MaxErrors + 1) :
      (\E i \in 1..Len(Pipeline) : Pipeline[i].id = n)
        ~> (~(\E i \in 1..Len(Pipeline) : Pipeline[i].id = n)
              \/ cancelled \/ Parked)

(* commands.rs:71-72: the UUIDs are kept "to prevent duplicate execution    *)
(* from QoS 1 redeliveries".  They are memory of the process, and within    *)
(* one process a handler runs twice for a UUID only when more than          *)
(* DEDUP_CAPACITY commands were taken between the two.                      *)
NoDuplicateExecution ==
  \A u \in repeated : \E i, j \in 1..Len(recorded) :
     i + DEDUP_CAPACITY < j /\ recorded[i] = u /\ recorded[j] = u
=============================================================================
