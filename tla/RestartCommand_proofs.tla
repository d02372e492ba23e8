------------------------- MODULE RestartCommand_proofs -------------------------
(***************************************************************************)
(* Proofs about RestartCommand.  The type invariant needs no assumption.   *)
(* The properties of the deferred reports need ClaimFirst: without it      *)
(* the rename of the completion task can take the file of a restart that   *)
(* the very same process handles.  With it no write is ever open during    *)
(* the rename (fd stays 0), so that a claimed file was written by an       *)
(* earlier process, and what the handler deletes is what it wrote.         *)
(***************************************************************************)
EXTENDS RestartCommand, SequenceTheorems, TLAPS

(* While the completion task still looks for files, commands wait.          *)
Claiming == pub \in {"collect", "claim"}

(* Process b may announce u: an earlier process was asked for it.           *)
Justified(u, b) ==
  \E p \in Process :
    /\ p < b
    /\ <<u, p, "unitctl">> \in requests
    /\ <<u, p>> \in refused => u \in undeleted

(* Process p left u in the main file, and if p is the running one its       *)
(* handler has not failed since without deleting it.                        *)
Wrote(u, p) ==
  /\ <<u, p, "unitctl">> \in requests
  /\ <<u, p>> \in refused => u \in undeleted
  /\ \/ p < boot
     \/ /\ p = boot /\ ~Claiming
        /\ \/ cmd \in {"idle", "done", "systemctl", "parked", "delete"}
           \/ cur # u
           \/ cmd = "failed" /\ u \in undeleted

(* An accepted restart: in a file, reported or overwritten; a file that the *)
(* handler may still write or delete is not one to count on.                *)
Kept(u) ==
  \/ \E b \in Process : scratch[b] = u
  \/ \E q \in Process : <<u, q>> \in published
  \/ u \in overwritten
  \/ main = u /\ cmd \notin {"write", "systemctl", "delete"}

(* The completion task: what it reads is there, and what it publishes has   *)
(* been filtered.                                                           *)
TaskInv ==
  /\ pub = "read" => scratch[boot] # Absent
  /\ pub \in {"collect", "claim", "read", "filter"} => doomed = {}
  /\ pub \notin {"collect", "claim", "read", "filter"} =>
       \A e \in entries : e.uuid # Empty

(* The handler: its write goes to the main path, whose content it knows     *)
(* until it parks; its command was recorded and has not failed yet.         *)
HandlerInv ==
  /\ fd = 0
  /\ Claiming => cmd \in {"idle", "done"}
  /\ cmd \in {"create", "write", "systemctl", "parked", "delete"} =>
       <<cur, boot, "unitctl">> \in requests
  /\ cmd = "write" => main = Empty
  /\ cmd \in {"systemctl", "delete"} => main = cur
  /\ cmd \notin {"idle", "done"} =>
       /\ <<cur, boot>> \notin refused
       /\ \E t \in Targets : <<cur, boot, t>> \in requests
  /\ \A u \in Uuid, p \in Process :
       <<u, p>> \in refused => \E t \in Targets : <<u, p, t>> \in requests

(* The files: every UUID in one is justified, what the task holds in memory *)
(* is what is in them, and none that is to be thrown away has a UUID.       *)
FileInv ==
  /\ main \in Uuid => \E p \in Process : Wrote(main, p)
  /\ \A b \in Process : scratch[b] # Absent => b <= boot
  /\ Claiming => scratch[boot] = Absent
  /\ \A b \in Process : scratch[b] \in Uuid => Justified(scratch[b], b)
  /\ \A e \in entries : scratch[e.file] = e.uuid
  /\ \A b \in doomed : scratch[b] \notin Uuid

(* The reports.                                                             *)
ReportInv ==
  /\ \A u \in Uuid, b \in Process :
       <<u, b>> \in announced => b <= boot /\ Justified(u, b)
  /\ pub = "remove" => <<job.uuid, boot>> \in published
  /\ \A u \in Uuid, p \in Process : <<u, p>> \in accepted => Kept(u)

-----------------------------------------------------------------------------
(* The type invariant, by parts.                                            *)

FilesTyped ==
  /\ main \in Content
  /\ scratch \in [Process -> Content]
  /\ doomed \subseteq Process

HandlerTyped ==
  /\ cmd \in Handling
  /\ cur \in Uuid \cup {Absent}
  /\ cmd \notin {"idle", "done"} => cur \in Uuid
  /\ unit \in {"", "camera", "mavlink", "modem-restart"}
  /\ fd \in 0..MaxBoots

SystemTyped ==
  /\ boot \in Process
  /\ timers \subseteq Uuid
  /\ stopJob \in BOOLEAN

TaskTyped ==
  /\ pub \in Publishing
  /\ entries \subseteq Entry
  /\ pub \in {"result", "remove"} => job \in entries /\ job.uuid # Empty
  /\ statusOk \in BOOLEAN

ReceiverTyped ==
  /\ inbox \in Seq(Event)
  /\ Len(inbox) <= EVENT_CHANNEL_CAPACITY
  /\ {lagged, missed} \subseteq BOOLEAN

MqttTyped ==
  /\ connected \in {"never", "up", "down"}
  /\ cancelled \in BOOLEAN
  /\ eventLoop \in {"running", "flushing", "stopped"}
  /\ outbox \in Seq(Report)
  /\ Len(outbox) <= REQUEST_CAPACITY
  /\ reported \subseteq Report

HistoryTyped ==
  /\ requests \subseteq Uuid \X Process \X Targets
  /\ accepted \subseteq Uuid \X Process
  /\ refused \subseteq Uuid \X Process
  /\ announced \subseteq Uuid \X Process
  /\ published \subseteq Uuid \X Process
  /\ overwritten \subseteq Uuid
  /\ undeleted \subseteq Uuid
  /\ owed \subseteq Uuid
  /\ forgotten \subseteq Uuid
  /\ requested \in Nat
  /\ ioErrors \in Nat

Typed ==
  /\ FilesTyped /\ HandlerTyped /\ SystemTyped
  /\ TaskTyped /\ ReceiverTyped /\ MqttTyped /\ HistoryTyped

(* TypeOK is the conjunction of the parts.                                  *)
LEMMA TypeParts == TypeOK <=> Typed
BY DEF Typed, TypeOK, FilesTyped, HandlerTyped, SystemTyped, TaskTyped, ReceiverTyped,
   MqttTyped, HistoryTyped

(* A part whose variables a step leaves alone stays true.                   *)
LEMMA Unmoved ==
  /\ FilesTyped /\ UNCHANGED fileVars => FilesTyped'
  /\ HandlerTyped /\ UNCHANGED handlerVars => HandlerTyped'
  /\ SystemTyped /\ UNCHANGED systemVars => SystemTyped'
  /\ TaskTyped /\ UNCHANGED <<pub, entries, job, statusOk>> => TaskTyped'
  /\ ReceiverTyped /\ UNCHANGED receiverVars => ReceiverTyped'
  /\ MqttTyped /\ UNCHANGED mqttVars => MqttTyped'
  /\ HistoryTyped /\ UNCHANGED <<handlerHistory, taskHistory, owed, requested, ioErrors>>
       => HistoryTyped'
<1>1. FilesTyped /\ UNCHANGED fileVars => FilesTyped'
  BY DEF FilesTyped, fileVars
<1>2. HandlerTyped /\ UNCHANGED handlerVars => HandlerTyped'
  BY DEF HandlerTyped, handlerVars
<1>3. SystemTyped /\ UNCHANGED systemVars => SystemTyped'
  BY DEF SystemTyped, systemVars
<1>4. TaskTyped /\ UNCHANGED <<pub, entries, job, statusOk>> => TaskTyped'
  BY DEF TaskTyped
<1>7. ReceiverTyped /\ UNCHANGED receiverVars => ReceiverTyped'
  BY DEF ReceiverTyped, receiverVars
<1>5. MqttTyped /\ UNCHANGED mqttVars => MqttTyped'
  BY DEF MqttTyped, mqttVars
<1>6. HistoryTyped /\ UNCHANGED <<handlerHistory, taskHistory, owed, requested, ioErrors>>
        => HistoryTyped'
  BY DEF HistoryTyped, handlerHistory, taskHistory
<1> QED
  BY <1>1, <1>2, <1>3, <1>4, <1>5, <1>6, <1>7

(* A receiver that was dropped has nothing left, and one that is there gets *)
(* events within the capacity.                                              *)
LEMMA NoEvents == <<>> \in Seq(Event) /\ Len(<<>>) <= EVENT_CHANNEL_CAPACITY
<1>1. Len(<<>>) = 0
  BY EmptySeq
<1> QED
  BY <1>1, EmptySeq, EventCapacityAssumption

LEMMA StopType ==
  ASSUME StopListening
  PROVE  ReceiverTyped'
BY NoEvents DEF StopListening, ReceiverTyped

LEMMA BroadcastType ==
  ASSUME ReceiverTyped, NEW event \in Event, Broadcast(event)
  PROVE  ReceiverTyped'
<1>1. CASE UNCHANGED receiverVars
  BY <1>1, Unmoved
<1>2. CASE ~UNCHANGED receiverVars
  <2>1. /\ inbox \in Seq(Event) /\ Len(inbox) \in Nat
        /\ Len(inbox) <= EVENT_CHANNEL_CAPACITY
    BY DEF ReceiverTyped
  <2>2. missed' = ((Hears \/ missed) /\ ~Hears')
    BY <1>2 DEF Broadcast
  <2>3. missed' \in BOOLEAN
    BY <2>2, Zenon
  <2>4. CASE Len(inbox) < EVENT_CHANNEL_CAPACITY
    <3>1. inbox' = Append(inbox, event) /\ UNCHANGED lagged
      BY <1>2, <2>4 DEF Broadcast
    <3>2. inbox' \in Seq(Event) /\ Len(inbox') = Len(inbox) + 1
      BY <2>1, <3>1
    <3> QED
      BY <2>1, <2>3, <2>4, <3>1, <3>2, EventCapacityAssumption DEF ReceiverTyped
  <2>5. CASE ~(Len(inbox) < EVENT_CHANNEL_CAPACITY)
    <3>1. inbox' = Append(Tail(inbox), event) /\ lagged' = TRUE
      BY <1>2, <2>5 DEF Broadcast
    <3>2. inbox # <<>>
      BY <2>1, <2>5, EmptySeq, EventCapacityAssumption
    <3>3. Tail(inbox) \in Seq(Event) /\ Len(Tail(inbox)) = Len(inbox) - 1
      BY <2>1, <3>2, HeadTailProperties
    <3>4. inbox' \in Seq(Event) /\ Len(inbox') = Len(inbox)
      BY <2>1, <3>1, <3>3
    <3> QED
      BY <2>1, <2>3, <3>1, <3>4 DEF ReceiverTyped
  <2> QED
    BY <2>4, <2>5
<1> QED
  BY <1>1, <1>2

(* An empty outbox is one.                                                  *)
LEMMA NoReports == <<>> \in Seq(Report) /\ Len(<<>>) <= REQUEST_CAPACITY
<1>1. Len(<<>>) = 0
  BY EmptySeq
<1> QED
  BY <1>1, EmptySeq, RequestCapacityAssumption

(* The counter of failing operations is a number.                           *)
LEMMA Counted ==
  ASSUME HistoryTyped, IoError \/ UNCHANGED ioErrors
  PROVE  ioErrors' \in Nat
<1>1. ioErrors \in Nat
  BY DEF HistoryTyped
<1> QED
  BY <1>1 DEF IoError

(* Processes are numbered, within the bound, in the order they start.       *)
LEMMA BootsNat == MaxBoots \in Nat /\ 0 \in 0..MaxBoots /\ 1 \in 1..MaxBoots
BY BootsAssumption

LEMMA NextProcess ==
  ASSUME NEW b \in Process, b < MaxBoots
  PROVE  b + 1 \in Process
BY BootsAssumption DEF Process

LEMMA Later ==
  ASSUME NEW b \in Process
  PROVE  /\ \A c \in Process : c <= b => c <= b + 1 /\ c < b + 1
         /\ ~(b + 1 <= b)
BY BootsAssumption DEF Process

(* A report is queued within the capacity, or not at all.                   *)
LEMMA PublishType ==
  ASSUME NEW report \in Report, MqttTyped, Publish(report)
  PROVE  outbox' \in Seq(Report) /\ Len(outbox') <= REQUEST_CAPACITY
<1>1. outbox \in Seq(Report) /\ Len(outbox) <= REQUEST_CAPACITY
  BY DEF MqttTyped
<1>2. CASE UNCHANGED outbox
  BY <1>1, <1>2
<1>3. CASE Len(outbox) < REQUEST_CAPACITY /\ outbox' = Append(outbox, report)
  <2>1. Append(outbox, report) \in Seq(Report)
    BY <1>1
  <2>2. Len(Append(outbox, report)) = Len(outbox) + 1
    BY <1>1
  <2>3. Len(outbox) + 1 <= REQUEST_CAPACITY
    BY <1>1, <1>3, RequestCapacityAssumption
  <2> QED
    BY <2>1, <2>2, <2>3, <1>3
<1> QED
  BY <1>2, <1>3 DEF Publish

(* A command is taken.                                                      *)
LEMMA RequestType ==
  ASSUME Typed, NEW u \in Uuid, NEW target \in Targets, Request(u, target)
  PROVE  Typed'
<1> USE DEF Typed, Request, handlerFrame
<1>1. HandlerTyped'
  BY DEF HandlerTyped, Handling, unit_for
<1>2. requested' \in Nat
  BY DEF HistoryTyped
<1>3. requests' \subseteq Uuid \X Process \X Targets
  BY DEF HistoryTyped, SystemTyped
<1>4. HistoryTyped'
  BY <1>2, <1>3 DEF HistoryTyped, taskHistory
<1> QED
  BY <1>1, <1>4, Unmoved DEF fileVars, systemVars, taskVars, mqttVars

(* Steps of the handler.                                                    *)
LEMMA HandlerType ==
  ASSUME Typed, Handler
  PROVE  Typed'
<1> USE DEF Typed, Either, handlerFrame, unitFrame, fileVars, systemVars, taskVars,
            mqttVars, handlerHistory, taskHistory
<1>1. CASE VerifyActive
  <2>1. HandlerTyped'
    BY <1>1 DEF VerifyActive, HandlerTyped, Handling
  <2> QED
    BY <1>1, <2>1, Unmoved DEF VerifyActive
<1>2. CASE CreateFile
  <2> USE <1>2 DEF CreateFile
  <2>1. FilesTyped'
    BY DEF FilesTyped, Content
  <2>2. HandlerTyped'
    BY BootsNat DEF HandlerTyped, Handling
  <2>3. ioErrors' \in Nat
    BY Counted
  <2>4. HistoryTyped'
    BY <2>3 DEF HistoryTyped
  <2> QED
    BY <2>1, <2>2, <2>4, Unmoved
<1>3. CASE WriteFile
  <2> USE <1>3 DEF WriteFile
  <2>1. FilesTyped'
    BY DEF FilesTyped, HandlerTyped, Content, Written
  <2>2. HandlerTyped'
    BY DEF HandlerTyped, Handling
  <2>3. ioErrors' \in Nat
    BY Counted
  <2>4. HistoryTyped'
    BY <2>3 DEF HistoryTyped
  <2> QED
    BY <2>1, <2>2, <2>4, Unmoved
<1>4. CASE DeletePending
  <2> USE <1>4 DEF DeletePending
  <2>1. FilesTyped'
    BY DEF FilesTyped, Content
  <2>2. HandlerTyped'
    BY DEF HandlerTyped, Handling
  <2>3. ioErrors' \in Nat
    BY Counted
  <2>4. HistoryTyped'
    BY <2>3 DEF HistoryTyped, HandlerTyped
  <2> QED
    BY <2>1, <2>2, <2>4, Unmoved
<1>5. CASE ScheduleReboot
  <2> USE <1>5 DEF ScheduleReboot
  <2>1. HandlerTyped'
    BY DEF HandlerTyped, Handling
  <2>2. timers' \subseteq Uuid
    BY DEF SystemTyped, HandlerTyped
  <2>3. SystemTyped'
    BY <2>2 DEF SystemTyped
  <2> QED
    BY <2>1, <2>3, Unmoved
<1>6. CASE ReportOutcome
  <2> USE <1>6 DEF ReportOutcome
  <2>1. HandlerTyped'
    BY DEF HandlerTyped, Handling
  <2>2. [uuid |-> cur, kind |-> IF cmd = "failed" THEN "Failed" ELSE "Ok"] \in Report
    BY DEF HandlerTyped, Report
  <2>3. MqttTyped'
    BY <2>2, PublishType DEF MqttTyped
  <2>4. refused' \subseteq Uuid \X Process
    <3>1. <<cur, boot>> \in Uuid \X Process
      BY DEF HandlerTyped, SystemTyped
    <3>2. refused \subseteq Uuid \X Process
      BY DEF HistoryTyped
    <3> QED
      BY <3>1, <3>2
  <2>5. HistoryTyped'
    BY <2>4 DEF HistoryTyped
  <2> QED
    BY <2>1, <2>3, <2>5, Unmoved
<1>7. CASE HandlerCancelled
  <2> USE <1>7 DEF HandlerCancelled
  <2>1. FilesTyped'
    BY DEF FilesTyped, HandlerTyped, Content, Written
  <2>2. HandlerTyped'
    BY DEF HandlerTyped, Handling
  <2> QED
    BY <2>1, <2>2, Unmoved
<1>8. CASE ProcessorStops
  <2>1. HandlerTyped'
    BY <1>8 DEF ProcessorStops, HandlerTyped, Handling
  <2> QED
    BY <1>8, <2>1, Unmoved DEF ProcessorStops
<1> QED
  BY <1>1, <1>2, <1>3, <1>4, <1>5, <1>6, <1>7, <1>8 DEF Handler

(* Steps of systemd and of the reboot timers.                               *)
LEMMA SystemType ==
  ASSUME Typed, Systemctl \/ RebootRuns
  PROVE  Typed'
<1> USE DEF Typed, handlerFrame, unitFrame, fileVars, systemVars, taskVars, mqttVars,
            handlerHistory, taskHistory
<1>1. CASE RestartUnit
  <2>1. HandlerTyped'
    BY <1>1 DEF RestartUnit, HandlerTyped, Handling
  <2> QED
    BY <1>1, <2>1, Unmoved DEF RestartUnit
<1>2. CASE RestartAccepted
  <2> USE <1>2 DEF RestartAccepted
  <2>1. HandlerTyped'
    BY DEF HandlerTyped, Handling
  <2>2. SystemTyped'
    BY DEF SystemTyped
  <2>3. accepted' \subseteq Uuid \X Process
    <3>1. <<cur, boot>> \in Uuid \X Process
      BY DEF HandlerTyped, SystemTyped
    <3>2. accepted \subseteq Uuid \X Process
      BY DEF HistoryTyped
    <3> QED
      BY <3>1, <3>2
  <2>4. HistoryTyped'
    BY <2>3 DEF HistoryTyped
  <2> QED
    BY <2>1, <2>2, <2>4, Unmoved
<1>3. CASE SystemctlKilled \/ RestartRefused
  <2>1. HandlerTyped'
    BY <1>3 DEF SystemctlKilled, RestartRefused, HandlerTyped, Handling
  <2> QED
    BY <1>3, <2>1, Unmoved DEF SystemctlKilled, RestartRefused
<1>4. CASE RebootRuns
  <2> USE <1>4 DEF RebootRuns
  <2>1. stopJob' \in BOOLEAN
    BY Zenon DEF SystemTyped
  <2>2. SystemTyped'
    BY <2>1 DEF SystemTyped
  <2> QED
    BY <2>2, Unmoved DEF handlerVars
<1> QED
  BY <1>1, <1>2, <1>3, <1>4 DEF Systemctl

(* Steps of the completion task.                                            *)
LEMMA CompletionType ==
  ASSUME Typed, TaskInv, Completion
  PROVE  Typed'
<1> USE DEF Typed, Either, taskFrame, fileVars, handlerVars, systemVars, taskVars, mqttVars,
            handlerHistory, taskHistory
<1>1. CASE Collect
  <2> USE <1>1 DEF Collect
  <2>1. Orphans \subseteq Entry
    BY DEF Orphans, Entry, FilesTyped, Content
  <2>2. TaskTyped'
    BY <2>1 DEF TaskTyped, Publishing
  <2>3. ioErrors' \in Nat
    BY Counted
  <2>4. forgotten' \subseteq Uuid
    BY DEF HistoryTyped
  <2>5. HistoryTyped'
    BY <2>3, <2>4 DEF HistoryTyped
  <2> QED
    BY <2>2, <2>5, Unmoved
<1>2. CASE Claim
  <2> USE <1>2 DEF Claim
  <2>1. FilesTyped'
    BY DEF FilesTyped, Content, SystemTyped
  <2>2. boot \in 0..MaxBoots
    BY BootsAssumption DEF SystemTyped, Process
  <2>3. HandlerTyped'
    BY <2>2 DEF HandlerTyped
  <2>4. TaskTyped'
    BY DEF TaskTyped, Publishing
  <2>5. ioErrors' \in Nat
    BY Counted
  <2>6. forgotten' \subseteq Uuid
    BY DEF HistoryTyped
  <2>7. HistoryTyped'
    BY <2>5, <2>6 DEF HistoryTyped
  <2> QED
    BY <2>1, <2>3, <2>4, <2>7, Unmoved
<1>3. CASE ReadClaimed
  <2> USE <1>3 DEF ReadClaimed
  <2>1. [file |-> boot, uuid |-> scratch[boot]] \in Entry
    BY DEF TaskInv, SystemTyped, FilesTyped, Entry, Content
  <2>2. entries' \subseteq Entry
    BY <2>1 DEF TaskTyped
  <2>3. TaskTyped'
    BY <2>2 DEF TaskTyped, Publishing
  <2>4. ioErrors' \in Nat
    BY Counted
  <2>5. forgotten' \subseteq Uuid
    BY DEF HistoryTyped
  <2>6. HistoryTyped'
    BY <2>4, <2>5 DEF HistoryTyped
  <2> QED
    BY <2>3, <2>6, Unmoved
<1>4. CASE Filter
  <2> USE <1>4 DEF Filter
  <2>1. doomed' \subseteq Process
    BY DEF TaskTyped, Entry
  <2>2. FilesTyped'
    BY <2>1 DEF FilesTyped
  <2>3. entries' \subseteq Entry
    BY DEF TaskTyped
  <2>4. TaskTyped'
    BY <2>3 DEF TaskTyped, Publishing
  <2>5. ReceiverTyped'
    BY StopType, Unmoved
  <2> QED
    BY <2>2, <2>4, <2>5, Unmoved
<1>5. CASE RemoveDoomed
  <2> USE <1>5 DEF RemoveDoomed
  <2>1. FilesTyped'
    BY DEF FilesTyped, Content
  <2>2. ioErrors' \in Nat
    BY Counted
  <2>3. HistoryTyped'
    BY <2>2 DEF HistoryTyped
  <2> QED
    BY <2>1, <2>3, Unmoved
<1>6. CASE WaitConnected \/ WaitLagged \/ WaitCancelled
  <2>1. TaskTyped'
    BY <1>6 DEF WaitConnected, WaitLagged, WaitCancelled, TaskTyped, Publishing
  <2>2. ReceiverTyped'
    <3>1. CASE StopListening
      BY <3>1, StopType
    <3>2. CASE WaitConnected /\ ~StopListening
      <4>1. inbox \in Seq(Event) /\ inbox # <<>> /\ inbox' = Tail(inbox)
            /\ UNCHANGED <<lagged, missed>>
        BY <3>2 DEF WaitConnected, ReceiverTyped
      <4>2. inbox' \in Seq(Event) /\ Len(inbox') = Len(inbox) - 1 /\ Len(inbox) \in Nat
        BY <4>1, HeadTailProperties
      <4> QED
        BY <4>1, <4>2, EventCapacityAssumption DEF ReceiverTyped
    <3>3. CASE WaitLagged
      BY <3>3 DEF WaitLagged, ReceiverTyped
    <3> QED
      BY <1>6, <3>1, <3>2, <3>3 DEF WaitCancelled
  <2> QED
    BY <1>6, <2>1, <2>2, Unmoved DEF WaitConnected, WaitLagged, WaitCancelled
<1>7. CASE PublishStatus
  <2> USE <1>7 DEF PublishStatus
  <2>1. PICK e \in entries :
          /\ job' = e
          /\ Publish([uuid |-> e.uuid, kind |-> "Completed"])
          /\ announced' = IF Taken THEN announced \cup {<<e.uuid, boot>>} ELSE announced
    OBVIOUS
  <2>2. e.uuid \in Uuid /\ e.uuid # Empty
    BY DEF TaskInv, TaskTyped, Entry
  <2>3. statusOk' \in BOOLEAN
    BY DEF Taken
  <2>4. TaskTyped'
    BY <2>1, <2>2, <2>3 DEF TaskTyped, Publishing
  <2>5. [uuid |-> e.uuid, kind |-> "Completed"] \in Report
    BY <2>2 DEF Report
  <2>6. MqttTyped'
    BY <2>1, <2>5, PublishType DEF MqttTyped
  <2>7. announced' \subseteq Uuid \X Process
    BY <2>1, <2>2 DEF HistoryTyped, SystemTyped
  <2>8. HistoryTyped'
    BY <2>7 DEF HistoryTyped
  <2> QED
    BY <2>4, <2>6, <2>8, Unmoved
<1>8. CASE PublishResult
  <2> USE <1>8 DEF PublishResult, NextEntry
  <2>1. job \in entries /\ job.uuid # Empty /\ job.uuid \in Uuid
    BY DEF TaskTyped, Entry
  <2>2. TaskTyped'
    BY <2>1 DEF TaskTyped, Publishing
  <2>3. [uuid |-> job.uuid, kind |-> "Ok"] \in Report
    BY <2>1 DEF Report
  <2>4. MqttTyped'
    BY <2>3, PublishType DEF MqttTyped
  <2>5. published' \subseteq Uuid \X Process
    BY <2>1 DEF HistoryTyped, SystemTyped
  <2>6. HistoryTyped'
    BY <2>5 DEF HistoryTyped
  <2> QED
    BY <2>2, <2>4, <2>6, Unmoved
<1>9. CASE RemovePublished
  <2> USE <1>9 DEF RemovePublished, NextEntry
  <2>1. FilesTyped'
    BY DEF FilesTyped, Content
  <2>2. TaskTyped'
    BY DEF TaskTyped, Publishing
  <2>3. ioErrors' \in Nat
    BY Counted
  <2>4. HistoryTyped'
    BY <2>3 DEF HistoryTyped
  <2> QED
    BY <2>1, <2>2, <2>4, Unmoved
<1> QED
  BY <1>1, <1>2, <1>3, <1>4, <1>5, <1>6, <1>7, <1>8, <1>9 DEF Completion

(* Steps of the transport task.                                             *)
LEMMA TransportType ==
  ASSUME Typed, Transport \/ Cancel
  PROVE  Typed'
<1> USE DEF Typed, transportFrame, taskVars
<1>1. CASE Connect \/ Disconnect \/ OtherEvent
  <2>1. MqttTyped'
    BY <1>1 DEF Connect, Disconnect, OtherEvent, MqttTyped
  <2>2. ReceiverTyped'
    BY <1>1, BroadcastType DEF Connect, Disconnect, OtherEvent, Event
  <2> QED
    BY <1>1, <2>1, <2>2, Unmoved DEF Connect, Disconnect, OtherEvent
<1>2. CASE BeginFlush \/ Cancel
  <2>1. MqttTyped'
    BY <1>2 DEF BeginFlush, Cancel, MqttTyped
  <2> QED
    BY <1>2, <2>1, Unmoved DEF BeginFlush, Cancel
<1>3. CASE Flush
  <2> USE <1>3 DEF Flush
  <2>1. outbox \in Seq(Report) /\ outbox # <<>> /\ Len(outbox) <= REQUEST_CAPACITY
    BY DEF MqttTyped
  <2>2. Head(outbox) \in Report /\ Tail(outbox) \in Seq(Report)
    BY <2>1, HeadTailProperties
  <2>3. Len(Tail(outbox)) <= REQUEST_CAPACITY
    BY <2>1, HeadTailProperties, RequestCapacityAssumption
  <2>4. MqttTyped'
    BY <2>2, <2>3 DEF MqttTyped
  <2> QED
    BY <2>4, Unmoved
<1>4. CASE EndFlush
  <2>1. MqttTyped'
    BY <1>4, NoReports DEF EndFlush, MqttTyped
  <2> QED
    BY <1>4, <2>1, Unmoved DEF EndFlush
<1> QED
  BY <1>1, <1>2, <1>3, <1>4 DEF Transport

(* The next process starts.                                                 *)
LEMMA BootType ==
  ASSUME Typed, Boot
  PROVE  Typed'
<1> USE DEF Typed, Boot
<1>1. FilesTyped'
  BY DEF FilesTyped
<1>2. HandlerTyped'
  BY BootsNat DEF HandlerTyped, Handling
<1>3. boot' \in Process
  BY NextProcess DEF SystemTyped
<1>4. SystemTyped'
  BY <1>3 DEF SystemTyped
<1>5. TaskTyped'
  BY DEF TaskTyped, Publishing
<1>6. MqttTyped'
  BY NoReports DEF MqttTyped
<1>7. owed' \subseteq Uuid /\ forgotten' \subseteq Uuid
  OBVIOUS
<1>8. HistoryTyped'
  BY <1>7 DEF HistoryTyped, handlerHistory
<1> QED
  BY <1>1, <1>2, <1>4, <1>5, <1>6, <1>8, StopType

(* Every step keeps the types.                                              *)
LEMMA TypeNext ==
  ASSUME Typed, TaskInv, [Next]_vars
  PROVE  Typed'
<1>1. CASE UNCHANGED vars
  BY <1>1, Unmoved DEF Typed, vars, taskVars
<1> QED
  BY <1>1, RequestType, HandlerType, SystemType, CompletionType, TransportType, BootType
     DEF Next

(* Every step keeps what the completion task relies on.                     *)
LEMMA TaskNext ==
  ASSUME Typed, TaskInv, [Next]_vars
  PROVE  TaskInv'
<1> USE ContentAssumption DEF Typed, TaskInv
<1>1. CASE (\E u \in Uuid, target \in Targets : Request(u, target)) \/ Handler
  <2>1. UNCHANGED <<boot, pub, entries, doomed>>
    BY <1>1 DEF Request, Handler, VerifyActive, CreateFile, WriteFile, DeletePending,
       ScheduleReboot, ReportOutcome, HandlerCancelled, ProcessorStops, handlerFrame,
       unitFrame, taskVars, fileVars, systemVars
  <2>2. UNCHANGED scratch \/ (cmd = "write" /\ Written)
    BY <1>1 DEF Request, Handler, VerifyActive, CreateFile, WriteFile, DeletePending,
       ScheduleReboot, ReportOutcome, HandlerCancelled, ProcessorStops, handlerFrame,
       unitFrame, taskVars, fileVars, Either
  <2>3. scratch[boot] # Absent => scratch'[boot] # Absent
    BY <2>2 DEF Written, HandlerTyped, FilesTyped, SystemTyped
  <2> QED
    BY <2>1, <2>3
<1>2. CASE Systemctl \/ RebootRuns \/ Transport \/ Cancel \/ UNCHANGED vars
  <2>1. UNCHANGED <<boot, pub, entries, doomed, scratch>>
    BY <1>2 DEF Systemctl, RestartUnit, RestartAccepted, SystemctlKilled, RestartRefused,
       RebootRuns, Transport, Connect, Disconnect, OtherEvent, Flush, BeginFlush,
       EndFlush, Cancel,
       handlerFrame, unitFrame, transportFrame, taskVars, fileVars, systemVars, vars
  <2> QED
    BY <2>1
<1>3. CASE Collect
  BY <1>3 DEF Collect, fileVars
<1>4. CASE Claim
  BY <1>4 DEF Claim, taskFrame, systemVars, Either, FilesTyped, SystemTyped
<1>5. CASE ReadClaimed
  BY <1>5 DEF ReadClaimed, fileVars
<1>6. CASE Filter
  BY <1>6 DEF Filter
<1>7. CASE RemoveDoomed
  BY <1>7 DEF RemoveDoomed, taskVars
<1>8. CASE WaitConnected \/ WaitLagged \/ WaitCancelled \/ PublishStatus
  BY <1>8 DEF WaitConnected, WaitLagged, WaitCancelled, PublishStatus, fileVars
<1>9. CASE PublishResult
  BY <1>9 DEF PublishResult, NextEntry, fileVars
<1>10. CASE RemovePublished
  BY <1>10 DEF RemovePublished, NextEntry
<1>11. CASE Boot
  BY <1>11 DEF Boot
<1> QED
  BY <1>1, <1>2, <1>3, <1>4, <1>5, <1>6, <1>7, <1>8, <1>9, <1>10, <1>11
     DEF Next, Completion

(* Histories only grow, and a step adds at most the current command to      *)
(* those that failed.                                                       *)
LEMMA HistoryGrows ==
  ASSUME [Next]_vars
  PROVE  /\ requests \subseteq requests'
         /\ undeleted \subseteq undeleted'
         /\ overwritten \subseteq overwritten'
         /\ published \subseteq published'
         /\ refused' \subseteq refused \cup {<<cur, boot>>}
<1> USE DEF handlerHistory, taskHistory
<1>1. CASE (\E u \in Uuid, target \in Targets : Request(u, target)) \/ Handler
  BY <1>1 DEF Request, Handler, VerifyActive, CreateFile, WriteFile, DeletePending, Either,
     ScheduleReboot, ReportOutcome, HandlerCancelled, ProcessorStops, handlerFrame,
     unitFrame
<1>2. CASE Systemctl \/ RebootRuns \/ Transport \/ Cancel \/ Boot \/ UNCHANGED vars
  BY <1>2 DEF Systemctl, RestartUnit, RestartAccepted, SystemctlKilled, RestartRefused,
     RebootRuns, Transport, Connect, Disconnect, OtherEvent, Flush, BeginFlush, EndFlush,
     Cancel, Boot, handlerFrame, unitFrame, transportFrame, vars
<1>3. CASE Completion
  BY <1>3 DEF Completion, Collect, Claim, ReadClaimed, Filter, RemoveDoomed,
     WaitConnected, WaitLagged,
     WaitCancelled, PublishStatus, PublishResult, RemovePublished, taskFrame
<1> QED
  BY <1>1, <1>2, <1>3 DEF Next

(* A report once justified stays so.                                        *)
LEMMA JustifiedStays ==
  ASSUME Typed, NEW u \in Uuid, NEW b \in Process, b <= boot, Justified(u, b), [Next]_vars
  PROVE  Justified(u, b)'
<1>1. PICK p \in Process : /\ p < b
                           /\ <<u, p, "unitctl">> \in requests
                           /\ <<u, p>> \in refused => u \in undeleted
  BY DEF Justified
<1>2. p # boot
  BY <1>1, BootsAssumption DEF Typed, SystemTyped, Process
<1>3. <<u, p>> # <<cur, boot>>
  BY <1>2
<1>4. <<u, p>> \in refused' => u \in undeleted'
  BY <1>1, <1>3, HistoryGrows
<1>5. <<u, p, "unitctl">> \in requests'
  BY <1>1, HistoryGrows
<1> QED
  BY <1>1, <1>4, <1>5 DEF Justified

(* The variables that the invariants below speak of, and the steps that     *)
(* touch none of them.                                                      *)
Quiet == <<boot, main, scratch, doomed, cmd, cur, fd, pub, entries, job, requests,
           accepted, refused, undeleted, overwritten, announced, published>>

LEMMA QuietSteps ==
  ASSUME Transport \/ Cancel \/ RebootRuns \/ UNCHANGED vars
  PROVE  UNCHANGED Quiet
BY DEF Transport, Connect, Disconnect, OtherEvent, Flush, BeginFlush, EndFlush, Cancel,
   RebootRuns, transportFrame, handlerFrame, fileVars, handlerVars, systemVars, taskVars,
   handlerHistory, taskHistory, vars, Quiet

(* What a step of the completion task leaves to the handler.                *)
LEMMA CompletionFrame ==
  ASSUME Completion
  PROVE  UNCHANGED <<boot, cmd, cur, requests, accepted, refused, undeleted, overwritten>>
BY DEF Completion, Collect, Claim, ReadClaimed, Filter, RemoveDoomed, WaitConnected,
   WaitLagged,
   WaitCancelled, PublishStatus, PublishResult, RemovePublished, taskFrame, systemVars,
   handlerHistory

(* Only Claim touches the main file, and only the first two steps run while *)
(* commands have to wait.                                                   *)
LEMMA CompletionAfterClaim ==
  ASSUME Completion, ~Claim
  PROVE  UNCHANGED <<main, fd>> /\ (Claiming' => Claiming)
BY DEF Completion, Collect, ReadClaimed, Filter, RemoveDoomed, WaitConnected, WaitLagged,
   WaitCancelled,
   PublishStatus, PublishResult, RemovePublished, NextEntry, Claiming, fileVars, taskVars

(* What a step of the handler leaves to the completion task.                *)
LEMMA HandlerFrame ==
  ASSUME Handler \/ Systemctl \/ \E u \in Uuid, target \in Targets : Request(u, target)
  PROVE  UNCHANGED <<boot, pub, entries, job, doomed, announced, published>>
BY DEF Request, Handler, VerifyActive, CreateFile, WriteFile, DeletePending, ScheduleReboot,
   ReportOutcome, HandlerCancelled, ProcessorStops, Systemctl, RestartUnit, RestartAccepted,
   SystemctlKilled, RestartRefused, handlerFrame, unitFrame, taskVars, taskHistory,
   fileVars, systemVars

(* Every step keeps the invariant of the handler.                           *)
LEMMA HandlerNext ==
  ASSUME ClaimFirst, Typed, HandlerInv, [Next]_vars
  PROVE  HandlerInv'
<1> USE DEF HandlerInv
<1>1. CASE Transport \/ Cancel \/ RebootRuns \/ UNCHANGED vars
  BY <1>1, QuietSteps DEF Quiet, Claiming
<1>2. CASE \E u \in Uuid, target \in Targets : Request(u, target)
  <2>1. PICK u \in Uuid, target \in Targets : Request(u, target)
    BY <1>2
  <2> USE <2>1 DEF Request, handlerFrame, taskVars
  <2>2. ~Claiming /\ ~Claiming' /\ cmd = "idle" /\ UNCHANGED <<main, boot, fd, refused>>
    BY DEF Claiming
  <2>3. <<u, boot>> \notin refused
    <3>1. \A t \in Targets : <<u, boot, t>> \notin requests
      OBVIOUS
    <3> QED
      BY <3>1 DEF Typed, SystemTyped
  <2>4. cmd' = "create" => target = "unitctl"
    OBVIOUS
  <2>5. cmd' \in {"create", "reboot", "unit"}
    OBVIOUS
  <2>6. requests' = requests \cup {<<u, boot, target>>} /\ cur' = u
    OBVIOUS
  <2> QED
    BY <2>2, <2>3, <2>4, <2>5, <2>6
<1>3. CASE Handler
  <2>1. UNCHANGED <<boot, pub, requests>>
    BY <1>3, HandlerFrame DEF Handler, VerifyActive, CreateFile, WriteFile, DeletePending,
       ScheduleReboot, ReportOutcome, HandlerCancelled, ProcessorStops, unitFrame,
       handlerHistory
  <2>2. CASE VerifyActive
    BY <2>1, <2>2 DEF VerifyActive, unitFrame, handlerHistory, Claiming
  <2>3. CASE CreateFile
    BY <2>1, <2>3 DEF CreateFile, Either, Claiming
  <2>4. CASE WriteFile
    BY <2>1, <2>4 DEF WriteFile, Either, Written, handlerHistory, Claiming
  <2>5. CASE DeletePending
    BY <2>1, <2>5 DEF DeletePending, Either, Claiming
  <2>6. CASE ScheduleReboot
    BY <2>1, <2>6 DEF ScheduleReboot, handlerHistory, Claiming
  <2>7. CASE ReportOutcome
    BY <2>1, <2>7 DEF ReportOutcome, fileVars, Claiming
  <2>8. CASE HandlerCancelled \/ ProcessorStops
    BY <2>1, <2>8 DEF HandlerCancelled, ProcessorStops, handlerHistory, Claiming
  <2> QED
    BY <1>3, <2>2, <2>3, <2>4, <2>5, <2>6, <2>7, <2>8 DEF Handler
<1>4. CASE Systemctl
  BY <1>4, HandlerFrame DEF Systemctl, RestartUnit, RestartAccepted, SystemctlKilled,
     RestartRefused, unitFrame, handlerHistory, Claiming
<1>5. CASE Claim
  BY <1>5, CompletionFrame DEF Completion, Claim, Either, Claiming
<1>6. CASE Completion /\ ~Claim
  BY <1>6, CompletionFrame, CompletionAfterClaim
<1>7. CASE Boot
  BY <1>7 DEF Boot, handlerHistory, Claiming
<1> QED
  BY <1>1, <1>2, <1>3, <1>4, <1>5, <1>6, <1>7 DEF Next, Completion

(* Who wrote a file stays justified while the main file holds its UUID.     *)
LEMMA WroteStays ==
  ASSUME ClaimFirst, Typed, HandlerInv, NEW u \in Uuid, NEW p \in Process, Wrote(u, p),
         main = u, main' = u, [Next]_vars
  PROVE  Wrote(u, p)'
<1>1. <<u, p, "unitctl">> \in requests'
  BY HistoryGrows DEF Wrote
<1>2. CASE p < boot
  <2>1. <<u, p>> # <<cur, boot>>
    BY <1>2 DEF Typed, SystemTyped, Process
  <2>2. <<u, p>> \in refused' => u \in undeleted'
    BY <2>1, HistoryGrows DEF Wrote
  <2>3. p < boot'
    <3>1. boot' = boot \/ (Boot /\ boot' = boot + 1)
      BY HandlerFrame, CompletionFrame, QuietSteps DEF Next, Quiet, Boot
    <3> QED
      BY <1>2, <3>1 DEF Typed, SystemTyped, Process
  <2> QED
    BY <1>1, <2>2, <2>3 DEF Wrote
<1>3. CASE /\ p = boot /\ ~Claiming
           /\ \/ cmd \in {"idle", "done", "systemctl", "parked", "delete"}
              \/ cur # u
              \/ cmd = "failed" /\ u \in undeleted
  <2>1. CASE Boot
    <3>1. boot < boot + 1
      BY DEF Typed, SystemTyped, Process
    <3>2. p < boot'
      BY <1>3, <2>1, <3>1 DEF Boot
    <3> QED
      BY <1>1, <2>1, <3>2 DEF Wrote, Boot, handlerHistory
  <2>2. CASE Transport \/ Cancel \/ RebootRuns \/ UNCHANGED vars
    BY <1>3, <2>2, QuietSteps DEF Quiet, Wrote, Claiming
  <2>3. CASE Completion
    <3>1. ~Claim
      BY <2>3, <1>3 DEF Claim, Claiming
    <3> QED
      BY <1>3, <2>3, <3>1, CompletionFrame, CompletionAfterClaim DEF Wrote
  <2>4. CASE \E v \in Uuid, target \in Targets : Request(v, target)
    <3>1. PICK v \in Uuid, target \in Targets : Request(v, target)
      BY <2>4
    <3>2. v # u
      BY <3>1, <1>3 DEF Wrote, Request
    <3> QED
      BY <1>1, <1>3, <3>1, <3>2
         DEF Request, handlerFrame, taskVars, Wrote, Claiming
  <2>5. CASE Systemctl
    BY <1>1, <1>3, <2>5, HandlerFrame DEF Systemctl, RestartUnit, RestartAccepted,
       SystemctlKilled, RestartRefused, unitFrame, handlerHistory, Wrote, Claiming
  <2>6. CASE Handler
    <3>1. p = boot' /\ ~Claiming'
      BY <1>3, <2>6, HandlerFrame DEF Claiming
    <3> USE DEF Wrote
    <3>2. CASE VerifyActive
      BY <1>1, <1>3, <3>1, <3>2 DEF VerifyActive, unitFrame, handlerHistory
    <3>3. CASE CreateFile
      BY <1>1, <1>3, <3>1, <3>3, ContentAssumption DEF CreateFile, Either
    <3>4. CASE WriteFile
      BY <1>1, <1>3, <3>1, <3>4, ContentAssumption DEF WriteFile, HandlerInv
    <3>5. CASE DeletePending
      BY <1>1, <1>3, <3>1, <3>5, ContentAssumption DEF DeletePending, Either
    <3>6. CASE ScheduleReboot
      BY <1>1, <1>3, <3>1, <3>6 DEF ScheduleReboot, handlerHistory
    <3>7. CASE ReportOutcome
      BY <1>1, <1>3, <3>1, <3>7 DEF ReportOutcome
    <3>8. CASE HandlerCancelled \/ ProcessorStops
      BY <1>1, <1>3, <3>1, <3>8 DEF HandlerCancelled, ProcessorStops, handlerHistory
    <3> QED
      BY <2>6, <3>2, <3>3, <3>4, <3>5, <3>6, <3>7, <3>8 DEF Handler
  <2> QED
    BY <2>1, <2>2, <2>3, <2>4, <2>5, <2>6 DEF Next
<1> QED
  BY <1>2, <1>3 DEF Wrote

(* The main file.                                                           *)
LEMMA MainNext ==
  ASSUME ClaimFirst, Typed, HandlerInv, FileInv, [Next]_vars, main' \in Uuid
  PROVE  \E p \in Process : Wrote(main, p)'
<1>1. CASE main' = main
  <2>1. PICK p \in Process : Wrote(main, p)
    BY <1>1 DEF FileInv
  <2>2. \A u \in Uuid : u = main => Wrote(u, p)'
    BY <1>1, <2>1, WroteStays
  <2>3. Wrote(main, p)'
    BY <1>1, <2>2 DEF Wrote
  <2> QED
    BY <2>3
<1>2. CASE main' # main
  <2> USE ContentAssumption
  <2>1. ~(Transport \/ Cancel \/ RebootRuns \/ Systemctl \/ Boot \/ UNCHANGED vars)
    BY <1>2, QuietSteps DEF Quiet, Systemctl, RestartUnit, RestartAccepted, SystemctlKilled,
       RestartRefused, unitFrame, Boot
  <2>2. ~Completion
    <3>1. ~Claim
      BY <1>2 DEF Claim, Either
    <3> QED
      BY <1>2, <3>1, CompletionAfterClaim
  <2>3. ~\E u \in Uuid, target \in Targets : Request(u, target)
    BY <1>2 DEF Request
  <2>4. /\ cmd = "write" /\ main' = cur /\ UNCHANGED <<cur, requests, refused>>
        /\ cmd' \in {"idle", "systemctl"}
    BY <1>2, <2>1, <2>2, <2>3
       DEF Next, Handler, VerifyActive, CreateFile, WriteFile, DeletePending,
          ScheduleReboot,
           ReportOutcome, HandlerCancelled, ProcessorStops, Either, Written, unitFrame,
           fileVars, handlerHistory
  <2>5. UNCHANGED <<boot, pub>>
    BY <2>1, <2>2, HandlerFrame DEF Next
  <2>6. ~Claiming'
    BY <2>4, <2>5 DEF HandlerInv, Claiming
  <2>7. <<cur, boot, "unitctl">> \in requests /\ <<cur, boot>> \notin refused
    BY <2>4 DEF HandlerInv
  <2>8. boot \in Process /\ boot = boot'
    BY <2>5 DEF Typed, SystemTyped
  <2>9. Wrote(main, boot)'
    BY <2>4, <2>5, <2>6, <2>7 DEF Wrote
  <2> QED
    BY <2>8, <2>9
<1> QED
  BY <1>1, <1>2

(* The scratch files, in the steps that do not change them.                 *)
LEMMA ScratchStays ==
  ASSUME Typed, FileInv, UNCHANGED <<scratch, boot>>, [Next]_vars
  PROVE  /\ (\A b \in Process : scratch[b] # Absent => b <= boot)'
         /\ (\A b \in Process : scratch[b] \in Uuid => Justified(scratch[b], b))'
<1>1. ASSUME NEW b \in Process, scratch[b] \in Uuid
      PROVE  Justified(scratch[b], b)'
  <2>1. b <= boot /\ Justified(scratch[b], b)
    BY <1>1, ContentAssumption DEF FileInv
  <2>2. \A u \in Uuid : u = scratch[b] => Justified(u, b)'
    BY <2>1, JustifiedStays
  <2> QED
    BY <1>1, <2>2 DEF Justified
<1> QED
  BY <1>1 DEF FileInv

(* Every step keeps the invariant of the files.                             *)
LEMMA FileNext ==
  ASSUME ClaimFirst, Typed, TaskInv, HandlerInv, FileInv, [Next]_vars
  PROVE  FileInv'
<1> USE ContentAssumption
<1>1. (main \in Uuid => \E p \in Process : Wrote(main, p))'
  BY MainNext
<1> DEFINE Started == \A b \in Process : scratch[b] # Absent => b <= boot
           Genuine == \A b \in Process : scratch[b] \in Uuid => Justified(scratch[b], b)
           Fresh == Claiming => scratch[boot] = Absent
           Held == \A e \in entries : scratch[e.file] = e.uuid
           Junk == \A b \in doomed : scratch[b] \notin Uuid
<1>2. FileInv => Started /\ Genuine /\ Fresh /\ Held /\ Junk
  BY DEF FileInv
<1>3. Started' /\ Genuine' /\ Fresh' /\ Held' /\ Junk' => FileInv'
  BY <1>1 DEF FileInv
<1>4. CASE Transport \/ Cancel \/ RebootRuns \/ UNCHANGED vars
  BY <1>2, <1>3, <1>4, QuietSteps, ScratchStays DEF Quiet, Claiming
<1>5. CASE Handler \/ Systemctl \/ \E u \in Uuid, target \in Targets : Request(u, target)
  <2>1. UNCHANGED <<boot, pub, entries, doomed>>
    BY <1>5, HandlerFrame
  <2>2. UNCHANGED scratch
    BY <1>5 DEF Request, Handler, VerifyActive, CreateFile, WriteFile, DeletePending,
       ScheduleReboot, ReportOutcome, HandlerCancelled, ProcessorStops, Systemctl,
       RestartUnit,
       RestartAccepted, SystemctlKilled, RestartRefused, unitFrame, fileVars, Either,
       Written, HandlerInv
  <2> QED
    BY <1>2, <1>3, <2>1, <2>2, ScratchStays DEF Claiming
<1>6. CASE Claim
  <2> USE <1>6 DEF Claim
  <2>1. UNCHANGED <<boot, entries, doomed>> /\ Claiming /\ ~Claiming'
    BY CompletionFrame DEF Completion, Either, Claiming
  <2>2. CASE UNCHANGED scratch
    BY <1>2, <1>3, <2>1, <2>2, ScratchStays
  <2>3. CASE main # Absent /\ scratch' = [scratch EXCEPT ![boot] = main]
    <3>1. boot \in Process /\ scratch \in [Process -> Content] /\ boot <= boot
      BY DEF Typed, SystemTyped, FilesTyped, Process
    <3>2. Started'
      BY <1>2, <2>1, <2>3, <3>1
    <3>3. ASSUME NEW b \in Process, scratch'[b] \in Uuid
          PROVE  Justified(scratch[b], b)'
      <4>1. b <= boot
        BY <3>2, <3>3, <2>1
      <4>2. Justified(scratch'[b], b)
        <5>1. CASE b = boot
          <6>1. PICK p \in Process : Wrote(main, p)
            BY <2>3, <3>1, <3>3, <5>1 DEF FileInv
          <6>2. p < boot
            BY <2>1, <6>1 DEF Wrote
          <6> QED
            BY <2>3, <3>1, <5>1, <6>1, <6>2 DEF Justified, Wrote
        <5>2. CASE b # boot
          BY <1>2, <2>3, <3>1, <3>3, <5>2
        <5> QED
          BY <5>1, <5>2
      <4>3. \A u \in Uuid : u = scratch'[b] => Justified(u, b)'
        BY <4>1, <4>2, JustifiedStays
      <4> QED
        BY <3>3, <4>3 DEF Justified
    <3>4. Held'
      <4>1. ASSUME NEW e \in entries
            PROVE  scratch'[e.file] = e.uuid
        <5>1. e.file \in Process /\ e.uuid # Absent
          BY DEF Typed, TaskTyped, Entry, Absent, Empty
        <5>2. e.file # boot
          BY <5>1, <1>2, <2>1
        <5> QED
          BY <5>1, <5>2, <1>2, <2>3, <3>1
      <4> QED
        BY <2>1, <4>1
    <3>5. Junk'
      BY <2>1 DEF TaskInv
    <3> QED
      BY <1>3, <2>1, <3>2, <3>3, <3>4, <3>5
  <2> QED
    BY <2>2, <2>3 DEF Either
<1>7. CASE Collect
  <2> USE <1>7 DEF Collect, fileVars, taskFrame, systemVars
  <2>1. UNCHANGED <<boot, scratch, doomed>> /\ Claiming
    BY DEF Claiming
  <2>2. Held'
    BY <2>1 DEF Either, Orphans
  <2> QED
    BY <1>2, <1>3, <2>1, <2>2, ScratchStays
<1>8. CASE ReadClaimed
  <2> USE <1>8 DEF ReadClaimed, fileVars, taskFrame, systemVars
  <2>1. UNCHANGED <<boot, scratch, doomed>> /\ ~Claiming'
    BY DEF Claiming
  <2>2. Held'
    BY <1>2, <2>1 DEF Either
  <2> QED
    BY <1>2, <1>3, <2>1, <2>2, ScratchStays
<1>9. CASE Filter
  <2> USE <1>9 DEF Filter, taskFrame, systemVars
  <2>1. UNCHANGED <<boot, scratch>> /\ ~Claiming'
    BY DEF Claiming
  <2>2. entries' \subseteq entries
    OBVIOUS
  <2>3. Held'
    BY <1>2, <2>1, <2>2
  <2>4. Junk'
    BY <1>2, <2>1
  <2> QED
    BY <1>2, <1>3, <2>1, <2>3, <2>4, ScratchStays
<1>10. CASE WaitConnected \/ WaitLagged \/ WaitCancelled \/ PublishStatus \/ PublishResult
  <2>1. UNCHANGED <<boot, scratch, doomed>> /\ ~Claiming' /\ entries' \subseteq entries
    BY <1>10 DEF WaitConnected, WaitLagged, WaitCancelled, PublishStatus, PublishResult,
       NextEntry, taskFrame, systemVars, fileVars, Claiming
  <2> QED
    BY <1>2, <1>3, <2>1, ScratchStays
<1>11. CASE RemoveDoomed \/ RemovePublished
  <2>1. /\ UNCHANGED boot /\ entries' \subseteq entries /\ doomed' \subseteq doomed
        /\ Claiming' => Claiming
    BY <1>11 DEF RemoveDoomed, RemovePublished, NextEntry, taskFrame, systemVars, taskVars,
       Claiming
  <2>2. CASE UNCHANGED scratch
    BY <1>2, <1>3, <2>1, <2>2, ScratchStays DEF Claiming
  <2>3. CASE scratch' # scratch
    <3>1. PICK b \in Process :
            /\ scratch' = [scratch EXCEPT ![b] = Absent]
            /\ \A e \in entries' : e.file # b
      <4>1. CASE RemoveDoomed
        <5>1. PICK b \in doomed : scratch' = [scratch EXCEPT ![b] = Absent]
          BY <2>3, <4>1 DEF RemoveDoomed, Either
        <5>2. pub \notin {"collect", "claim", "read", "filter"}
          BY <5>1 DEF TaskInv
        <5>3. \A e \in entries : e.uuid \in Uuid
          BY <5>2 DEF TaskInv, Typed, TaskTyped, Entry
        <5>4. b \in Process /\ scratch[b] \notin Uuid
          BY <1>2, <5>1 DEF Typed, FilesTyped
        <5>5. \A e \in entries' : e.file # b
          BY <1>2, <2>1, <5>3, <5>4
        <5> QED
          BY <5>1, <5>4, <5>5
      <4>2. CASE RemovePublished
        <5>1. scratch' = [scratch EXCEPT ![job.file] = Absent] /\ entries' = entries \ {job}
          BY <2>3, <4>2 DEF RemovePublished, Either, NextEntry
        <5>2. job \in entries /\ job.file \in Process
          BY <4>2 DEF RemovePublished, Typed, TaskTyped, Entry
        <5>3. \A e \in entries : e.file = job.file => e = job
          BY <1>2, <5>2 DEF Typed, TaskTyped, Entry
        <5> QED
          BY <5>1, <5>2, <5>3
      <4> QED
        BY <1>11, <4>1, <4>2
    <3>2. scratch \in [Process -> Content]
      BY DEF Typed, FilesTyped
    <3>3. \A c \in Process : scratch'[c] = scratch[c] \/ (c = b /\ scratch'[c] = Absent)
      BY <3>1, <3>2
    <3>4. Started' /\ Fresh'
      BY <1>2, <2>1, <3>3 DEF Claiming, Typed, SystemTyped
    <3>5. ASSUME NEW c \in Process, scratch'[c] \in Uuid
          PROVE  Justified(scratch[c], c)'
      <4>1. scratch'[c] = scratch[c] /\ c <= boot /\ Justified(scratch[c], c)
        BY <1>2, <3>3, <3>5
      <4>2. \A u \in Uuid : u = scratch[c] => Justified(u, c)'
        BY <4>1, JustifiedStays
      <4> QED
        BY <3>5, <4>1, <4>2 DEF Justified
    <3>6. Held'
      BY <1>2, <2>1, <3>1, <3>3 DEF Typed, TaskTyped, Entry
    <3>7. Junk'
      BY <1>2, <2>1, <3>3 DEF Typed, FilesTyped
    <3> QED
      BY <1>3, <3>4, <3>5, <3>6, <3>7
  <2> QED
    BY <2>2, <2>3
<1>12. CASE Boot
  <2> USE <1>12 DEF Boot
  <2>1. UNCHANGED scratch /\ boot' = boot + 1 /\ boot \in Process /\ boot + 1 \in Process
    <3>1. boot \in Process /\ boot < MaxBoots
      BY DEF Typed, SystemTyped
    <3>2. boot + 1 \in Process
      BY <3>1, NextProcess
    <3> QED
      BY <3>1, <3>2
  <2>2. Started'
    <3>1. \A b \in Process : b <= boot => b <= boot + 1
      BY <2>1, Later
    <3> QED
      BY <1>2, <2>1, <3>1
  <2>3. Fresh'
    <3>1. ~(boot + 1 <= boot)
      BY <2>1, Later
    <3> QED
      BY <1>2, <2>1, <3>1
  <2>4. ASSUME NEW b \in Process, scratch[b] \in Uuid
        PROVE  Justified(scratch[b], b)'
    BY <1>2, <2>4 DEF Justified, handlerHistory
  <2>5. Genuine'
    BY <2>1, <2>4
  <2> QED
    BY <1>3, <2>2, <2>3, <2>5
<1> QED
  BY <1>4, <1>5, <1>6, <1>7, <1>8, <1>9, <1>10, <1>11, <1>12 DEF Next, Completion

(* Who was announced was asked for before.                                  *)
LEMMA AnnouncedNext ==
  ASSUME Typed, TaskInv, FileInv, ReportInv, [Next]_vars
  PROVE  (\A u \in Uuid, b \in Process :
            <<u, b>> \in announced => b <= boot /\ Justified(u, b))'
<1>1. boot' = boot \/ (boot' = boot + 1 /\ boot \in Process)
  BY HandlerFrame, CompletionFrame, QuietSteps DEF Next, Quiet, Boot, Typed, SystemTyped
<1>2. SUFFICES ASSUME NEW u \in Uuid, NEW b \in Process, <<u, b>> \in announced'
               PROVE  b <= boot' /\ Justified(u, b)'
  OBVIOUS
<1>3. b <= boot /\ Justified(u, b)
  <2>1. CASE <<u, b>> \in announced
    BY <2>1 DEF ReportInv
  <2>2. CASE <<u, b>> \notin announced
    <3>1. PublishStatus
      BY <1>2, <2>2, HandlerFrame, QuietSteps
         DEF Next, Completion, Collect, Claim, ReadClaimed, Filter, RemoveDoomed,
            WaitConnected, WaitLagged,
             WaitCancelled, PublishResult, RemovePublished, Boot, Quiet, taskHistory
    <3>2. PICK e \in entries : announced' \subseteq announced \cup {<<e.uuid, boot>>}
      BY <3>1 DEF PublishStatus
    <3>3. u = e.uuid /\ b = boot
      BY <1>2, <2>2, <3>2
    <3>4. e.file \in Process /\ scratch[e.file] = u
      BY <3>3 DEF Typed, TaskTyped, Entry, FileInv
    <3>5. e.file <= boot /\ Justified(u, e.file)
      BY <3>4, ContentAssumption DEF FileInv
    <3>6. PICK p \in Process : /\ p < e.file
                               /\ <<u, p, "unitctl">> \in requests
                               /\ <<u, p>> \in refused => u \in undeleted
      BY <3>5 DEF Justified
    <3>7. p < boot /\ boot <= boot
      BY <3>4, <3>5, <3>6, BootsAssumption DEF Typed, SystemTyped, Process
    <3> QED
      BY <3>3, <3>6, <3>7 DEF Justified
  <2> QED
    BY <2>1, <2>2
<1>4. b <= boot'
  BY <1>1, <1>3, Later
<1> QED
  BY <1>3, <1>4, JustifiedStays

(* An accepted restart stays kept.                                          *)
LEMMA KeptStays ==
  ASSUME ClaimFirst, Typed, HandlerInv, FileInv, ReportInv, NEW u \in Uuid, Kept(u),
     [Next]_vars
  PROVE  Kept(u)'
<1> USE ContentAssumption DEF Kept
<1>1. CASE Transport \/ Cancel \/ RebootRuns \/ UNCHANGED vars
  BY <1>1, QuietSteps DEF Quiet
<1>2. CASE Handler \/ Systemctl \/ \E v \in Uuid, target \in Targets : Request(v, target)
  <2>1. UNCHANGED published /\ overwritten \subseteq overwritten'
    BY <1>2, HandlerFrame, HistoryGrows
  <2>2. UNCHANGED scratch
    BY <1>2 DEF Request, Handler, VerifyActive, CreateFile, WriteFile, DeletePending,
       ScheduleReboot, ReportOutcome, HandlerCancelled, ProcessorStops, Systemctl,
       RestartUnit,
       RestartAccepted, SystemctlKilled, RestartRefused, unitFrame, fileVars, Either,
       Written, HandlerInv
  <2>3. CASE main = u /\ cmd \notin {"write", "systemctl", "delete"}
    <3>1. CASE CreateFile
      BY <2>3, <3>1 DEF CreateFile, Either
    <3>2. CASE Handler /\ ~CreateFile
      BY <2>3, <3>2 DEF Handler, VerifyActive, WriteFile, DeletePending, ScheduleReboot,
         ReportOutcome, HandlerCancelled, ProcessorStops, unitFrame, fileVars
    <3>3. CASE Systemctl
      BY <2>3, <3>3 DEF Systemctl, RestartUnit, RestartAccepted, SystemctlKilled,
         RestartRefused, unitFrame
    <3>4. CASE \E v \in Uuid, target \in Targets : Request(v, target)
      BY <2>3, <3>4 DEF Request
    <3> QED
      BY <1>2, <3>1, <3>2, <3>3, <3>4
  <2> QED
    BY <2>1, <2>2, <2>3
<1>3. CASE Completion
  <2>1. UNCHANGED <<cmd, overwritten>> /\ published \subseteq published'
    BY <1>3, CompletionFrame, HistoryGrows
  <2>2. ASSUME NEW b \in Process, scratch[b] = u
        PROVE  Kept(u)'
    <3>1. CASE Claim
      <4>1. CASE b = boot
        BY <2>2, <3>1, <4>1 DEF Claim, FileInv, Claiming
      <4>2. CASE b # boot
        BY <2>2, <3>1, <4>2 DEF Claim, Either, Typed, FilesTyped
      <4> QED
        BY <4>1, <4>2
    <3>2. CASE RemoveDoomed
      BY <2>2, <3>2 DEF RemoveDoomed, Either, FileInv, Typed, FilesTyped
    <3>3. CASE RemovePublished
      <4>1. CASE b = job.file
        <5>1. job \in entries /\ job.file \in Process /\ boot \in Process
          BY <3>3 DEF RemovePublished, Typed, TaskTyped, SystemTyped, Entry
        <5>2. <<u, boot>> \in published
          BY <2>2, <3>3, <4>1, <5>1 DEF RemovePublished, ReportInv, FileInv
        <5> QED
          BY <2>1, <5>1, <5>2
      <4>2. CASE b # job.file
        BY <2>2, <3>3, <4>2 DEF RemovePublished, Either, Typed, FilesTyped
      <4> QED
        BY <4>1, <4>2
    <3>4. CASE ~Claim /\ ~RemoveDoomed /\ ~RemovePublished
      BY <1>3, <2>2, <3>4 DEF Completion, Collect, ReadClaimed, Filter, WaitConnected,
         WaitLagged, WaitCancelled, PublishStatus, PublishResult, fileVars
    <3> QED
      BY <3>1, <3>2, <3>3, <3>4
  <2>3. CASE main = u /\ cmd \notin {"write", "systemctl", "delete"}
    <3>1. CASE Claim
      <4>1. boot \in Process /\ scratch \in [Process -> Content]
        BY DEF Typed, SystemTyped, FilesTyped
      <4>2. (\E b \in Process : scratch'[b] = u) \/ main' = u
        BY <2>3, <3>1, <4>1 DEF Claim, Either
      <4> QED
        BY <2>1, <2>3, <4>2
    <3>2. CASE ~Claim
      BY <1>3, <2>1, <2>3, <3>2, CompletionAfterClaim
    <3> QED
      BY <3>1, <3>2
  <2> QED
    BY <2>1, <2>2, <2>3
<1>4. CASE Boot
  BY <1>4 DEF Boot, handlerHistory, taskHistory
<1> QED
  BY <1>1, <1>2, <1>3, <1>4 DEF Next

(* Every step keeps the invariant of the reports.                           *)
LEMMA ReportNext ==
  ASSUME ClaimFirst, Typed, TaskInv, HandlerInv, FileInv, ReportInv, [Next]_vars
  PROVE  ReportInv'
<1>1. (pub = "remove" => <<job.uuid, boot>> \in published)'
  <2>1. CASE Handler \/ Systemctl \/ \E u \in Uuid, target \in Targets : Request(u, target)
    BY <2>1, HandlerFrame DEF ReportInv
  <2>2. CASE Transport \/ Cancel \/ RebootRuns \/ UNCHANGED vars
    BY <2>2, QuietSteps DEF Quiet, ReportInv
  <2>3. CASE Completion
    <3>1. UNCHANGED boot
      BY <2>3, CompletionFrame
    <3>2. CASE PublishResult
      BY <3>1, <3>2 DEF PublishResult, NextEntry
    <3>3. CASE RemoveDoomed
      BY <3>1, <3>3 DEF RemoveDoomed, ReportInv, taskVars, taskHistory
    <3>4. CASE ~PublishResult /\ ~RemoveDoomed
      <4>1. pub' # "remove"
        BY <2>3, <3>4 DEF Completion, Collect, Claim, ReadClaimed, Filter, WaitConnected,
           WaitLagged, WaitCancelled, PublishStatus, RemovePublished, NextEntry, Either
      <4> QED
        BY <4>1
    <3> QED
      BY <3>2, <3>3, <3>4
  <2>4. CASE Boot
    BY <2>4 DEF Boot
  <2> QED
    BY <2>1, <2>2, <2>3, <2>4 DEF Next
<1>2. ASSUME NEW u \in Uuid, NEW p \in Process, <<u, p>> \in accepted'
      PROVE  Kept(u)'
  <2>1. CASE <<u, p>> \in accepted
    BY <2>1, KeptStays DEF ReportInv
  <2>2. CASE <<u, p>> \notin accepted
    <3>1. RestartAccepted
      BY <1>2, <2>2, CompletionFrame, QuietSteps
         DEF Next, Request, Handler, VerifyActive, CreateFile, WriteFile, DeletePending,
             ScheduleReboot, ReportOutcome, HandlerCancelled, ProcessorStops, Systemctl,
             RestartUnit, SystemctlKilled, RestartRefused, unitFrame, handlerHistory, Quiet,
             Boot
    <3>2. u = cur /\ main = cur /\ main' = main /\ cmd' = "parked"
      BY <1>2, <2>2, <3>1 DEF RestartAccepted, HandlerInv
    <3> QED
      BY <3>2 DEF Kept
  <2> QED
    BY <2>1, <2>2
<1> QED
  BY <1>1, <1>2, AnnouncedNext DEF ReportInv

(* The first process starts with all of them.                               *)
LEMMA InitParts ==
  ASSUME Init
  PROVE  Typed /\ TaskInv /\ HandlerInv /\ FileInv /\ ReportInv
<1> USE ContentAssumption DEF Init
<1>1. boot \in Process
  BY BootsNat DEF Process
<1>2. FilesTyped /\ SystemTyped
  BY <1>1 DEF FilesTyped, SystemTyped, Content
<1>3. HandlerTyped
  BY BootsNat DEF HandlerTyped, Handling
<1>4. TaskTyped
  BY DEF TaskTyped, Publishing
<1>5. MqttTyped /\ ReceiverTyped
  BY NoReports, NoEvents DEF MqttTyped, ReceiverTyped
<1>6. HistoryTyped
  BY DEF HistoryTyped
<1>7. TaskInv /\ HandlerInv
  BY DEF TaskInv, HandlerInv, Claiming
<1>8. FileInv
  BY <1>1 DEF FileInv
<1>9. ReportInv
  BY DEF ReportInv
<1> QED
  BY <1>2, <1>3, <1>4, <1>5, <1>6, <1>7, <1>8, <1>9 DEF Typed

-----------------------------------------------------------------------------
(* The state of the restart command always has its type: files, handler,    *)
(* completion task and histories, whatever the timing of the first command. *)
THEOREM RestartTypeCorrect == Spec => []TypeOK
<1>1. Init => Typed /\ TaskInv
  BY InitParts
<1>2. (Typed /\ TaskInv) /\ [Next]_vars => (Typed /\ TaskInv)'
  BY TypeNext, TaskNext
<1>3. Typed => TypeOK
  BY TypeParts
<1> QED
  BY <1>1, <1>2, <1>3, PTL DEF Spec

(* All parts of the invariant hold together.                                *)
LEMMA RestartInvariant ==
  ASSUME ClaimFirst
  PROVE  Spec => [](Typed /\ TaskInv /\ HandlerInv /\ FileInv /\ ReportInv)
<1> DEFINE Inv == Typed /\ TaskInv /\ HandlerInv /\ FileInv /\ ReportInv
<1>1. Init => Inv
  BY InitParts
<1>2. Inv /\ [Next]_vars => Inv'
  BY TypeNext, TaskNext, HandlerNext, FileNext, ReportNext
<1> QED
  BY <1>1, <1>2, PTL DEF Spec

(* Provided no command is handled before the completion task has claimed    *)
(* the file: every deferred Completed is that of a restart of unitctl that  *)
(* an earlier process was asked for and did not report as failed, unless    *)
(* its file could not be removed then (restart.rs:299-300).                 *)
THEOREM CompletionAlwaysJustified ==
  ASSUME ClaimFirst
  PROVE  Spec => []CompletionJustified
<1>1. Typed /\ ReportInv => CompletionJustified
  <2>1. SUFFICES ASSUME Typed, ReportInv, NEW a \in announced
                 PROVE  \E r \in requests :
                          /\ r[1] = a[1] /\ r[2] < a[2] /\ r[3] = "unitctl"
                          /\ <<r[1], r[2]>> \in refused => r[1] \in undeleted
    BY DEF CompletionJustified
  <2>2. PICK u \in Uuid, b \in Process : a = <<u, b>>
    BY <2>1 DEF Typed, HistoryTyped
  <2>3. PICK p \in Process : /\ p < b
                             /\ <<u, p, "unitctl">> \in requests
                             /\ <<u, p>> \in refused => u \in undeleted
    BY <2>1, <2>2 DEF ReportInv, Justified
  <2> QED
    BY <2>2, <2>3
<1> QED
  BY <1>1, RestartInvariant, PTL

(* Under the same proviso: a restart that systemd accepted has its UUID in  *)
(* a file until both its reports were queued or a later restart overwrote   *)
(* it, across any crash, failing file operation and interleaving.           *)
THEOREM AcceptedNeverForgotten ==
  ASSUME ClaimFirst
  PROVE  Spec => []AcceptedNotForgotten
<1>1. Typed /\ ReportInv => AcceptedNotForgotten
  <2>1. SUFFICES ASSUME Typed, ReportInv, NEW a \in accepted
                 PROVE  \/ OnDisk(a[1])
                        \/ \E p \in published : p[1] = a[1]
                        \/ a[1] \in overwritten
    BY DEF AcceptedNotForgotten
  <2>2. PICK u \in Uuid, p \in Process : a = <<u, p>>
    BY <2>1 DEF Typed, HistoryTyped
  <2>3. Kept(u)
    BY <2>1, <2>2 DEF ReportInv
  <2> QED
    BY <2>2, <2>3 DEF Kept, OnDisk
<1> QED
  BY <1>1, RestartInvariant, PTL

-----------------------------------------------------------------------------
(* What a process owes is under way.                                        *)

Deferred(u) == [uuid |-> u, kind |-> "Completed"]

(* The report has reached the broker or the request channel.                *)
Sent(u) ==
  \/ Deferred(u) \in reported
  \/ \E i \in 1..Len(outbox) : outbox[i] = Deferred(u)

(* A task that listens before the first connection will receive Connected,  *)
(* or else the event was overwritten before it came to it.                  *)
WillHear == connected = "never" \/ Hears \/ missed

(* The completion task has it still to do: the UUID is in a file that it    *)
(* will read, or in its hands.                                              *)
InHand(u) == \E e \in entries : e.uuid = u
InTask(u) ==
  \/ pub = "collect" /\ OnDisk(u)
  \/ pub = "claim" /\ (main = u \/ InHand(u))
  \/ pub = "read" /\ (scratch[boot] = u \/ InHand(u))
  \/ pub \in {"filter", "status"} /\ InHand(u)
  \/ pub = "wait" /\ InHand(u) /\ WillHear
  \/ pub \in {"result", "remove"} /\ \E e \in entries \ {job} : e.uuid = u

(* Unless the process is told to stop, whatever was in a file at its start  *)
(* is reported or under way to it, or the file could not be read; a         *)
(* Connected that the task waits for is only missed if it was overwritten   *)
(* (restart.rs:323-452).                                                    *)
OwedUnderWay ==
  ~cancelled => \A u \in owed : Sent(u) \/ InTask(u) \/ u \in forgotten

(* The task takes its receiver before the first connection, and takes       *)
(* Connected from it only to go on; only the token ends the event loop.     *)
ListeningInv ==
  /\ eventLoop # "running" => cancelled
  /\ eventLoop = "running" /\ pub \in Listening => WillHear

OwedInv == ListeningInv /\ OwedUnderWay

(* What has been queued stays so until the broker has it.                   *)
LEMMA PublishKeepsSent ==
  ASSUME Typed, UNCHANGED reported, NEW u \in Uuid,
         UNCHANGED outbox \/ \E report \in Report : outbox' = Append(outbox, report)
  PROVE  Sent(u) => Sent(u)'
<1>1. outbox \in Seq(Report)
  BY DEF Typed, MqttTyped
<1>2. CASE UNCHANGED outbox
  BY <1>2 DEF Sent, Deferred
<1>3. ASSUME NEW report \in Report, outbox' = Append(outbox, report)
      PROVE  Sent(u) => Sent(u)'
  <2>1. /\ \A i \in 1..Len(outbox) : i \in 1..Len(outbox') /\ outbox'[i] = outbox[i]
    BY <1>1, <1>3
  <2> QED
    BY <2>1 DEF Sent, Deferred
<1> QED
  BY <1>2, <1>3

(* The handler moves nothing that the task still looks for.                 *)
LEMMA OwedHandler ==
  ASSUME ClaimFirst, Typed, TaskInv, HandlerInv, OwedInv,
         \/ Handler \/ Systemctl \/ RebootRuns
         \/ \E u \in Uuid, target \in Targets : Request(u, target)
  PROVE  OwedInv'
<1>1. UNCHANGED <<boot, pub, entries, job, owed, forgotten, connected, inbox, missed,
                  cancelled, eventLoop, reported>>
  BY DEF Request, Handler, VerifyActive, CreateFile, WriteFile, DeletePending,
     ScheduleReboot, ReportOutcome, HandlerCancelled, ProcessorStops, Systemctl,
     RestartUnit, RestartAccepted, SystemctlKilled, RestartRefused, RebootRuns,
     handlerFrame, unitFrame, taskVars, receiverVars, mqttVars, systemVars, taskHistory
<1>2. WillHear' = WillHear
  BY <1>1 DEF WillHear, Hears
<1>3. UNCHANGED outbox \/ \E report \in Report : outbox' = Append(outbox, report)
  <2>1. CASE ReportOutcome
    <3>1. Publish([uuid |-> cur, kind |-> IF cmd = "failed" THEN "Failed" ELSE "Ok"])
          /\ cur \in Uuid
      BY <2>1 DEF ReportOutcome, Typed, HandlerTyped
    <3>2. [uuid |-> cur, kind |-> IF cmd = "failed" THEN "Failed" ELSE "Ok"] \in Report
      BY <3>1 DEF Report
    <3> QED
      BY <3>1, <3>2 DEF Publish
  <2>2. CASE ~ReportOutcome
    BY <2>2
    DEF Request, Handler, VerifyActive, CreateFile, WriteFile, DeletePending,
     ScheduleReboot, HandlerCancelled, ProcessorStops, Systemctl, RestartUnit,
     RestartAccepted, SystemctlKilled, RestartRefused, RebootRuns, handlerFrame,
     unitFrame, mqttVars
  <2> QED
    BY <2>1, <2>2
<1>4. UNCHANGED scratch
  BY DEF Request, Handler, VerifyActive, CreateFile, WriteFile, DeletePending,
     ScheduleReboot, ReportOutcome, HandlerCancelled, ProcessorStops, Systemctl,
     RestartUnit, RestartAccepted, SystemctlKilled, RestartRefused, RebootRuns,
     handlerFrame, unitFrame, fileVars, Either, Written, HandlerInv
<1>5. pub \in {"collect", "claim"} => UNCHANGED main
  <2>1. pub \in {"collect", "claim"} => cmd \in {"idle", "done"}
    BY DEF HandlerInv, Claiming
  <2> QED
    BY <2>1
    DEF Request, Handler, VerifyActive, CreateFile, WriteFile, DeletePending,
     ScheduleReboot, ReportOutcome, HandlerCancelled, ProcessorStops, Systemctl,
     RestartUnit, RestartAccepted, SystemctlKilled, RestartRefused, RebootRuns,
     handlerFrame, unitFrame, fileVars
<1>6. ASSUME NEW u \in Uuid, InTask(u) PROVE InTask(u)'
  <2>1. pub = "collect" /\ OnDisk(u) => OnDisk(u)'
    BY <1>4, <1>5 DEF OnDisk
  <2> QED
    BY <1>1, <1>2, <1>4, <1>5, <1>6, <2>1 DEF InTask, InHand
<1>7. owed \subseteq Uuid
  BY DEF Typed, HistoryTyped
<1>8. OwedUnderWay'
  BY <1>1, <1>3, <1>6, <1>7, PublishKeepsSent DEF OwedInv, OwedUnderWay
<1> QED
  BY <1>1, <1>2, <1>8 DEF OwedInv, ListeningInv

(* An event is queued behind those that wait.  If Connected is among them,  *)
(* or was missed, that is still so or Connected is missed now.              *)
LEMMA BroadcastKeepsHearing ==
  ASSUME ReceiverTyped, NEW event \in Event, Broadcast(event)
  PROVE  /\ Hears \/ missed => Hears' \/ missed'
         /\ event = "Connected" /\ eventLoop = "running" /\ pub \in Listening => Hears'
<1>1. CASE eventLoop # "running" \/ pub \notin Listening
  BY <1>1 DEF Broadcast, receiverVars, Hears
<1>2. CASE eventLoop = "running" /\ pub \in Listening
  <2>1. Hears \/ missed => Hears' \/ missed'
    BY <1>2 DEF Broadcast
  <2>2. inbox \in Seq(Event) /\ Len(inbox) \in Nat
    BY DEF ReceiverTyped
  <2>3. \E s \in Seq(Event) : inbox' = Append(s, event)
    <3>1. CASE Len(inbox) < EVENT_CHANNEL_CAPACITY
      BY <1>2, <2>2, <3>1 DEF Broadcast
    <3>2. CASE ~(Len(inbox) < EVENT_CHANNEL_CAPACITY)
      <4>1. inbox # <<>>
        BY <2>2, <3>2, EmptySeq, EventCapacityAssumption
      <4>2. Tail(inbox) \in Seq(Event)
        BY <2>2, <4>1, HeadTailProperties
      <4> QED
        BY <1>2, <3>2, <4>2 DEF Broadcast
    <3> QED
      BY <3>1, <3>2
  <2>4. \E i \in DOMAIN inbox' : inbox'[i] = event
    <3>1. PICK s \in Seq(Event) : inbox' = Append(s, event)
      BY <2>3
    <3>2. Len(s) + 1 \in DOMAIN inbox' /\ inbox'[Len(s) + 1] = event
      BY <3>1
    <3> QED
      BY <3>2
  <2> QED
    BY <2>1, <2>4 DEF Hears
<1> QED
  BY <1>1, <1>2

(* The transport takes reports to the broker and connections to the task.   *)
LEMMA OwedTransport ==
  ASSUME Typed, OwedInv, Transport \/ Cancel \/ UNCHANGED vars
  PROVE  OwedInv'
<1>1. UNCHANGED <<boot, main, scratch, pub, entries, job, owed, forgotten>>
  BY DEF Transport, Connect, Disconnect, OtherEvent, Flush, BeginFlush, EndFlush, Cancel,
     vars, transportFrame, fileVars, systemVars, taskVars, taskHistory
<1>2. ListeningInv' /\ (~cancelled' => ~cancelled /\ eventLoop = "running" /\ ~EndFlush)
  <2>1. /\ eventLoop' # "running" => cancelled'
        /\ ~cancelled' => ~cancelled /\ eventLoop = "running" /\ ~EndFlush
        /\ eventLoop' = "running" => eventLoop = "running"
    BY DEF OwedInv, ListeningInv, Transport, Connect, Disconnect, OtherEvent, Flush,
       BeginFlush, EndFlush, Cancel, vars, transportFrame, mqttVars
  <2>2. SUFFICES ASSUME eventLoop = "running", pub \in Listening PROVE WillHear'
    BY <1>1, <2>1 DEF ListeningInv
  <2>3. WillHear
    BY <2>2 DEF OwedInv, ListeningInv
  <2>4. CASE Connect
    BY <2>2, <2>4, BroadcastKeepsHearing DEF Connect, WillHear, Event, Typed
  <2>5. CASE Disconnect \/ OtherEvent
    <3>1. (Hears \/ missed => Hears' \/ missed') /\ (connected' = "never" \/ Hears \/ missed)
      BY <2>3, <2>5, BroadcastKeepsHearing
      DEF Disconnect, OtherEvent, WillHear, Event, Typed
    <3> QED
      BY <3>1 DEF WillHear
  <2>6. CASE ~(Connect \/ Disconnect \/ OtherEvent)
    <3>1. UNCHANGED <<inbox, missed>> /\ (UNCHANGED connected \/ EndFlush)
      BY <2>6 DEF Transport, Flush, BeginFlush, EndFlush, Cancel, vars, taskVars,
         receiverVars, mqttVars
    <3>2. UNCHANGED connected
      BY <2>2, <3>1 DEF EndFlush
    <3> QED
      BY <2>3, <3>1, <3>2 DEF WillHear, Hears
  <2> QED
    BY <2>4, <2>5, <2>6
<1>3. ASSUME ~cancelled', pub = "wait" PROVE WillHear'
  BY <1>1, <1>2, <1>3 DEF ListeningInv, Listening
<1>4. ASSUME NEW u \in Uuid, Sent(u), ~EndFlush PROVE Sent(u)'
  <2>1. CASE Flush
    <3>1. /\ outbox \in Seq(Report) /\ outbox # <<>> /\ outbox' = Tail(outbox)
          /\ reported' = reported \cup {Head(outbox)}
      BY <2>1 DEF Flush, Typed, MqttTyped
    <3>2. /\ Len(outbox) \in Nat /\ Len(outbox') = Len(outbox) - 1
          /\ Head(outbox) = outbox[1]
          /\ \A i \in 1..Len(outbox') : outbox'[i] = outbox[i + 1]
      BY <3>1, HeadTailProperties
    <3>3. CASE Deferred(u) \in reported
      BY <3>1, <3>3 DEF Sent, Deferred
    <3>4. ASSUME NEW i \in 1..Len(outbox), outbox[i] = Deferred(u) PROVE Sent(u)'
      <4>1. CASE i = 1
        BY <3>1, <3>2, <3>4, <4>1 DEF Sent, Deferred
      <4>2. CASE i # 1
        <5>1. i - 1 \in 1..Len(outbox') /\ outbox'[i - 1] = outbox[i]
          BY <3>2, <4>2
        <5> QED
          BY <3>4, <5>1 DEF Sent, Deferred
      <4> QED
        BY <4>1, <4>2
    <3> QED
      BY <1>4, <3>3, <3>4 DEF Sent
  <2>2. CASE ~Flush
    <3>1. UNCHANGED <<outbox, reported>>
      BY <1>4, <2>2
      DEF Transport, Connect, Disconnect, OtherEvent, BeginFlush, Cancel, vars,
         transportFrame, mqttVars
    <3> QED
      BY <1>4, <3>1 DEF Sent, Deferred
  <2> QED
    BY <2>1, <2>2
<1>5. ASSUME NEW u \in Uuid, InTask(u), ~cancelled' PROVE InTask(u)'
  <2>1. OnDisk(u) => OnDisk(u)'
    BY <1>1 DEF OnDisk
  <2> QED
    BY <1>1, <1>3, <1>5, <2>1 DEF InTask, InHand
<1>6. owed \subseteq Uuid
  BY DEF Typed, HistoryTyped
<1>7. OwedUnderWay'
  BY <1>1, <1>2, <1>4, <1>5, <1>6 DEF OwedInv, OwedUnderWay
<1> QED
  BY <1>2, <1>7 DEF OwedInv

(* A new process owes what is in the files.                                 *)
LEMMA OwedBoot == ASSUME Typed, Boot PROVE OwedInv'
<1>1. /\ eventLoop' = "running" /\ connected' = "never" /\ pub' = "collect"
      /\ owed' = ({main} \cup {scratch[b] : b \in Process}) \cap Uuid
      /\ UNCHANGED <<main, scratch>>
  BY DEF Boot
<1>2. \A u \in owed' : OnDisk(u)'
  BY <1>1 DEF OnDisk
<1> QED
  BY <1>1, <1>2 DEF OwedInv, ListeningInv, WillHear, OwedUnderWay, InTask

(* Another event than Connected is passed over.                             *)
LEMMA PassedOver ==
  ASSUME Typed, WaitConnected, pub' = "wait"
  PROVE  UNCHANGED missed /\ (Hears => Hears')
<1>1. inbox # <<>> /\ inbox' = Tail(inbox) /\ Head(inbox) # "Connected" /\ UNCHANGED missed
  BY DEF WaitConnected
<1>2. inbox \in Seq(Event)
  BY DEF Typed, ReceiverTyped
<1>3. /\ Len(inbox) \in Nat /\ Len(inbox') = Len(inbox) - 1
      /\ DOMAIN inbox = 1..Len(inbox) /\ DOMAIN inbox' = 1..Len(inbox')
      /\ Head(inbox) = inbox[1]
      /\ \A i \in 1..Len(inbox') : inbox'[i] = inbox[i + 1]
  BY <1>1, <1>2, HeadTailProperties
<1>4. ASSUME NEW i \in DOMAIN inbox, inbox[i] = "Connected" PROVE Hears'
  <2>1. i - 1 \in DOMAIN inbox' /\ inbox'[i - 1] = inbox[i]
    BY <1>1, <1>3, <1>4
  <2> QED
    BY <1>4, <2>1 DEF Hears
<1> QED
  BY <1>1, <1>4 DEF Hears

(* The completion task hands each UUID on from step to step.                *)
LEMMA OwedCompletion ==
  ASSUME ClaimFirst, Typed, TaskInv, HandlerInv, FileInv, OwedInv, Completion
  PROVE  OwedInv'
<1>1. UNCHANGED <<boot, owed, connected, cancelled, eventLoop, reported>>
  BY DEF Completion, Collect, Claim, ReadClaimed, Filter, RemoveDoomed, WaitConnected,
     WaitLagged,
     WaitCancelled, PublishStatus, PublishResult, RemovePublished, taskFrame, systemVars
<1>2. forgotten \subseteq forgotten'
  BY DEF Completion, Collect, Claim, ReadClaimed, Filter, RemoveDoomed, WaitConnected,
     WaitLagged, WaitCancelled, PublishStatus, PublishResult, RemovePublished, Either,
     taskHistory
<1>3. ListeningInv'
  <2>1. SUFFICES ASSUME eventLoop = "running", pub' \in Listening PROVE WillHear'
    BY <1>1 DEF OwedInv, ListeningInv
  <2>2. /\ pub \in Listening
        /\ UNCHANGED <<inbox, missed>> \/ (WaitConnected /\ pub' = "wait")
    BY <2>1 DEF Completion, Collect, Claim, ReadClaimed, Filter, RemoveDoomed,
       WaitConnected,
       WaitLagged, WaitCancelled, PublishStatus, PublishResult, RemovePublished, NextEntry,
       Listening, taskVars, receiverVars
  <2>3. WillHear
    BY <2>1, <2>2 DEF OwedInv, ListeningInv
  <2>4. CASE UNCHANGED <<inbox, missed>>
    BY <1>1, <2>3, <2>4 DEF WillHear, Hears
  <2>5. CASE WaitConnected /\ pub' = "wait"
    BY <1>1, <2>3, <2>5, PassedOver DEF WillHear
  <2> QED
    BY <2>2, <2>4, <2>5
<1>4. owed \subseteq Uuid /\ Empty \notin Uuid /\ Absent \notin Uuid
  BY ContentAssumption DEF Typed, HistoryTyped
<1>5. SUFFICES ASSUME ~cancelled, NEW u \in owed, u \notin forgotten'
               PROVE  Sent(u)' \/ InTask(u)'
  BY <1>1, <1>3 DEF OwedInv, OwedUnderWay
<1>6. Sent(u) \/ InTask(u)
  BY <1>2, <1>5 DEF OwedInv, OwedUnderWay
<1>7. eventLoop = "running"
  BY <1>5 DEF OwedInv, ListeningInv
<1>8. ASSUME NEW e \in entries, e.uuid # Empty
      PROVE  Deferred(e.uuid) \in Report /\ [uuid |-> e.uuid, kind |-> "Ok"] \in Report
  BY <1>8 DEF Typed, TaskTyped, Entry, Report, Deferred
<1>9. UNCHANGED outbox \/ \E report \in Report : outbox' = Append(outbox, report)
  <2>1. CASE PublishStatus
    <3>1. PICK e \in entries : Publish(Deferred(e.uuid))
      BY <2>1 DEF PublishStatus, Deferred
    <3>2. Deferred(e.uuid) \in Report
      BY <1>8, <2>1 DEF PublishStatus, TaskInv
    <3> QED
      BY <3>1, <3>2 DEF Publish
  <2>2. CASE PublishResult
    <3>1. [uuid |-> job.uuid, kind |-> "Ok"] \in Report
      BY <1>8, <2>2 DEF PublishResult, Typed, TaskTyped
    <3> QED
      BY <2>2, <3>1 DEF PublishResult, Publish
  <2>3. CASE ~PublishStatus /\ ~PublishResult
    BY <2>3 DEF Completion, Collect, Claim, ReadClaimed, Filter, RemoveDoomed,
       WaitConnected, WaitLagged, WaitCancelled, RemovePublished
  <2> QED
    BY <2>1, <2>2, <2>3
<1>10. CASE Sent(u)
  BY <1>1, <1>4, <1>9, <1>10, PublishKeepsSent
<1>11. CASE InTask(u) /\ Collect
  <2>1. /\ pub = "collect" /\ pub' = "claim" /\ OnDisk(u) /\ UNCHANGED main
        /\ \/ entries' = Orphans
           \/ forgotten' = forgotten \cup ({e.uuid : e \in Orphans} \cap Uuid)
    BY <1>11 DEF Collect, Either, InTask, fileVars
  <2>2. ASSUME NEW b \in Process, scratch[b] = u PROVE InHand(u)'
    <3>1. [file |-> b, uuid |-> scratch[b]] \in Orphans
      BY <1>4, <2>2 DEF Orphans
    <3>2. u \in {e.uuid : e \in Orphans}
      BY <2>2, <3>1
    <3>3. entries' = Orphans
      BY <1>4, <1>5, <2>1, <3>2
    <3> QED
      BY <2>2, <3>1, <3>3 DEF InHand
  <2> QED
    BY <2>1, <2>2 DEF OnDisk, InTask
<1>12. CASE InTask(u) /\ Claim
  <2>1. pub = "claim" /\ (main = u \/ InHand(u)) /\ UNCHANGED entries
    BY <1>12 DEF Claim, InTask
  <2>2. CASE main = Absent
    <3>1. pub' = "filter" /\ InHand(u)
      BY <1>4, <1>12, <2>1, <2>2 DEF Claim
    <3> QED
      BY <2>1, <3>1 DEF InTask, InHand
  <2>3. CASE main # Absent
    <3>1. CASE pub' = "read" /\ scratch' = [scratch EXCEPT ![boot] = main]
      <4>1. scratch'[boot'] = main
        BY <1>1, <3>1 DEF Typed, FilesTyped, SystemTyped
      <4> QED
        BY <2>1, <3>1, <4>1 DEF InTask, InHand
    <3>2. CASE pub' = "filter" /\ forgotten' = forgotten \cup ({main} \cap Uuid)
      <4>1. InHand(u)
        BY <1>4, <1>5, <2>1, <3>2
      <4> QED
        BY <2>1, <3>2, <4>1 DEF InTask, InHand
    <3> QED
      BY <1>12, <2>3, <3>1, <3>2 DEF Claim, Either
  <2> QED
    BY <2>2, <2>3
<1>13. CASE InTask(u) /\ ReadClaimed
  <2>1. /\ pub = "read" /\ pub' = "filter" /\ (scratch[boot] = u \/ InHand(u))
        /\ \/ entries' = entries \cup {[file |-> boot, uuid |-> scratch[boot]]}
           \/ /\ forgotten' = forgotten \cup ({scratch[boot]} \cap Uuid)
              /\ UNCHANGED entries
    BY <1>13 DEF ReadClaimed, Either, InTask
  <2>2. CASE scratch[boot] = u
    <3>1. [file |-> boot, uuid |-> scratch[boot]] \in entries'
      BY <1>4, <1>5, <2>1, <2>2
    <3> QED
      BY <2>1, <2>2, <3>1 DEF InTask, InHand
  <2>3. CASE InHand(u)
    <3>1. entries \subseteq entries'
      BY <2>1
    <3> QED
      BY <2>1, <2>3, <3>1 DEF InTask, InHand
  <2> QED
    BY <2>1, <2>2, <2>3
<1>14. CASE InTask(u) /\ Filter
  <2>1. PICK e \in entries : e.uuid = u /\ pub = "filter"
    BY <1>14 DEF Filter, InTask, InHand
  <2>2. entries' = {f \in entries : f.uuid # Empty} /\ e \in entries'
    BY <1>4, <1>14, <2>1 DEF Filter
  <2>3. pub' = "wait"
    BY <1>14, <2>2 DEF Filter
  <2>4. WillHear'
    BY <1>1, <1>3, <1>7, <2>3 DEF ListeningInv, Listening
  <2> QED
    BY <2>1, <2>2, <2>3, <2>4 DEF InTask, InHand
<1>15. CASE InTask(u) /\ RemoveDoomed
  <2>1. UNCHANGED <<pub, entries, job>> /\ doomed # {}
    BY <1>15 DEF RemoveDoomed, taskVars
  <2>2. pub \notin {"collect", "claim", "read"}
    BY <2>1 DEF TaskInv
  <2>3. pub' = "wait" => WillHear'
    BY <1>1, <1>3, <1>7 DEF ListeningInv, Listening
  <2> QED
    BY <1>15, <2>1, <2>2, <2>3 DEF InTask, InHand
<1>16. CASE InTask(u) /\ (WaitConnected \/ WaitLagged \/ WaitCancelled)
  <2>1. pub = "wait" /\ pub' \in {"wait", "status"} /\ InHand(u) /\ UNCHANGED entries
    BY <1>5, <1>16 DEF WaitConnected, WaitLagged, WaitCancelled, InTask
  <2>2. pub' = "wait" => WillHear'
    BY <1>1, <1>3, <1>7 DEF ListeningInv, Listening
  <2> QED
    BY <2>1, <2>2 DEF InTask, InHand
<1>17. CASE InTask(u) /\ PublishStatus
  <2>1. PICK e \in entries : job' = e /\ Publish(Deferred(e.uuid))
    BY <1>17 DEF PublishStatus, Deferred
  <2>2. PICK f \in entries : f.uuid = u
    BY <1>17 DEF PublishStatus, InTask, InHand
  <2>3. pub' = "result" /\ UNCHANGED entries
    BY <1>17 DEF PublishStatus
  <2>4. CASE e = f
    <3>1. Deferred(u) \in Report /\ outbox' = Append(outbox, Deferred(u))
      BY <1>4, <1>7, <1>8, <2>1, <2>2, <2>4 DEF Publish
    <3>2. outbox \in Seq(Report)
      BY DEF Typed, MqttTyped
    <3>3. Len(outbox) + 1 \in 1..Len(outbox') /\ outbox'[Len(outbox) + 1] = Deferred(u)
      BY <3>1, <3>2
    <3> QED
      BY <3>3 DEF Sent, Deferred
  <2>5. CASE e # f
    <3>1. f \in entries' \ {job'}
      BY <2>1, <2>3, <2>5
    <3> QED
      BY <2>2, <2>3, <3>1 DEF InTask
  <2> QED
    BY <2>4, <2>5
<1>18. CASE InTask(u) /\ (PublishResult \/ RemovePublished)
  <2>1. PICK e \in entries \ {job} : e.uuid = u
    BY <1>18 DEF PublishResult, RemovePublished, InTask
  <2>2. \/ pub' = "remove" /\ UNCHANGED <<entries, job>>
        \/ NextEntry(entries \ {job})
    BY <1>18 DEF PublishResult, RemovePublished
  <2>3. CASE pub' = "remove" /\ UNCHANGED <<entries, job>>
    BY <2>1, <2>3 DEF InTask
  <2>4. CASE NextEntry(entries \ {job})
    BY <2>1, <2>4 DEF NextEntry, InTask, InHand
  <2> QED
    BY <2>2, <2>3, <2>4
<1> QED
  BY <1>6, <1>10, <1>11, <1>12, <1>13, <1>14, <1>15, <1>16, <1>17, <1>18 DEF Completion

(* The safety behind OwedReported, under the same proviso as above, for     *)
(* every number of UUIDs and every capacity of the two channels: until the  *)
(* process is told to stop, no UUID that it found in a file is dropped      *)
(* between the file, the task, the request channel and the broker, except   *)
(* by an operation that fails on the file itself.  A task that waits for    *)
(* Connected will receive it, except if the broadcast channel overwrote it: *)
(* then it waits for the next connection (restart.rs:323-452).              *)
THEOREM OwedNeverDropped ==
  ASSUME ClaimFirst
  PROVE  Spec => []OwedUnderWay
<1> DEFINE Inv == Typed /\ TaskInv /\ HandlerInv /\ FileInv /\ ReportInv
<1>1. Init => OwedInv
  BY DEF Init, OwedInv, ListeningInv, WillHear, OwedUnderWay
<1>2. Inv /\ OwedInv /\ [Next]_vars => OwedInv'
  BY OwedHandler, OwedTransport, OwedBoot, OwedCompletion DEF Next
<1>3. OwedInv => OwedUnderWay
  BY DEF OwedInv
<1>4. Spec => []Inv
  BY RestartInvariant
<1> HIDE DEF Inv
<1> QED
  BY <1>1, <1>2, <1>3, <1>4, PTL DEF Spec
=============================================================================
