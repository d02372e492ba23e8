---------------------------- MODULE RestartCommand ----------------------------
(***************************************************************************)
(* The restart command across process starts                               *)
(* (services/mqtt/handlers/restart.rs).  Another unit is restarted and     *)
(* watched for a while.  For target unitctl the handler leaves the UUID in *)
(* a file and asks systemd to restart the very process it runs in; a task  *)
(* of the next process claims the file by renaming it and reports the      *)
(* command as completed.  Both run in every process, concurrently.         *)
(*                                                                         *)
(* Files survive a process, the rest is memory.  A rename moves a file     *)
(* under the feet of a write that has already opened it.                   *)
(***************************************************************************)
EXTENDS Naturals, Sequences, FiniteSets

CONSTANTS
  Uuid,              (* Command identifiers.                               *)
  Targets,           (* What they restart: some of RestartTarget.          *)
  REQUEST_CAPACITY,  (* rumqttc request channel: 50 in the code.           *)
  EVENT_CHANNEL_CAPACITY,  (* broadcast channel: 256 in the code.          *)
  ClaimFirst,        (* TRUE: no command is handled before the completion  *)
                     (* task has looked for the file.  Nothing in the code *)
                     (* enforces it: a command needs an MQTT connection,   *)
                     (* which is slower than a rename as a rule.           *)
  MaxBoots,          (* Bound: process starts.                             *)
  MaxRequests,       (* Bound: restart commands handled.                   *)
  MaxIoErrors        (* Bound: failing file operations.                    *)

RestartTarget == {"camera", "mavlink", "modem", "unitctl", "reboot"}

ASSUME TargetsAssumption == Targets \subseteq RestartTarget
ASSUME BootsAssumption == MaxBoots \in Nat \ {0}
ASSUME RequestCapacityAssumption == REQUEST_CAPACITY \in Nat \ {0}
ASSUME EventCapacityAssumption == EVENT_CHANNEL_CAPACITY \in Nat \ {0}
ASSUME ClaimFirstAssumption == ClaimFirst \in BOOLEAN
ASSUME BudgetAssumption == MaxRequests \in Nat /\ MaxIoErrors \in Nat

(* A path without a file, and a file that was truncated and not yet written.*)
Absent == "absent"
Empty == "empty"
ASSUME ContentAssumption == Absent \notin Uuid /\ Empty \notin Uuid

Content == Uuid \cup {Absent, Empty}
Process == 1..MaxBoots

VARIABLES
  boot,        (* Number of the running process.                           *)
  main,        (* File pending-restart-uuid.                               *)
  scratch,     (* File pending-restart-uuid.in-flight.<pid>.<ns>: a process*)
               (* renames the main file to such a name at most once.       *)
  cmd,         (* Handler: "idle", or where it is.                         *)
  cur,         (* Handler: the UUID it handles, if not idle.               *)
  unit,        (* Handler: the unit that it restarts, or "".               *)
  fd,          (* Handler: the file its write has open: 0 for the main     *)
               (* path, b for the file that is now scratch[b].             *)
  timers,      (* Detached tasks that will run `reboot`, by their UUID.    *)
  stopJob,     (* systemd will stop this process.                          *)
  pub,         (* Completion task: where it is.                            *)
  entries,     (* Completion task: the files it holds, with their content. *)
  job,         (* Completion task: the one it publishes.                   *)
  statusOk,    (* Completion task: the status of that one was taken.       *)
  inbox,       (* Completion task: the events its receiver has not read,   *)
               (* while it has one.                                        *)
  lagged,      (* Completion task: its receiver will first report Lagged.  *)
  doomed,      (* Scratch files that detached tasks will remove.           *)
  connected,   (* MQTT in this process: "never", "up" or "down".           *)
  cancelled,   (* The shutdown token.                                      *)
  eventLoop,   (* Transport task: "running", "flushing" or "stopped".      *)
  outbox,      (* Reports rumqttc holds: queued, or sent without PUBACK.   *)
  reported,    (* Reports the broker has.                                  *)
  requests,    (* History: <<uuid, process, target>> that were handled.    *)
  accepted,    (* History: <<uuid, process>> whose restart systemd accepted*)
  refused,     (* History: <<uuid, process>> that ended as Failed.         *)
  announced,   (* History: <<uuid, process>> of deferred Completed states. *)
  published,   (* History: <<uuid, process>> with state and result queued. *)
  undeleted,   (* History: UUIDs whose file could not be removed.          *)
  overwritten, (* History: UUIDs a later restart command overwrote.        *)
  owed,        (* History: UUIDs in files when this process started.       *)
  forgotten,   (* History: UUIDs in files that this process failed to      *)
               (* list, to claim or to read.                               *)
  missed,      (* History: Connected was overwritten in the inbox, and     *)
               (* none has come since.                                     *)
  requested, ioErrors   (* Counters for the bounds.                        *)

fileVars == <<main, scratch, doomed>>
handlerVars == <<cmd, cur, unit, fd>>
systemVars == <<boot, timers, stopJob>>
receiverVars == <<inbox, lagged, missed>>
taskVars == <<pub, entries, job, statusOk, receiverVars>>
mqttVars == <<connected, cancelled, eventLoop, outbox, reported>>
handlerHistory == <<requests, accepted, refused, overwritten, undeleted>>
taskHistory == <<announced, published, forgotten>>
vars == <<fileVars, handlerVars, systemVars, taskVars, mqttVars, handlerHistory,
          taskHistory, owed, requested, ioErrors>>

Handling == {"idle", "unit", "verify", "create", "write", "systemctl", "parked", "delete",
             "reboot", "failed", "completed", "done"}
Publishing == {"collect", "claim", "read", "filter", "wait", "status", "result",
               "remove", "done"}
(* Where the completion task has still to hear of a connection.             *)
Listening == {"collect", "claim", "read", "filter", "wait"}
Event == {"Connected", "Other"}
Entry == [file : Process, uuid : Uuid \cup {Empty}]
Report == [uuid : Uuid, kind : {"Completed", "Failed", "Ok"}]

TypeOK ==
  /\ boot \in Process
  /\ main \in Content
  /\ scratch \in [Process -> Content]
  /\ doomed \subseteq Process
  /\ cmd \in Handling
  /\ cur \in Uuid \cup {Absent}
  /\ cmd \notin {"idle", "done"} => cur \in Uuid
  /\ unit \in {"", "camera", "mavlink", "modem-restart"}
  /\ fd \in 0..MaxBoots
  /\ timers \subseteq Uuid
  /\ stopJob \in BOOLEAN
  /\ pub \in Publishing
  /\ entries \subseteq Entry
  /\ pub \in {"result", "remove"} => job \in entries /\ job.uuid # Empty
  /\ statusOk \in BOOLEAN
  /\ inbox \in Seq(Event)
  /\ Len(inbox) <= EVENT_CHANNEL_CAPACITY
  /\ {lagged, missed} \subseteq BOOLEAN
  /\ connected \in {"never", "up", "down"}
  /\ cancelled \in BOOLEAN
  /\ eventLoop \in {"running", "flushing", "stopped"}
  /\ outbox \in Seq(Report)
  /\ Len(outbox) <= REQUEST_CAPACITY
  /\ reported \subseteq Report
  /\ requests \subseteq Uuid \X Process \X Targets
  /\ {accepted, refused, announced, published}
        \subseteq SUBSET (Uuid \X Process)
  /\ {overwritten, undeleted, owed, forgotten} \subseteq SUBSET Uuid
  /\ requested \in Nat /\ ioErrors \in Nat

Init ==
  /\ boot = 1 /\ timers = {} /\ stopJob = FALSE
  /\ main = Absent /\ scratch = [b \in Process |-> Absent] /\ doomed = {}
  /\ cmd = "idle" /\ cur = Absent /\ unit = "" /\ fd = 0
  /\ pub = "collect" /\ entries = {} /\ job = [file |-> 1, uuid |-> Empty]
  /\ statusOk = FALSE
  /\ inbox = <<>> /\ lagged = FALSE /\ missed = FALSE
  /\ connected = "never" /\ cancelled = FALSE /\ eventLoop = "running"
  /\ outbox = <<>> /\ reported = {}
  /\ requests = {} /\ accepted = {} /\ refused = {} /\ overwritten = {} /\ undeleted = {}
  /\ announced = {} /\ published = {} /\ owed = {} /\ forgotten = {}
  /\ requested = 0 /\ ioErrors = 0

-----------------------------------------------------------------------------
(* Mutant: the request channel has no bound.                                *)
PublishUnbounded(report) ==
  IF eventLoop = "stopped"
    THEN UNCHANGED outbox
    ELSE outbox' = Append(outbox, report)

(* AsyncClient::publish waits while the request channel is full; it fails   *)
(* once the event loop is gone.                                             *)
Publish(report) ==
  IF eventLoop = "stopped"
    THEN UNCHANGED outbox
    ELSE Len(outbox) < REQUEST_CAPACITY /\ outbox' = Append(outbox, report)

Taken == eventLoop # "stopped"

IoError == ioErrors < MaxIoErrors /\ ioErrors' = ioErrors + 1

(* What may go wrong with the file operation of a step, or not.             *)
Either(success, failure) ==
  \/ success /\ UNCHANGED ioErrors
  \/ failure /\ IoError

-----------------------------------------------------------------------------
(* The handler.                                                             *)

handlerFrame == <<taskVars, mqttVars, taskHistory, owed, boot, doomed>>

unit_for(target) ==
  CASE target = "camera" -> "camera"
    [] target = "mavlink" -> "mavlink"
    [] target = "modem" -> "modem-restart"
    [] OTHER -> ""

(* A command is taken and its handler starts.  Within one process the UUID  *)
(* memory stops a redelivery; across processes nothing does.                *)
Request(u, target) ==
  /\ cmd = "idle"
  /\ requested < MaxRequests
  /\ \A r \in requests : <<r[1], r[2]>> # <<u, boot>>
  /\ connected # "never"
  /\ ClaimFirst => pub \notin {"collect", "claim"}
  /\ cmd' = CASE target = "unitctl" -> "create"
               [] target = "reboot" -> "reboot"
               [] OTHER -> "unit"
  /\ cur' = u
  /\ unit' = unit_for(target)
  /\ requested' = requested + 1
  /\ requests' = requests \cup {<<u, boot, target>>}
  /\ UNCHANGED <<handlerFrame, main, scratch, fd, timers, stopJob, accepted,
                 refused, overwritten, undeleted, ioErrors>>

unitFrame == <<handlerFrame, main, scratch, cur, unit, fd, timers, stopJob,
               handlerHistory, requested, ioErrors>>

(* `systemctl restart` of the unit, which waits for the job, or its error.  *)
RestartUnit ==
  /\ cmd = "unit"
  /\ cmd' \in {"verify", "failed"}
  /\ UNCHANGED unitFrame

(* External: what `systemctl is-active` prints after a restart.  The unit   *)
(* modem-restart is a oneshot (services/modem-restart.service): once its    *)
(* script has run it is not active any more.                                *)
State == IF unit = "modem-restart" THEN {"inactive", "failed"}
                                   ELSE {"active", "activating", "inactive", "failed"}

(* verify_active: the state is polled until the window is over; an error or *)
(* any other state fails the command.                                       *)
VerifyActive ==
  /\ cmd = "verify"
  /\ \/ cmd' = "failed"
     \/ "active" \in State /\ cmd' \in {"verify", "completed"}
  /\ UNCHANGED unitFrame

(* tokio::fs::write first creates or truncates the file; a directory or     *)
(* file that cannot be created fails the command.                           *)
CreateFile ==
  /\ cmd = "create"
  /\ Either(/\ cmd' = "write"
            /\ main' = Empty
            /\ fd' = 0
            /\ overwritten' = overwritten \cup ({main} \cap Uuid),
            /\ cmd' = "failed"
            /\ UNCHANGED <<main, fd, overwritten>>)
  /\ UNCHANGED <<handlerFrame, scratch, cur, unit, timers, stopJob, requests, accepted,
                 refused, undeleted, requested>>

(* The bytes go to the file that was opened, wherever it is by now.         *)
Written ==
  IF fd = 0
    THEN main' = cur /\ UNCHANGED scratch
    ELSE /\ scratch' = [scratch EXCEPT ![fd] = IF @ = Absent THEN @ ELSE cur]
         /\ UNCHANGED main

(* A write that fails leaves the truncated file behind.                     *)
WriteFile ==
  /\ cmd = "write"
  /\ Either(cmd' = "systemctl" /\ Written,
            cmd' = "failed" /\ UNCHANGED <<main, scratch>>)
  /\ UNCHANGED <<handlerFrame, cur, unit, fd, timers, stopJob, handlerHistory, requested>>

(* systemd accepts the job: it will stop this process, whether `systemctl`  *)
(* still waits then or the handler has already parked.                      *)
RestartAccepted ==
  /\ cmd = "systemctl"
  /\ cmd' = "parked"
  /\ stopJob' = TRUE
  /\ accepted' = accepted \cup {<<cur, boot>>}
  /\ UNCHANGED <<handlerFrame, main, scratch, cur, unit, fd, timers, requests, refused,
                 overwritten, undeleted, requested, ioErrors>>

(* `systemctl` was killed by a signal: the handler parks all the same.      *)
SystemctlKilled ==
  /\ cmd = "systemctl"
  /\ cmd' = "parked"
  /\ UNCHANGED <<handlerFrame, main, scratch, cur, unit, fd, timers, stopJob,
                 handlerHistory, requested, ioErrors>>

(* `systemctl` cannot be run or exits with an error.                        *)
RestartRefused ==
  /\ cmd = "systemctl"
  /\ cmd' = "delete"
  /\ UNCHANGED <<handlerFrame, main, scratch, cur, unit, fd, timers, stopJob,
                 handlerHistory, requested, ioErrors>>

(* Mutant: the failure leaves the file behind.                              *)
KeepPending ==
  /\ cmd = "delete"
  /\ cmd' = "failed"
  /\ UNCHANGED <<handlerFrame, main, scratch, cur, unit, fd, timers, stopJob,
                 handlerHistory, requested, ioErrors>>

(* delete_pending_file: by path, whatever the completion task made of the   *)
(* file since; an error is only logged.                                     *)
DeletePending ==
  /\ cmd = "delete"
  /\ cmd' = "failed"
  /\ Either(main' = Absent /\ UNCHANGED undeleted,
            undeleted' = undeleted \cup {cur} /\ UNCHANGED main)
  /\ UNCHANGED <<handlerFrame, scratch, cur, unit, fd, timers, stopJob, requests, accepted,
                 refused, overwritten, requested>>

(* schedule_reboot: a detached task is started and the handler returns Ok.  *)
ScheduleReboot ==
  /\ cmd = "reboot"
  /\ cmd' = "completed"
  /\ timers' = timers \cup {cur}
  /\ UNCHANGED <<handlerFrame, main, scratch, cur, unit, fd, stopJob, handlerHistory,
                 requested, ioErrors>>

(* The command processor publishes what the handler returned (its status    *)
(* and its result are one report here, see CommandProcessor).               *)
ReportOutcome ==
  /\ cmd \in {"failed", "completed"}
  /\ cmd' = "idle"
  /\ Publish([uuid |-> cur, kind |-> IF cmd = "failed" THEN "Failed" ELSE "Ok"])
  /\ refused' = IF cmd = "failed" THEN refused \cup {<<cur, boot>>} ELSE refused
  /\ UNCHANGED <<fileVars, cur, unit, fd, systemVars, taskVars, connected, cancelled,
                 eventLoop, reported, requests, accepted, overwritten, undeleted,
                 taskHistory, owed, requested, ioErrors>>

(* The token drops the handler.  File operations under way are finished by  *)
(* a thread of the runtime, or not at all.                                  *)
HandlerCancelled ==
  /\ cancelled
  /\ cmd \in {"unit", "verify", "create", "write", "systemctl", "parked", "delete", "reboot"}
  /\ cmd' = "idle"
  /\ \/ UNCHANGED <<main, scratch>>
     \/ cmd = "write" /\ Written
     \/ cmd = "delete" /\ main' = Absent /\ UNCHANGED scratch
  /\ UNCHANGED <<handlerFrame, cur, unit, fd, timers, stopJob, handlerHistory, requested,
                 ioErrors>>

ProcessorStops ==
  /\ cancelled
  /\ cmd = "idle"
  /\ cmd' = "done"
  /\ UNCHANGED <<handlerFrame, main, scratch, cur, unit, fd, timers, stopJob,
                 handlerHistory, requested, ioErrors>>

(* One second later the detached task runs `reboot`; a failure is logged.   *)
RebootRuns ==
  /\ \E u \in timers : timers' = timers \ {u}
  /\ stopJob' \in {stopJob, TRUE}
  /\ UNCHANGED <<handlerFrame, handlerVars, main, scratch, handlerHistory, requested,
                 ioErrors>>

Handler ==
  \/ VerifyActive \/ CreateFile \/ WriteFile \/ DeletePending \/ ScheduleReboot
  \/ ReportOutcome \/ HandlerCancelled \/ ProcessorStops
Systemctl == RestartUnit \/ RestartAccepted \/ SystemctlKilled \/ RestartRefused

-----------------------------------------------------------------------------
(* The completion task (RestartCompletionPublisher::run).                   *)

taskFrame == <<systemVars, cmd, cur, unit, connected, cancelled, eventLoop, reported,
               handlerHistory, owed, requested>>

Orphans == {[file |-> b, uuid |-> scratch[b]] :
              b \in {c \in Process : scratch[c] # Absent}}

(* collect_orphan_inflight: an error of the directory or of one file makes  *)
(* it forget them all, for this process.                                    *)
Collect ==
  /\ pub = "collect"
  /\ pub' = "claim"
  /\ Either(entries' = Orphans /\ UNCHANGED forgotten,
            /\ entries' = {}
            /\ forgotten' = forgotten \cup ({e.uuid : e \in Orphans} \cap Uuid))
  /\ UNCHANGED <<taskFrame, fileVars, fd, job, statusOk, receiverVars, outbox,
                 announced, published>>

(* claim_main_pending renames the main file; a write that has it open       *)
(* follows it.  An error leaves it where it is.                             *)
Claim ==
  /\ pub = "claim"
  /\ IF main = Absent
       THEN pub' = "filter" /\ UNCHANGED <<main, scratch, fd, forgotten, ioErrors>>
       ELSE Either(/\ pub' = "read"
                   /\ scratch' = [scratch EXCEPT ![boot] = main]
                   /\ main' = Absent
                   /\ fd' = IF cmd = "write" THEN boot ELSE fd
                   /\ UNCHANGED forgotten,
                   /\ pub' = "filter"
                   /\ forgotten' = forgotten \cup ({main} \cap Uuid)
                   /\ UNCHANGED <<main, scratch, fd>>)
  /\ UNCHANGED <<taskFrame, doomed, entries, job, statusOk, receiverVars, outbox,
                 announced, published>>

(* The renamed file is read; on an error it stays behind as an orphan.      *)
ReadClaimed ==
  /\ pub = "read"
  /\ pub' = "filter"
  /\ Either(/\ entries' = entries \cup {[file |-> boot, uuid |-> scratch[boot]]}
            /\ UNCHANGED forgotten,
            /\ forgotten' = forgotten \cup ({scratch[boot]} \cap Uuid)
            /\ UNCHANGED entries)
  /\ UNCHANGED <<taskFrame, fileVars, fd, job, statusOk, receiverVars, outbox,
                 announced, published>>

(* The task has ended or will not receive again: what it would receive is   *)
(* of no interest any more.                                                 *)
StopListening == inbox' = <<>> /\ lagged' = FALSE /\ missed' = FALSE

(* Empty files are left to detached tasks; without entries the task ends.   *)
Filter ==
  /\ pub = "filter"
  /\ LET kept == {e \in entries : e.uuid # Empty}
     IN  /\ entries' = kept
         /\ doomed' = {e.file : e \in entries \ kept}
         /\ IF kept = {} THEN pub' = "done" /\ StopListening
                          ELSE pub' = "wait" /\ UNCHANGED receiverVars
  /\ UNCHANGED <<taskFrame, main, scratch, fd, job, statusOk, outbox,
                 taskHistory, ioErrors>>

RemoveDoomed ==
  /\ \E b \in doomed :
       /\ doomed' = doomed \ {b}
       /\ Either(scratch' = [scratch EXCEPT ![b] = Absent], UNCHANGED scratch)
  /\ UNCHANGED <<taskFrame, main, fd, taskVars, outbox, taskHistory>>

(* The oldest event is received: any but Connected is passed over.          *)
WaitConnected ==
  /\ pub = "wait"
  /\ ~lagged
  /\ inbox # <<>>
  /\ IF Head(inbox) = "Connected"
       THEN pub' = "status" /\ StopListening
       ELSE inbox' = Tail(inbox) /\ UNCHANGED <<pub, lagged, missed>>
  /\ UNCHANGED <<taskFrame, fileVars, fd, entries, job, statusOk, outbox,
                 taskHistory, ioErrors>>

(* Mutant: every error of the receiver ends the task.                       *)
EndLagged ==
  /\ pub = "wait"
  /\ lagged
  /\ pub' = "done"
  /\ StopListening
  /\ UNCHANGED <<taskFrame, fileVars, fd, entries, job, statusOk, outbox,
                 taskHistory, ioErrors>>

(* Events were overwritten: unlike the status publisher the task goes on    *)
(* waiting, although Connected may have been among them.                    *)
WaitLagged ==
  /\ pub = "wait"
  /\ lagged
  /\ lagged' = FALSE
  /\ UNCHANGED <<taskFrame, fileVars, fd, pub, entries, job, statusOk, inbox, missed,
                 outbox, taskHistory, ioErrors>>

WaitCancelled ==
  /\ pub = "wait"
  /\ cancelled
  /\ pub' = "done"
  /\ StopListening
  /\ UNCHANGED <<taskFrame, fileVars, fd, entries, job, statusOk, outbox,
                 taskHistory, ioErrors>>

(* Orphans in directory order, which is any; the claimed file comes last.   *)
PublishStatus ==
  /\ pub = "status"
  /\ \E e \in entries :
       /\ e.file = boot => entries = {e}
       /\ job' = e
       /\ Publish([uuid |-> e.uuid, kind |-> "Completed"])
       /\ announced' = IF Taken THEN announced \cup {<<e.uuid, boot>>} ELSE announced
  /\ statusOk' = Taken
  /\ pub' = "result"
  /\ UNCHANGED <<taskFrame, fileVars, fd, entries, receiverVars, published, forgotten,
                 ioErrors>>

NextEntry(left) ==
  /\ entries' = left
  /\ pub' = IF left = {} THEN "done" ELSE "status"

(* Mutant: the file goes whether or not both reports were taken.            *)
PublishResultForgetting ==
  /\ pub = "result"
  /\ Publish([uuid |-> job.uuid, kind |-> "Ok"])
  /\ pub' = "remove"
  /\ published' = IF statusOk /\ Taken THEN published \cup {<<job.uuid, boot>>}
                                       ELSE published
  /\ UNCHANGED <<taskFrame, fileVars, fd, entries, job, statusOk, receiverVars,
                 announced, forgotten, ioErrors>>

(* Unless both reports were taken the file is kept for the next process.    *)
PublishResult ==
  /\ pub = "result"
  /\ Publish([uuid |-> job.uuid, kind |-> "Ok"])
  /\ IF statusOk /\ Taken
       THEN /\ pub' = "remove"
            /\ published' = published \cup {<<job.uuid, boot>>}
            /\ UNCHANGED entries
       ELSE NextEntry(entries \ {job}) /\ UNCHANGED published
  /\ UNCHANGED <<taskFrame, fileVars, fd, job, statusOk, receiverVars, announced,
                 forgotten, ioErrors>>

(* An error is only logged.                                                 *)
RemovePublished ==
  /\ pub = "remove"
  /\ Either(scratch' = [scratch EXCEPT ![job.file] = Absent], UNCHANGED scratch)
  /\ NextEntry(entries \ {job})
  /\ UNCHANGED <<taskFrame, main, doomed, fd, job, statusOk, receiverVars, outbox,
                 taskHistory>>

Completion ==
  \/ Collect \/ Claim \/ ReadClaimed \/ Filter \/ RemoveDoomed
  \/ WaitConnected \/ WaitLagged \/ WaitCancelled
  \/ PublishStatus \/ PublishResult \/ RemovePublished

-----------------------------------------------------------------------------
(* The transport task, as far as the two above see it (transport.rs:82-176).*)

transportFrame == <<fileVars, handlerVars, systemVars, pub, entries, job, statusOk,
                    handlerHistory, taskHistory, owed, requested, ioErrors>>

Hears == \E i \in DOMAIN inbox : inbox[i] = "Connected"

(* broadcast::Sender::send: at capacity the oldest unread event goes.  Only *)
(* the running loop broadcasts.                                             *)
Broadcast(event) ==
  IF eventLoop # "running" \/ pub \notin Listening
    THEN UNCHANGED receiverVars
    ELSE /\ IF Len(inbox) < EVENT_CHANNEL_CAPACITY
              THEN inbox' = Append(inbox, event) /\ UNCHANGED lagged
              ELSE inbox' = Append(Tail(inbox), event) /\ lagged' = TRUE
         /\ missed' = ((Hears \/ missed) /\ ~Hears')

Connect ==
  /\ connected # "up"
  /\ eventLoop # "stopped"
  /\ connected' = "up"
  /\ Broadcast("Connected")
  /\ UNCHANGED <<transportFrame, cancelled, eventLoop, outbox, reported>>

Disconnect ==
  /\ connected = "up"
  /\ eventLoop = "running"
  /\ connected' = "down"
  /\ Broadcast("Other")
  /\ UNCHANGED <<transportFrame, cancelled, eventLoop, outbox, reported>>

(* A message of the broker, or an attempt to connect that failed.           *)
OtherEvent ==
  /\ eventLoop = "running"
  /\ Broadcast("Other")
  /\ UNCHANGED <<transportFrame, connected, cancelled, eventLoop, outbox, reported>>

(* The broker has the next report; until its PUBACK, rumqttc sends it again *)
(* on every new connection.                                                 *)
Flush ==
  /\ connected = "up"
  /\ outbox # <<>>
  /\ reported' = reported \cup {Head(outbox)}
  /\ outbox' = Tail(outbox)
  /\ UNCHANGED <<transportFrame, receiverVars, connected, cancelled, eventLoop>>

(* SIGTERM, from systemd's job or from outside.                             *)
Cancel ==
  /\ ~cancelled
  /\ cancelled' = TRUE
  /\ UNCHANGED <<transportFrame, receiverVars, connected, eventLoop, outbox, reported>>

BeginFlush ==
  /\ cancelled
  /\ eventLoop = "running"
  /\ eventLoop' = "flushing"
  /\ UNCHANGED <<transportFrame, receiverVars, connected, cancelled, outbox, reported>>

(* DISCONNECT was written, poll() failed, or two seconds passed.            *)
EndFlush ==
  /\ eventLoop = "flushing"
  /\ eventLoop' = "stopped"
  /\ connected' = "down"
  /\ outbox' = <<>>
  /\ UNCHANGED <<transportFrame, receiverVars, cancelled, reported>>

-----------------------------------------------------------------------------
(* The process ends, at any moment, and systemd starts the next one.        *)
Boot ==
  /\ boot < MaxBoots
  /\ boot' = boot + 1
  /\ timers' = {} /\ stopJob' = FALSE
  /\ doomed' = {}
  /\ cmd' = "idle" /\ cur' = Absent /\ unit' = "" /\ fd' = 0
  /\ pub' = "collect" /\ entries' = {} /\ job' = [file |-> 1, uuid |-> Empty]
  /\ statusOk' = FALSE /\ StopListening
  /\ connected' = "never" /\ cancelled' = FALSE /\ eventLoop' = "running"
  /\ outbox' = <<>>
  /\ owed' = ({main} \cup {scratch[b] : b \in Process}) \cap Uuid
  /\ forgotten' = {}
  /\ UNCHANGED <<main, scratch, reported, handlerHistory, announced, published,
                 requested, ioErrors>>

Transport == Connect \/ Disconnect \/ OtherEvent \/ Flush \/ BeginFlush \/ EndFlush

Next ==
  \/ \E u \in Uuid, target \in Targets : Request(u, target)
  \/ Handler \/ Systemctl \/ RebootRuns
  \/ Completion \/ Transport \/ Cancel
  \/ Boot

Spec == Init /\ [][Next]_vars

(* Tokio polls the completion task; rumqttc reconnects every second, and a  *)
(* connection that keeps coming back lasts for a report in the end.         *)
ServedSpec ==
  Spec /\ WF_vars(Completion) /\ WF_vars(Connect) /\ SF_vars(Flush)

-----------------------------------------------------------------------------
(* Properties.                                                              *)

OnDisk(u) == u \in {main} \cup {scratch[b] : b \in Process}

(* restart.rs:299-300: the deferred Completed of a restart is published     *)
(* "after the next-boot MQTT connection".  So a process only announces      *)
(* restarts that an earlier process was asked for, and none that the server *)
(* was told had failed, unless the file of that one could not be removed.   *)
CompletionJustified ==
  \A a \in announced :
    \E r \in requests :
      /\ r[1] = a[1] /\ r[2] < a[2] /\ r[3] = "unitctl"
      /\ <<r[1], r[2]>> \in refused => r[1] \in undeleted

(* A restart that systemd accepted is not forgotten by any interleaving,    *)
(* crash or failing file operation: its UUID is in a file until both its    *)
(* reports are with rumqttc, or until a later restart command takes the     *)
(* file over (the service promises the most recent one only).               *)
AcceptedNotForgotten ==
  \A a \in accepted :
    \/ OnDisk(a[1])
    \/ \E p \in published : p[1] = a[1]
    \/ a[1] \in overwritten

(* A UUID that was in a file when the process started is reported to the    *)
(* broker, unless the process is told to stop or dies first, could not read *)
(* the file, or had Connected overwritten in its inbox.  Neither being      *)
(* behind (lagged) nor an overwritten Connected is an excuse for good: once *)
(* the receiver has caught up and the connection has returned, the report   *)
(* must come (restart.rs:323-452).                                          *)
OwedReported ==
  \A u \in Uuid, b \in Process :
    (u \in owed /\ boot = b)
      ~> (\/ [uuid |-> u, kind |-> "Completed"] \in reported
          \/ cancelled \/ boot > b
          \/ u \in forgotten
          \/ lagged \/ missed)
=============================================================================
