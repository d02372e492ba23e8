--------------------------------- MODULE Agent ---------------------------------
(***************************************************************************)
(* The process (main.rs): it loads and checks the configuration, starts    *)
(* the sensors, the MAVLink tasks and, if configured, the MQTT tasks in    *)
(* order, waits for the shutdown token and joins every task.               *)
(*                                                                         *)
(* Composed here: the sensors, as SensorTask promises them, the            *)
(* environment writers, the transport with its request channel, the MQTT   *)
(* telemetry publisher and the MAVLink telemetry reporter, which read the  *)
(* values of the sensors.  The other tasks have modules of their own,      *)
(* which show that they end once the token is cancelled; here they are one.*)
(***************************************************************************)
EXTENDS Configuration, SensorTask

CONSTANTS
  Files,             (* Contents of the configuration file.                *)
  Certificates,      (* What is found at the paths of the certificates.    *)
  REQUEST_CAPACITY   (* Slots of rumqttc's request channel.                *)

ASSUME AgentAssumption ==
  /\ Files \subseteq Config
  /\ \A certs \in Certificates : certs.subject \in Seq(Attribute)
  /\ REQUEST_CAPACITY \in Nat \ {0}

VARIABLES
  main,       (* The next step of main, or how it ended.                   *)
  config,     (* The configuration.                                        *)
  camera_env, (* The camera's environment file, [state, sets].             *)
  mavlink_env,(* The router's.                                             *)
  identity,   (* Whom the transport speaks for.                            *)
  loop,       (* The event loop: "none", "made", "running", "flushing" or  *)
              (* "dropped".                                                *)
  link,       (* It is connected to the broker.                            *)
  outbox,     (* Requests that it has not written.                         *)
  receivers,  (* Tasks that will see the events of the connection.         *)
  told,       (* Tasks that saw the first Connected, once there was one.   *)
  publisher,  (* The telemetry publisher: "sleep", the sensor it is at,    *)
              (* "done" or "off".                                          *)
  reporter,   (* The telemetry reporter, likewise.                         *)
  others      (* The other tasks: "off", "running" or "ended".             *)

envVars == <<camera_env, mavlink_env>>
mqttVars == <<identity, loop, link, outbox, receivers, told>>
taskVars == <<publisher, held, reporter, others>>
vars == <<main, config, cancelled, tasks, envVars, mqttVars, taskVars>>

Subscriber == {"commands", "status", "completion"}
NoFile == [state |-> "none", sets |-> {}]
Pending == [state |-> "pending", sets |-> {}]

TypeOK ==
  /\ TasksTypeOK
  /\ cancelled \in BOOLEAN
  /\ held \in SUBSET Sensor
  /\ main \in {"load", "resolve", "writers", "sensors", "mqtt", "commands", "status",
               "completion", "transport", "telemetry", "wait", "join",
               "failed", "panicked", "done"}
  /\ config \in Config
  /\ {camera_env.state, mavlink_env.state} \subseteq {"none", "pending", "written", "failed"}
  /\ identity \in Identity \cup {Nobody}
  /\ loop \in {"none", "made", "running", "flushing", "dropped"}
  /\ link \in BOOLEAN
  /\ outbox \in 0..REQUEST_CAPACITY
  /\ receivers \subseteq Subscriber
  /\ told \in (SUBSET Subscriber) \cup {{"nobody"}}
  /\ publisher \in Sensor \cup {"off", "sleep", "done"}
  /\ reporter \in {"ping", "lte", "off", "sleep", "done"}
  /\ others \in {"off", "running", "ended"}

NotYet == {"nobody"}   (* There was no connection yet.                      *)

Init ==
  /\ TasksInit
  /\ cancelled = FALSE /\ held = {}
  /\ main = "load" /\ config \in Files
  /\ camera_env = NoFile /\ mavlink_env = NoFile
  /\ identity = Nobody /\ loop = "none" /\ link = FALSE /\ outbox = 0 /\ receivers = {} /\ told = NotYet
  /\ publisher = "off" /\ reporter = "off" /\ others = "off"

(* Nothing runs before the tasks are started or after the process ended.    *)
Running == main \notin {"load", "resolve", "failed", "panicked", "done"}

-----------------------------------------------------------------------------
(* Main.                                                                    *)

(* The file cannot be read, cannot be parsed or is refused, or it is taken. *)
Load ==
  /\ main = "load"
  /\ main' = "failed" \/ (validate(config) /\ main' = "resolve")
  /\ UNCHANGED <<config, cancelled, tasks, envVars, mqttVars, taskVars>>

(* The interface must have an address now.                                  *)
Resolve ==
  /\ main = "resolve"
  /\ main' \in {"failed", "writers"}
  /\ UNCHANGED <<config, cancelled, tasks, envVars, mqttVars, taskVars>>

SpawnWriters ==
  /\ main = "writers"
  /\ camera_env' = Pending /\ mavlink_env' = Pending
  /\ main' = "sensors"
  /\ UNCHANGED <<config, cancelled, tasks, mqttVars, taskVars>>

(* SensorManager::new makes a Duration of each enabled sensor's interval.   *)
SpawnSensors ==
  /\ main = "sensors"
  /\ IF \E s \in Enabled(config.sensors) : NoDuration(Interval(config.sensors, s))
       THEN main' = "panicked" /\ UNCHANGED <<tasks, reporter, others>>
       ELSE /\ StartTasks(Enabled(config.sensors))
            /\ reporter' = "sleep" /\ others' = "running"
            /\ main' = IF config.mqtt.enabled THEN "mqtt" ELSE "wait"
  /\ UNCHANGED <<config, cancelled, envVars, mqttVars, publisher, held>>

(* Without certificates, with an unusable common name or prefix, MQTT stays *)
(* off and the process goes on.                                             *)
NewTransport ==
  /\ main = "mqtt"
  /\ \E certs \in Certificates :
       /\ identity' = new(config.mqtt, certs)
       /\ IF identity' # Nobody THEN main' = "commands" /\ loop' = "made"
                                ELSE main' = "wait" /\ UNCHANGED loop
  /\ UNCHANGED <<config, cancelled, tasks, envVars, link, outbox, receivers, told,
                 taskVars>>

(* Mutant: the event loop runs before its subscribers are there.            *)
NewSubscriberLate(s, following) ==
  /\ main = s
  /\ receivers' = receivers \cup {s}
  /\ outbox' = IF s = "commands" THEN outbox + 1 ELSE outbox
  /\ loop' = IF s = "status" THEN "running" ELSE loop
  /\ main' = following
  /\ UNCHANGED <<config, cancelled, tasks, envVars, identity, link, told, taskVars>>

(* A task that follows the connection takes its receiver when it is made;   *)
(* the command processor also queues its SUBSCRIBE.                         *)
NewSubscriber(s, following) ==
  /\ main = s
  /\ receivers' = receivers \cup {s}
  /\ outbox' = IF s = "commands" THEN outbox + 1 ELSE outbox
  /\ main' = following
  /\ UNCHANGED <<config, cancelled, tasks, envVars, identity, loop, link, told, taskVars>>

RunTransport ==
  /\ main = "transport"
  /\ loop' = "running"
  /\ main' = "telemetry"
  /\ UNCHANGED <<config, cancelled, tasks, envVars, identity, link, outbox, receivers,
                 told, taskVars>>

RunTelemetry ==
  /\ main = "telemetry"
  /\ IF NoDuration(config.mqtt.telemetry_interval_s)
       THEN main' = "panicked" /\ UNCHANGED publisher
       ELSE main' = "wait" /\ publisher' = "sleep"
  /\ UNCHANGED <<config, cancelled, tasks, envVars, mqttVars, held, reporter, others>>

Cancelled ==
  /\ main = "wait"
  /\ cancelled
  /\ main' = "join"
  /\ UNCHANGED <<config, cancelled, tasks, envVars, mqttVars, taskVars>>

Ended ==
  /\ {phase[s] : s \in Sensor} \cup {publisher, reporter} \subseteq {"off", "done"}
  /\ loop \in {"none", "dropped"}
  /\ others = "ended"
  /\ "pending" \notin {camera_env.state, mavlink_env.state}

Join ==
  /\ main = "join"
  /\ Ended
  /\ main' = "done"
  /\ UNCHANGED <<config, cancelled, tasks, envVars, mqttVars, taskVars>>

Main ==
  \/ Load \/ Resolve \/ SpawnWriters \/ SpawnSensors \/ NewTransport
  \/ NewSubscriber("commands", "status") \/ NewSubscriber("status", "completion")
  \/ NewSubscriber("completion", "transport")
  \/ RunTransport \/ RunTelemetry \/ Cancelled \/ Join

(* SIGINT or SIGTERM.                                                       *)
Signal ==
  /\ Running
  /\ ~cancelled
  /\ cancelled' = TRUE
  /\ UNCHANGED <<main, config, tasks, envVars, mqttVars, taskVars>>

-----------------------------------------------------------------------------
(* The environment writers.                                                 *)

(* Its directory cannot be made or the file not written: this is logged.    *)
Write(env_path, assignments) ==
  IF Creatable(env_path) THEN [state |-> "written", sets |-> Content(assignments)]
                         ELSE [state |-> "failed", sets |-> {}]

WriteCamera ==
  /\ Running
  /\ camera_env = Pending
  /\ camera_env' = Write(config.camera.env_path, generate_camera_env(config.camera))
  /\ UNCHANGED <<main, config, cancelled, tasks, mavlink_env, mqttVars, taskVars>>

WriteMavlink ==
  /\ Running
  /\ mavlink_env = Pending
  /\ mavlink_env' = Write(config.mavlink.env_path, generate_mavlink_env(config.mavlink))
  /\ UNCHANGED <<main, config, cancelled, tasks, camera_env, mqttVars, taskVars>>

-----------------------------------------------------------------------------
(* The sensors.                                                             *)

Sensing(A) ==
  /\ Running
  /\ A
  /\ UNCHANGED <<main, config, cancelled, envVars, mqttVars, taskVars>>

-----------------------------------------------------------------------------
(* The transport.  While it is not connected, requests stay in the channel. *)

transportFrame == <<main, config, cancelled, tasks, envVars, taskVars, identity,
                    receivers>>

(* The first connection is announced to the receivers that exist.           *)
Connect ==
  /\ Running
  /\ loop \in {"running", "flushing"}
  /\ ~link
  /\ link' = TRUE
  /\ told' = IF told = NotYet THEN receivers ELSE told
  /\ UNCHANGED <<transportFrame, loop, outbox>>

Disconnect ==
  /\ Running
  /\ link
  /\ link' = FALSE
  /\ UNCHANGED <<transportFrame, loop, outbox, told>>

WriteRequest ==
  /\ Running
  /\ link
  /\ outbox > 0
  /\ outbox' = outbox - 1
  /\ UNCHANGED <<transportFrame, loop, link, told>>

(* Mutant: the last requests are queued whether there is room or not.       *)
StopTransportBlindly ==
  /\ Running
  /\ loop = "running"
  /\ cancelled
  /\ loop' = "flushing"
  /\ outbox' = outbox + (IF told = NotYet THEN 1 ELSE 2)
  /\ UNCHANGED <<transportFrame, link, told>>

(* The token: Offline, if there ever was a connection, and DISCONNECT are   *)
(* queued if there is room.                                                 *)
StopTransport ==
  /\ Running
  /\ loop = "running"
  /\ cancelled
  /\ loop' = "flushing"
  /\ LET last == IF told = NotYet THEN 1 ELSE 2
     IN  outbox' = IF outbox + last <= REQUEST_CAPACITY THEN outbox + last
                                                        ELSE REQUEST_CAPACITY
  /\ UNCHANGED <<transportFrame, link, told>>

(* Mutant: the flush ends only when everything is written.                  *)
DropEventLoopWhenEmpty ==
  /\ Running
  /\ loop = "flushing"
  /\ outbox = 0
  /\ loop' = "dropped" /\ link' = FALSE /\ outbox' = 0
  /\ UNCHANGED <<transportFrame, told>>

(* The DISCONNECT was written, an error came, or two seconds have passed.   *)
DropEventLoop ==
  /\ Running
  /\ loop = "flushing"
  /\ loop' = "dropped" /\ link' = FALSE /\ outbox' = 0
  /\ UNCHANGED <<transportFrame, told>>

-----------------------------------------------------------------------------
(* The telemetry publisher.                                                 *)

After(s) == CASE s = "lte" -> "ping" [] s = "ping" -> "system" [] s = "system" -> "sleep"

publisherFrame == <<main, config, cancelled, tasks, envVars, reporter, others, identity,
                    loop, link, receivers, told>>

(* A wake-up beside the cancellation is one before it: it changes nothing   *)
(* that another task sees.                                                  *)
PublisherWakes ==
  /\ Running
  /\ publisher = "sleep"
  /\ ~cancelled
  /\ publisher' = "lte"
  /\ UNCHANGED <<publisherFrame, held, outbox>>

PublisherCancelled ==
  /\ Running
  /\ publisher = "sleep"
  /\ cancelled
  /\ publisher' = "done"
  /\ UNCHANGED <<publisherFrame, held, outbox>>

(* The guard of the read lives as long as the block that publishes.         *)
PublisherReads(s) ==
  /\ Running
  /\ publisher = s
  /\ s \notin held
  /\ IF known[s] THEN held' = {s} /\ UNCHANGED publisher
                      ELSE publisher' = After(s) /\ UNCHANGED held
  /\ UNCHANGED <<publisherFrame, outbox>>

(* Mutant: the guard is forgotten.                                          *)
PublisherQueuesKeeping(s) ==
  /\ Running
  /\ publisher = s
  /\ s \in held
  /\ loop # "dropped"
  /\ outbox < REQUEST_CAPACITY
  /\ outbox' = outbox + 1
  /\ publisher' = After(s)
  /\ UNCHANGED <<publisherFrame, held>>

(* The publication waits for room in the channel.                           *)
PublisherQueues(s) ==
  /\ Running
  /\ publisher = s
  /\ s \in held
  /\ loop # "dropped"
  /\ outbox < REQUEST_CAPACITY
  /\ outbox' = outbox + 1
  /\ held' = {} /\ publisher' = After(s)
  /\ UNCHANGED publisherFrame

(* Without an event loop it fails, which is logged.                         *)
PublisherRefused(s) ==
  /\ Running
  /\ publisher = s
  /\ s \in held
  /\ loop = "dropped"
  /\ held' = {} /\ publisher' = After(s)
  /\ UNCHANGED <<publisherFrame, outbox>>

-----------------------------------------------------------------------------
(* The telemetry reporter and the other tasks.                              *)

(* tokio's lock is fair: a reader waits for the writer that waits.          *)
ReaderMay(s) == s \notin held \/ phase[s] # "store"

reporterFrame == <<main, config, cancelled, tasks, envVars, mqttVars, publisher, held,
                   others>>

(* The token is looked at first.                                            *)
ReporterTick ==
  /\ Running
  /\ reporter = "sleep"
  /\ ~cancelled
  /\ reporter' = "ping"
  /\ UNCHANGED reporterFrame

ReporterReads(s, following) ==
  /\ Running
  /\ reporter = s
  /\ ReaderMay(s)
  /\ reporter' = following
  /\ UNCHANGED reporterFrame

ReporterCancelled ==
  /\ Running
  /\ reporter = "sleep"
  /\ cancelled
  /\ reporter' = "done"
  /\ UNCHANGED reporterFrame

(* Status, commands and completion share the request channel.               *)
OthersPublish ==
  /\ Running
  /\ others = "running"
  /\ loop \in {"running", "flushing"}
  /\ told # NotYet
  /\ outbox < REQUEST_CAPACITY
  /\ outbox' = outbox + 1
  /\ UNCHANGED <<main, config, cancelled, tasks, envVars, identity, loop, link, receivers,
                 told, taskVars>>

OthersEnd ==
  /\ Running
  /\ others = "running"
  /\ cancelled
  /\ main = "join"
  /\ others' = "ended"
  /\ UNCHANGED <<main, config, cancelled, tasks, envVars, mqttVars, publisher, held,
                 reporter>>

-----------------------------------------------------------------------------
Tasks ==
  \/ WriteCamera \/ WriteMavlink
  \/ StopTransport \/ DropEventLoop
  \/ PublisherWakes \/ PublisherCancelled
  \/ \E s \in Sensor : PublisherReads(s) \/ PublisherQueues(s) \/ PublisherRefused(s)
  \/ ReporterTick \/ ReporterReads("ping", "lte") \/ ReporterReads("lte", "sleep")
  \/ ReporterCancelled
  \/ OthersPublish \/ OthersEnd

Sensors == \E s \in Sensor : Sensing(Gather(s)) \/ Sensing(Store(s)) \/ Sensing(End(s))

Next == Main \/ Signal \/ Sensors \/ Connect \/ Disconnect \/ WriteRequest \/ Tasks

Spec == Init /\ [][Next]_vars

(* tokio polls a task that can go on, each select in the end takes a branch *)
(* that is ready again and again, and locks and channels serve those who    *)
(* wait in order.  The flush ends by its time limit.  Of the broker nothing *)
(* is assumed.                                                              *)
TaskFairness ==
  /\ WF_vars(Main)
  /\ WF_vars(WriteCamera \/ WriteMavlink)
  /\ WF_vars(StopTransport \/ DropEventLoop)
  /\ \A s \in Sensor : WF_vars(Sensing(Store(s))) /\ SF_vars(cancelled /\ Sensing(End(s)))
  /\ WF_vars(PublisherWakes \/ PublisherCancelled)
  /\ WF_vars(\E s \in Sensor : PublisherReads(s) \/ PublisherRefused(s))
  /\ SF_vars(\E s \in Sensor : PublisherQueues(s))
  /\ WF_vars(ReporterTick \/ ReporterCancelled)
  /\ SF_vars(ReporterReads("ping", "lte") \/ ReporterReads("lte", "sleep"))
  /\ WF_vars(OthersEnd)

(* Until the shutdown the broker comes back and takes requests.             *)
ServiceFairness ==
  WF_vars(~cancelled /\ Connect) /\ SF_vars(~cancelled /\ WriteRequest)

FairSpec == Spec /\ TaskFairness
ServedSpec == FairSpec /\ ServiceFairness

-----------------------------------------------------------------------------
(* Properties.                                                              *)

(* "prevents env variable injection in generated env files" (config.rs:347):*)
(* each file that is written sets its variables and no other, whatever the  *)
(* configuration holds.                                                     *)
EnvFilesWellFormed ==
  \A file \in {camera_env, mavlink_env} :
    file.state = "written" => Another \notin file.sets

(* "Run transport after all subscribers have been registered" (main.rs:173):*)
(* the first connection, with which the broker replays queued commands, is  *)
(* announced to all three tasks that must act on it.                        *)
FirstConnectSeen == told \in {NotYet, Subscriber}

(* "Validate that a string is safe for use in MQTT topic segments"          *)
(* (transport.rs:38): whatever the names in certificates and configurations,*)
(* the subscription of this node covers exactly the commands that are meant *)
(* for it and takes each for what it is, and no other node publishes to the *)
(* topics that it publishes to.                                             *)
OwnTopics ==
  identity # Nobody =>
    \A other \in {id \in Identity : Accepted(id)} :
      /\ \A cmd \in Commands :
           LET topic == command_topic(other, cmd, "in")
           IN  /\ Covers(command_topic(identity, "+", "in"), topic) <=> other = identity
               /\ extract_command_name(topic, command_topic(identity, "", ""))
                    = IF other = identity THEN cmd ELSE ""
      /\ Published(other) \cap Published(identity) # {} => other = identity

(* Once the token is cancelled main joins every task and ends, whether the  *)
(* broker answers or not and whoever waits for a lock or for room.          *)
ShutdownJoins == cancelled ~> main \in {"done", "panicked"}

(* "Reads sensor values from Context at 1Hz" (README.md:334): the telemetry *)
(* reporter always gets past its two reads.  It does as long as the broker  *)
(* takes requests, and does not when it is away for long.                   *)
ReporterKeepsReading == []<>(Running => reporter \in {"off", "sleep", "done"})
=============================================================================
