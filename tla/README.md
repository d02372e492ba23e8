# Formal models of unitctl

unitctl is the agent that runs on a drone's companion computer. It connects the
flight controller (MAVLink, through mavlink-routerd), an LTE modem
(ModemManager) and a control server (MQTT). This directory holds TLA+ models of
the agent, TLC configurations that check them on small instances, and proofs
that TLAPS checks for every value of the constants.

A line such as `commands.rs:71` is line 71 of the file that the table of section 1
names in full. `PROJECT.json` maps every definition to the lines that it models,
and lists what is hard to test in the code (*hazards*) with the properties about it.

## 1. The system

One tokio process (`src/main.rs`). A `CancellationToken`, cancelled by SIGINT or
SIGTERM, is the only way to stop it; main then joins every task. systemd starts
the next process, so "crash" and "restart" are the same event for the models:
memory is gone, files and the broker's session stay.

| Component | State it keeps | Operations | Talks to |
|---|---|---|---|
| Command pipeline, `services/mqtt/commands.rs`, `messages/commands.rs` | broadcast receiver, bounded bridge channel (64), memory of the last UUIDs (`DedupQueue`) | bridge task `fill_bridge_queue`, processor task `drain_commands` / `process_command`, check of the lifetime, resubscription on Connected | transport (events in, publications out), handlers |
| Command handlers, `services/mqtt/handlers/` | none, but for restart | `get_config`, `modem_commands`, `restart`; `config_update` and `update_request` are stubs | pipeline, modem access |
| Transport, `services/mqtt/transport.rs`, `tls.rs` | identity of the node, rumqttc event loop, request channel (50), broadcast channel (256), `last_connected_at` | `new`, topic builders, `run` (poll, broadcast, shutdown with Offline, DISCONNECT and a flush of two seconds), `publish`, `subscribe` | broker; every MQTT task |
| Restart command, `services/mqtt/handlers/restart.rs` | file `pending-restart-uuid` and its in-flight copies, detached timers | handler (`exec_self_restart`, `schedule_reboot`, `restart_unit`), completion task of the next process | systemd, transport, file system |
| Status and telemetry, `services/mqtt/status.rs`, `telemetry.rs` | nothing; the retained status lives at the broker | Online on every Connected or Lagged, periodic telemetry | transport, Context |
| Modem access, `services/modem_access/` | request queue (32), one worker, reply channel per request | discovery with retries, `worker_loop`, `request` with a timeout of 30 s | ModemManager; LTE sensor, modem_commands handler |
| LTE sensor, `sensors/lte.rs` | type of the modem, last reading, neighbour cells | look for the modem, ask its type once, poll signal and neighbours in turn | modem access, Context |
| Ping and system sensors, `sensors/ping.rs`, `system.rs` | ping process and its last counts; byte counters of the last collection | one loop each that overwrites its reading | ping process, /proc, Context |
| MAVLink, `mavlink/` and `context.rs` | discovered systems, outgoing queue (500) | sniffer, drone component, two heartbeat loops, telemetry reporter | mavlink-routerd, Context |
| Configuration, `config.rs`, `env/` | constants of the process | validation, intervals, two environment files | file system |
| Startup and shutdown, `main.rs`, `context.rs` | token, locks of the sensor values | start the tasks in order, wait, join | every task |
| Schema generator, scripts, systemd units | none | build time and deployment | - |

What is hard here, by component, with what makes it correct:

* **Command pipeline.** Two tasks and three queues stand between the packet that
  rumqttc acknowledges and the handler. Any queue can be full, broadcast events
  can be overwritten, the token can drop a handler, QoS 1 delivers again after a
  reconnection or a crash. It must report a legal sequence of states for each
  command, handle one at a time in order, recognise redeliveries, and end when
  told to whatever is full or parked.
* **Handlers.** The name of a command is in the topic and its type in the payload;
  nothing but the handler compares the two. TTLs are u64, clocks i64 and step.
* **Restart.** A command that kills its own process reports through a file that
  two tasks of two processes, and possibly of the same one, read, rename and
  write. It must neither report a restart that did not happen nor forget one that
  did.
* **Status.** Last will, Online and Offline race at the broker. A node that is
  gone must not stay online; one that is connected must not stay offline.
* **Modem access.** Callers time out, their requests stay queued, replies come
  late. No caller may get another call's reply or wait forever.
* **Sensors.** A child process stalls, prints late and dies; counters wrap and
  interfaces vanish between two collections; two queries in turn update one
  reading. What is stored must be true of the window it claims to describe.
* **MAVLink.** The router returns the node's own frames; several producers share
  one queue with a check-then-send; connections come and go.
* **Shutdown.** Every task looks at the token at some of its waits only, and
  shares locks and channels with tasks that wait for the broker.

## 2. The modules

| Module | Models | Checked through | Proofs |
|---|---|---|---|
| `DedupQueue` | `DedupQueue::record` and its two collections | `CommandProcessor` | `CommandProcessor_proofs` |
| `CommandLifecycle` | abstract specification: what the server may observe of a command | as the property `ImplementsLifecycle` | `CommandProcessor_proofs` |
| `CommandProcessor` | session, transport, bridge, processor; extends `DedupQueue`, implements `CommandLifecycle` | `MCCommandProcessor` | `CommandProcessor_proofs` |
| `CommandHandlers` | envelopes, lifetime, the five handlers, results; extends `CommandProcessor` | `MCCommandHandlers` | `CommandHandlers_proofs` |
| `RestartCommand` | restart of a unit, of unitctl and of the machine, across processes | `MCRestartCommand` | `RestartCommand_proofs` |
| `NodeStatus` | retained status, last will, shutdown of the transport | itself | `NodeStatus_proofs` |
| `ModemAccess` | discovery, request queue, worker, timeouts, allow-list, both callers | `MCModemAccess` | `ModemAccess_proofs` |
| `MavlinkLink` | sniffer, drone component, heartbeats, telemetry reporter | itself | `MavlinkLink_proofs` |
| `Context` | what all tasks share: the token and the locks of the sensor values | its users | - |
| `PingSensor`, `SystemSensor`, `LteSensor` | the three sensors | `SensorManager` | `SensorManager_proofs` |
| `SensorTask` | abstract specification: what other tasks see of a sensor | as the property `ImplementsTasks`, and in `Agent` | `SensorManager_proofs` |
| `SensorManager` | composes the three sensors, implements `SensorTask` | itself | `SensorManager_proofs` |
| `MqttTransport` | identity of a node from its certificate, its topics | `Agent` | `Agent_proofs` |
| `Configuration` | validation, intervals, environment files | `Agent` | `Agent_proofs` |
| `Agent` | main: composes configuration, `SensorTask`, transport, the tasks that share locks and the request channel | `MCAgent` | `Agent_proofs` |

Definitions marked *Mutant* are wrong variants of the definition that follows
them: each property is shown to fail when the variant takes its place, so that it
is known to depend on the code.

The agent is cut along what its parts share. The command path is one chain of
extensions, because its parts share one state. `Agent` and `SensorManager` meet in
`SensorTask`: the sensors implement it, `Agent` uses it in their place. The
request channel appears in four modules, each with the requests that its
properties tell apart.

**CommandProcessor.** `session`, `sent`, `subscribed` are the broker's;
`broadcast`, `lagged` are the receiver of the bridge task; `held` is the event
that it is trying to send, `bridge` the mpsc channel; `pc` and `cur` are the
position of the processor in `process_command`, one value for each await between
two publications; `outbox` is rumqttc's request channel, whose awaiting publish
has no action while the channel is full and fails once the event loop is gone.
`status` and `result` are the last state and result published per UUID.
`recorded`, `events`, `lost`, `done`, `executed`, `repeated` are histories.
Whether a command is expired and what a handler returns is free here. `Parking`
are the commands whose handler parks (restart.rs:163).

**CommandHandlers** takes that freedom away: `Envelope` says what the server sends
under each UUID (one envelope per UUID), `TakeEnvelope` compares its lifetime
with a clock reading of `Times`, which need not follow the last one, and
`handle` is the table of handlers. `answers` is the result message last published
per UUID, `outcome` what the handler returned, `checked` the clock at the check.
Everything else is `CommandProcessor`'s actions with the new variables left alone.
`I64_MAX` is the width of the code's i64; a TTL may be any u64 of that width.

**CommandLifecycle.** `Receive`, `Report`, `Refuse`, `Conclude`: Received, then
Accepted or Expired, then InProgress or Rejected, then Completed or Failed and a
result that agrees; one command open at a time; a UUID is received again only
after `Window` others. `Abandon` needs that shutdown has begun. The refinement
maps `history` to `recorded`, `open` to `cur.uuid` while `pc` is inside
`process_command`, `stopping` to `cancelled`.

**RestartCommand.** `main` is the pending file, `scratch[b]` the file to which
process *b* renamed it (its name contains pid and time, so one per process is
exact), with the content *empty* between truncation and write. `fd` says where an
open write lands after a rename. Handler (`cmd`) and completion task (`pub`)
interleave at each await. `unit` is the unit whose restart the handler starts and
then polls; a oneshot unit is never active again. `inbox` and `lagged` are the
broadcast receiver of the completion task: any message or failed attempt to connect
may overwrite the oldest event, Connected included, and Lagged is passed over as in
the code (restart.rs:378). `missed` records that Connected was overwritten and none
has come since, `forgotten` the UUIDs whose file could not be listed, claimed or
read. Files are durable as soon as written: the models know no loss of the page cache.

**NodeStatus.** The broker holds `retained`, `will` and `link`; a connection the
node gave up is *stale* until the broker notices and publishes the will.
`leaving` is the gap between try_publish (transport.rs:120) and try_disconnect
(transport.rs:128). The request channel is shared with telemetry.

**ModemAccess.** Discovery (`service`, `candidates`) tries the modems that it finds
one after the other. `call` is a caller's position in `request`, `calls` numbers its
calls, which makes the reply channel of each visible. The sensor watches the
token in *lookup* and *sleep* only; the handler is dropped with its call by the
token. `is_allowed_at_command` is the allow-list of what operators may send.

**MavlinkLink.** `air` holds the heartbeats the sniffer has not read, the node's
own among them (the router echoes to every other connection). `outgoing` is the
mpsc queue; each frame carries the connection on which it was queued, a history
for `FreshFrames`. The reporter's check for room and its two sends are three
steps; `raced` records that another producer queued a frame in between. `shown`
is what each target got of the current reading. Messages carry their sub-command
and, for neighbours, the cell; other parameters copy fields and are left out.

**PingSensor.** The ping process counts packets and prints a line when it gets
SIGQUIT; the sensor reads lines (`stderr`), keeps the counts of the last one
(`prev`) and stores a reading when the lock of its value is free. An exit may be
noticed before the last lines are read.

**SystemSensor.** One byte counter per interface, a monotonic clock, and the two
time stamps from which the code takes its denominator. `moved`, `passed`, `gap` are
histories of what really passed and when. Rates are rounded as the code rounds.

**LteSensor.** A reply is a sequence of field names, so that what the parser takes
from an index is known by name; the fake modem's reply is put together as
fake.rs does. `neighbors` maps each cell to the clock when it was last seen.

**Configuration and MqttTransport.** Values count by the kinds that validation
tells apart (empty text, leading dash, line break; zero; NaN, huge seconds). A
topic is a sequence of levels. Files that cannot be written are those with *odd*
paths; a wildcard or a NUL inside a longer level stands under the pieces "+" and
"#".

**Agent.** `main` is the next step of main. `receivers` are the tasks that hold a
receiver of the broadcast channel, `told` those that saw the first connection.
`held` (of `Context`) is the sensor value that the telemetry publisher keeps locked
while it waits for room in `outbox`. tokio's lock is fair, so a reader also waits
behind a writer that waits (`ReaderMay`). The tasks with modules of their own are
`others`. `PublisherWakes` requires the token not to be cancelled, although the
code's select may take either branch: a wake-up beside the cancellation can be
moved before it, since the two touch nothing in common.

## 3. What TLC checks

| Run | Question | Instance |
|---|---|---|
| `command_safety` (`MCCommandHandlers`) | `HandlersTypeOK`, `StatusFollowsControl`, `DedupWindow`, `NoDuplicateExecution`, `PipelineOrdered`, `EventsAccounted`, `AnswersFit`, `LifetimeExact`, and the refinement `ImplementsLifecycle` | 2 UUIDs, memory of 1, bridge 1, broadcast 2, requests 1, 3 messages, one crash, clock 4 or 5, i64 up to 4, cap 3; 2.4 M states |
| `command_service` (`MCCommandProcessor`) | `ShutdownEnds` under the tasks' fairness; `EventsProcessed` if moreover the service is fair | every queue of 1, one message (also noise, unknown, parking), 1 connection error, one crash; 290 k states |
| `restart_safety` (`MCRestartCommand`) | `CompletionJustified`, `AcceptedNotForgotten` | 2 UUIDs (symmetric), 4 targets, 3 processes, 2 requests, 2 failing file operations, channels of 1; 5.1 M states |
| `restart_reported` (`MCRestartCommand`) | `OwedReported` | 1 UUID, target unitctl, 3 processes, 2 requests, 1 failing file operation, broadcast 2; 0.6 M states |
| `restart_race` (`MCRestartCommand`) | violated: `CompletionJustified` without `ClaimFirst` | one process, one request |
| `node_status` (`NodeStatus`) | `NotOnlineWhenGone`, `OnlineFollowsConnect` | channels of 2, 2 processes, 3 lost connections |
| `modem_access` (`MCModemAccess`) | `AnswerIsForCall`, `RunsInOrder`, `OnlyQueries`, `CallReturns`, `UsersEnd` | queue of 2, 4 calls of each user, 2 modems, 3 commands (a read-only one, a setting form, one in no list) |
| `mavlink_link` (`MavlinkLink`) | `DiscoveryGenuine`, `FreshFrames`, `BothOrNeither`, `OneReading`, `HeartbeatSent` | one vehicle, own id configured, queue of 2, 2 slots, readings of 1 and 3 cells, an outage and a connection |
| `mavlink_self` (`MavlinkLink`) | violated: `NoSelfDiscovery` | one vehicle, own id configured |
| `sensors` (`SensorManager`) | `TypeOK`, `LossAccounted`, `ReachableIsCurrent`, `NoInventedTraffic`, `DenominatorClose`, `SignalDecoded`, `NeighborsFresh`, the refinement `ImplementsTasks`, `SensorsEnd` | one sensor at a time; 2 ping processes of 2 packets; 1 interface, 5 instants; 6 models of modem, 2 cells, 4 queries |
| `agent` (`MCAgent`) | `OwnTopics`, `EnvFilesWellFormed`, `FirstConnectSeen`, `ShutdownJoins`, `ReporterKeepsReading` | each value of each validated field, one changed at a time, each kind of certificate; request channel of 2; 63 k states |
| `telemetry_stall` (`MCAgent`) | violated: `ReporterKeepsReading` without a broker that returns | ping and MQTT enabled |

Each module has a type invariant. The runs check those of the handlers and of the
sensors; all of them are proved.

**Why the bounds are enough.** Capacities (32, 50, 64, 256, 500) appear only in "is
there room", so one or two already give empty, partly full and full. The memory
of UUIDs is checked at capacity one, where every new command evicts, and proved
for every capacity. Two UUIDs suffice for a command to be confused with another;
evictions with a repeat after the eviction need two UUIDs and three messages. One
envelope has a TTL beyond i64, the other ends between the two clock readings and is
also sent under the wrong name. Three processes are what the restart file
needs: one that writes, one that claims and dies, one that finds the orphan.
Three cells for two slots are one neighbour too many. A ping process needs two
packets for one to be answered in the window of the other. The sensors share
nothing but the token and the lock of their own value, so each is checked alone
with a reader that keeps that lock. Validation looks at fields one by one (the
system ids aside, each of which takes each other's value), so the configurations
differ from a valid one in one field. `MaxConnects = 1` lets `mavlink_link`
see the outage before a connection only; that frames of an *earlier connection* are
never sent is proved. `Max...` constants bound counters that only the environment or
a user increments: messages, errors, requests, starts. They appear in guards of
actions that otherwise could always happen, so the bounded model shows prefixes
of the real behaviours. `CHECK_DEADLOCK` is off because every process may end and
the counters run out.

**Fairness.** Weak fairness of a task's steps says that tokio polls a task that
can go on. Strong fairness appears where a step competes with others:

* `CommandProcessor!TaskFairness` has only weak fairness and the two-second bound
  of the flush; nothing is assumed of the broker, the clock or the handlers, so
  `ShutdownEnds` does not depend on them. `ServiceFairness`, a premise of
  `EventsProcessed`, adds that rumqttc reconnects (transport.rs polls again after
  each error), writes its requests, and that handlers which do not park return.
* `RestartCommand!ServedSpec` takes strong fairness for `Flush`: a connection that
  keeps coming back lasts long enough for a request in the end. Nothing says that the
  completion task keeps up with the broadcast channel: `OwedReported` excepts the time
  while it lags or has missed the last Connected, and without either exception TLC
  finds a counterexample.
* `NodeStatus!ServedSpec`: the publisher is polled, the broker answers CONNECT, and
  a connection that stays takes the requests. Shutdown and losses are unfair.
* In `ModemAccess` the timer of 30 s is part of `Calls`, `Send` is strongly fair
  because tokio's mpsc channel serves waiting senders in order,
  `DiscoveryCancelled` because a select that sees the token again and again takes
  it, and the modem returns from every request (the D-Bus calls, which have no
  time limit in the code). Without the last assumption `CallReturns`
  fails: the 30 s begin when the request is queued (modem_access/mod.rs:337), so a
  modem that hangs and a full queue hold the next caller.
* In `MavlinkLink` a heartbeat finds room again and again, since its interval of a
  second is long against the period with which send_loop empties the queue.
* `SensorManager!TaskFairness`: the token's branch of a select, and the writer of a
  lock that readers take and drop again and again, are strongly fair; the guard is
  dropped and time passes.
* `Agent!TaskFairness` is the same for the tasks of main and assumes nothing of the
  broker, so `ShutdownJoins` holds with the broker away: after `DropEventLoop`
  publications fail and locks become free. `ServiceFairness` (the broker
  comes back and takes requests) is assumed until the token is cancelled, for
  `ReporterKeepsReading` only; after it the event loop ends anyway.

**Assumptions about timing**, the first two each a constant that can be turned off:

* `ClaimFirst`: no restart command is handled before the completion task of the
  same process has looked for the file. A command needs a TLS connection first,
  a rename does not, but nothing in the code orders them (restart.rs:336, :141).
* `Adjacent`: no task queues a request between the last two calls of the
  transport (transport.rs:120-128), which have no await between them but run
  beside other worker threads.
* `NodeStatus!Broadcast`: an unread buffer is overwritten while the publisher is
  merely unscheduled only after the first connection, because before it there
  is one error per second against a buffer of 256.

**Disagreements between code and text** (the violation runs):

1. `restart_race`: restart.rs:299-300 says a deferred Completed comes "after the
   next-boot MQTT connection"; without `ClaimFirst` a process may claim its own
   request and report it.
2. `mavlink_self`: sniffer_component.rs:147 says that self-discovery is prevented by
   waiting for a flight controller first; once one was heard, the node's own
   heartbeat is recorded as one when `self_sysid` is configured below the threshold.
3. `telemetry_stall`: README.md:334 of the repository says the MAVLink reporter
   "Reads sensor values from Context at 1Hz". The MQTT publisher keeps its read
   guard while it waits for room (telemetry.rs:57); with the broker away the channel
   fills, the sensor's writer queues behind the guard, and the reporter behind the
   writer. No COMMAND_LONG goes out until the broker returns.

**Known limits of the code** that the models contain and no property denies:

* A full bridge makes the broadcast channel overwrite its *oldest* event, where
  commands.rs:31-32 says that "new events are dropped"; `EventsAccounted` counts it
  as lost.
* Without `Adjacent` an Online that slips between the two last requests stays
  retained, since the DISCONNECT discards the will (transport.rs:120-128).
* The UUIDs are memory (commands.rs:71): a command whose PUBACK was not read
  before a crash runs again in the next process. `NoDuplicateExecution` therefore
  speaks of one process.
* The TTL is checked once (commands.rs:276); a command may wait for room afterwards.
* The pending file goes when rumqttc has queued the reports (restart.rs:441), not
  when the broker has them: a crash before the flush loses them.
* The completion task passes over Lagged (restart.rs:378), where the status publisher
  takes it for a connection (status.rs:106). If 256 events come before it receives a
  Connected, that one is gone: the reports wait for another connection, and if this one
  lasts, for the next process, which finds the files again.
* An error while files are listed makes the process forget all of them
  (restart.rs:324), an error at the claim or the read that one; the files stay for the
  next process.
* The reboot timer (restart.rs:170) does not wait for the Completed report.
* A restart of the modem unit, a oneshot, is reported as failed even if it worked
  (restart.rs:97): `is-active` never says active afterwards.
* If systemctl refuses and the file cannot be removed (restart.rs:231), the next
  process reports Completed after the server was told Failed;
  `CompletionJustified` excepts exactly that.
* The heartbeat keeps the id it took at its start (mavlink/mod.rs:126), telemetry
  asks on every tick; with autodiscovery they may differ.
* An interval that is finite but beyond the range of a Duration passes validation
  (config.rs:215, :402) and panics where the Duration is made; `ShutdownJoins`
  allows it, and `PanicsOnlyBeyondRange` says that nothing else makes main panic.

## 4. What is proved

Every theorem holds for all values of the constants that satisfy the named ASSUMEs
of the modules: capacities are positive, bounds are numbers, registered names are
names, noise is neither a UUID nor a command, the ids of the two targets differ.

`CommandProcessor_proofs`:

* `TypeCorrect`: `TypeOK` bounds every queue by its capacity and is inductive by
  itself. The one hard step is that a full broadcast channel replaces its head.
* `DedupAlwaysConsistent`, `DedupAlwaysSuffix`, `DedupAlwaysWindow`: the set and
  the queue agree, the queue is the end of the history, a UUID returns only
  outside the window. None is inductive alone: that the set loses what the queue
  loses needs that the queue has no repetition, and the window needs that the
  queue *is* the end of the history. `DedupInv` is the conjunction; `RecordInv`
  shows that `Record` preserves it, `NextDedup` that no other action touches it.
* `ExecutionsSeparated`: `NoDuplicateExecution`. The property says nothing of the
  command about to run, so `ExecutionInv` adds that the open command is the last
  one recorded and that every handler that ran belongs to a recorded command, an
  earlier one as long as the open command has not started.
* `StatusAlwaysFollows`: at each position of the processor the last publication
  is the one that position implies; needs that only the token ends the event loop.
* `PipelineAlwaysOrdered`, `EventsAlwaysAccounted`: the ids in
  `bridge \o held \o broadcast` ascend, lie above `done` and below the next id;
  each event below the next id is in one of the four places.
* `LifecycleImplemented`: `Spec => ImplementsLifecycle`. Every step is a step of
  `CommandLifecycle` or leaves its variables alone. Reports use
  `StatusFollowsControl`; `Receive` uses `DedupInv`: what is not in the set is not
  among the last `Window` of the history.
* `CommandsAnsweredInFull`, `AnswersAlwaysStay`: what the lifecycle means for the
  server (`AnsweredInFull`, `AnswersStay` in `CommandLifecycle`). By the refinement
  each step is one of the lifecycle, and the lifecycle's steps keep `AnswerInv`:
  besides the property, the open command has no result yet and no state that is
  final without one.

`CommandHandlers_proofs`: `HandlersRefine` shows that each step with real envelopes
is a step of `CommandProcessor`, so that the theorems above carry over;
`HandlersTypeCorrect`, `AnswersAlwaysFit` and `LifetimeAlwaysExact` follow from
`HandlersInv`, which adds to the properties what the outcome of a running handler
and the clock of an open command are.

`RestartCommand_proofs`: `RestartTypeCorrect` needs no assumption.
`CompletionAlwaysJustified` and `AcceptedNeverForgotten` assume `ClaimFirst`, as
`restart_race` shows they must. The invariant says why: no write is open during
a rename, so `fd` stays 0; a claimed file was therefore written by an earlier process
(`Wrote`, `Justified`), the handler deletes only what it wrote itself, and an
accepted UUID is in a file that nobody may still truncate or delete (`Kept`).
`OwedNeverDropped` is the safety behind `OwedReported`, under the same assumption:
until the process is told to stop, a UUID that it found is reported, queued or in the
hands of the completion task (`InTask`), unless an operation failed on its file. The
task listens before the first connection and takes Connected only to go on, so that
while it waits the event is in its inbox, still to come, or was overwritten
(`WillHear`, `ListeningInv`).

`NodeStatus_proofs`: `NodeTypeCorrect`, and `GoneIsNeverOnline` under `Adjacent`. A
DISCONNECT that waits in the channel is *covered*: an Offline stands before
it with no Online in between, or the status at the broker is already not Online and
nothing before it changes that. Before the first connection there is no Online
at all (`NeverConnected`); between the last two requests the Offline is the last of
the queue or the queue is full (`LastIsOffline`). `OnlineNeverForgotten` is the safety
behind `OnlineFollowsConnect` and needs no assumption on who queues what: an Online
of this process is retained or queued, or the publisher is about to queue it, or an
unread event, or the report that events were lost, will make it do so. What liveness
adds is only that each of these goes on.

`ModemAccess_proofs`: `ModemTypeCorrect`, `AnswersReachTheirCall`,
`AlwaysRunsInOrder`, `OperatorsOnlyAsk`. Requests of a user are numbered up to its
last call and the one not yet sent has a number of its own (`CallsInv`,
`NumbersInv`); the handler's command passed the check wherever it is by now
(`PermittedInv`). `RepliesNeverLost` is the safety behind `CallReturns`: who waits for
a reply has it, or its request is queued or running, or the worker has ended; no
request is queued before the worker was started, because only then does the rest of
the agent get the service (`WorkerInv`).

`MavlinkLink_proofs`: `FramesAlwaysFresh` (while connected all of `outgoing` was
queued on this connection), `DiscoveryAlwaysGenuine` (no heartbeat of the node is in
a loop, in the queue or in the air before a vehicle was heard),
`AlwaysBothOrNeither` (the room that was found is still there unless another
producer raced, and at the second send the first target is ahead by that message)
and `TickShowsOneReading`: all that a target was shown in a tick are messages of the
reading that the tick took (`ReadingInv`); the places of the cells of a finite set
are in the order of the cells, and none below their number is left out (`Places`,
`PlacesFilled`). `LinkTypeCorrect` bounds the outgoing queue.

`SensorManager_proofs`: one invariant per sensor, since a step of one leaves the
others alone. `PingInv` (`LossAlwaysAccounted`, `ReachableAlwaysCurrent`): lines come
in the order of their counts, so a window is never negative, and a percentage that
is rounded up covers what was lost in it. `SystemInv` (`TrafficNeverInvented`,
`DenominatorAlwaysClose`): a counter exceeds the remembered one by no more than what
passed, and a reading of the counters lies within a collection after its stamp.
`LteInv` (`NeighborsAlwaysFresh`): cells are dropped in the step that names new ones.
`SignalInv` (`SignalAlwaysDecoded`): the type always fits the modem, because the
first identifier that matches is the most specific one; then each parser finds every
field at the index where this modem puts it.
`SensorsTypeCorrect` is `TypeOK` of all three. `SensorsAreTasks` is the refinement
`ImplementsTasks`: each sensor only makes the `Moves` of the abstract task, and only
one moves at a time.

`Agent_proofs`, for every set of names, every content of the configuration file and
every capacity of the request channel:

* `TopicsAlwaysOwn`: every identity that the transport holds was accepted, so its two
  names are one piece each and no wildcard (`IdentityInv`, `OnePiece`); a topic is
  then taken apart at fixed places, and those of two nodes differ in the first or
  the third.
* `EnvFilesAlwaysWellFormed`: a file is written from a validated configuration only,
  and no validated value holds a line break (`FilesInv`).
* `FirstConnectAlwaysSeen`: `told` can only miss a task that takes its receiver after
  the event loop starts, and main starts the loop after all three (`ConnectionInv`).
* `AgentTypeCorrect`: `TypesInv` adds what main has not yet reached when it has no
  identity or no receivers (`Beforehand`).
* `PanicsOnlyBeyondRange`: the intervals that main hands on are those it validated.
* `LocksAlwaysEnd`: the publisher holds what it locked while it waits for room and
  then takes no other lock. A reader that waits behind a writer waits for the
  publisher in the end; the publisher waits only for an event loop that has started.
* `NothingEverLeft`: main joins the tasks in order and drops the event loop with the
  transport (`EndInv`).

Only model-checked is liveness: `ShutdownEnds`, `EventsProcessed`, `OwedReported`,
`OnlineFollowsConnect`, `CallReturns`, `UsersEnd`, `HeartbeatSent`, `SensorsEnd`,
`ShutdownJoins`, `ReporterKeepsReading`. Liveness under fairness, ENABLED, and induction
over data (what a recursive definition computes for every input) are out of the
prover's reach and stay with TLC; so would modules with RECURSIVE operators, of which
there are none. Every other property of a passing run is a theorem.

## 5. What is not modelled

* Encoding: JSON, characters of topics, the parameters of COMMAND_LONG that copy
  fields of a reading, quoting in environment files (a trailing backslash in a value
  joins two lines for systemd).
* Floating point: rates and losses are rationals, rounded where the code rounds. The
  code's loss may come out one per cent higher for a whole percentage.
* Load, memory, disks, temperature and cameras of a system sample.
* Two certificates with one common name under two prefixes, which share a client id
  at the broker.
* Prefixes and names with a leading `$`: validation asks only that a prefix is not empty
  (config.rs:473), and the broker takes a subscription that begins with `$share` for a
  shared one.
* rumqttc's pending list: when an established connection is lost, what is in its
  request channel moves there, so that the channel has room again. The models keep
  such requests in the channel, and no property depends on the difference.
* The autodiscovered id is taken as known in `Agent`'s reporter, which waits
  for it before it reads; `MavlinkLink` has that wait.
* The request for the registration status, which nothing sends.
* Broker, ModemManager, ping, systemd and mavlink-routerd beyond what the code relies
  on; they are the external definitions of the map.
* The schema generator, shell scripts and units: build time and deployment.

## 6. What is left

The agent's own control is modelled and its safety is proved. What would add most
from here:

1. The safety behind the other liveness properties: whoever waits, waits for something
   that is on its way. It is proved for `OnlineFollowsConnect` (`OnlineNeverForgotten`),
   `CallReturns` (`RepliesNeverLost`), `OwedReported` (`OwedNeverDropped`) and
   `EventsProcessed` (`EventsAlwaysAccounted`); left are `ShutdownEnds`,
   `HeartbeatSent`, `SensorsEnd`, `ShutdownJoins` and `ReporterKeepsReading`.
2. The encoding of telemetry as an operator with its inverse, against the
   parameter table of the repository's README.
