------------------------------ MODULE PingSensor ------------------------------
(***************************************************************************)
(* The ping sensor (sensors/ping.rs).  It keeps a ping process running,    *)
(* has it print statistics by SIGQUIT, turns each line into a reading of   *)
(* the packets since the line before, and reports the host as unreachable  *)
(* when the process ends.                                                  *)
(***************************************************************************)
EXTENDS Context, Sequences

CONSTANTS
  MaxLives,    (* Bound: ping processes.                                   *)
  MaxPackets,  (* Bound: packets that one process sends.                   *)
  MaxLines     (* Bound: lines of statistics not yet read.                 *)

ASSUME PingBoundAssumption == MaxLives \in Nat /\ MaxPackets \in Nat /\ MaxLines \in Nat

VARIABLES
  pingPc,      (* "spawn", "watch", "store", "pause", "done", or "off".    *)
  process,     (* The ping process: "none", "running" or "exited".         *)
  life,        (* Its number.                                              *)
  packets,     (* What it has counted, [sent, rcvd].                       *)
  stderr,      (* Lines it printed that have not been read.                *)
  stderr_open, (* No end of file yet.                                      *)
  quitting,    (* The task that sends SIGQUIT runs.                        *)
  prev,        (* The counts of the last line, [sent, rcvd].               *)
  next,        (* The reading to be stored.                                *)
  ping,        (* The reading in Context.                                  *)
  claimed      (* History: percent times packets of the readings stored    *)
               (* for this process.                                        *)

pingVars == <<pingPc, process, life, packets, stderr, stderr_open, quitting, prev,
              next, ping, claimed>>

Count == [sent : Nat, rcvd : Nat]
Zero == [sent |-> 0, rcvd |-> 0]

(* A reading; life and sent are histories: the process that it is from and  *)
(* the packets sent in its window.  "none" is Context's None.               *)
Reading == [from : Nat, sent : Nat, kind : {"none", "stats", "exit"},
            reachable : BOOLEAN, loss_percent : 0..100]
NoReading == [from |-> 0, sent |-> 0, kind |-> "none",
              reachable |-> FALSE, loss_percent |-> 0]

PingTypeOK ==
  /\ pingPc \in {"spawn", "watch", "store", "pause", "done", "off"}
  /\ process \in {"none", "running", "exited"}
  /\ life \in Nat
  /\ packets \in Count
  /\ stderr \in Seq(Count)
  /\ stderr_open \in BOOLEAN
  /\ quitting \in BOOLEAN
  /\ prev \in Count
  /\ next \in Reading
  /\ ping \in Reading
  /\ claimed \in Nat

PingInit ==
  /\ pingPc = "off"
  /\ process = "none" /\ life = 0 /\ packets = Zero
  /\ stderr = <<>> /\ stderr_open = FALSE /\ quitting = FALSE
  /\ prev = Zero /\ next = NoReading /\ ping = NoReading /\ claimed = 0

-----------------------------------------------------------------------------
(* The numbers.                                                             *)

SaturatingSub(a, b) == IF a > b THEN a - b ELSE 0

(* Mutant: answers to packets of the window before are not thought of.      *)
calculate_loss_percent_signed(delta_sent, delta_rcvd) ==
  IF delta_sent = 0
    THEN 0
    ELSE (100 * (delta_sent - delta_rcvd) + delta_sent - 1) \div delta_sent

(* The share of lost packets, rounded up: 0 for a window without packets.   *)
(* The code divides in floating point, where a whole percentage may come    *)
(* out one higher (58 of 100 packets give 43).                              *)
calculate_loss_percent(delta_sent, delta_rcvd) ==
  IF delta_sent = 0 \/ delta_rcvd >= delta_sent
    THEN 0
    ELSE (100 * (delta_sent - delta_rcvd) + delta_sent - 1) \div delta_sent

(* ping prints round-trip times once a packet was ever answered.            *)
HasLatency(line) == line.rcvd > 0

compute_reading(line) ==
  LET delta_sent == SaturatingSub(line.sent, prev.sent)
      delta_rcvd == SaturatingSub(line.rcvd, prev.rcvd)
      loss == calculate_loss_percent(delta_sent, delta_rcvd)
  IN  [from |-> life, sent |-> delta_sent, kind |-> "stats",
       reachable |-> HasLatency(line) /\ loss < 100, loss_percent |-> loss]

ExitReading == [from |-> life, sent |-> 0, kind |-> "exit",
                reachable |-> FALSE, loss_percent |-> 100]

-----------------------------------------------------------------------------
(* The ping process.                                                        *)

processFrame == <<pingPc, process, life, stderr_open, quitting, prev, next, ping,
                  claimed>>

SendPacket ==
  /\ process = "running"
  /\ packets.sent < MaxPackets
  /\ packets' = [packets EXCEPT !.sent = @ + 1]
  /\ UNCHANGED <<processFrame, stderr>>

ReceiveReply ==
  /\ process = "running"
  /\ packets.rcvd < packets.sent
  /\ packets' = [packets EXCEPT !.rcvd = @ + 1]
  /\ UNCHANGED <<processFrame, stderr>>

(* The interval of the task that sends SIGQUIT has passed, and the process  *)
(* prints a line.  A process that has ended gets the signal in vain.        *)
Quit ==
  /\ quitting
  /\ process = "running"
  /\ Len(stderr) < MaxLines
  /\ stderr' = Append(stderr, packets)
  /\ UNCHANGED <<processFrame, packets>>

ProcessExits ==
  /\ process = "running"
  /\ process' = "exited"
  /\ UNCHANGED <<pingPc, life, packets, stderr, stderr_open, quitting, prev, next, ping,
                 claimed>>

-----------------------------------------------------------------------------
(* The sensor task.                                                         *)

(* The sensor manager spawns the task of an enabled sensor.                 *)
PingStart ==
  /\ pingPc = "off"
  /\ pingPc' = "spawn"
  /\ UNCHANGED <<process, life, packets, stderr, stderr_open, quitting, prev, next, ping,
                 claimed>>

(* Mutant: the counts of the last line belong to the sensor, not to the     *)
(* process.                                                                 *)
SpawnKeepingCounts ==
  /\ pingPc = "spawn"
  /\ life < MaxLives
  /\ life' = life + 1
  /\ process' = "running" /\ packets' = Zero
  /\ stderr' = <<>> /\ stderr_open' = TRUE /\ quitting' = TRUE
  /\ claimed' = 0
  /\ pingPc' = "watch"
  /\ UNCHANGED <<prev, next, ping>>

Spawn ==
  /\ pingPc = "spawn"
  /\ life < MaxLives
  /\ life' = life + 1
  /\ process' = "running" /\ packets' = Zero
  /\ stderr' = <<>> /\ stderr_open' = TRUE /\ quitting' = TRUE
  /\ prev' = Zero /\ claimed' = 0
  /\ pingPc' = "watch"
  /\ UNCHANGED <<next, ping>>

(* The reading in Context is left as it is.                                 *)
SpawnFails ==
  /\ pingPc = "spawn"
  /\ pingPc' = "pause"
  /\ UNCHANGED <<process, life, packets, stderr, stderr_open, quitting, prev, next, ping,
                 claimed>>

(* Lines of another form are skipped.                                       *)
ReadLine ==
  /\ pingPc = "watch"
  /\ stderr_open
  /\ stderr # <<>>
  /\ stderr' = Tail(stderr)
  /\ next' = compute_reading(Head(stderr))
  /\ prev' = Head(stderr)
  /\ pingPc' = "store"
  /\ UNCHANGED <<process, life, packets, stderr_open, quitting, ping, claimed>>

ReadEof ==
  /\ pingPc = "watch"
  /\ stderr_open
  /\ stderr = <<>>
  /\ process = "exited"
  /\ stderr_open' = FALSE
  /\ UNCHANGED <<pingPc, process, life, packets, stderr, quitting, prev, next, ping,
                 claimed>>

(* Mutant: the end of the process is not reported.                          *)
NoticeExitQuietly ==
  /\ pingPc = "watch"
  /\ process = "exited"
  /\ process' = "none"
  /\ stderr' = <<>> /\ stderr_open' = FALSE /\ quitting' = FALSE
  /\ pingPc' = "pause"
  /\ UNCHANGED <<life, packets, prev, next, ping, claimed>>

(* wait() returns, perhaps before the last lines were read: they are lost.  *)
NoticeExit ==
  /\ pingPc = "watch"
  /\ process = "exited"
  /\ process' = "none"
  /\ stderr' = <<>> /\ stderr_open' = FALSE /\ quitting' = FALSE
  /\ next' = ExitReading
  /\ pingPc' = "store"
  /\ UNCHANGED <<life, packets, prev, ping, claimed>>

(* Mutant: the value is replaced whether it is locked or not.               *)
StorePingUnlocked ==
  /\ pingPc = "store"
  /\ ping' = next
  /\ claimed' = claimed + next.loss_percent * next.sent
  /\ pingPc' = IF next.kind = "exit" THEN "pause" ELSE "watch"
  /\ UNCHANGED <<process, life, packets, stderr, stderr_open, quitting, prev, next>>

(* The write of a reading, once its lock is free.                           *)
StorePing ==
  /\ pingPc = "store"
  /\ Writable("ping")
  /\ ping' = next
  /\ claimed' = claimed + next.loss_percent * next.sent
  /\ pingPc' = IF next.kind = "exit" THEN "pause" ELSE "watch"
  /\ UNCHANGED <<process, life, packets, stderr, stderr_open, quitting, prev, next>>

(* The process is killed and waited for; the last reading stays.            *)
PingKilled ==
  /\ pingPc = "watch"
  /\ cancelled
  /\ process' = "none"
  /\ stderr' = <<>> /\ stderr_open' = FALSE /\ quitting' = FALSE
  /\ pingPc' = "done"
  /\ UNCHANGED <<life, packets, prev, next, ping, claimed>>

(* Mutant: the pause does not look at the token.                            *)
PauseEndsBlindly ==
  /\ pingPc = "pause"
  /\ pingPc' = "spawn"
  /\ UNCHANGED <<process, life, packets, stderr, stderr_open, quitting, prev, next, ping,
                 claimed>>

(* The pause of one second before the next process, or the token.           *)
PauseEnds ==
  /\ pingPc = "pause"
  /\ pingPc' = IF cancelled THEN "done" ELSE "spawn"
  /\ UNCHANGED <<process, life, packets, stderr, stderr_open, quitting, prev, next, ping,
                 claimed>>

PingProcess == SendPacket \/ ReceiveReply \/ Quit \/ ProcessExits
PingTask ==
  \/ Spawn \/ SpawnFails \/ ReadLine \/ ReadEof \/ NoticeExit \/ StorePing \/ PingKilled
  \/ PauseEnds

-----------------------------------------------------------------------------
(* Properties.                                                              *)

(* The windows of the readings tile the life of the process: no packet that *)
(* it counted as lost at the last line escapes the losses reported so far,  *)
(* whatever was answered late, in another window than it was sent in.       *)
LossAccounted ==
  pingPc = "watch" => claimed >= 100 * (prev.sent - prev.rcvd)

(* "Mark as unreachable on process exit" (ping.rs:150): a reading that says *)
(* reachable is from the process that runs, never from an earlier one, and  *)
(* none survives into the pause before the next process.                    *)
ReachableIsCurrent ==
  ping.reachable => ping.from = life /\ pingPc \in {"watch", "store", "done"}
=============================================================================
