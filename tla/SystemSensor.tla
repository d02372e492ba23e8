------------------------------ MODULE SystemSensor ------------------------------
(***************************************************************************)
(* The system sensor (sensors/system.rs), as far as it computes something: *)
(* bits per second of each network interface from the counters of two      *)
(* collections.  The other quantities of a snapshot (memory, disks, load,  *)
(* temperature, cameras) are those of the moment, or absent when they      *)
(* cannot be read.                                                         *)
(*                                                                         *)
(* One counter per interface stands for the received and the transmitted   *)
(* bytes, which are treated alike.  The loopback interface is skipped by   *)
(* the code and is not in Interface.                                       *)
(***************************************************************************)
EXTENDS Context

CONSTANTS
  Interface,      (* Network interfaces that come and go.                  *)
  PRIMING,        (* MINIMUM_CPU_UPDATE_INTERVAL, the sleep of the first   *)
                  (* tick.                                                 *)
  SystemInterval, (* Sleep between two ticks.                              *)
  CollectDelay,   (* Longest time from the time stamp of a tick to the     *)
                  (* reading of the counters: memory and disks are read in *)
                  (* between.                                              *)
  MaxInstant,     (* Bound: the monotonic clock.                           *)
  MaxBytes,       (* Bound: an interface's counter.                        *)
  MaxPlugs        (* Bound: times that an interface disappears or returns. *)

ASSUME SystemTimeAssumption ==
  /\ PRIMING \in Nat /\ SystemInterval \in Nat /\ CollectDelay \in Nat
  /\ MaxInstant \in Nat /\ MaxBytes \in Nat /\ MaxPlugs \in Nat

VARIABLES
  instant,        (* The monotonic clock.                                  *)
  counter,        (* Each interface's byte counter, or Absent.             *)
  systemPc,       (* "prime", "collect", "store", "sleep", "done" or "off".*)
  asleep,         (* When the sensor fell asleep.                          *)
  prev_tick_at,   (* Time stamp of the last tick, or None.                 *)
  elapsed,        (* From it to the time stamp before, 0 at first.         *)
  prev_net_bytes, (* Counters of the last collection, or Absent.           *)
  snapshot,       (* bits per second, to be stored.                        *)
  system,         (* bits per second in Context, at first NoSystem.        *)
  moved,          (* History: bytes that passed since the last collection. *)
  passed,         (* History: moved, as the last collection found it.      *)
  readAt,         (* History: when the counters were last read.            *)
  gap,            (* History: from the reading before to that one.         *)
  plugs           (* Counter for the bound.                                *)

systemVars == <<instant, counter, systemPc, asleep, prev_tick_at, elapsed,
                prev_net_bytes, snapshot, system, moved, passed, readAt, gap, plugs>>

Absent == -1
None == -1
NoSystem == [i \in {} |-> 0]   (* Context's None.                           *)

SystemTypeOK ==
  /\ instant \in Nat
  /\ counter \in [Interface -> Nat \cup {Absent}]
  /\ systemPc \in {"prime", "collect", "store", "sleep", "done", "off"}
  /\ asleep \in Nat
  /\ prev_tick_at \in Nat \cup {None}
  /\ elapsed \in Nat
  /\ prev_net_bytes \in [Interface -> Nat \cup {Absent}]
  /\ snapshot \in [Interface -> Nat \cup {Absent}]
  /\ system \in [Interface -> Nat \cup {Absent}] \cup {NoSystem}
  /\ moved \in [Interface -> Nat]
  /\ passed \in [Interface -> Nat]
  /\ readAt \in Nat
  /\ gap \in Nat
  /\ plugs \in Nat

Nowhere == [i \in Interface |-> Absent]

SystemInit ==
  /\ instant = 0 /\ systemPc = "off" /\ asleep = 0
  /\ counter = [i \in Interface |-> 0]
  /\ prev_tick_at = None /\ elapsed = 0 /\ prev_net_bytes = Nowhere
  /\ snapshot = Nowhere /\ system = NoSystem
  /\ moved = [i \in Interface |-> 0] /\ passed = [i \in Interface |-> 0]
  /\ readAt = 0 /\ gap = 0 /\ plugs = 0

-----------------------------------------------------------------------------
(* Mutant: a counter that went back is taken for one that wrapped around.   *)
compute_bps_wrapping(prev_bytes, curr_bytes, time) ==
  IF prev_bytes = Absent \/ time <= 0
    THEN 0
    ELSE (16 * ((curr_bytes - prev_bytes) % (MaxBytes + 1)) + time) \div (2 * time)

(* Bits per second, rounded to the nearest; 0 for an interface that was not *)
(* there, a counter that went back or an interval of no length.             *)
compute_bps(prev_bytes, curr_bytes, time) ==
  IF prev_bytes = Absent \/ curr_bytes < prev_bytes \/ time <= 0
    THEN 0
    ELSE (16 * (curr_bytes - prev_bytes) + time) \div (2 * time)

-----------------------------------------------------------------------------
(* Time and the interfaces.                                                 *)

sensorFrame == <<systemPc, asleep, prev_tick_at, elapsed, prev_net_bytes, snapshot,
                 system, passed, readAt, gap>>

(* A second passes; a collection takes no longer than CollectDelay.         *)
Tick ==
  /\ systemPc # "off"
  /\ instant < MaxInstant
  /\ systemPc = "collect" => instant < prev_tick_at + CollectDelay
  /\ instant' = instant + 1
  /\ UNCHANGED <<sensorFrame, counter, moved, plugs>>

Traffic(i) ==
  /\ systemPc # "off"
  /\ counter[i] \in 0..MaxBytes - 1
  /\ counter' = [counter EXCEPT ![i] = @ + 1]
  /\ moved' = [moved EXCEPT ![i] = @ + 1]
  /\ UNCHANGED <<sensorFrame, instant, plugs>>

(* An interface disappears, or comes back with a new counter.               *)
Plug(i) ==
  /\ systemPc # "off"
  /\ plugs < MaxPlugs
  /\ plugs' = plugs + 1
  /\ counter' = [counter EXCEPT ![i] = IF @ = Absent THEN 0 ELSE Absent]
  /\ UNCHANGED <<sensorFrame, instant, moved>>

-----------------------------------------------------------------------------
(* The sensor task.                                                         *)

SystemStart ==
  /\ systemPc = "off"
  /\ systemPc' = "prime"
  /\ asleep' = instant
  /\ UNCHANGED <<instant, counter, prev_tick_at, elapsed, prev_net_bytes, snapshot, system,
                 moved, passed, readAt, gap, plugs>>

(* The first tick begins with a sleep that makes the processor usage        *)
(* meaningful; the others begin when the interval has passed.               *)
Due ==
  \/ systemPc = "prime" /\ instant >= asleep + PRIMING
  \/ systemPc = "sleep" /\ instant >= asleep + SystemInterval

(* Mutant: the time stamp of the first tick is from before its sleep.       *)
StampBeforePriming ==
  /\ Due
  /\ elapsed' = IF prev_tick_at = None THEN 0 ELSE instant - prev_tick_at
  /\ prev_tick_at' = IF systemPc = "prime" THEN asleep ELSE instant
  /\ systemPc' = "collect"
  /\ UNCHANGED <<instant, counter, asleep, prev_net_bytes, snapshot, system, moved,
                 passed, readAt, gap, plugs>>

Stamp ==
  /\ Due
  /\ elapsed' = IF prev_tick_at = None THEN 0 ELSE instant - prev_tick_at
  /\ prev_tick_at' = instant
  /\ systemPc' = "collect"
  /\ UNCHANGED <<instant, counter, asleep, prev_net_bytes, snapshot, system, moved,
                 passed, readAt, gap, plugs>>

Rates ==
  [i \in Interface |-> IF counter[i] = Absent THEN Absent
                       ELSE compute_bps(prev_net_bytes[i], counter[i], elapsed)]

(* The interfaces that are there now, and only they, are remembered.        *)
Collect ==
  /\ systemPc = "collect"
  /\ snapshot' = Rates
  /\ prev_net_bytes' = counter
  /\ passed' = moved
  /\ moved' = [i \in Interface |-> 0]
  /\ gap' = instant - readAt
  /\ readAt' = instant
  /\ systemPc' = "store"
  /\ UNCHANGED <<instant, counter, asleep, prev_tick_at, elapsed, system, plugs>>

StoreSystem ==
  /\ systemPc = "store"
  /\ Writable("system")
  /\ system' = snapshot
  /\ asleep' = instant
  /\ systemPc' = "sleep"
  /\ UNCHANGED <<instant, counter, prev_tick_at, elapsed, prev_net_bytes, snapshot, moved,
                 passed, readAt, gap, plugs>>

(* The token is seen between two ticks only.                                *)
SystemCancelled ==
  /\ systemPc = "sleep"
  /\ cancelled
  /\ systemPc' = "done"
  /\ UNCHANGED <<instant, counter, asleep, prev_tick_at, elapsed, prev_net_bytes, snapshot,
                 system, moved, passed, readAt, gap, plugs>>

Host == Tick \/ \E i \in Interface : Traffic(i) \/ Plug(i)
SystemTask == Stamp \/ Collect \/ StoreSystem \/ SystemCancelled

-----------------------------------------------------------------------------
(* Properties.                                                              *)

(* A rate never stands for more bytes than passed since the collection      *)
(* before, half a bit of rounding aside: not when the interface was gone in *)
(* between, and not when its counter started again.                         *)
NoInventedTraffic ==
  systemPc = "store" =>
    \A i \in Interface :
      snapshot[i] # Absent => 2 * snapshot[i] * elapsed <= 16 * passed[i] + elapsed

(* "the next tick's network-rate denominator matches the interval over      *)
(* which prev_net_bytes were captured" (system.rs:193): the interval that a *)
(* rate divides by is that between the two readings of the counters, up to  *)
(* the duration of a collection.                                            *)
DenominatorClose ==
  systemPc = "store" /\ elapsed > 0 =>
    gap - elapsed \in -CollectDelay..CollectDelay
=============================================================================
