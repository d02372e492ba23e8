------------------------------ MODULE Context ------------------------------
(***************************************************************************)
(* What the tasks of the agent share (context.rs, sensors/mod.rs): the     *)
(* shutdown token and the lock of each sensor value.                       *)
(*                                                                         *)
(* The locks are tokio's RwLock.  A write replaces a value and a read      *)
(* copies it, both within one step, except for the telemetry publisher,    *)
(* which keeps its read guard while it waits for room in the MQTT request  *)
(* channel.  So the state of a lock is whether that guard is held; a       *)
(* writer that waits is a sensor that is about to store.                   *)
(***************************************************************************)
EXTENDS Integers

VARIABLES
  cancelled,   (* The shutdown token.                                      *)
  held         (* Sensors whose value the telemetry publisher keeps locked.*)

Sensor == {"ping", "lte", "system"}

(* A write must wait for the reader that holds the value.                   *)
Writable(s) == s \notin held
=============================================================================
