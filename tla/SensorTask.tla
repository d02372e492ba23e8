----------------------------- MODULE SensorTask -----------------------------
(***************************************************************************)
(* What the rest of the agent sees of the sensor tasks: abstract           *)
(* specification.  A sensor works, stores a reading when it has one and    *)
(* nobody keeps the value locked, and ends.  SensorManager shows that the  *)
(* three sensors implement it; Agent composes it with the tasks that read. *)
(***************************************************************************)
EXTENDS Context

VARIABLES
  phase,   (* Each sensor's: "off", "work", "store" or "done".             *)
  known    (* It has stored a reading.                                     *)

tasks == <<phase, known>>

TasksTypeOK ==
  /\ phase \in [Sensor -> {"off", "work", "store", "done"}]
  /\ known \in [Sensor -> BOOLEAN]

TasksInit ==
  /\ phase = [s \in Sensor |-> "off"]
  /\ known = [s \in Sensor |-> FALSE]

StartTasks(enabled) ==
  /\ \A s \in enabled : phase[s] = "off"
  /\ phase' = [s \in Sensor |-> IF s \in enabled THEN "work" ELSE phase[s]]
  /\ UNCHANGED known

Gather(s) ==
  /\ phase[s] = "work"
  /\ phase' = [phase EXCEPT ![s] = "store"]
  /\ UNCHANGED known

(* A partial reading (the neighbours of a cell) is stored only into a       *)
(* reading that is there.                                                   *)
Store(s) ==
  /\ phase[s] = "store"
  /\ Writable(s)
  /\ phase' = [phase EXCEPT ![s] = "work"]
  /\ known' \in {known, [known EXCEPT ![s] = TRUE]}

(* Because of the token, or because the sensor gives up.                    *)
End(s) ==
  /\ phase[s] = "work"
  /\ phase' = [phase EXCEPT ![s] = "done"]
  /\ UNCHANGED known

Step == \E s \in Sensor : StartTasks({s}) \/ Gather(s) \/ Store(s) \/ End(s)

TasksSpec == TasksInit /\ [][Step]_tasks
=============================================================================
