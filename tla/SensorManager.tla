---------------------------- MODULE SensorManager ----------------------------
(***************************************************************************)
(* The sensors under the sensor manager (sensors/mod.rs), which builds     *)
(* those that are enabled and runs each as a task until the shutdown token *)
(* is cancelled.  The telemetry publisher is here only as the task that    *)
(* may keep the value of a sensor locked for a while.                      *)
(***************************************************************************)
EXTENDS PingSensor, SystemSensor, LteSensor

CONSTANT Enablings   (* The sets of sensors that may be enabled.           *)

ASSUME SensorAssumption == Enablings \subseteq SUBSET Sensor

VARIABLE waiting     (* Enabled sensors whose task has not been spawned.   *)

vars == <<pingVars, systemVars, lteVars, waiting, cancelled, held>>

TypeOK ==
  /\ PingTypeOK /\ SystemTypeOK /\ LteTypeOK
  /\ waiting \in SUBSET Sensor
  /\ cancelled \in BOOLEAN /\ held \in SUBSET Sensor

Init ==
  /\ PingInit /\ SystemInit /\ LteInit
  /\ waiting \in Enablings
  /\ cancelled = FALSE /\ held = {}

Sensing(s, A) ==
  /\ A
  /\ s # "ping" => UNCHANGED pingVars
  /\ s # "system" => UNCHANGED systemVars
  /\ s # "lte" => UNCHANGED lteVars
  /\ UNCHANGED <<cancelled, held>>

run(s) ==
  /\ s \in waiting
  /\ waiting' = waiting \ {s}
  /\ CASE s = "ping" -> Sensing(s, PingStart)
       [] s = "system" -> Sensing(s, SystemStart)
       [] s = "lte" -> Sensing(s, LteStart)

PingStep == Sensing("ping", PingTask) /\ UNCHANGED waiting
SystemStep == Sensing("system", SystemTask) /\ UNCHANGED waiting
LteStep == Sensing("lte", LteTask) /\ UNCHANGED waiting

World ==
  /\ Sensing("ping", PingProcess) \/ Sensing("system", Host) \/ Sensing("lte", Clock)
  /\ UNCHANGED waiting

Cancel ==
  /\ ~cancelled
  /\ cancelled' = TRUE
  /\ UNCHANGED <<pingVars, systemVars, lteVars, waiting, held>>

(* The publisher reads a value and keeps the guard, and drops it.           *)
Keep(s) ==
  /\ held = {}
  /\ held' = {s}
  /\ UNCHANGED <<pingVars, systemVars, lteVars, waiting, cancelled>>

Release ==
  /\ held # {}
  /\ held' = {}
  /\ UNCHANGED <<pingVars, systemVars, lteVars, waiting, cancelled>>

Next ==
  \/ (\E s \in Sensor : run(s)) \/ PingStep \/ SystemStep \/ LteStep
  \/ World \/ Cancel \/ (\E s \in Sensor : Keep(s)) \/ Release

Spec == Init /\ [][Next]_vars

(* tokio polls a task that can go on; a branch of a select that is ready    *)
(* again and again is taken in the end, and a lock serves those who wait in *)
(* order.  The guard is dropped in the end, time passes, and kill() ends a  *)
(* ping process.                                                            *)
TaskFairness ==
  /\ WF_vars(\E s \in Sensor : run(s))
  /\ WF_vars(PingStep) /\ WF_vars(SystemStep) /\ WF_vars(LteStep)
  /\ SF_vars(PingStep /\ PingKilled) /\ SF_vars(PingStep /\ StorePing)
  /\ SF_vars(SystemStep /\ SystemCancelled) /\ SF_vars(SystemStep /\ StoreSystem)
  /\ SF_vars(LteStep /\ LteCancelled) /\ SF_vars(LteStep /\ (StoreLte \/ UpdateLte))
  /\ WF_vars(Release) /\ WF_vars(Sensing("system", Tick) /\ UNCHANGED waiting)

FairSpec == Spec /\ TaskFairness

-----------------------------------------------------------------------------
(* Properties.                                                              *)

PingPhase ==
  CASE pingPc \in {"spawn", "watch", "pause"} -> "work" [] OTHER -> pingPc
SystemPhase ==
  CASE systemPc \in {"prime", "collect", "sleep"} -> "work" [] OTHER -> systemPc
LtePhase ==
  CASE ltePc \in {"lookup", "detect", "sleep", "query"} -> "work"
    [] ltePc = "update" -> "store"
    [] OTHER -> ltePc

Phase == [s \in Sensor |-> CASE s = "ping" -> PingPhase
                            [] s = "system" -> SystemPhase
                            [] s = "lte" -> LtePhase]

Tasks == INSTANCE SensorTask WITH
  phase <- Phase,
  known <- [s \in Sensor |-> CASE s = "ping" -> ping.kind # "none"
                               [] s = "system" -> system # NoSystem
                               [] s = "lte" -> lte # NoLte]

(* The sensors are what the other tasks take them for: a sensor that has    *)
(* something to store goes no further while a reader keeps its value, and   *)
(* a reading once stored is replaced but never withdrawn.                   *)
ImplementsTasks == Tasks!TasksSpec

(* Each enabled sensor ends once the token is cancelled, wherever it is:    *)
(* with a ping process that runs, prints or has just ended, in a query, or  *)
(* waiting for the lock of its value.                                       *)
SensorsEnd == cancelled ~> \A s \in Sensor : Phase[s] \in {"off", "done"}
=============================================================================
