---------------------------- MODULE Configuration ----------------------------
(***************************************************************************)
(* The configuration of a process (config.rs), what it accepts and the two *)
(* environment files that are generated from it (env/).  A value counts    *)
(* only by the kinds that validation and use tell apart:                   *)
(*                                                                         *)
(*   texts    "empty"; "dash", with a leading dash; "newline", with a line *)
(*            break; "odd", with another character than letters, digits,   *)
(*            dots, underscores and dashes; "plain"                        *)
(*   numbers  "zero" or "positive"; system ids are themselves              *)
(*   seconds  floating point: "nan", "inf", "negative", "zero", "half" (a  *)
(*            positive number below 1), "some" (1 or more) and "huge",     *)
(*            finite and beyond the range of a Duration (2^64 seconds)     *)
(***************************************************************************)
EXTENDS Integers, MqttTransport

Text == {"empty", "dash", "newline", "odd", "plain"}
Number == {"zero", "positive"}
Seconds == {"nan", "inf", "negative", "zero", "half", "some", "huge"}
Unset == "unset"

GeneralConfig == [interface : Text, env_dir : Text]

FcConfig == [tty : Text, baudrate : Number]

(* Without the ids of components, which nothing depends on.                 *)
MavlinkConfig ==
  [protocol : {"tcpout", "other"}, host : Text, local_mavlink_port : Number,
   remote_mavlink_port : Number, self_sysid : 0..255, gcs_sysid : 0..255,
   sniffer_sysid : 0..255, bs_sysid : 0..255, iteration_period_ms : Number,
   gcs_ip : Text, env_path : Text, fc : FcConfig]

CameraConfig ==
  [gcs_ip : Text, env_path : Text, remote_video_port : Number, width : Number,
   height : Number, framerate : Number, bitrate : Number, camera_type : Text,
   device : Text]

SensorsConfig ==
  [default_interval_s : Seconds,
   ping : [enabled : BOOLEAN, interval_s : Seconds \cup {Unset}, host : Text],
   lte : [enabled : BOOLEAN, interval_s : Seconds \cup {Unset},
          neighbor_expiry_s : Seconds, modem_type : {"dbus", "fake", "other"}],
   system : [enabled : BOOLEAN, interval_s : Seconds \cup {Unset}]]

MqttConfig ==
  [enabled : BOOLEAN, host : Text, port : Number, ca_cert_path : Text,
   client_cert_path : Text, client_key_path : Text, env_prefix : Name,
   telemetry_interval_s : Seconds]

Config == [general : GeneralConfig, mavlink : MavlinkConfig, sensors : SensorsConfig,
           camera : CameraConfig, mqtt : MqttConfig]

-----------------------------------------------------------------------------
(* Validation.  Which of several faults is reported is left out.            *)

Given(text) == text # "empty"
OneLine(text) == text # "newline"

(* A text that a command line cannot take for an option.                    *)
Argument(text) == text \notin {"empty", "dash"}

Positive(seconds) == seconds \in {"half", "some", "huge"}

(* The four systems differ; 0 as the node's own id means to discover it.    *)
DistinctSystems(m) ==
  /\ m.self_sysid # 0 => m.self_sysid \notin {m.sniffer_sysid, m.bs_sysid, m.gcs_sysid}
  /\ m.sniffer_sysid # m.bs_sysid
  /\ m.gcs_sysid \notin {m.sniffer_sysid, m.bs_sysid}

ValidMavlink(m) ==
  /\ m.iteration_period_ms # "zero"
  /\ m.protocol = "tcpout"
  /\ DistinctSystems(m)
  /\ Given(m.env_path)
  /\ Argument(m.gcs_ip)
  /\ Given(m.fc.tty)
  /\ "zero" \notin {m.fc.baudrate, m.local_mavlink_port, m.remote_mavlink_port}
  /\ Argument(m.host)

ValidCamera(c) ==
  /\ Given(c.env_path) /\ Given(c.camera_type) /\ Given(c.device)
  /\ Argument(c.gcs_ip)
  /\ "zero" \notin {c.width, c.height, c.framerate, c.bitrate, c.remote_video_port}

(* Mutant: the last name of the list was forgotten.                         *)
LinesButDevice(m, c) ==
  \A text \in {m.host, m.gcs_ip, m.env_path, m.fc.tty, c.gcs_ip, c.env_path,
               c.camera_type} : OneLine(text)

(* The texts that are written to environment files, and some more.          *)
Lines(m, c) ==
  \A text \in {m.host, m.gcs_ip, m.env_path, m.fc.tty, c.gcs_ip, c.env_path,
               c.camera_type, c.device} : OneLine(text)

ValidGeneral(g) ==
  /\ g.interface = "plain"
  /\ Given(g.env_dir) /\ OneLine(g.env_dir)

ValidInterval(interval_s) == interval_s = Unset \/ Positive(interval_s)

ValidSensors(s) ==
  /\ Positive(s.default_interval_s)
  /\ \A interval_s \in {s.ping.interval_s, s.lte.interval_s, s.system.interval_s} :
       ValidInterval(interval_s)
  /\ Positive(s.lte.neighbor_expiry_s)
  /\ s.lte.modem_type \in {"dbus", "fake"}
  /\ Argument(s.ping.host)

ValidMqtt(m) ==
  m.enabled =>
    /\ \A text \in {m.host, m.ca_cert_path, m.client_cert_path, m.client_key_path} :
         Given(text)
    /\ m.env_prefix # <<"">>
    /\ m.port # "zero"
    /\ m.telemetry_interval_s \in {"some", "huge"}

validate(config) ==
  /\ ValidMavlink(config.mavlink)
  /\ ValidCamera(config.camera)
  /\ Lines(config.mavlink, config.camera)
  /\ ValidGeneral(config.general)
  /\ ValidSensors(config.sensors)
  /\ ValidMqtt(config.mqtt)

-----------------------------------------------------------------------------
(* Use.                                                                     *)

(* Duration::from_secs_f64 panics.                                          *)
NoDuration(seconds) == seconds \in {"nan", "inf", "negative", "huge"}

(* The interval of a sensor is its own or the common one.                   *)
Interval(sensors, s) ==
  IF sensors[s].interval_s = Unset THEN sensors.default_interval_s
                                   ELSE sensors[s].interval_s

Enabled(sensors) == {s \in {"ping", "lte", "system"} : sensors[s].enabled}

(* Of the paths, the odd ones stand for those that cannot be written.       *)
Creatable(path) == path # "odd"

Digits == "plain"   (* How a number is written.                             *)

generate_camera_env(c) ==
  << <<"GCS_IP", c.gcs_ip>>, <<"REMOTE_VIDEO_PORT", Digits>>, <<"CAMERA_WIDTH", Digits>>,
     <<"CAMERA_HEIGHT", Digits>>, <<"CAMERA_FRAMERATE", Digits>>,
     <<"CAMERA_BITRATE", Digits>>, <<"CAMERA_FLIP", Digits>>,
     <<"CAMERA_TYPE", c.camera_type>>, <<"CAMERA_DEVICE", c.device>> >>

generate_mavlink_env(m) ==
  << <<"GCS_IP", m.gcs_ip>>, <<"REMOTE_MAVLINK_PORT", Digits>>,
     <<"SNIFFER_SYS_ID", Digits>>, <<"LOCAL_MAVLINK_PORT", Digits>>,
     <<"FC_TTY", m.fc.tty>>, <<"FC_BAUDRATE", Digits>> >>

(* The variables that the lines of a file set; a line break in a value      *)
(* begins a line that sets another one.                                     *)
Another == "another"
Content(assignments) ==
  {assignments[i][1] : i \in DOMAIN assignments}
  \cup {Another : i \in {j \in DOMAIN assignments : ~OneLine(assignments[j][2])}}
=============================================================================
