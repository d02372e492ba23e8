------------------------------ MODULE MCAgent ------------------------------
EXTENDS Agent

(* Two names, what two topic levels make of them, and unusable ones.        *)
Names == {<<"fleet">>, <<"uav">>, <<"uav", "nodes", "cam">>, <<"fleet", "nodes", "uav">>,
          <<"cam">>, <<"">>, <<"+">>}

(* Certificates with each name before another one, and what can be wrong.   *)
AllFiles == {"ca", "cert", "key"}
CN(name) == [type |-> "CN", value |-> name]
O(name) == [type |-> "O", value |-> name]
Found ==
  {[files |-> AllFiles, pem |-> TRUE, subject |-> <<O(<<"cam">>), CN(name), CN(<<"cam">>)>>] :
     name \in Names \ {<<"cam">>, <<"fleet">>}}
  \cup {[files |-> f, pem |-> p, subject |-> s] :
           f \in {AllFiles, {"ca"}, {"ca", "cert"}}, p \in BOOLEAN,
           s \in {<<>>, <<CN(NoText)>>, <<O(<<"uav">>)>>, <<CN(<<"uav">>)>>}}

(* A valid configuration with everything that may be off, off.              *)
Quiet ==
  [general |-> [interface |-> "plain", env_dir |-> "plain"],
   mavlink |->
     [protocol |-> "tcpout", host |-> "plain", local_mavlink_port |-> "positive",
      remote_mavlink_port |-> "positive", self_sysid |-> 1, gcs_sysid |-> 255,
      sniffer_sysid |-> 199, bs_sysid |-> 200, iteration_period_ms |-> "positive",
      gcs_ip |-> "plain", env_path |-> "plain",
      fc |-> [tty |-> "plain", baudrate |-> "positive"]],
   sensors |->
     [default_interval_s |-> "some",
      ping |-> [enabled |-> FALSE, interval_s |-> Unset, host |-> "plain"],
      lte |-> [enabled |-> FALSE, interval_s |-> Unset, neighbor_expiry_s |-> "some",
               modem_type |-> "dbus"],
      system |-> [enabled |-> FALSE, interval_s |-> Unset]],
   camera |->
     [gcs_ip |-> "plain", env_path |-> "plain", remote_video_port |-> "positive",
      width |-> "positive", height |-> "positive", framerate |-> "positive",
      bitrate |-> "positive", camera_type |-> "plain", device |-> "plain"],
   mqtt |->
     [enabled |-> FALSE, host |-> "plain", port |-> "positive", ca_cert_path |-> "plain",
      client_cert_path |-> "plain", client_key_path |-> "plain", env_prefix |-> <<"fleet">>,
      telemetry_interval_s |-> "some"]]

(* The values of c's fields of kind K in section S, one changed at a time.  *)
Changed(S, F, K) == {[Quiet EXCEPT ![S] = [@ EXCEPT ![f] = v]] : f \in F, v \in K}

On(c, s) == [c EXCEPT !.sensors = [@ EXCEPT ![s] = [@ EXCEPT !.enabled = TRUE]]]
Mqtt(c) == [c EXCEPT !.mqtt.enabled = TRUE]

(* Each value of each field that validation looks at.                       *)
Faulty ==
  Changed("general", {"interface", "env_dir"}, Text)
  \cup Changed("mavlink", {"host", "gcs_ip", "env_path"}, Text)
  \cup Changed("mavlink", {"local_mavlink_port", "remote_mavlink_port",
                           "iteration_period_ms"}, Number)
  \cup Changed("mavlink", {"self_sysid", "gcs_sysid", "sniffer_sysid", "bs_sysid"},
               {0, 1, 199, 200, 255})
  \cup Changed("mavlink", {"protocol"}, {"other"})
  \cup {[Quiet EXCEPT !.mavlink.fc = [tty |-> t, baudrate |-> n]] : t \in Text, n \in Number}
  \cup Changed("camera", {"gcs_ip", "env_path", "camera_type", "device"}, Text)
  \cup Changed("camera", {"remote_video_port", "width", "height", "framerate", "bitrate"},
               Number)
  \cup Changed("sensors", {"default_interval_s"}, Seconds)
  \cup {[Quiet EXCEPT !.sensors.ping.host = t] : t \in Text}
  \cup {[Quiet EXCEPT !.sensors.lte.neighbor_expiry_s = t] : t \in Seconds}
  \cup {[Quiet EXCEPT !.sensors.lte.modem_type = t] : t \in {"fake", "other"}}
  \cup {Mqtt(c) : c \in Changed("mqtt", {"host", "client_key_path"}, {"empty"})
                        \cup Changed("mqtt", {"env_prefix"}, Names)
                        \cup Changed("mqtt", {"port"}, {"zero"})
                        \cup Changed("mqtt", {"telemetry_interval_s"}, Seconds)}
  \cup {On([Quiet EXCEPT !.sensors.system.interval_s = t], "system") : t \in Seconds}

(* All sensors, and the one of them that both tasks read with both tasks.   *)
PingServed == {Mqtt(On(Quiet, "ping"))}
Everything ==
  Faulty \cup PingServed \cup {On(On(On(Quiet, "ping"), "lte"), "system")}
=============================================================================
