---------------------------- MODULE CommandHandlers ----------------------------
(***************************************************************************)
(* What the command path of CommandProcessor says and does: the envelopes  *)
(* the server sends (messages/commands.rs), the check of their lifetime,   *)
(* the table of handlers (services/mqtt/commands.rs), what each handler    *)
(* returns (services/mqtt/handlers), and the result messages.              *)
(*                                                                         *)
(* The name of a command is in the topic, the type of its payload is in    *)
(* the message, and nothing but the handler compares the two.              *)
(***************************************************************************)
EXTENDS CommandProcessor

CONSTANTS
  Body,          (* What payloads and results carry beside their type.     *)
  Config,        (* The configuration the process runs with.               *)
  Envelope,      (* What the server sends under each UUID.                 *)
  Times,         (* Readings of the node's wall clock.                     *)
  I64_MAX,       (* Largest i64; TTLs are u64.                             *)
  MAX_TTL_SEC    (* Ten years in the code.                                 *)

RestartTarget == {"camera", "mavlink", "modem", "unitctl", "reboot"}

CommandPayload ==
  [type : {"GetConfig"}]
    \cup [type : {"ConfigUpdate"}, payload : Body]
    \cup [type : {"ModemCommands"}, command : Body]
    \cup [type : {"UpdateRequest"}, version : Body]
    \cup [type : {"Restart"}, target : RestartTarget]

CommandEnvelope ==
  [issued_at : Nat, ttl_sec : 0..(2 * I64_MAX + 1), payload : CommandPayload]

(* register_commands: the payload that the handler of each name expects.    *)
Expected ==
  [config_update  |-> "ConfigUpdate",
   get_config     |-> "GetConfig",
   update_request |-> "UpdateRequest",
   modem_commands |-> "ModemCommands",
   restart        |-> "Restart"]

CertPath == {"ca_cert_path", "client_cert_path", "client_key_path"}

RestartOfUnitctl == [type |-> "Restart", target |-> "unitctl"]

ASSUME HandlersAssumption ==
  /\ Registered = DOMAIN Expected
  /\ I64_MAX \in Nat
  /\ MAX_TTL_SEC \in 0..I64_MAX
  /\ Envelope \in [Uuid -> CommandEnvelope]
  /\ Times \subseteq Nat
  /\ Config = [s \in DOMAIN Config |-> Config[s]]
  /\ "mqtt" \in DOMAIN Config
  /\ CertPath \subseteq DOMAIN Config.mqtt
  /\ Parking = [cmd : {"restart"},
                uuid : {u \in Uuid : Envelope[u].payload = RestartOfUnitctl}]

VARIABLES
  outcome,    (* What the last handler returned.                           *)
  answers,    (* Per UUID: the result message this process published, and  *)
              (* the command in its topic.                                 *)
  checked     (* History: the clock when the TTL of a UUID was checked.    *)

handlersVars == <<outcome, answers, checked>>

(* Mutant: the path of the key is passed on.                                *)
SafeConfigWithKey(config) ==
  [config EXCEPT !.mqtt = [k \in DOMAIN @ |->
     IF k \in CertPath \ {"client_key_path"} THEN "***" ELSE @[k]]]

(* The configuration with the paths of certificates and key blotted out.    *)
SafeConfig(config) ==
  [config EXCEPT !.mqtt = [k \in DOMAIN @ |-> IF k \in CertPath THEN "***" ELSE @[k]]]

CommandResultData ==
  [type : {"GetConfig"}, config : {SafeConfig(Config)}]
    \cup [type : {"ConfigUpdate"}, fields_received : Body]
    \cup [type : {"ModemCommands"}, command : Body]
    \cup [type : {"UpdateRequest"}, version : Body]
    \cup [type : {"Restart"}, target : RestartTarget \ {"unitctl"}]

CommandError == {"mismatch", "failed"}

(* A result message has data or an error, never both.                       *)
CommandResultMsg ==
  [ok : {TRUE}, data : CommandResultData] \cup [ok : {FALSE}, error : CommandError]

Nothing == [ok |-> FALSE, error |-> "none"]
NoAnswer == [cmd |-> "none", msg |-> Nothing]

HandlersTypeOK ==
  /\ TypeOK
  /\ outcome \in CommandResultMsg \cup {Nothing}
  /\ pc \in {"completed", "resultOk"} => outcome.ok
  /\ pc \in {"failed", "resultError"} => ~outcome.ok
  /\ answers \in [Uuid -> [cmd : Registered, msg : CommandResultMsg] \cup {NoAnswer}]
  /\ \A u \in Uuid : (result[u] = "None") <=> (answers[u] = NoAnswer)
  /\ checked \in [Uuid -> Nat]

HandlersInit ==
  /\ Init
  /\ outcome = Nothing
  /\ answers = [u \in Uuid |-> NoAnswer]
  /\ checked = [u \in Uuid |-> 0]

-----------------------------------------------------------------------------
(* Lifetime.                                                                *)

(* Mutant: the u64 is cast, and the upper half of its range is negative.    *)
is_expired_at_casting(envelope, now) ==
  LET ttl == IF envelope.ttl_sec > I64_MAX
             THEN envelope.ttl_sec - (2 * I64_MAX + 2) ELSE envelope.ttl_sec
  IN  now > envelope.issued_at + (IF ttl < MAX_TTL_SEC THEN ttl ELSE MAX_TTL_SEC)

(* A TTL that is no i64, like every one above the cap, counts as the cap.   *)
is_expired_at(envelope, now) ==
  LET ttl == IF envelope.ttl_sec > I64_MAX THEN MAX_TTL_SEC ELSE envelope.ttl_sec
  IN  now > envelope.issued_at + (IF ttl < MAX_TTL_SEC THEN ttl ELSE MAX_TTL_SEC)

(* The lifetime is compared with the wall clock, which NTP may set forward  *)
(* or back between two commands, once: what follows may wait for room.      *)
TakeEnvelope ==
  /\ \E now \in Times :
       /\ TakeCommand(is_expired_at(Envelope[Head(bridge).msg.uuid], now))
       /\ checked' = [checked EXCEPT ![cur'.uuid] = now]
  /\ answers' = [answers EXCEPT ![cur'.uuid] = NoAnswer]
  /\ UNCHANGED outcome

-----------------------------------------------------------------------------
(* The handlers: what each may return for a payload.                        *)

Mismatch == [ok |-> FALSE, error |-> "mismatch"]
Failed == [ok |-> FALSE, error |-> "failed"]
Ok(data) == [ok |-> TRUE, data |-> data]

get_config(payload) ==
  IF payload.type # "GetConfig" THEN {Mismatch}
  ELSE {Ok([type |-> "GetConfig", config |-> SafeConfig(Config)])}

(* A placeholder: it names the fields it was sent and changes nothing.      *)
config_update(payload) ==
  IF payload.type # "ConfigUpdate" THEN {Mismatch}
  ELSE {Ok([type |-> "ConfigUpdate", fields_received |-> payload.payload])}

(* Another placeholder.                                                     *)
update_request(payload) ==
  IF payload.type # "UpdateRequest" THEN {Mismatch}
  ELSE {Ok([type |-> "UpdateRequest", version |-> payload.version])}

(* The command is not allowed, no modem was found, or the modem fails.      *)
modem_commands(payload) ==
  IF payload.type # "ModemCommands" THEN {Mismatch}
  ELSE {Ok([type |-> "ModemCommands", command |-> payload.command]), Failed}

(* A reboot is only scheduled, which cannot fail; a restart of unitctl that *)
(* succeeds is not returned from.                                           *)
restart(payload) ==
  IF payload.type # "Restart" THEN {Mismatch}
  ELSE (IF payload.target = "unitctl" THEN {}
        ELSE {Ok([type |-> "Restart", target |-> payload.target])})
         \cup (IF payload.target = "reboot" THEN {} ELSE {Failed})

(* Mutant: the handler is chosen by the type of the payload.                *)
handle_by_payload(cmd, payload) ==
  CASE payload.type = "GetConfig" -> get_config(payload)
    [] payload.type = "ConfigUpdate" -> config_update(payload)
    [] payload.type = "UpdateRequest" -> update_request(payload)
    [] payload.type = "ModemCommands" -> modem_commands(payload)
    [] payload.type = "Restart" -> restart(payload)

handle(cmd, payload) ==
  CASE cmd = "get_config" -> get_config(payload)
    [] cmd = "config_update" -> config_update(payload)
    [] cmd = "update_request" -> update_request(payload)
    [] cmd = "modem_commands" -> modem_commands(payload)
    [] cmd = "restart" -> restart(payload)

HandleCommand ==
  /\ pc = "running"
  /\ outcome' \in handle(cur.cmd, Envelope[cur.uuid].payload)
  /\ HandlerReturns(IF outcome'.ok THEN "completed" ELSE "failed")
  /\ UNCHANGED <<answers, checked>>

(* The result goes to the topic of the command.                             *)
AnswerServer ==
  /\ PublishResult("resultOk", "Ok") \/ PublishResult("resultError", "Error")
  /\ answers' = IF eventLoop = "stopped" THEN answers
                ELSE [answers EXCEPT ![cur.uuid] = [cmd |-> cur.cmd, msg |-> outcome]]
  /\ UNCHANGED <<outcome, checked>>

-----------------------------------------------------------------------------
PublishState ==
  \/ PublishExpired \/ PublishAccepted \/ PublishRejected \/ PublishInProgress
  \/ PublishCompleted \/ PublishFailed

(* What CommandProcessor says all there is to say about.                    *)
Elsewhere ==
  \/ Broker \/ Cancel \/ Transport \/ Bridge
  \/ DrainCancelled \/ DrainClosed
  \/ TakeConnected \/ TakeIgnored \/ TakeDuplicate
  \/ Resubscribe \/ PublishState
  \/ StartHandler \/ HandlerCancelled

Reboot ==
  /\ Boot
  /\ outcome' = Nothing
  /\ answers' = [u \in Uuid |-> NoAnswer]
  /\ checked' = [u \in Uuid |-> 0]

HandlersNext ==
  \/ Elsewhere /\ UNCHANGED handlersVars
  \/ TakeEnvelope \/ HandleCommand \/ AnswerServer
  \/ Reboot

HandlersSpec == HandlersInit /\ [][HandlersNext]_<<vars, handlersVars>>

-----------------------------------------------------------------------------
(* Properties.                                                              *)

(* Whatever name and payload a message combines and whatever was answered   *)
(* before, data in a result is of the kind the topic's command promises,    *)
(* answers the payload of the same message, tells no path of a certificate  *)
(* or key, and a restart of unitctl is never reported done by the process   *)
(* that was asked for it (get_config.rs:31-47, config_update.rs:24-61,      *)
(* update_request.rs:23-50, restart.rs:191-207).                            *)
AnswersFit ==
  \A u \in Uuid :
    answers[u].msg.ok =>
      LET data == answers[u].msg.data
          payload == Envelope[u].payload
      IN  /\ data.type = Expected[answers[u].cmd]
          /\ data.type = payload.type
          /\ data.type = "ConfigUpdate" => data.fields_received = payload.payload
          /\ data.type = "UpdateRequest" => data.version = payload.version
          /\ data.type = "ModemCommands" => data.command = payload.command
          /\ data.type = "Restart" =>
                data.target = payload.target /\ payload.target # "unitctl"
          /\ data.type = "GetConfig" =>
                \A k \in CertPath : data.config.mqtt[k] = "***"

(* A command is accepted only when its lifetime, as long as a u64 can say,  *)
(* had not passed on the clock when it was taken from the queue, and none   *)
(* is called expired before its lifetime, or ten years, had passed, however *)
(* the clock was set since the last time its UUID was seen                  *)
(* (messages/commands.rs:83-93).                                            *)
LifetimeExact ==
  \A u \in Uuid :
    LET age == checked[u] - Envelope[u].issued_at
    IN  /\ status[u] \notin {"None", "Received", "Expired"} => age <= Envelope[u].ttl_sec
        /\ status[u] = "Expired" => age > Envelope[u].ttl_sec \/ age > MAX_TTL_SEC
=============================================================================
