------------------------ MODULE CommandHandlers_proofs ------------------------
(***************************************************************************)
(* Theorems about what the commands are answered, for every set of UUIDs,  *)
(* every assignment of envelopes to them and every configuration.          *)
(***************************************************************************)
EXTENDS CommandHandlers, CommandProcessor_proofs

handlersAll == <<vars, handlersVars>>

(* The handlers only say more about the steps of the command path.          *)
LEMMA StepRefines == [HandlersNext]_handlersAll => [Next]_vars
<1> SUFFICES ASSUME [HandlersNext]_handlersAll PROVE [Next]_vars
  OBVIOUS
<1>1. CASE UNCHANGED handlersAll
  BY <1>1 DEF handlersAll
<1>2. CASE Elsewhere
  <2>1. CASE Broker \/ Cancel \/ Transport \/ Bridge
    BY <2>1 DEF Next
  <2>2. CASE PublishState
    BY <2>2 DEF PublishState, Publish, Processor, Next
  <2>3. CASE \/ DrainCancelled \/ DrainClosed
             \/ TakeConnected \/ TakeIgnored \/ TakeDuplicate
             \/ Resubscribe \/ StartHandler \/ HandlerCancelled
    BY <2>3 DEF Processor, Next
  <2>4. QED
    BY <1>2, <2>1, <2>2, <2>3 DEF Elsewhere
<1>3. CASE TakeEnvelope
  <2>1. PICK now \in Times :
          TakeCommand(is_expired_at(Envelope[Head(bridge).msg.uuid], now))
    BY <1>3 DEF TakeEnvelope
  <2>2. is_expired_at(Envelope[Head(bridge).msg.uuid], now) \in BOOLEAN
    BY DEF is_expired_at
  <2>3. QED
    BY <2>1, <2>2 DEF Processor, Next
<1>4. CASE HandleCommand
  <2>1. HandlerReturns("completed") \/ HandlerReturns("failed")
    BY <1>4 DEF HandleCommand
  <2>2. QED
    BY <2>1 DEF HandlerReturn, Next
<1>5. CASE AnswerServer
  BY <1>5 DEF AnswerServer, Publish, Processor, Next
<1>6. CASE Reboot
  BY <1>6 DEF Reboot, Next
<1>7. QED
  BY <1>1, <1>2, <1>3, <1>4, <1>5, <1>6 DEF HandlersNext

(* The command path with its contents is the command path: what is proved   *)
(* of CommandProcessor holds of it.                                         *)
THEOREM HandlersRefine == HandlersSpec => Spec
<1>1. HandlersInit => Init
  BY DEF HandlersInit
<1>2. QED
  BY <1>1, StepRefines, PTL DEF HandlersSpec, Spec, handlersAll

-----------------------------------------------------------------------------
(* What a handler returns is a result message.                              *)
LEMMA HandleType ==
  ASSUME NEW cmd \in Registered, NEW payload \in CommandPayload
  PROVE  handle(cmd, payload) \subseteq CommandResultMsg
<1>e. /\ Mismatch \in CommandResultMsg /\ Failed \in CommandResultMsg
      /\ \A d \in CommandResultData : Ok(d) \in CommandResultMsg
  BY DEF Mismatch, Failed, Ok, CommandResultMsg, CommandError
<1>1. get_config(payload) \subseteq CommandResultMsg
  <2>1. [type |-> "GetConfig", config |-> SafeConfig(Config)] \in CommandResultData
    BY DEF CommandResultData
  <2>2. QED
    BY <1>e, <2>1 DEF get_config
<1>2. config_update(payload) \subseteq CommandResultMsg
  <2>1. CASE payload.type = "ConfigUpdate"
    <3>1. payload.payload \in Body
      BY <2>1 DEF CommandPayload
    <3>2. [type |-> "ConfigUpdate", fields_received |-> payload.payload] \in CommandResultData
      BY <3>1 DEF CommandResultData
    <3>3. QED
      BY <1>e, <2>1, <3>2 DEF config_update
  <2>2. QED
    BY <1>e, <2>1 DEF config_update
<1>3. update_request(payload) \subseteq CommandResultMsg
  <2>1. CASE payload.type = "UpdateRequest"
    <3>1. payload.version \in Body
      BY <2>1 DEF CommandPayload
    <3>2. [type |-> "UpdateRequest", version |-> payload.version] \in CommandResultData
      BY <3>1 DEF CommandResultData
    <3>3. QED
      BY <1>e, <2>1, <3>2 DEF update_request
  <2>2. QED
    BY <1>e, <2>1 DEF update_request
<1>4. modem_commands(payload) \subseteq CommandResultMsg
  <2>1. CASE payload.type = "ModemCommands"
    <3>1. payload.command \in Body
      BY <2>1 DEF CommandPayload
    <3>2. [type |-> "ModemCommands", command |-> payload.command] \in CommandResultData
      BY <3>1 DEF CommandResultData
    <3>3. QED
      BY <1>e, <2>1, <3>2 DEF modem_commands
  <2>2. QED
    BY <1>e, <2>1 DEF modem_commands
<1>5. restart(payload) \subseteq CommandResultMsg
  <2>1. CASE payload.type = "Restart" /\ payload.target # "unitctl"
    <3>1. payload.target \in RestartTarget \ {"unitctl"}
      BY <2>1 DEF CommandPayload
    <3>2. [type |-> "Restart", target |-> payload.target] \in CommandResultData
      BY <3>1 DEF CommandResultData
    <3>3. QED
      BY <1>e, <2>1, <3>2 DEF restart
  <2>2. QED
    BY <1>e, <2>1 DEF restart
<1>6. cmd \in {"get_config", "config_update", "update_request", "modem_commands", "restart"}
  BY HandlersAssumption DEF Expected
<1>7. QED
  BY <1>1, <1>2, <1>3, <1>4, <1>5, <1>6 DEF handle

(* Data that a handler returns answers the payload it was given.            *)
LEMMA HandleFits ==
  ASSUME NEW cmd \in Registered, NEW payload \in CommandPayload,
         NEW r \in handle(cmd, payload), r.ok
  PROVE  /\ r.data.type = Expected[cmd]
         /\ r.data.type = payload.type
         /\ r.data.type = "ConfigUpdate" => r.data.fields_received = payload.payload
         /\ r.data.type = "UpdateRequest" => r.data.version = payload.version
         /\ r.data.type = "ModemCommands" => r.data.command = payload.command
         /\ r.data.type = "Restart" =>
               r.data.target = payload.target /\ payload.target # "unitctl"
         /\ r.data.type = "GetConfig" =>
               \A k \in CertPath : r.data.config.mqtt[k] = "***"
<1>c. \A k \in CertPath : SafeConfig(Config).mqtt[k] = "***"
  BY HandlersAssumption DEF SafeConfig
<1>1. cmd \in {"get_config", "config_update", "update_request", "modem_commands", "restart"}
  BY HandlersAssumption DEF Expected
<1>2. CASE cmd = "get_config"
  <2>1. r \in get_config(payload)
    BY <1>2 DEF handle
  <2>2. QED
    BY <1>2, <2>1, <1>c DEF get_config, Mismatch, Ok, Expected
<1>3. CASE cmd = "config_update"
  <2>1. r \in config_update(payload)
    BY <1>3 DEF handle
  <2>2. QED
    BY <1>3, <2>1 DEF config_update, Mismatch, Ok, Expected
<1>4. CASE cmd = "update_request"
  <2>1. r \in update_request(payload)
    BY <1>4 DEF handle
  <2>2. QED
    BY <1>4, <2>1 DEF update_request, Mismatch, Ok, Expected
<1>5. CASE cmd = "modem_commands"
  <2>1. r \in modem_commands(payload)
    BY <1>5 DEF handle
  <2>2. QED
    BY <1>5, <2>1 DEF modem_commands, Mismatch, Failed, Ok, Expected
<1>6. CASE cmd = "restart"
  <2>1. r \in restart(payload)
    BY <1>6 DEF handle
  <2>2. QED
    BY <1>6, <2>1 DEF restart, Mismatch, Failed, Ok, Expected
<1>7. QED
  BY <1>1, <1>2, <1>3, <1>4, <1>5, <1>6

-----------------------------------------------------------------------------
(* Positions of process_command after the handler was found, and after it   *)
(* returned.                                                                *)
Returned == {"completed", "failed", "resultOk", "resultError"}
Found == {"inprogress", "handling", "running"} \cup Returned

(* What a handler may return for the message of a UUID under a name.        *)
Answer(cmd, u) == handle(cmd, Envelope[u].payload)

(* What happened to a UUID's lifetime when it was last taken.               *)
Late(u) == is_expired_at(Envelope[u], checked[u])

(* Links the control of process_command to the message in hand: the name    *)
(* has a handler once it was found, what was returned is what that handler  *)
(* returns for that message, as is every answer published; and the state    *)
(* last published tells whether the lifetime had passed.                    *)
HandlersInv ==
  /\ pc \in Found => cur.cmd \in Registered
  /\ pc \in Returned => outcome \in Answer(cur.cmd, cur.uuid)
  /\ pc \in {"completed", "resultOk"} => outcome.ok
  /\ pc \in {"failed", "resultError"} => ~outcome.ok
  /\ outcome \in CommandResultMsg \cup {Nothing}
  /\ checked \in [Uuid -> Nat]
  /\ answers = [u \in Uuid |-> answers[u]]
  /\ \A u \in Uuid :
       \/ answers[u] = NoAnswer /\ result[u] = "None"
       \/ /\ result[u] # "None"
          /\ answers[u] = [cmd |-> answers[u].cmd, msg |-> answers[u].msg]
          /\ answers[u].cmd \in Registered
          /\ answers[u].msg \in Answer(answers[u].cmd, u)
  /\ Open => (pc = "expired" <=> Late(cur.uuid))
  /\ \A u \in Uuid :
       /\ status[u] = "Expired" => Late(u)
       /\ status[u] \notin {"None", "Received", "Expired"} => ~Late(u)

(* A step of the command path that takes no message, publishes nothing and  *)
(* reaches no new position keeps it.                                        *)
LEMMA HandlersFrame ==
  ASSUME HandlersInv, UNCHANGED <<cur, status, result, handlersVars>>,
         \/ pc' = pc
         \/ pc' \in {"select", "subscribe", "done"}
         \/ pc = "handling" /\ pc' = "running"
  PROVE  HandlersInv'
BY DEF HandlersInv, handlersVars, Found, Returned, Open, Answer, Late

(* Publishing a state keeps it, if the position and the state agree.        *)
LEMMA PublishKeeps ==
  ASSUME TypeOK, HandlersInv, UNCHANGED handlersVars,
         NEW at \in Control \ {"select", "subscribe", "done"}, NEW state, NEW next,
         PublishStatus(at, state, next),
         next \in Returned => at \in Returned,
         next \in Found => at \in Found \/ cur.cmd \in Registered,
         next \in {"completed", "resultOk"} => at \in {"completed", "resultOk"},
         next \in {"failed", "resultError"} => at \in {"failed", "resultError"},
         next # "expired",
         next \in {"select", "subscribe", "done"} \/ at # "expired",
         state = "Expired" <=> at = "expired"
  PROVE  HandlersInv'
<1>1. /\ pc = at /\ pc' = next /\ cur' = cur /\ result' = result
      /\ Open /\ cur.uuid \in Uuid
  BY DEF PublishStatus, TypeOK, Command, Open
<1>2. \A u \in Uuid : status'[u] = status[u] \/ (u = cur.uuid /\ status'[u] = state)
  <2>1. DOMAIN status = Uuid
    BY DEF TypeOK
  <2>2. status' = status \/ status' = [status EXCEPT ![cur.uuid] = state]
    BY DEF PublishStatus
  <2>3. QED
    BY <2>1, <2>2
<1>3. /\ outcome' = outcome /\ answers' = answers /\ checked' = checked
  BY DEF handlersVars
<1>4. \A u \in Uuid :
        /\ status'[u] = "Expired" => Late(u)
        /\ status'[u] \notin {"None", "Received", "Expired"} => ~Late(u)
  BY <1>1, <1>2 DEF HandlersInv
<1>5. /\ next \in Found => cur.cmd \in Registered
      /\ next \in Returned => outcome \in Answer(cur.cmd, cur.uuid)
      /\ next \in {"completed", "resultOk"} => outcome.ok
      /\ next \in {"failed", "resultError"} => ~outcome.ok
  BY <1>1 DEF HandlersInv
<1>6. Open' => (pc' = "expired" <=> Late(cur.uuid))
  BY <1>1 DEF HandlersInv, Open
<1>7. \A u \in Uuid : Late(u)' <=> Late(u)
  BY <1>3 DEF Late
<1>8. Late(cur.uuid)' <=> Late(cur.uuid)
  BY <1>1, <1>7
<1>9. QED
  BY <1>1, <1>3, <1>4, <1>5, <1>6, <1>7, <1>8 DEF HandlersInv, Answer

(* The fresh memory of a process satisfies it.                              *)
LEMMA HandlersInitInv == HandlersInit => HandlersInv
BY DEF HandlersInit, Init, HandlersInv, Found, Returned, Open, NoAnswer, Nothing

(* The clock that a message's lifetime is compared with decides alone.      *)
LEMMA TakeKeeps == TypeOK /\ HandlersInv /\ TakeEnvelope => HandlersInv'
<1> SUFFICES ASSUME TypeOK, HandlersInv, TakeEnvelope PROVE HandlersInv'
  OBVIOUS
<1> DEFINE m == Head(bridge).msg
<1>1. PICK now \in Times :
        /\ TakeCommand(is_expired_at(Envelope[m.uuid], now))
        /\ checked' = [checked EXCEPT ![cur'.uuid] = now]
  BY DEF TakeEnvelope
<1>2. Head(bridge) \in Event
  <2>1. bridge \in Seq(Event) /\ bridge # <<>>
    BY <1>1 DEF TakeCommand, Take, TypeOK
  <2>2. QED
    BY <2>1
<1>3. m \in Command
  <2>1. Head(bridge).kind = "Message" /\ m # Garbage
    BY <1>1 DEF TakeCommand
  <2>2. QED
    BY <2>1, <1>2, EventFields
<1>u. PICK w \in Uuid : w = m.uuid
  BY <1>3 DEF Command
<1>4. /\ cur'.uuid = w
      /\ pc' = IF is_expired_at(Envelope[w], now) THEN "expired" ELSE "accept"
      /\ status' = [status EXCEPT ![w] = "Received"]
      /\ result' = [result EXCEPT ![w] = "None"]
      /\ answers' = [answers EXCEPT ![w] = NoAnswer]
      /\ outcome' = outcome
  BY <1>1, <1>3, <1>u DEF TakeCommand, TakeEnvelope, Command
<1>5. /\ DOMAIN status = Uuid /\ DOMAIN result = Uuid
      /\ DOMAIN answers = Uuid /\ checked \in [Uuid -> Nat] /\ now \in Nat
  BY <1>1, HandlersAssumption DEF TypeOK, HandlersInv
<1>6. /\ checked' \in [Uuid -> Nat]
      /\ checked'[w] = now
      /\ \A u \in Uuid \ {w} : checked'[u] = checked[u]
  BY <1>1, <1>4, <1>5
<1>7. pc' \notin Found
  BY <1>4 DEF Found, Returned
<1>8. \A u \in Uuid \ {w} : Late(u)' <=> Late(u)
  BY <1>6 DEF Late
<1>9. Late(w)' <=> is_expired_at(Envelope[w], now)
  BY <1>6 DEF Late
<1>10. Open' => (pc' = "expired" <=> Late(cur.uuid)')
  BY <1>4, <1>9
<1>11. \A u \in Uuid :
        /\ status'[u] = "Expired" => Late(u)'
        /\ status'[u] \notin {"None", "Received", "Expired"} => ~Late(u)'
  <2>1. \A u \in Uuid \ {w} : status'[u] = status[u]
    BY <1>4, <1>5
  <2>2. status'[w] = "Received"
    BY <1>4, <1>5
  <2>3. QED
    BY <2>1, <2>2, <1>8 DEF HandlersInv
<1>12. \A u \in Uuid :
        \/ answers'[u] = NoAnswer /\ result'[u] = "None"
        \/ /\ result'[u] # "None"
           /\ answers'[u] = [cmd |-> answers'[u].cmd, msg |-> answers'[u].msg]
           /\ answers'[u].cmd \in Registered
           /\ answers'[u].msg \in Answer(answers'[u].cmd, u)
  <2>1. \A u \in Uuid \ {w} : answers'[u] = answers[u] /\ result'[u] = result[u]
    BY <1>4, <1>5
  <2>2. answers'[w] = NoAnswer /\ result'[w] = "None"
    BY <1>4, <1>5
  <2>3. QED
    BY <2>1, <2>2 DEF HandlersInv
<1>13. answers' = [u \in Uuid |-> answers'[u]] /\ outcome' \in CommandResultMsg \cup {Nothing}
  BY <1>4, <1>5 DEF HandlersInv
<1>14. QED
  BY <1>4, <1>6, <1>7, <1>10, <1>11, <1>12, <1>13
  DEF HandlersInv, Found, Returned, Answer

(* A handler returns what it may return for the message in hand.            *)
LEMMA HandleKeeps == TypeOK /\ HandlersInv /\ HandleCommand => HandlersInv'
<1> SUFFICES ASSUME TypeOK, HandlersInv, HandleCommand PROVE HandlersInv'
  OBVIOUS
<1>1. /\ pc = "running" /\ cur' = cur /\ status' = status /\ result' = result
      /\ answers' = answers /\ checked' = checked
      /\ outcome' \in Answer(cur.cmd, cur.uuid)
      /\ pc' = IF outcome'.ok THEN "completed" ELSE "failed"
  BY DEF HandleCommand, HandlerReturns, reportVars, Answer
<1>2. cur.cmd \in Registered /\ cur.uuid \in Uuid
  BY <1>1 DEF HandlersInv, TypeOK, Command, Found
<1>3. Envelope[cur.uuid].payload \in CommandPayload
  BY <1>2, HandlersAssumption DEF CommandEnvelope
<1>4. outcome' \in CommandResultMsg
  BY <1>1, <1>2, <1>3, HandleType DEF Answer
<1>5. outcome'.ok \in BOOLEAN
  BY <1>4 DEF CommandResultMsg
<1>6. \A u \in Uuid : Late(u)' <=> Late(u)
  BY <1>1 DEF Late
<1>7. Open' => (pc' = "expired" <=> Late(cur.uuid)')
  BY <1>1, <1>2, <1>6 DEF HandlersInv, Open
<1>8. QED
  BY <1>1, <1>2, <1>4, <1>5, <1>6, <1>7 DEF HandlersInv, Found, Returned, Answer

(* The answer published is what the handler returned, under its topic.      *)
LEMMA AnswerKeeps == TypeOK /\ HandlersInv /\ AnswerServer => HandlersInv'
<1> SUFFICES ASSUME TypeOK, HandlersInv, AnswerServer PROVE HandlersInv'
  OBVIOUS
<1>1. PICK r \in {"Ok", "Error"} :
        /\ pc \in Returned /\ pc' = "select" /\ cur' = cur /\ status' = status
        /\ result' = IF eventLoop = "stopped" THEN result
                     ELSE [result EXCEPT ![cur.uuid] = r]
  BY DEF AnswerServer, PublishResult, Returned
<1>2. /\ answers' = IF eventLoop = "stopped" THEN answers
                    ELSE [answers EXCEPT ![cur.uuid] = [cmd |-> cur.cmd, msg |-> outcome]]
      /\ outcome' = outcome /\ checked' = checked
  BY DEF AnswerServer
<1>3. /\ cur.cmd \in Registered /\ cur.uuid \in Uuid
      /\ outcome \in Answer(cur.cmd, cur.uuid)
  BY <1>1 DEF HandlersInv, TypeOK, Command, Found, Returned
<1>4. DOMAIN result = Uuid /\ DOMAIN answers = Uuid
  BY DEF TypeOK, HandlersInv
<1>5. \A u \in Uuid : Late(u)' <=> Late(u)
  BY <1>2 DEF Late
<1>6. CASE eventLoop = "stopped"
  BY <1>1, <1>2, <1>5, <1>6 DEF HandlersInv, Found, Returned, Open, Answer
<1>7. CASE eventLoop # "stopped"
  <2>1. \A u \in Uuid \ {cur.uuid} : answers'[u] = answers[u] /\ result'[u] = result[u]
    BY <1>1, <1>2, <1>4, <1>7
  <2>2. /\ answers'[cur.uuid] = [cmd |-> cur.cmd, msg |-> outcome]
        /\ result'[cur.uuid] = r
        /\ answers' = [u \in Uuid |-> answers'[u]]
    BY <1>1, <1>2, <1>3, <1>4, <1>7
  <2>3. \A u \in Uuid :
        \/ answers'[u] = NoAnswer /\ result'[u] = "None"
        \/ /\ result'[u] # "None"
           /\ answers'[u] = [cmd |-> answers'[u].cmd, msg |-> answers'[u].msg]
           /\ answers'[u].cmd \in Registered
           /\ answers'[u].msg \in Answer(answers'[u].cmd, u)
    BY <2>1, <2>2, <1>3 DEF HandlersInv
  <2>4. QED
    BY <1>1, <1>2, <1>5, <2>2, <2>3 DEF HandlersInv, Found, Returned, Open, Answer
<1>8. QED
  BY <1>6, <1>7

(* Every step keeps the invariant.                                          *)
LEMMA HandlersNextInv ==
  TypeOK /\ HandlersInv /\ [HandlersNext]_handlersAll => HandlersInv'
<1> SUFFICES ASSUME TypeOK, HandlersInv, [HandlersNext]_handlersAll
             PROVE  HandlersInv'
  OBVIOUS
<1>1. CASE UNCHANGED handlersAll
  <2>1. UNCHANGED <<pc, cur, status, result, handlersVars>>
    BY <1>1 DEF handlersAll, vars, reportVars
  <2>2. QED
    BY <2>1, HandlersFrame
<1>2. CASE (Broker \/ Cancel \/ Transport \/ Bridge) /\ UNCHANGED handlersVars
  <2>1. UNCHANGED <<pc, cur, status, result>>
    BY <1>2
    DEF Broker, Issue, Ack, Cancel, Transport, ConnAck, ConnError, Deliver,
        Flush, BeginFlush, EndFlush, Bridge, BridgeRecv, BridgeLagged,
        BridgeSend, BridgeCancelled, reportVars, processorVars
  <2>2. QED
    BY <1>2, <2>1, HandlersFrame
<1>3. CASE /\ \/ DrainCancelled \/ DrainClosed \/ TakeConnected \/ TakeIgnored
              \/ TakeDuplicate \/ Resubscribe \/ StartHandler \/ HandlerCancelled
           /\ UNCHANGED handlersVars
  <2>1. UNCHANGED <<cur, status, result>>
    BY <1>3
    DEF DrainCancelled, DrainClosed, TakeConnected, TakeIgnored, TakeDuplicate,
        Resubscribe, StartHandler, HandlerCancelled, reportVars
  <2>2. \/ pc' \in {"select", "subscribe", "done"}
        \/ pc' = pc
        \/ pc = "handling" /\ pc' = "running"
    BY <1>3
    DEF DrainCancelled, DrainClosed, TakeConnected, TakeIgnored, TakeDuplicate,
        Resubscribe, StartHandler, HandlerCancelled
  <2>3. QED
    BY <1>3, <2>1, <2>2, HandlersFrame
<1>4. CASE PublishState /\ UNCHANGED handlersVars
  <2>1. CASE PublishExpired
    BY <1>4, <2>1, PublishKeeps DEF PublishExpired, Control, Found, Returned
  <2>2. CASE PublishAccepted
    BY <1>4, <2>2, PublishKeeps DEF PublishAccepted, Control, Found, Returned
  <2>3. CASE PublishRejected
    BY <1>4, <2>3, PublishKeeps DEF PublishRejected, Control, Found, Returned
  <2>4. CASE PublishInProgress
    BY <1>4, <2>4, PublishKeeps DEF PublishInProgress, Control, Found, Returned
  <2>5. CASE PublishCompleted
    BY <1>4, <2>5, PublishKeeps DEF PublishCompleted, Control, Found, Returned
  <2>6. CASE PublishFailed
    BY <1>4, <2>6, PublishKeeps DEF PublishFailed, Control, Found, Returned
  <2>7. QED
    BY <1>4, <2>1, <2>2, <2>3, <2>4, <2>5, <2>6 DEF PublishState
<1>5. CASE Reboot
  <2>1. /\ pc' = "select" /\ outcome' = Nothing
        /\ status' = [u \in Uuid |-> "None"] /\ result' = [u \in Uuid |-> "None"]
        /\ answers' = [u \in Uuid |-> NoAnswer] /\ checked' = [u \in Uuid |-> 0]
    BY <1>5 DEF Reboot, Boot
  <2>2. QED
    BY <2>1 DEF HandlersInv, Found, Returned, Open, NoAnswer, Nothing
<1>6. QED
  BY <1>1, <1>2, <1>3, <1>4, <1>5, TakeKeeps, HandleKeeps, AnswerKeeps
  DEF HandlersNext, Elsewhere

(* The invariant holds in every reachable state.                            *)
LEMMA HandlersInvariant == HandlersSpec => []HandlersInv
<1>1. HandlersSpec => []TypeOK
  BY HandlersRefine, TypeCorrect, PTL
<1>2. QED
  BY <1>1, HandlersInitInv, HandlersNextInv, PTL DEF HandlersSpec, handlersAll

(* Results stay results: what is published and what is returned are of the  *)
(* declared types.                                                          *)
THEOREM HandlersTypeCorrect == HandlersSpec => []HandlersTypeOK
<1>1. TypeOK /\ HandlersInv => HandlersTypeOK
  <2> SUFFICES ASSUME TypeOK, HandlersInv PROVE HandlersTypeOK
    OBVIOUS
  <2>1. \A u \in Uuid : Envelope[u].payload \in CommandPayload
    BY HandlersAssumption DEF CommandEnvelope
  <2>2. \A u \in Uuid : answers[u] = NoAnswer \/ answers[u].msg \in CommandResultMsg
    BY <2>1, HandleType DEF HandlersInv, Answer
  <2>3. \A u \in Uuid :
          answers[u] \in [cmd : Registered, msg : CommandResultMsg] \cup {NoAnswer}
    BY <2>2 DEF HandlersInv
  <2>4. \A u \in Uuid : (result[u] = "None") <=> (answers[u] = NoAnswer)
    <3>1. "none" \notin Registered
      BY HandlersAssumption DEF Expected
    <3>2. NoAnswer.cmd = "none"
      BY DEF NoAnswer
    <3>3. QED
      BY <3>1, <3>2 DEF HandlersInv
  <2>5. answers \in [Uuid -> [cmd : Registered, msg : CommandResultMsg] \cup {NoAnswer}]
    <3>1. answers = [u \in Uuid |-> answers[u]]
      BY DEF HandlersInv
    <3>2. QED
      BY <2>3, <3>1
  <2>6. QED
    BY <2>4, <2>5 DEF HandlersInv, HandlersTypeOK
<1>2. HandlersSpec => []TypeOK
  BY HandlersRefine, TypeCorrect, PTL
<1>3. QED
  BY <1>1, <1>2, HandlersInvariant, PTL

(* Whatever names, payloads and lifetimes the server combines, the data of  *)
(* a result answers the message it is published for, and tells no path.     *)
THEOREM AnswersAlwaysFit == HandlersSpec => []AnswersFit
<1>1. HandlersInv => AnswersFit
  <2> SUFFICES ASSUME HandlersInv, NEW u \in Uuid, answers[u].msg.ok
               PROVE  LET data == answers[u].msg.data
                          payload == Envelope[u].payload
                      IN  /\ data.type = Expected[answers[u].cmd]
                          /\ data.type = payload.type
                          /\ data.type = "ConfigUpdate" =>
                                data.fields_received = payload.payload
                          /\ data.type = "UpdateRequest" => data.version = payload.version
                          /\ data.type = "ModemCommands" => data.command = payload.command
                          /\ data.type = "Restart" =>
                                data.target = payload.target /\ payload.target # "unitctl"
                          /\ data.type = "GetConfig" =>
                                \A k \in CertPath : data.config.mqtt[k] = "***"
    BY DEF AnswersFit
  <2>1. answers[u] # NoAnswer
    BY DEF NoAnswer, Nothing
  <2>2. answers[u].cmd \in Registered /\ answers[u].msg \in Answer(answers[u].cmd, u)
    BY <2>1 DEF HandlersInv
  <2>3. Envelope[u].payload \in CommandPayload
    BY HandlersAssumption DEF CommandEnvelope
  <2>4. QED
    BY <2>2, <2>3, HandleFits DEF Answer
<1>2. QED
  BY <1>1, HandlersInvariant, PTL

(* However the clock is set, a command is accepted exactly in its lifetime, *)
(* or in the first MAX_TTL_SEC seconds of it.                               *)
THEOREM LifetimeAlwaysExact == HandlersSpec => []LifetimeExact
<1>1. HandlersInv => LifetimeExact
  <2> SUFFICES ASSUME HandlersInv, NEW u \in Uuid
               PROVE  LET age == checked[u] - Envelope[u].issued_at
                      IN  /\ status[u] \notin {"None", "Received", "Expired"} =>
                               age <= Envelope[u].ttl_sec
                          /\ status[u] = "Expired" =>
                               age > Envelope[u].ttl_sec \/ age > MAX_TTL_SEC
    BY DEF LifetimeExact
  <2>1. /\ Envelope[u].issued_at \in Nat /\ checked[u] \in Nat
        /\ Envelope[u].ttl_sec \in 0..(2 * I64_MAX + 1)
        /\ I64_MAX \in Nat /\ MAX_TTL_SEC \in 0..I64_MAX
    BY HandlersAssumption DEF HandlersInv, CommandEnvelope
  <2>2. /\ status[u] = "Expired" => Late(u)
        /\ status[u] \notin {"None", "Received", "Expired"} => ~Late(u)
    BY DEF HandlersInv
  <2>3. QED
    BY <2>1, <2>2 DEF Late, is_expired_at
<1>2. QED
  BY <1>1, HandlersInvariant, PTL
=============================================================================
