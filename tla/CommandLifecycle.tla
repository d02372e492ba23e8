--------------------------- MODULE CommandLifecycle ---------------------------
(***************************************************************************)
(* What the command service promises to the server that sent a command,    *)
(* without queues, tasks or channels.                                      *)
(*                                                                         *)
(* Commands are handled one at a time.  A received command reports a legal *)
(* sequence of states (messages/commands.rs: CommandState) and is closed   *)
(* only when its last report was sent; a report may be lost, or a command  *)
(* abandoned, only once shutdown has begun.  A UUID is received again only *)
(* when at least Window other commands were received in between.           *)
(***************************************************************************)
EXTENDS Naturals, Sequences

CONSTANTS
  Uuid,     (* Command identifiers.                                        *)
  Window,   (* Commands during which a duplicate is recognised.            *)
  NoUuid    (* No command is open.                                         *)

VARIABLES
  history,   (* UUIDs received since the process started.                  *)
  status,    (* The last state reported for a UUID.                        *)
  result,    (* The result reported for a UUID.                            *)
  open,      (* The command being handled, or NoUuid.                      *)
  stopping   (* Shutdown has begun.                                        *)

lifecycleVars == <<history, status, result, open, stopping>>

Init ==
  /\ history = <<>>
  /\ status = [u \in Uuid |-> "None"]
  /\ result = [u \in Uuid |-> "None"]
  /\ open = NoUuid
  /\ stopping = FALSE

Remembered(u) ==
  \E i \in 1..Len(history) : history[i] = u /\ Len(history) - i < Window

Receive(u) ==
  /\ open = NoUuid
  /\ ~Remembered(u)
  /\ history' = Append(history, u)
  /\ open' = u
  /\ status' = [status EXCEPT ![u] = "Received"]
  /\ result' = [result EXCEPT ![u] = "None"]
  /\ UNCHANGED stopping

(* A state that leaves the command open.                                   *)
Report(from, to) ==
  /\ open # NoUuid
  /\ status[open] = from
  /\ status' = [status EXCEPT ![open] = to]
  /\ UNCHANGED <<history, result, open, stopping>>

(* A final state without a result.                                         *)
Refuse(from, to) ==
  /\ open # NoUuid
  /\ status[open] = from
  /\ status' = [status EXCEPT ![open] = to]
  /\ open' = NoUuid
  /\ UNCHANGED <<history, result, stopping>>

(* The result that closes a completed or failed command.                   *)
Conclude(last, outcome) ==
  /\ open # NoUuid
  /\ status[open] = last
  /\ result' = [result EXCEPT ![open] = outcome]
  /\ open' = NoUuid
  /\ UNCHANGED <<history, status, stopping>>

BeginStop ==
  /\ ~stopping
  /\ stopping' = TRUE
  /\ UNCHANGED <<history, status, result, open>>

(* Only a stopping process leaves a command without its final report.      *)
Abandon ==
  /\ stopping
  /\ open # NoUuid
  /\ open' = NoUuid
  /\ UNCHANGED <<history, status, result, stopping>>

Reboot ==
  /\ history' = <<>>
  /\ status' = [u \in Uuid |-> "None"]
  /\ result' = [u \in Uuid |-> "None"]
  /\ open' = NoUuid
  /\ stopping' = FALSE

Next ==
  \/ \E u \in Uuid : Receive(u)
  \/ Report("Received", "Accepted")
  \/ Report("Accepted", "InProgress")
  \/ Report("InProgress", "Completed")
  \/ Report("InProgress", "Failed")
  \/ Refuse("Received", "Expired")
  \/ Refuse("Accepted", "Rejected")
  \/ Conclude("Completed", "Ok")
  \/ Conclude("Failed", "Error")
  \/ BeginStop
  \/ Abandon
  \/ Reboot

Spec == Init /\ [][Next]_lifecycleVars
-----------------------------------------------------------------------------
(* What the promise means for the server.                                   *)

Answered(u) ==
  \/ status[u] \in {"None", "Expired", "Rejected"} /\ result[u] = "None"
  \/ status[u] = "Completed" /\ result[u] = "Ok"
  \/ status[u] = "Failed" /\ result[u] = "Error"

(* Until the shutdown begins every command that was received is the open    *)
(* one or has its final state and, if it was executed, the result that      *)
(* agrees with it; a result never stands beside another state.              *)
AnsweredInFull ==
  \A u \in Uuid :
    /\ u = open \/ stopping \/ Answered(u)
    /\ result[u] = "None" \/ Answered(u)

(* The answer to a closed command is never overwritten by the reports of    *)
(* another one, only when the same UUID is received again or the process    *)
(* starts anew.                                                             *)
AnswersStay ==
  [][\A u \in Uuid :
       u # open /\ (status'[u] # status[u] \/ result'[u] # result[u])
         => Receive(u) \/ Reboot]_lifecycleVars
=============================================================================
