------------------------------ MODULE ModemAccess ------------------------------
(***************************************************************************)
(* The modem behind a request queue (services/modem_access/mod.rs) and its *)
(* two users: the LTE sensor (sensors/lte.rs) and the modem_commands       *)
(* handler (services/mqtt/handlers/modem_commands.rs).                     *)
(*                                                                         *)
(* A call queues a request, waiting for room, and then waits 30 seconds    *)
(* for the reply, on a channel made for this one request.  One worker      *)
(* takes the requests in order and runs them on the modem.  A caller that  *)
(* gave up leaves its request in the queue.                                *)
(***************************************************************************)
EXTENDS Naturals, Sequences

CONSTANTS
  REQUEST_QUEUE_CAPACITY,  (* Requests that wait: 32 in the code.          *)
  Commands,                (* AT commands that operators send.             *)
  MaxCalls,                (* Bound: calls of each user.                   *)
  MaxModems                (* Bound: modems that ModemManager lists.       *)

User == {"sensor", "handler"}
NoAnswer == [call |-> 0, ok |-> FALSE]

(* AT commands, after trimming and in upper case: the prefix that one of    *)
(* the handler's lists has or another one, what follows it, and whether all *)
(* is printable ASCII without a semicolon.                                  *)
SAFE_AT_PREFIXES == {"AT+CSQ", "AT+CIMI", "AT+CGSN", "AT+CGMM", "AT+CGMR", "ATI"}
QUERY_ONLY_AT_PREFIXES == {"AT+COPS", "AT+CEREG", "AT+CREG", "AT+CGREG", "AT+CGDCONT",
                           "AT+QENG", "AT+QNWINFO", "AT+QSPN"}
AtCommand == [prefix : SAFE_AT_PREFIXES \cup QUERY_ONLY_AT_PREFIXES \cup {"other"},
              suffix : {"", "?", "=?", "=1"}, plain : BOOLEAN]
Query == {"", "?", "=?"}

(* Mutant: a command is known by its prefix.                                *)
is_allowed_by_prefix(cmd) ==
  cmd.plain /\ cmd.prefix \in SAFE_AT_PREFIXES \cup QUERY_ONLY_AT_PREFIXES

is_allowed_at_command(cmd) ==
  /\ cmd.plain
  /\ \/ cmd.prefix \in SAFE_AT_PREFIXES
     \/ cmd.prefix \in QUERY_ONLY_AT_PREFIXES /\ cmd.suffix \in Query

ASSUME QueueCapacityAssumption == REQUEST_QUEUE_CAPACITY \in Nat \ {0}
ASSUME CommandsAssumption == Commands \subseteq AtCommand
ASSUME CallsAssumption == MaxCalls \in Nat /\ MaxModems \in Nat

(* What a request runs on the modem: the reading of its model, the command  *)
(* for the IMSI or another command.  (The fourth kind of request, for the   *)
(* registration status, nobody sends.)                                      *)
Model == [prefix |-> "model", suffix |-> "", plain |-> TRUE]
Imsi == [prefix |-> "AT+CIMI", suffix |-> "", plain |-> TRUE]
Cell == [prefix |-> "AT+QENG", suffix |-> "=1", plain |-> TRUE]
Request == [user : User, call : Nat, kind : AtCommand \cup {Model}]

VARIABLES
  backend,    (* The configured modem_type, "dbus" or "fake".              *)
  service,    (* The task that provides the modem: "start", "enumerate",   *)
              (* "probe", "pause", "set" (it is in Context) or "failed".   *)
  candidates, (* Modems that the last enumeration found, not yet probed.   *)
  worker,     (* Worker task: "off", "recv", "busy" or "gone".             *)
  queue,      (* The mpsc channel.                                         *)
  job,        (* The request that runs on the modem, if the worker is busy.*)
  started,    (* History: the last call of each user that it began to run. *)
  phase,      (* What each user does.                                      *)
  call,       (* Its modem call: "none", "send" or "wait".                 *)
  calls,      (* The number of its last call.                              *)
  answer,     (* The reply that waits for it, or NoAnswer.                 *)
  text,       (* The handler's command.                                    *)
  cancelled   (* The shutdown token.                                       *)

serviceVars == <<backend, service, candidates>>
workerVars == <<worker, queue, job, started>>
userVars == <<phase, call, calls, answer, text>>
vars == <<serviceVars, workerVars, userVars, cancelled>>

TypeOK ==
  /\ backend \in {"dbus", "fake"}
  /\ service \in {"start", "enumerate", "probe", "pause", "set", "failed"}
  /\ candidates \in 0..MaxModems
  /\ worker \in {"off", "recv", "busy", "gone"}
  /\ queue \in Seq(Request)
  /\ Len(queue) <= REQUEST_QUEUE_CAPACITY
  /\ job \in Request
  /\ started \in [User -> Nat]
  /\ phase \in [User -> {"lookup", "discover", "imsi", "sleep", "query", "idle",
                         "command", "done"}]
  /\ call \in [User -> {"none", "send", "wait"}]
  /\ calls \in [User -> Nat]
  /\ answer \in [User -> [call : Nat, ok : BOOLEAN]]
  /\ text \in AtCommand
  /\ cancelled \in BOOLEAN

Init ==
  /\ backend \in {"dbus", "fake"}
  /\ service = "start" /\ candidates = 0
  /\ worker = "off" /\ queue = <<>>
  /\ job = [user |-> "sensor", call |-> 0, kind |-> Model]
  /\ started = [u \in User |-> 0]
  /\ phase = [u \in User |-> IF u = "sensor" THEN "lookup" ELSE "idle"]
  /\ call = [u \in User |-> "none"]
  /\ calls = [u \in User |-> 0]
  /\ answer = [u \in User |-> NoAnswer]
  /\ text = Cell
  /\ cancelled = FALSE

-----------------------------------------------------------------------------
(* The service.                                                             *)

(* The fake modem is there at once.                                         *)
start ==
  /\ service = "start"
  /\ IF backend = "fake" THEN service' = "set" /\ worker' = "recv"
                         ELSE service' = "enumerate" /\ UNCHANGED worker
  /\ UNCHANGED <<backend, candidates, queue, job, started, userVars, cancelled>>

(* ModemManager cannot be reached or lists no modem, or it lists some.      *)
discover_all ==
  /\ service = "enumerate"
  /\ \/ service' = "pause" /\ candidates' = 0
     \/ service' = "probe" /\ candidates' \in 1..MaxModems
  /\ UNCHANGED <<backend, workerVars, userVars, cancelled>>

(* The model of one of them is read and is a supported one: the worker is   *)
(* started and the service stored in Context, cancelled or not.             *)
Discovered ==
  /\ service = "probe"
  /\ service' = "set" /\ candidates' = 0
  /\ worker' = "recv"
  /\ UNCHANGED <<backend, queue, job, started, userVars, cancelled>>

(* Or it is not, and the next is tried.                                     *)
NotSuitable ==
  /\ service = "probe"
  /\ candidates' = candidates - 1
  /\ service' = IF candidates = 1 THEN "pause" ELSE "probe"
  /\ UNCHANGED <<backend, workerVars, userVars, cancelled>>

(* The token is seen in the pause before the next attempt only.             *)
DiscoveryCancelled ==
  /\ service = "pause"
  /\ cancelled
  /\ service' = "failed"
  /\ UNCHANGED <<backend, candidates, workerVars, userVars, cancelled>>

Retry ==
  /\ service = "pause"
  /\ service' = "enumerate"
  /\ UNCHANGED <<backend, candidates, workerVars, userVars, cancelled>>

(* Mutant: a request is taken for running and left in the queue.            *)
TakeKeeping ==
  /\ worker = "recv"
  /\ queue # <<>>
  /\ worker' = "busy"
  /\ job' = Head(queue)
  /\ started' = [started EXCEPT ![Head(queue).user] = Head(queue).call]
  /\ UNCHANGED <<serviceVars, queue, userVars, cancelled>>

Take ==
  /\ worker = "recv"
  /\ queue # <<>>
  /\ worker' = "busy"
  /\ job' = Head(queue)
  /\ started' = [started EXCEPT ![Head(queue).user] = Head(queue).call]
  /\ queue' = Tail(queue)
  /\ UNCHANGED <<serviceVars, userVars, cancelled>>

(* Mutant: the reply goes to whatever call of this user is waiting.         *)
AnswerAnyone(ok) ==
  /\ worker = "busy"
  /\ worker' = "recv"
  /\ answer' = IF call[job.user] = "wait"
               THEN [answer EXCEPT ![job.user] = [call |-> job.call, ok |-> ok]]
               ELSE answer
  /\ UNCHANGED <<serviceVars, queue, job, started, phase, call, calls, text, cancelled>>

(* The modem returns; the reply of a call that was given up goes nowhere.   *)
(* ModemManager fails, times out or gives a reply, of which the IMSI may be *)
(* missing; the fake modem has an answer to everything.                     *)
Answer(ok) ==
  /\ worker = "busy"
  /\ backend = "fake" => ok
  /\ worker' = "recv"
  /\ answer' = IF call[job.user] = "wait" /\ calls[job.user] = job.call
               THEN [answer EXCEPT ![job.user] = [call |-> job.call, ok |-> ok]]
               ELSE answer
  /\ UNCHANGED <<serviceVars, queue, job, started, phase, call, calls, text, cancelled>>

(* The token is seen between two requests only; the receiver is dropped     *)
(* with what is queued.                                                     *)
WorkerCancelled ==
  /\ worker = "recv"
  /\ cancelled
  /\ worker' = "gone"
  /\ queue' = <<>>
  /\ UNCHANGED <<serviceVars, job, started, userVars, cancelled>>

Cancel ==
  /\ ~cancelled
  /\ cancelled' = TRUE
  /\ UNCHANGED <<serviceVars, workerVars, userVars>>

-----------------------------------------------------------------------------
(* A call (ModemAccessService::request).                                    *)

callFrame == <<serviceVars, worker, job, started, text, cancelled>>

Asked(u) ==
  CASE phase[u] = "discover" -> Model
    [] phase[u] = "imsi" -> Imsi
    [] phase[u] = "query" -> Cell
    [] phase[u] = "command" -> text

Begin(u) ==
  /\ call[u] = "none"
  /\ phase[u] \in {"discover", "imsi", "query", "command"}
  /\ call' = [call EXCEPT ![u] = "send"]
  /\ calls' = [calls EXCEPT ![u] = @ + 1]
  /\ UNCHANGED <<callFrame, queue, phase, answer>>

(* Mutant: the queue has no bound.                                          *)
SendUnbounded(u) ==
  /\ call[u] = "send"
  /\ worker # "gone"
  /\ queue' = Append(queue, [user |-> u, call |-> calls[u], kind |-> Asked(u)])
  /\ call' = [call EXCEPT ![u] = "wait"]
  /\ UNCHANGED <<callFrame, phase, calls, answer>>

(* The send waits for room, without a limit.                                *)
Send(u) ==
  /\ call[u] = "send"
  /\ worker # "gone"
  /\ Len(queue) < REQUEST_QUEUE_CAPACITY
  /\ queue' = Append(queue, [user |-> u, call |-> calls[u], kind |-> Asked(u)])
  /\ call' = [call EXCEPT ![u] = "wait"]
  /\ UNCHANGED <<callFrame, phase, calls, answer>>

(* Where the caller goes on.  The sensor ends for good when it cannot tell  *)
(* the modem's type, and goes on without an IMSI or a reading.              *)
Return(u, ok) ==
  /\ call' = [call EXCEPT ![u] = "none"]
  /\ answer' = [answer EXCEPT ![u] = NoAnswer]
  /\ phase' = [phase EXCEPT ![u] =
                 CASE @ = "discover" -> IF ok THEN "imsi" ELSE "done"
                   [] @ = "command" -> "idle"
                   [] OTHER -> "sleep"]
  /\ UNCHANGED <<callFrame, queue, calls>>

(* Mutant: a send does not notice that the worker is gone.                  *)
SendFailsUnnoticed(u) ==
  /\ call[u] = "send"
  /\ worker = "gone"
  /\ UNCHANGED vars

SendFails(u) ==
  /\ call[u] = "send"
  /\ worker = "gone"
  /\ Return(u, FALSE)

Receive(u) ==
  /\ call[u] = "wait"
  /\ answer[u] # NoAnswer
  /\ Return(u, answer[u].ok)

(* Thirty seconds without a reply.                                          *)
TimedOut(u) ==
  /\ call[u] = "wait"
  /\ answer[u] = NoAnswer
  /\ Return(u, FALSE)

Pending(u) ==
  \/ \E i \in 1..Len(queue) : queue[i].user = u /\ queue[i].call = calls[u]
  \/ worker = "busy" /\ job.user = u /\ job.call = calls[u]

(* The worker ended and the reply channel with it.                          *)
ReplyDropped(u) ==
  /\ call[u] = "wait"
  /\ answer[u] = NoAnswer
  /\ ~Pending(u)
  /\ Return(u, FALSE)

-----------------------------------------------------------------------------
(* The two users.                                                           *)

Go(u, next) ==
  /\ phase' = [phase EXCEPT ![u] = next]
  /\ UNCHANGED <<serviceVars, workerVars, call, calls, answer, cancelled>>

SensorStarts ==
  /\ phase["sensor"] = "lookup"
  /\ service = "set"
  /\ Go("sensor", "discover")
  /\ UNCHANGED text

(* A serving-cell or a neighbour-cell query, once per interval.             *)
SensorPolls ==
  /\ phase["sensor"] = "sleep"
  /\ calls["sensor"] < MaxCalls
  /\ Go("sensor", "query")
  /\ UNCHANGED text

(* Mutant: the pause between two polls does not watch the token.            *)
SensorLookupCancelled ==
  /\ phase["sensor"] = "lookup"
  /\ cancelled
  /\ Go("sensor", "done")
  /\ UNCHANGED text

(* The sensor watches the token in its two pauses, not during a call.       *)
SensorCancelled ==
  /\ phase["sensor"] \in {"lookup", "sleep"}
  /\ cancelled
  /\ Go("sensor", "done")
  /\ UNCHANGED text

(* A payload of another type, a command that is not allowed and the absence *)
(* of a modem fail at once, which changes nothing here.                     *)
HandlerStarts(cmd) ==
  /\ phase["handler"] = "idle"
  /\ is_allowed_at_command(cmd)
  /\ service = "set"
  /\ calls["handler"] < MaxCalls
  /\ text' = cmd
  /\ Go("handler", "command")

(* The command processor drops the handler, and the call with it.           *)
HandlerCancelled ==
  /\ phase["handler"] # "done"
  /\ cancelled
  /\ phase' = [phase EXCEPT !["handler"] = "done"]
  /\ call' = [call EXCEPT !["handler"] = "none"]
  /\ answer' = [answer EXCEPT !["handler"] = NoAnswer]
  /\ UNCHANGED <<callFrame, queue, calls>>

Discovery == start \/ discover_all \/ Discovered \/ NotSuitable
Service == Discovery \/ Retry \/ DiscoveryCancelled \/ Take \/ WorkerCancelled
Modem == \E ok \in BOOLEAN : Answer(ok)
Calls(u) == Begin(u) \/ SendFails(u) \/ Receive(u) \/ TimedOut(u) \/ ReplyDropped(u)
Users ==
  \/ SensorStarts \/ SensorPolls \/ SensorCancelled \/ HandlerCancelled
  \/ \E cmd \in Commands : HandlerStarts(cmd)

Next ==
  \/ Service \/ Modem \/ Cancel \/ Users
  \/ \E u \in User : Calls(u) \/ Send(u)

Spec == Init /\ [][Next]_vars

(* Tokio polls the tasks, timers fire, a select takes each branch that is   *)
(* ready again and again, tokio's mpsc channel gives room to its waiting    *)
(* senders in their order, and ModemManager and the modem return from a     *)
(* request, with a result or an error.                                      *)
FairSpec ==
  /\ Spec
  /\ WF_vars(Discovery) /\ SF_vars(DiscoveryCancelled)
  /\ WF_vars(Take) /\ WF_vars(WorkerCancelled)
  /\ WF_vars(SensorCancelled) /\ WF_vars(HandlerCancelled)
  /\ WF_vars(Modem)
  /\ \A u \in User : WF_vars(Calls(u)) /\ SF_vars(Send(u))

-----------------------------------------------------------------------------
(* Properties.                                                              *)

(* A reply is only ever taken for the call that asked for it, however late  *)
(* it comes and whatever the same user asked since.                         *)
AnswerIsForCall ==
  \A u \in User : answer[u] # NoAnswer => call[u] = "wait" /\ answer[u].call = calls[u]

(* "requests are serialized by the worker" (mod.rs:180): each runs at most  *)
(* once and those of a user in the order of its calls, also when a call was *)
(* given up and the user asked for something else since.                    *)
RunsInOrder ==
  \A i \in DOMAIN queue :
    /\ queue[i].call > started[queue[i].user]
    /\ \A j \in 1..(i - 1) :
         queue[j].user = queue[i].user => queue[j].call < queue[i].call

(* "only query forms (?, =?) are allowed" (modem_commands.rs:28): what the  *)
(* modem runs for an operator, from whichever queued request, changes none  *)
(* of its settings by a command that has a query form.                      *)
OnlyQueries ==
  /\ worker = "busy"
  /\ job.user = "handler"
  /\ job.kind.prefix \in QUERY_ONLY_AT_PREFIXES
  => job.kind.suffix \in Query

(* A call neither waits forever nor keeps its caller (commands.rs:29-30:    *)
(* "modem AT commands that block for up to 30 s").                          *)
CallReturns ==
  \A u \in User, n \in 1..(MaxCalls + 2) :
    (call[u] # "none" /\ calls[u] = n) ~> (call[u] = "none" \/ calls[u] # n)

(* Once the token is cancelled both users end, so that main can join them,  *)
(* and so does the discovery; a sensor that is inside a call and a search   *)
(* that is under way are not told of the token.                             *)
UsersEnd ==
  cancelled ~> service \in {"set", "failed"} /\ \A u \in User : phase[u] = "done"
=============================================================================
