--------------------------- MODULE ModemAccess_proofs ---------------------------
(***************************************************************************)
(* Theorems about the modem and its two users, for every capacity of the   *)
(* request queue, every set of commands that operators send and any number *)
(* of calls.                                                               *)
(***************************************************************************)
EXTENDS ModemAccess, SequenceTheorems, TLAPS

(* What the code relies on and the properties do not say.  A user inside a  *)
(* call is at a step that makes one; the requests of a user are numbered up *)
(* to the last call, and the one not yet sent has a number of its own; the  *)
(* handler's command passed the check, in the queue and on the modem too.   *)
Asking == {"discover", "imsi", "query", "command"}

CallsInv ==
  /\ service = "probe" => candidates # 0
  /\ \A u \in User : call[u] # "none" => phase[u] \in Asking
  /\ \A u \in User :
       /\ started[u] <= calls[u]
       /\ call[u] = "send" => started[u] < calls[u]

NumbersInv ==
  \A i \in 1..Len(queue) :
    /\ queue[i].call <= calls[queue[i].user]
    /\ call[queue[i].user] = "send" => queue[i].call < calls[queue[i].user]

PermittedInv ==
  /\ phase["handler"] \in {"idle", "command", "done"}
  /\ phase["handler"] = "command" => is_allowed_at_command(text)
  /\ \A i \in 1..Len(queue) :
       queue[i].user = "handler" => is_allowed_at_command(queue[i].kind)
  /\ worker = "busy" /\ job.user = "handler" => is_allowed_at_command(job.kind)

ModemInv ==
  TypeOK /\ CallsInv /\ NumbersInv /\ RunsInOrder /\ AnswerIsForCall /\ PermittedInv

-----------------------------------------------------------------------------
(* Commands and requests are what they are declared to be.                  *)
LEMMA CommandTypes == Imsi \in AtCommand /\ Cell \in AtCommand
BY DEF Imsi, Cell, AtCommand, SAFE_AT_PREFIXES, QUERY_ONLY_AT_PREFIXES

(* What a user asks for, at any step that makes a call.                     *)
LEMMA AskedType ==
  ASSUME NEW u \in User, text \in AtCommand, phase[u] \in Asking
  PROVE  Asked(u) \in AtCommand \cup {Model}
<1>1. CASE phase[u] = "discover"
  BY <1>1 DEF Asked
<1>2. CASE phase[u] = "imsi"
  BY <1>2, CommandTypes DEF Asked
<1>3. CASE phase[u] = "query"
  BY <1>3, CommandTypes DEF Asked
<1>4. CASE phase[u] = "command"
  BY <1>4 DEF Asked
<1>5. QED
  BY <1>1, <1>2, <1>3, <1>4 DEF Asking

(* The queue that is assigned as a constant.                                *)
LEMMA NoRequests == <<>> \in Seq(Request) /\ Len(<<>>) = 0
BY EmptySeq

(* What the queue holds.                                                    *)
LEMMA QueuedRequests ==
  ASSUME queue \in Seq(Request)
  PROVE  /\ DOMAIN queue = 1..Len(queue)
         /\ \A i \in 1..Len(queue) : queue[i].user \in User /\ queue[i].call \in Nat
<1>1. ASSUME NEW i \in 1..Len(queue) PROVE queue[i].user \in User /\ queue[i].call \in Nat
  <2>1. queue[i] \in Request
    BY ElementOfSeq
  <2>2. QED
    BY <2>1 DEF Request
<1>2. DOMAIN queue = 1..Len(queue)
  OBVIOUS
<1>3. QED
  BY <1>1, <1>2

(* The initial states satisfy the invariant.                                *)
LEMMA InitModem == Init => ModemInv
<1> SUFFICES ASSUME Init PROVE ModemInv
  OBVIOUS
<1>1. job \in Request
  BY DEF Init, Request, User
<1>2. queue \in Seq(Request) /\ Len(queue) = 0
  BY NoRequests DEF Init
<1>3. TypeOK
  <2>1. Len(queue) <= REQUEST_QUEUE_CAPACITY
    BY <1>2, QueueCapacityAssumption
  <2>2. /\ started \in [User -> Nat] /\ calls \in [User -> Nat]
        /\ call \in [User -> {"none", "send", "wait"}]
        /\ answer \in [User -> [call : Nat, ok : BOOLEAN]]
    BY DEF Init, NoAnswer
  <2>3. phase \in [User -> {"lookup", "discover", "imsi", "sleep", "query", "idle",
                           "command", "done"}]
    BY DEF Init
  <2>4. candidates \in 0..MaxModems
    BY CallsAssumption DEF Init
  <2>5. QED
    BY <1>1, <1>2, <2>1, <2>2, <2>3, <2>4, CommandTypes DEF Init, TypeOK
<1>4. CallsInv /\ AnswerIsForCall
  BY DEF Init, CallsInv, AnswerIsForCall, User
<1>5. NumbersInv /\ RunsInOrder /\ PermittedInv
  BY <1>2 DEF Init, NumbersInv, RunsInOrder, PermittedInv, User
<1>6. QED
  BY <1>3, <1>4, <1>5 DEF ModemInv

-----------------------------------------------------------------------------
(* Steps of the service, which leave the users alone.                       *)
LEMMA ServiceStep ==
  ASSUME ModemInv,
         \/ start \/ discover_all \/ Discovered \/ NotSuitable \/ DiscoveryCancelled
         \/ Retry \/ Cancel
  PROVE  ModemInv'
<1>1. UNCHANGED <<queue, job, started, phase, call, calls, answer, text>>
  BY DEF start, discover_all, Discovered, NotSuitable, DiscoveryCancelled, Retry,
         Cancel, userVars, workerVars
<1>2. worker' \in {worker, "recv"}
  BY DEF start, discover_all, Discovered, NotSuitable, DiscoveryCancelled, Retry,
         Cancel, workerVars
<1>3. /\ candidates' \in 0..MaxModems /\ (service' = "probe" => candidates' # 0)
      /\ service' \in {"start", "enumerate", "probe", "pause", "set", "failed"}
  <2>0. MaxModems \in Nat /\ candidates \in 0..MaxModems
    BY CallsAssumption DEF ModemInv, TypeOK
  <2>1. CASE start \/ DiscoveryCancelled \/ Retry
    BY <2>0, <2>1 DEF start, DiscoveryCancelled, Retry, ModemInv, TypeOK, CallsInv
  <2>2. CASE discover_all
    BY <2>0, <2>2 DEF discover_all
  <2>3. CASE Discovered
    BY <2>0, <2>3 DEF Discovered
  <2>4. CASE NotSuitable
    <3>1. service = "probe" /\ candidates # 0
      BY <2>4 DEF NotSuitable, ModemInv, CallsInv
    <3>2. QED
      BY <2>0, <2>4, <3>1 DEF NotSuitable
  <2>5. CASE Cancel
    BY <2>0, <2>5 DEF Cancel, serviceVars, ModemInv, TypeOK, CallsInv
  <2>6. QED
    BY <2>1, <2>2, <2>3, <2>4, <2>5
<1>4. backend' \in {"dbus", "fake"} /\ cancelled' \in BOOLEAN
  BY DEF start, discover_all, Discovered, NotSuitable, DiscoveryCancelled, Retry,
         Cancel, serviceVars, ModemInv, TypeOK
<1>5. TypeOK'
  BY <1>1, <1>2, <1>3, <1>4 DEF ModemInv, TypeOK
<1>6. CallsInv' /\ NumbersInv' /\ RunsInOrder' /\ AnswerIsForCall'
  BY <1>1, <1>3 DEF ModemInv, CallsInv, NumbersInv, RunsInOrder, AnswerIsForCall
<1>7. PermittedInv'
  BY <1>1, <1>2 DEF ModemInv, PermittedInv
<1>8. QED
  BY <1>5, <1>6, <1>7 DEF ModemInv

(* The worker takes the oldest request.                                     *)
LEMMA TakeStep == ASSUME ModemInv, Take PROVE ModemInv'
<1>1. /\ queue \in Seq(Request) /\ queue # <<>> /\ queue' = Tail(queue)
      /\ job' = Head(queue) /\ Head(queue) = queue[1]
      /\ started' = [started EXCEPT ![queue[1].user] = queue[1].call]
      /\ UNCHANGED <<serviceVars, userVars, cancelled>>
  <2>1. queue \in Seq(Request) /\ queue # <<>>
    BY DEF Take, ModemInv, TypeOK
  <2>2. Head(queue) = queue[1]
    BY <2>1
  <2>3. QED
    BY <2>1, <2>2 DEF Take
<1>2. /\ queue[1] \in Request /\ queue' \in Seq(Request)
      /\ Len(queue) \in Nat \ {0} /\ Len(queue') = Len(queue) - 1
      /\ \A i \in 1..Len(queue') : queue'[i] = queue[i + 1]
  BY <1>1, HeadTailProperties, EmptySeq
<1>3. \A i \in 1..Len(queue') : i + 1 \in 1..Len(queue) /\ queue[i + 1] \in Request
  BY <1>1, <1>2, ElementOfSeq
<1>4. 1 \in 1..Len(queue) /\ queue[1].user \in User /\ queue[1].call \in Nat
  BY <1>2 DEF Request
<1>5. started \in [User -> Nat] /\ calls \in [User -> Nat]
  BY DEF ModemInv, TypeOK
<1>6. TypeOK'
  <2>1. started' \in [User -> Nat]
    BY <1>1, <1>4, <1>5
  <2>2. Len(queue') <= REQUEST_QUEUE_CAPACITY
    BY <1>2, QueueCapacityAssumption DEF ModemInv, TypeOK
  <2>3. QED
    BY <1>1, <1>2, <2>1, <2>2 DEF Take, ModemInv, TypeOK, serviceVars, userVars
<1>7. CallsInv'
  <2>1. /\ queue[1].call <= calls[queue[1].user]
        /\ call[queue[1].user] = "send" => queue[1].call < calls[queue[1].user]
    BY <1>4 DEF ModemInv, NumbersInv
  <2>2. ASSUME NEW u \in User
        PROVE  /\ started'[u] <= calls[u]
               /\ call[u] = "send" => started'[u] < calls[u]
    BY <1>1, <1>4, <1>5, <2>1 DEF ModemInv, CallsInv
  <2>3. QED
    BY <1>1, <2>2 DEF ModemInv, CallsInv, serviceVars, userVars
<1>8. NumbersInv'
  BY <1>1, <1>2, <1>3 DEF ModemInv, NumbersInv, userVars
<1>9. RunsInOrder'
  <2>1. ASSUME NEW i \in 1..Len(queue') PROVE queue'[i].call > started'[queue'[i].user]
    <3>1. /\ i + 1 \in 1..Len(queue) /\ queue'[i] = queue[i + 1]
          /\ queue[i + 1].user \in User /\ 1 \in 1..((i + 1) - 1)
      BY <1>2, <1>3 DEF Request
    <3>2. /\ queue[i + 1].call > started[queue[i + 1].user]
          /\ queue[1].user = queue[i + 1].user => queue[1].call < queue[i + 1].call
      BY <3>1, <1>1 DEF ModemInv, RunsInOrder
    <3>3. QED
      BY <1>1, <1>3, <1>4, <1>5, <3>1, <3>2 DEF Request
  <2>2. ASSUME NEW i \in 1..Len(queue'), NEW j \in 1..(i - 1),
               queue'[j].user = queue'[i].user
        PROVE  queue'[j].call < queue'[i].call
    <3>1. /\ i + 1 \in 1..Len(queue) /\ j + 1 \in 1..((i + 1) - 1)
          /\ queue'[i] = queue[i + 1] /\ queue'[j] = queue[j + 1]
      BY <1>2, <1>3
    <3>2. i + 1 \in DOMAIN queue
      BY <3>1, <1>1, QueuedRequests
    <3>3. QED
      BY <3>1, <3>2, <2>2 DEF ModemInv, RunsInOrder
  <2>3. QED
    BY <2>1, <2>2, <1>2 DEF RunsInOrder
<1>10. AnswerIsForCall'
  BY <1>1 DEF ModemInv, AnswerIsForCall, userVars
<1>11. PermittedInv'
  BY <1>1, <1>2, <1>3, <1>4 DEF ModemInv, PermittedInv, userVars
<1>12. QED
  BY <1>6, <1>7, <1>8, <1>9, <1>10, <1>11 DEF ModemInv

(* The modem's reply reaches the call that waits for it, or nobody.         *)
LEMMA AnswerStep == ASSUME ModemInv, NEW ok \in BOOLEAN, Answer(ok) PROVE ModemInv'
<1>1. /\ worker' = "recv"
      /\ UNCHANGED <<serviceVars, queue, job, started, phase, call, calls, text, cancelled>>
  BY DEF Answer
<1>2. job.user \in User /\ job.call \in Nat
  BY DEF ModemInv, TypeOK, Request
<1>3. answer \in [User -> [call : Nat, ok : BOOLEAN]]
  BY DEF ModemInv, TypeOK
<1>4. CASE call[job.user] = "wait" /\ calls[job.user] = job.call
  <2>1. answer' = [answer EXCEPT ![job.user] = [call |-> job.call, ok |-> ok]]
    BY <1>4 DEF Answer
  <2>2. answer' \in [User -> [call : Nat, ok : BOOLEAN]]
    BY <2>1, <1>2, <1>3
  <2>3. AnswerIsForCall'
    BY <1>1, <1>2, <1>3, <1>4, <2>1 DEF ModemInv, AnswerIsForCall
  <2>4. QED
    BY <1>1, <2>2, <2>3
    DEF ModemInv, TypeOK, CallsInv, NumbersInv, RunsInOrder, PermittedInv, serviceVars
<1>5. CASE ~(call[job.user] = "wait" /\ calls[job.user] = job.call)
  <2>1. answer' = answer
    BY <1>5 DEF Answer
  <2>2. QED
    BY <1>1, <2>1
    DEF ModemInv, TypeOK, CallsInv, NumbersInv, RunsInOrder, PermittedInv,
        AnswerIsForCall, serviceVars
<1>6. QED
  BY <1>4, <1>5

(* The worker ends and drops the queue.                                     *)
LEMMA WorkerEnds == ASSUME ModemInv, WorkerCancelled PROVE ModemInv'
<1>1. /\ worker' = "gone" /\ queue' = <<>>
      /\ UNCHANGED <<serviceVars, job, started, userVars, cancelled>>
  BY DEF WorkerCancelled
<1>2. queue' \in Seq(Request) /\ Len(queue') = 0
  BY <1>1, NoRequests
<1>3. TypeOK'
  BY <1>1, <1>2, QueueCapacityAssumption DEF ModemInv, TypeOK, serviceVars, userVars
<1>4. NumbersInv' /\ RunsInOrder' /\ PermittedInv'
  <2>1. 1..Len(queue') = {} /\ DOMAIN queue' = {}
    BY <1>1, <1>2
  <2>2. QED
    BY <1>1, <2>1 DEF ModemInv, NumbersInv, RunsInOrder, PermittedInv, userVars
<1>5. CallsInv' /\ AnswerIsForCall'
  BY <1>1 DEF ModemInv, CallsInv, AnswerIsForCall, serviceVars, userVars
<1>6. QED
  BY <1>3, <1>4, <1>5 DEF ModemInv

-----------------------------------------------------------------------------
(* Steps of a call.                                                         *)
LEMMA BeginStep == ASSUME ModemInv, NEW u \in User, Begin(u) PROVE ModemInv'
<1>1. /\ call[u] = "none" /\ phase[u] \in Asking
      /\ call' = [call EXCEPT ![u] = "send"] /\ calls' = [calls EXCEPT ![u] = @ + 1]
      /\ UNCHANGED <<serviceVars, worker, job, started, text, cancelled, queue, phase, answer>>
  BY DEF Begin, callFrame, Asking
<1>2. /\ call \in [User -> {"none", "send", "wait"}] /\ calls \in [User -> Nat]
      /\ started \in [User -> Nat] /\ queue \in Seq(Request)
  BY DEF ModemInv, TypeOK
<1>3. \A i \in 1..Len(queue) : queue[i].user \in User /\ queue[i].call \in Nat
  BY <1>2, QueuedRequests
<1>4. \A v \in User : calls'[v] = IF v = u THEN calls[v] + 1 ELSE calls[v]
  BY <1>1, <1>2
<1>5. \A v \in User : call'[v] = IF v = u THEN "send" ELSE call[v]
  BY <1>1, <1>2
<1>6. TypeOK'
  BY <1>1, <1>2 DEF ModemInv, TypeOK, serviceVars
<1>7. CallsInv'
  <2>1. ASSUME NEW v \in User
        PROVE  /\ call'[v] # "none" => phase[v] \in Asking
               /\ started[v] <= calls'[v]
               /\ call'[v] = "send" => started[v] < calls'[v]
    BY <1>1, <1>2, <1>4, <1>5 DEF ModemInv, CallsInv
  <2>2. QED
    BY <1>1, <2>1 DEF ModemInv, CallsInv, serviceVars
<1>8. NumbersInv'
  <2>1. ASSUME NEW i \in 1..Len(queue)
        PROVE  /\ queue[i].call <= calls'[queue[i].user]
               /\ call'[queue[i].user] = "send" => queue[i].call < calls'[queue[i].user]
    BY <1>2, <1>3, <1>4, <1>5 DEF ModemInv, NumbersInv
  <2>2. QED
    BY <1>1, <2>1 DEF NumbersInv
<1>9. AnswerIsForCall'
  BY <1>1, <1>4, <1>5 DEF ModemInv, AnswerIsForCall
<1>10. RunsInOrder' /\ PermittedInv'
  BY <1>1 DEF ModemInv, RunsInOrder, PermittedInv
<1>11. QED
  BY <1>6, <1>7, <1>8, <1>9, <1>10 DEF ModemInv

(* A request joins the queue.                                               *)
LEMMA SendStep == ASSUME ModemInv, NEW u \in User, Send(u) PROVE ModemInv'
<1> DEFINE r == [user |-> u, call |-> calls[u], kind |-> Asked(u)]
<1>1. /\ call[u] = "send" /\ Len(queue) < REQUEST_QUEUE_CAPACITY
      /\ queue' = Append(queue, r) /\ call' = [call EXCEPT ![u] = "wait"]
      /\ UNCHANGED <<serviceVars, worker, job, started, text, cancelled, phase, calls, answer>>
  BY DEF Send, callFrame
<1>2. /\ call \in [User -> {"none", "send", "wait"}] /\ calls \in [User -> Nat]
      /\ started \in [User -> Nat] /\ queue \in Seq(Request) /\ text \in AtCommand
  BY DEF ModemInv, TypeOK
<1>3. phase[u] \in Asking /\ started[u] < calls[u]
  BY <1>1 DEF ModemInv, CallsInv
<1>4. r \in Request
  BY <1>2, <1>3, AskedType DEF Request
<1>5. r.user = u /\ r.call = calls[u] /\ r.kind = Asked(u)
  OBVIOUS
<1> HIDE DEF r
<1>6. /\ queue' \in Seq(Request) /\ Len(queue) \in Nat /\ Len(queue') = Len(queue) + 1
      /\ \A i \in 1..Len(queue) : queue'[i] = queue[i]
      /\ queue'[Len(queue) + 1] = r
  BY <1>1, <1>2, <1>4
<1>7. \A i \in 1..Len(queue) : queue[i].user \in User /\ queue[i].call \in Nat
  BY <1>2, QueuedRequests
<1>8. \A v \in User : call'[v] = IF v = u THEN "wait" ELSE call[v]
  BY <1>1, <1>2
<1>9. 1..Len(queue') = 1..Len(queue) \cup {Len(queue) + 1}
  BY <1>6
<1>10. TypeOK'
  <2>1. Len(queue') <= REQUEST_QUEUE_CAPACITY
    BY <1>1, <1>6, QueueCapacityAssumption
  <2>2. call' \in [User -> {"none", "send", "wait"}]
    BY <1>1, <1>2
  <2>3. QED
    BY <1>1, <1>6, <2>1, <2>2 DEF ModemInv, TypeOK, serviceVars
<1>11. CallsInv' /\ AnswerIsForCall'
  BY <1>1, <1>8 DEF ModemInv, CallsInv, AnswerIsForCall, serviceVars
<1>12. NumbersInv'
  <2>1. ASSUME NEW i \in 1..Len(queue)
        PROVE  /\ queue'[i].call <= calls[queue'[i].user]
               /\ call'[queue'[i].user] = "send" => queue'[i].call < calls[queue'[i].user]
    BY <1>6, <1>7, <1>8 DEF ModemInv, NumbersInv
  <2>2. r.call <= calls[r.user] /\ call'[r.user] # "send"
    BY <1>2, <1>5, <1>8
  <2>3. QED
    BY <1>1, <1>6, <1>9, <2>1, <2>2 DEF NumbersInv
<1>13. RunsInOrder'
  <2>1. ASSUME NEW i \in 1..Len(queue)
        PROVE  /\ queue'[i].call > started[queue'[i].user]
               /\ \A j \in 1..(i - 1) :
                    queue'[j].user = queue'[i].user => queue'[j].call < queue'[i].call
    <3>1. \A j \in 1..(i - 1) : j \in 1..Len(queue)
      BY <1>6
    <3>2. i \in DOMAIN queue
      BY <1>2
    <3>3. QED
      BY <1>6, <3>1, <3>2 DEF ModemInv, RunsInOrder
  <2>2. /\ r.call > started[r.user]
        /\ \A j \in 1..Len(queue) : queue'[j].user = r.user => queue'[j].call < r.call
    BY <1>1, <1>2, <1>3, <1>5, <1>6, <1>7 DEF ModemInv, NumbersInv
  <2>3. DOMAIN queue' = 1..Len(queue')
    BY <1>6
  <2>4. ASSUME NEW i \in DOMAIN queue', i = Len(queue) + 1
        PROVE  1..(i - 1) = 1..Len(queue)
    BY <1>6, <2>4
  <2>5. QED
    BY <1>1, <1>6, <1>9, <2>1, <2>2, <2>3, <2>4 DEF RunsInOrder
<1>14. PermittedInv'
  <2>1. r.user = "handler" => is_allowed_at_command(r.kind)
    BY <1>3, <1>5 DEF ModemInv, PermittedInv, Asked, Asking
  <2>2. QED
    BY <1>1, <1>6, <1>9, <2>1 DEF ModemInv, PermittedInv
<1>15. QED
  BY <1>10, <1>11, <1>12, <1>13, <1>14 DEF ModemInv

(* A call ends, one way or another.                                         *)
LEMMA ReturnStep ==
  ASSUME ModemInv, NEW u \in User, NEW ok \in BOOLEAN, Return(u, ok), call[u] # "none"
  PROVE  ModemInv'
<1>1. /\ call' = [call EXCEPT ![u] = "none"] /\ answer' = [answer EXCEPT ![u] = NoAnswer]
      /\ UNCHANGED <<serviceVars, worker, job, started, text, cancelled, queue, calls>>
  BY DEF Return, callFrame
<1>2. /\ call \in [User -> {"none", "send", "wait"}] /\ calls \in [User -> Nat]
      /\ started \in [User -> Nat] /\ queue \in Seq(Request)
      /\ answer \in [User -> [call : Nat, ok : BOOLEAN]]
      /\ phase \in [User -> {"lookup", "discover", "imsi", "sleep", "query", "idle",
                             "command", "done"}]
  BY DEF ModemInv, TypeOK
<1>3. \A v \in User : call'[v] = IF v = u THEN "none" ELSE call[v]
  BY <1>1, <1>2
<1>4. \A v \in User : answer'[v] = IF v = u THEN NoAnswer ELSE answer[v]
  BY <1>1, <1>2
<1>5. /\ \A v \in User : v # u => phase'[v] = phase[v]
      /\ phase'[u] \in {"imsi", "done", "idle", "sleep"}
      /\ phase[u] = "command" => phase'[u] = "idle"
      /\ phase' \in [User -> {"lookup", "discover", "imsi", "sleep", "query", "idle",
                              "command", "done"}]
  BY <1>2 DEF Return
<1>6. TypeOK'
  <2>1. /\ call' \in [User -> {"none", "send", "wait"}]
        /\ answer' \in [User -> [call : Nat, ok : BOOLEAN]]
    BY <1>1, <1>2 DEF NoAnswer
  <2>2. QED
    BY <1>1, <1>5, <2>1 DEF ModemInv, TypeOK, serviceVars
<1>7. CallsInv'
  BY <1>1, <1>3, <1>5 DEF ModemInv, CallsInv, serviceVars
<1>8. NumbersInv'
  <2>1. \A i \in 1..Len(queue) : queue[i].user \in User
    BY <1>2, QueuedRequests
  <2>2. QED
    BY <1>1, <1>3, <2>1 DEF ModemInv, NumbersInv
<1>9. RunsInOrder'
  BY <1>1 DEF ModemInv, RunsInOrder
<1>10. AnswerIsForCall'
  BY <1>1, <1>3, <1>4 DEF ModemInv, AnswerIsForCall
<1>11. PermittedInv'
  <2>1. u = "handler" => phase[u] = "command"
    BY DEF ModemInv, PermittedInv, CallsInv, Asking
  <2>2. phase'["handler"] = phase["handler"] \/ phase'["handler"] = "idle"
    BY <1>5, <2>1 DEF User
  <2>3. QED
    BY <1>1, <2>2 DEF ModemInv, PermittedInv
<1>12. QED
  BY <1>6, <1>7, <1>8, <1>9, <1>10, <1>11 DEF ModemInv

-----------------------------------------------------------------------------
(* Steps of a user outside a call, and of the processor that drops one.     *)
LEMMA GoStep ==
  ASSUME ModemInv, NEW u \in User, NEW next, Go(u, next), call[u] = "none",
         next \in {"discover", "query", "done", "command"},
         u = "handler" => next = "command" /\ is_allowed_at_command(text'),
         u = "sensor" => text' = text,
         text' \in AtCommand
  PROVE  ModemInv'
<1>1. /\ phase' = [phase EXCEPT ![u] = next]
      /\ UNCHANGED <<serviceVars, workerVars, call, calls, answer, cancelled>>
  BY DEF Go
<1>2. phase \in [User -> {"lookup", "discover", "imsi", "sleep", "query", "idle",
                          "command", "done"}]
  BY DEF ModemInv, TypeOK
<1>3. /\ \A v \in User : phase'[v] = IF v = u THEN next ELSE phase[v]
      /\ phase' \in [User -> {"lookup", "discover", "imsi", "sleep", "query", "idle",
                              "command", "done"}]
  BY <1>1, <1>2
<1>4. TypeOK'
  BY <1>1, <1>3 DEF ModemInv, TypeOK, serviceVars, workerVars
<1>5. CallsInv'
  BY <1>1, <1>3 DEF ModemInv, CallsInv, serviceVars, workerVars
<1>6. NumbersInv' /\ RunsInOrder' /\ AnswerIsForCall'
  BY <1>1 DEF ModemInv, NumbersInv, RunsInOrder, AnswerIsForCall, workerVars
<1>7. PermittedInv'
  <2>1. "handler" \in User /\ u \in {"sensor", "handler"}
    BY DEF User
  <2>2. /\ phase'["handler"] \in {"idle", "command", "done"}
        /\ phase'["handler"] = "command" => is_allowed_at_command(text')
    BY <1>3, <2>1 DEF ModemInv, PermittedInv
  <2>3. QED
    BY <1>1, <2>2 DEF ModemInv, PermittedInv, workerVars
<1>8. QED
  BY <1>4, <1>5, <1>6, <1>7 DEF ModemInv

(* One case per step of the two users.                                      *)
LEMMA UserStep == ASSUME ModemInv, Users PROVE ModemInv'
<1>u. "sensor" \in User /\ "handler" \in User
  BY DEF User
<1>t. text \in AtCommand
  BY DEF ModemInv, TypeOK
<1>c. /\ \A u \in User : phase[u] \notin Asking => call[u] = "none"
      /\ call \in [User -> {"none", "send", "wait"}]
  BY DEF ModemInv, CallsInv, TypeOK
<1>1. CASE SensorStarts \/ SensorPolls \/ SensorCancelled
  <2>1. PICK next \in {"discover", "query", "done"} :
          Go("sensor", next) /\ text' = text
    BY <1>1 DEF SensorStarts, SensorPolls, SensorCancelled
  <2>2. call["sensor"] = "none"
    BY <1>1, <1>u, <1>c DEF SensorStarts, SensorPolls, SensorCancelled, Asking
  <2>3. text' \in AtCommand
    BY <1>t, <2>1
  <2>4. QED
    BY <2>1, <2>2, <2>3, <1>u, GoStep
<1>2. ASSUME NEW cmd \in Commands, HandlerStarts(cmd) PROVE ModemInv'
  <2>1. Go("handler", "command") /\ text' = cmd /\ is_allowed_at_command(cmd)
    BY <1>2 DEF HandlerStarts
  <2>2. call["handler"] = "none"
    BY <1>2, <1>u, <1>c DEF HandlerStarts, Asking
  <2>3. text' \in AtCommand
    BY <2>1, CommandsAssumption
  <2>4. QED
    BY <2>1, <2>2, <2>3, <1>u, GoStep
<1>3. CASE HandlerCancelled
  <2>1. /\ phase' = [phase EXCEPT !["handler"] = "done"]
        /\ call' = [call EXCEPT !["handler"] = "none"]
        /\ answer' = [answer EXCEPT !["handler"] = NoAnswer]
        /\ UNCHANGED <<serviceVars, worker, job, started, text, cancelled, queue, calls>>
    BY <1>3 DEF HandlerCancelled, callFrame
  <2>2. /\ phase \in [User -> {"lookup", "discover", "imsi", "sleep", "query", "idle",
                               "command", "done"}]
        /\ answer \in [User -> [call : Nat, ok : BOOLEAN]] /\ queue \in Seq(Request)
    BY DEF ModemInv, TypeOK
  <2>3. \A v \in User :
          /\ phase'[v] = IF v = "handler" THEN "done" ELSE phase[v]
          /\ call'[v] = IF v = "handler" THEN "none" ELSE call[v]
          /\ answer'[v] = IF v = "handler" THEN NoAnswer ELSE answer[v]
    BY <2>1, <2>2, <1>c
  <2>4. TypeOK'
    <3>1. /\ phase' \in [User -> {"lookup", "discover", "imsi", "sleep", "query", "idle",
                                  "command", "done"}]
          /\ call' \in [User -> {"none", "send", "wait"}]
      BY <2>1, <2>2, <1>c
    <3>2. answer' \in [User -> [call : Nat, ok : BOOLEAN]]
      BY <2>1, <2>2 DEF NoAnswer
    <3>3. QED
      BY <2>1, <3>1, <3>2 DEF ModemInv, TypeOK, serviceVars
  <2>5. CallsInv' /\ AnswerIsForCall'
    BY <2>1, <2>3 DEF ModemInv, CallsInv, AnswerIsForCall, serviceVars
  <2>6. NumbersInv' /\ RunsInOrder'
    <3>1. \A i \in 1..Len(queue) : queue[i].user \in User
      BY <2>2, QueuedRequests
    <3>2. QED
      BY <2>1, <2>3, <3>1 DEF ModemInv, NumbersInv, RunsInOrder
  <2>7. PermittedInv'
    BY <2>1, <2>3, <1>u DEF ModemInv, PermittedInv
  <2>8. QED
    BY <2>4, <2>5, <2>6, <2>7 DEF ModemInv
<1>4. QED
  BY <1>1, <1>2, <1>3 DEF Users

(* Every step preserves the invariant.                                      *)
LEMMA NextModem == ModemInv /\ [Next]_vars => ModemInv'
<1> SUFFICES ASSUME ModemInv, [Next]_vars PROVE ModemInv'
  OBVIOUS
<1>1. CASE Service \/ Cancel
  BY <1>1, ServiceStep, TakeStep, WorkerEnds DEF Service, Discovery
<1>2. CASE Modem
  BY <1>2, AnswerStep DEF Modem
<1>3. CASE Users
  BY <1>3, UserStep
<1>4. ASSUME NEW u \in User, Calls(u) PROVE ModemInv'
  <2>1. CASE Begin(u)
    BY <2>1, BeginStep
  <2>2. CASE SendFails(u) \/ TimedOut(u) \/ ReplyDropped(u)
    <3>1. Return(u, FALSE) /\ call[u] # "none"
      BY <2>2 DEF SendFails, TimedOut, ReplyDropped
    <3>2. QED
      BY <3>1, ReturnStep
  <2>3. CASE Receive(u)
    <3>1. Return(u, answer[u].ok) /\ call[u] # "none" /\ answer[u].ok \in BOOLEAN
      BY <2>3 DEF Receive, ModemInv, TypeOK
    <3>2. QED
      BY <3>1, ReturnStep
  <2>4. QED
    BY <1>4, <2>1, <2>2, <2>3 DEF Calls
<1>5. ASSUME NEW u \in User, Send(u) PROVE ModemInv'
  BY <1>5, SendStep
<1>6. CASE UNCHANGED vars
  BY <1>6
  DEF vars, serviceVars, workerVars, userVars, ModemInv, TypeOK, CallsInv, NumbersInv,
      RunsInOrder, AnswerIsForCall, PermittedInv
<1>7. QED
  BY <1>1, <1>2, <1>3, <1>4, <1>5, <1>6 DEF Next

(* The invariant holds in every reachable state.                            *)
LEMMA ModemInvariant == Spec => []ModemInv
BY InitModem, NextModem, PTL DEF Spec

-----------------------------------------------------------------------------
(* Queue, calls and replies are well typed; no queue exceeds its capacity.  *)
THEOREM ModemTypeCorrect == Spec => []TypeOK
<1>1. ModemInv => TypeOK
  BY DEF ModemInv
<1>2. QED
  BY <1>1, ModemInvariant, PTL

(* Whatever times out and however late the modem answers, a reply is taken  *)
(* for no other call than the one that asked (mod.rs:322-345).              *)
THEOREM AnswersReachTheirCall == Spec => []AnswerIsForCall
<1>1. ModemInv => AnswerIsForCall
  BY DEF ModemInv
<1>2. QED
  BY <1>1, ModemInvariant, PTL

(* The worker runs the requests of each user in the order of its calls and  *)
(* none twice (mod.rs:180), those that were given up included.              *)
THEOREM AlwaysRunsInOrder == Spec => []RunsInOrder
<1>1. ModemInv => RunsInOrder
  BY DEF ModemInv
<1>2. QED
  BY <1>1, ModemInvariant, PTL

(* Whatever operators send, the modem runs for them only forms that ask of  *)
(* the commands that can also set (modem_commands.rs:28).                   *)
THEOREM OperatorsOnlyAsk == Spec => []OnlyQueries
<1>1. SAFE_AT_PREFIXES \cap QUERY_ONLY_AT_PREFIXES = {}
  BY DEF SAFE_AT_PREFIXES, QUERY_ONLY_AT_PREFIXES
<1>2. ModemInv => OnlyQueries
  BY <1>1 DEF ModemInv, PermittedInv, OnlyQueries, is_allowed_at_command
<1>3. QED
  BY <1>2, ModemInvariant, PTL

-----------------------------------------------------------------------------
(* Waiting.                                                                 *)

(* Who waits to queue a request waits for a worker that was started, and    *)
(* who waits for a reply has it, or its request is still queued or running, *)
(* or the worker ended and the reply channel with it (mod.rs:331-345).      *)
ReplyUnderWay ==
  \A u \in User :
    /\ call[u] # "none" => worker # "off"
    /\ call[u] = "wait" => answer[u] # NoAnswer \/ Pending(u) \/ worker = "gone"

(* The worker is started before the service can be found in Context, and a  *)
(* user calls only what it found; the calls are numbered from one.          *)
WorkerInv ==
  /\ service = "set" <=> worker # "off"
  /\ \A u \in User : phase[u] \in Asking \cup {"sleep"} => service = "set"
  /\ \A u \in User : call[u] # "none" => calls[u] > 0

WaitingInv == WorkerInv /\ ReplyUnderWay

LEMMA WaitingInit == Init => WaitingInv
BY DEF Init, WaitingInv, WorkerInv, ReplyUnderWay, Asking, User

(* A step that moves neither queue nor worker and starts no call takes      *)
(* nothing from those who wait.                                             *)
LEMMA WaitingKept ==
  ASSUME ModemInv, WaitingInv, UNCHANGED <<worker, queue, job, calls>>,
         \A u \in User : call'[u] = "none" \/ (call'[u] = call[u] /\ answer'[u] = answer[u])
  PROVE  ReplyUnderWay'
<1>1. \A u \in User : Pending(u) => Pending(u)'
  BY DEF Pending
<1> QED
  BY <1>1 DEF WaitingInv, ReplyUnderWay

(* What the service does before there is a worker.                          *)
LEMMA WaitingService ==
  ASSUME ModemInv, WaitingInv,
         start \/ discover_all \/ Discovered \/ NotSuitable \/ Retry \/ DiscoveryCancelled
  PROVE  WaitingInv'
<1>1. /\ service # "set" /\ worker = "off" /\ UNCHANGED <<phase, call, calls, answer>>
      /\ service' = "set" <=> worker' # "off"
  BY DEF start, discover_all, Discovered, NotSuitable, Retry, DiscoveryCancelled,
         WaitingInv, WorkerInv, userVars, workerVars
<1>2. \A u \in User : call[u] = "none" /\ phase[u] \notin Asking \cup {"sleep"}
  BY <1>1 DEF WaitingInv, WorkerInv, ReplyUnderWay, ModemInv, CallsInv
<1> QED
  BY <1>1, <1>2 DEF WaitingInv, WorkerInv, ReplyUnderWay

(* The worker takes a request, and whoever waits for it still does.         *)
LEMMA WaitingTake == ASSUME ModemInv, WaitingInv, Take PROVE WaitingInv'
<1>1. /\ worker = "recv" /\ worker' = "busy" /\ queue # <<>> /\ job' = Head(queue)
      /\ queue' = Tail(queue) /\ UNCHANGED <<service, phase, call, calls, answer>>
  BY DEF Take, serviceVars, userVars
<1>2. queue \in Seq(Request)
  BY DEF ModemInv, TypeOK
<1>3. /\ Len(queue) \in Nat /\ Len(queue') = Len(queue) - 1 /\ Head(queue) = queue[1]
      /\ \A i \in 1..Len(queue') : queue'[i] = queue[i + 1]
  BY <1>1, <1>2, HeadTailProperties
<1>4. ASSUME NEW u \in User, NEW i \in 1..Len(queue), queue[i].user = u,
             queue[i].call = calls[u]
      PROVE  Pending(u)'
  <2>1. CASE i = 1
    BY <1>1, <1>3, <1>4, <2>1 DEF Pending
  <2>2. CASE i # 1
    <3>1. i - 1 \in 1..Len(queue') /\ queue'[i - 1] = queue[i]
      BY <1>3, <2>2
    <3> QED
      BY <1>1, <1>4, <3>1 DEF Pending
  <2> QED
    BY <2>1, <2>2
<1>5. \A u \in User : Pending(u) => Pending(u)'
  BY <1>1, <1>4 DEF Pending
<1>6. ReplyUnderWay'
  BY <1>1, <1>5 DEF WaitingInv, ReplyUnderWay
<1> QED
  BY <1>1, <1>6 DEF WaitingInv, WorkerInv

(* The reply goes to the call that waits for it; any other one still waits  *)
(* for a request in the queue.                                              *)
LEMMA WaitingAnswer ==
  ASSUME ModemInv, WaitingInv, NEW ok \in BOOLEAN, Answer(ok)
  PROVE  WaitingInv'
<1>1. /\ worker = "busy" /\ worker' = "recv"
      /\ UNCHANGED <<service, queue, phase, call, calls>>
      /\ answer' = IF call[job.user] = "wait" /\ calls[job.user] = job.call
                   THEN [answer EXCEPT ![job.user] = [call |-> job.call, ok |-> ok]]
                   ELSE answer
  BY DEF Answer, serviceVars
<1>2. /\ job.user \in User /\ answer \in [User -> [call : Nat, ok : BOOLEAN]]
      /\ calls \in [User -> Nat]
  BY DEF ModemInv, TypeOK, Request
<1>3. ASSUME NEW u \in User, call[u] = "wait"
      PROVE  answer'[u] # NoAnswer \/ Pending(u)'
  <2>1. CASE job.user = u /\ job.call = calls[u]
    <3>1. answer'[u] = [call |-> job.call, ok |-> ok] /\ job.call > 0
      BY <1>1, <1>2, <1>3, <2>1 DEF WaitingInv, WorkerInv
    <3>2. answer'[u].call # NoAnswer.call
      BY <1>2, <2>1, <3>1 DEF NoAnswer
    <3> QED
      BY <3>2
  <2>2. CASE ~(job.user = u /\ job.call = calls[u])
    <3>1. answer'[u] = answer[u]
      BY <1>1, <1>2, <2>2
    <3>2. Pending(u) => Pending(u)'
      BY <1>1, <2>2 DEF Pending
    <3> QED
      BY <1>1, <1>3, <3>1, <3>2 DEF WaitingInv, ReplyUnderWay
  <2> QED
    BY <2>1, <2>2
<1>4. ReplyUnderWay'
  BY <1>1, <1>3 DEF ReplyUnderWay
<1> QED
  BY <1>1, <1>4 DEF WaitingInv, WorkerInv

(* A call begins, and its request is queued.                                *)
LEMMA WaitingBegin == ASSUME ModemInv, WaitingInv, NEW v \in User, Begin(v) PROVE WaitingInv'
<1>1. /\ call' = [call EXCEPT ![v] = "send"] /\ calls' = [calls EXCEPT ![v] = @ + 1]
      /\ phase[v] \in Asking
      /\ UNCHANGED <<service, worker, job, queue, phase, answer>>
  BY DEF Begin, callFrame, serviceVars, Asking
<1>2. call \in [User -> {"none", "send", "wait"}] /\ calls \in [User -> Nat]
  BY DEF ModemInv, TypeOK
<1>3. /\ call'[v] = "send" /\ calls'[v] > 0
      /\ \A u \in User : u # v => call'[u] = call[u] /\ calls'[u] = calls[u]
  BY <1>1, <1>2
<1>4. \A u \in User : u # v /\ Pending(u) => Pending(u)'
  BY <1>1, <1>3 DEF Pending
<1>5. worker # "off"
  BY <1>1 DEF WaitingInv, WorkerInv
<1>6. ReplyUnderWay'
  BY <1>1, <1>3, <1>4, <1>5 DEF WaitingInv, ReplyUnderWay
<1> QED
  BY <1>1, <1>3, <1>6 DEF WaitingInv, WorkerInv

LEMMA WaitingSend == ASSUME ModemInv, WaitingInv, NEW v \in User, Send(v) PROVE WaitingInv'
<1> DEFINE r == [user |-> v, call |-> calls[v], kind |-> Asked(v)]
<1>1. /\ call[v] = "send" /\ call' = [call EXCEPT ![v] = "wait"]
      /\ queue' = Append(queue, r)
      /\ UNCHANGED <<service, worker, job, phase, calls, answer>>
  BY DEF Send, callFrame, serviceVars
<1>2. /\ call \in [User -> {"none", "send", "wait"}] /\ queue \in Seq(Request)
      /\ text \in AtCommand /\ calls \in [User -> Nat]
  BY DEF ModemInv, TypeOK
<1>3. r.user = v /\ r.call = calls[v]
  OBVIOUS
<1>4. r \in Request
  BY <1>1, <1>2, AskedType DEF ModemInv, CallsInv, Request
<1> HIDE DEF r
<1>5. /\ Len(queue) \in Nat /\ Len(queue') = Len(queue) + 1 /\ queue'[Len(queue) + 1] = r
      /\ \A i \in 1..Len(queue) : queue'[i] = queue[i]
  BY <1>1, <1>2, <1>4
<1>6. Len(queue) + 1 \in 1..Len(queue') /\ \A i \in 1..Len(queue) : i \in 1..Len(queue')
  BY <1>5
<1>7. Pending(v)'
  BY <1>1, <1>3, <1>5, <1>6 DEF Pending
<1>8. \A u \in User : Pending(u) => Pending(u)'
  BY <1>1, <1>5, <1>6 DEF Pending
<1>9. \A u \in User : u # v => call'[u] = call[u]
  BY <1>1, <1>2
<1>10. ReplyUnderWay'
  BY <1>1, <1>7, <1>8, <1>9 DEF WaitingInv, ReplyUnderWay
<1>11. \A u \in User : call'[u] # "none" => call[u] # "none"
  BY <1>1, <1>9
<1> QED
  BY <1>1, <1>10, <1>11 DEF WaitingInv, WorkerInv

(* The other steps of the users.                                            *)
LEMMA WaitingUsers ==
  ASSUME ModemInv, WaitingInv,
         \/ Users \/ Cancel
         \/ \E u \in User : SendFails(u) \/ Receive(u) \/ TimedOut(u) \/ ReplyDropped(u)
  PROVE  WaitingInv'
<1>t. /\ call \in [User -> {"none", "send", "wait"}]
      /\ answer \in [User -> [call : Nat, ok : BOOLEAN]]
      /\ phase \in [User -> {"lookup", "discover", "imsi", "sleep", "query", "idle",
                             "command", "done"}]
      /\ "handler" \in User /\ "sensor" \in User
  BY DEF ModemInv, TypeOK, User
<1>1. ASSUME NEW v \in User, NEW next, Go(v, next),
             next \in Asking \cup {"sleep"} => service = "set"
      PROVE  WaitingInv'
  <2>1. /\ phase' = [phase EXCEPT ![v] = next]
        /\ UNCHANGED <<service, worker, queue, job, call, calls, answer>>
    BY <1>1 DEF Go, serviceVars, workerVars
  <2>2. ReplyUnderWay'
    BY <2>1, WaitingKept
  <2>3. \A u \in User : phase'[u] = phase[u] \/ phase'[u] = next
    BY <1>t, <2>1
  <2> QED
    BY <1>1, <2>1, <2>2, <2>3 DEF WaitingInv, WorkerInv
<1>2. CASE SensorStarts \/ SensorPolls \/ SensorCancelled
           \/ \E cmd \in Commands : HandlerStarts(cmd)
  <2>1. SensorPolls => service = "set"
    BY <1>t DEF SensorPolls, WaitingInv, WorkerInv
  <2>2. \/ Go("sensor", "discover") /\ service = "set"
        \/ Go("sensor", "query") /\ service = "set"
        \/ Go("sensor", "done")
        \/ Go("handler", "command") /\ service = "set"
    BY <1>2, <2>1 DEF SensorStarts, SensorPolls, SensorCancelled, HandlerStarts
  <2>3. "done" \notin Asking \cup {"sleep"}
    BY DEF Asking
  <2> QED
    BY <1>1, <1>t, <2>2, <2>3
<1>3. ASSUME NEW v \in User,
             call' = [call EXCEPT ![v] = "none"], answer' = [answer EXCEPT ![v] = NoAnswer],
             UNCHANGED <<service, worker, queue, job, calls>>,
             \A u \in User : phase'[u] \in Asking \cup {"sleep"} => service = "set"
      PROVE  WaitingInv'
  <2>1. \A u \in User : \/ call'[u] = "none"
                        \/ call'[u] = call[u] /\ answer'[u] = answer[u]
    BY <1>3, <1>t
  <2>2. ReplyUnderWay'
    BY <1>3, <2>1, WaitingKept
  <2> QED
    BY <1>3, <2>1, <2>2 DEF WaitingInv, WorkerInv
<1>4. CASE HandlerCancelled
  <2>1. /\ call' = [call EXCEPT !["handler"] = "none"]
        /\ answer' = [answer EXCEPT !["handler"] = NoAnswer]
        /\ phase' = [phase EXCEPT !["handler"] = "done"]
        /\ UNCHANGED <<service, worker, queue, job, calls>>
    BY <1>4 DEF HandlerCancelled, callFrame, serviceVars
  <2>2. \A u \in User : phase'[u] \in Asking \cup {"sleep"} => service = "set"
    BY <1>t, <2>1 DEF WaitingInv, WorkerInv, Asking
  <2> QED
    BY <1>3, <1>t, <2>1, <2>2
<1>5. ASSUME NEW v \in User, SendFails(v) \/ Receive(v) \/ TimedOut(v) \/ ReplyDropped(v)
      PROVE  WaitingInv'
  <2>1. PICK ok : Return(v, ok) /\ call[v] # "none"
    BY <1>5 DEF SendFails, Receive, TimedOut, ReplyDropped
  <2>2. /\ call' = [call EXCEPT ![v] = "none"] /\ answer' = [answer EXCEPT ![v] = NoAnswer]
        /\ UNCHANGED <<service, worker, queue, job, calls>>
        /\ \A u \in User : u # v => phase'[u] = phase[u]
    BY <1>t, <2>1 DEF Return, callFrame, serviceVars
  <2>3. service = "set"
    BY <2>1 DEF WaitingInv, WorkerInv, ModemInv, CallsInv
  <2> QED
    BY <1>3, <2>2, <2>3
<1>6. CASE Cancel
  <2>1. UNCHANGED <<service, worker, queue, job, phase, call, calls, answer>>
    BY <1>6 DEF Cancel, serviceVars, workerVars, userVars
  <2>2. ReplyUnderWay'
    BY <2>1, WaitingKept
  <2> QED
    BY <2>1, <2>2 DEF WaitingInv, WorkerInv
<1> QED
  BY <1>2, <1>4, <1>5, <1>6 DEF Users

(* Every step preserves the invariant.                                      *)
LEMMA WaitingNext == ModemInv /\ WaitingInv /\ [Next]_vars => WaitingInv'
<1> SUFFICES ASSUME ModemInv, WaitingInv, [Next]_vars PROVE WaitingInv'
  OBVIOUS
<1>1. CASE WorkerCancelled
  <2>1. worker # "off" /\ worker' = "gone" /\ UNCHANGED <<service, phase, call, calls>>
    BY <1>1 DEF WorkerCancelled, serviceVars, userVars
  <2> QED
    BY <2>1 DEF WaitingInv, WorkerInv, ReplyUnderWay
<1>2. CASE UNCHANGED vars
  <2>1. UNCHANGED <<service, worker, queue, job, phase, call, calls, answer>>
    BY <1>2 DEF vars, serviceVars, workerVars, userVars
  <2>2. ReplyUnderWay'
    BY <2>1, WaitingKept
  <2> QED
    BY <2>1, <2>2 DEF WaitingInv, WorkerInv
<1> QED
  BY <1>1, <1>2, WaitingService, WaitingTake, WaitingAnswer, WaitingBegin, WaitingSend,
     WaitingUsers
  DEF Next, Service, Discovery, Modem, Calls

(* The safety behind CallReturns, for any number of calls, timeouts and     *)
(* late replies: no reply is lost on its way, and nobody queues a request   *)
(* before there is a worker (mod.rs:331-345).                               *)
THEOREM RepliesNeverLost == Spec => []ReplyUnderWay
<1>1. WaitingInv => ReplyUnderWay
  BY DEF WaitingInv
<1> QED
  BY <1>1, WaitingInit, WaitingNext, ModemInvariant, PTL DEF Spec
=============================================================================
