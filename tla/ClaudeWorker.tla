---------------------------- MODULE ClaudeWorker ----------------------------
(***************************************************************************)
(* A Claude agent below its provider task: run_claude (runtime.rs), the    *)
(* Python worker it talks to over two pipes (worker.py), and the Claude    *)
(* SDK session the worker holds, which is external.                        *)
(*                                                                         *)
(* Each side keeps its own account of the turn.  The task takes the first  *)
(* result it reads for the turn's end and reads on only while it believes  *)
(* a turn is active.  The worker counts a response for the prompt and one  *)
(* more for every steering message, and takes as many results.  Callbacks  *)
(* have a deadline on either side.                                         *)
(***************************************************************************)
EXTENDS Naturals, Sequences, FiniteSets

CONSTANTS
  Callbacks,  \* the human requests the SDK may make
  MaxCalls,   \* bound: prompts, steering messages and interrupts
  MaxFaults,  \* bound: deaths of the SDK and messages it cannot encode
  NoCallback  \* the callback of a frame that is about none

ASSUME WorkerAssumption ==
  /\ IsFiniteSet(Callbacks)
  /\ NoCallback \notin Callbacks
  /\ MaxCalls \in Nat
  /\ MaxFaults \in Nat

VARIABLES
  task,        \* run_claude: its locals, and the call it awaits
  toWorker,    \* the worker's standard input
  fromWorker,  \* the worker's standard output
  worker,      \* Worker, for its one session
  sdk,         \* the session of the SDK
  asked,       \* what has become of each callback, for the SDK
  calls,       \* prompts, steering messages and interrupts so far
  faults,      \* faults of the SDK so far
  verdict,     \* history: the task's first answer to each callback
  steered,     \* history: has a steering message been accepted?
  dropped      \* history: has a failed call lost a turn's end?

vars == <<task, toWorker, fromWorker, worker, sdk, asked, calls, faults,
          verdict, steered, dropped>>

history == <<verdict, steered, dropped>>

(***************************************************************************)
(* Values                                                                  *)
(***************************************************************************)

Calls == {"prompt", "steer", "interrupt"}

Frame(op)          == [op |-> op, callback |-> NoCallback]
AboutCallback(op, c) == [op |-> op, callback |-> c]

ToFrames ==
  [op : Calls \cup {"shutdown"}, callback : {NoCallback}]
    \cup [op : {"allow", "deny"}, callback : Callbacks]

Replies == [op : {"ok", "error"}, callback : {NoCallback}]

Inbound ==
  [op : {"result", "failed"}, callback : {NoCallback}]
    \cup [op : {"callback"}, callback : Callbacks]

TaskRecords ==
  [pc : {"loop", "closing", "gone"}, active : BOOLEAN,
   pending : SUBSET Callbacks,
   call : Calls \cup {"none", "shutdown"}, collected : Seq(Inbound)]

(* request is the one a dispatched task serves; atSdk, that it holds the   *)
(* session's lock and awaits the SDK.  A turn task is "waiting" or         *)
(* "failing" when it has a result or an exception and wants the lock.      *)
WorkerRecords ==
  [request : Calls \cup {"none"}, atSdk : BOOLEAN,
   turn : {"none", "reading", "waiting", "failing"}, responses : Nat,
   finishing : BOOLEAN, futures : SUBSET Callbacks, closed : BOOLEAN]

SdkRecords ==
  [alive : BOOLEAN, unanswered : Nat, left : Nat, interrupted : BOOLEAN]

FreshSdk == [alive |-> TRUE, unanswered |-> 0, left |-> 0, interrupted |-> FALSE]
DeadSdk  == [FreshSdk EXCEPT !.alive = FALSE]

Waiting == {c \in Callbacks : asked[c] = "waiting"}

Init ==
  /\ task = [pc |-> "loop", active |-> FALSE, pending |-> {},
             call |-> "none", collected |-> <<>>]
  /\ toWorker = <<>>
  /\ fromWorker = <<>>
  /\ worker = [request |-> "none", atSdk |-> FALSE, turn |-> "none",
               responses |-> 0, finishing |-> FALSE, futures |-> {},
               closed |-> FALSE]
  /\ sdk = FreshSdk
  /\ asked = [c \in Callbacks |-> "unasked"]
  /\ calls = 0
  /\ faults = 0
  /\ verdict = [c \in Callbacks |-> "none"]
  /\ steered = FALSE
  /\ dropped = FALSE

(***************************************************************************)
(* The task: run_claude                                                    *)
(***************************************************************************)

(* terminal in publish_worker_event                                        *)
Ends(m) == m.op \in {"result", "failed"}

Selecting == task.pc = "loop" /\ task.call = "none"

(* ClaudeWorker::request writes its frame and reads until the reply.       *)
StartCall(op) ==
  /\ Selecting
  /\ calls < MaxCalls
  /\ calls' = calls + 1
  /\ toWorker' = Append(toWorker, Frame(op))
  /\ UNCHANGED <<fromWorker, worker, sdk, asked, faults, history>>

TaskPrompts ==
  /\ ~task.active
  /\ StartCall("prompt")
  /\ task' = [task EXCEPT !.call = "prompt"]

TaskSteers ==
  /\ task.active
  /\ StartCall("steer")
  /\ task' = [task EXCEPT !.call = "steer"]

(* The callbacks of S in some order: they are kept in a hash map.           *)
Orders(S) ==
  {o \in [1 .. Cardinality(S) -> S] : \A c \in S : \E i \in DOMAIN o : o[i] = c}

Denials(order) == [i \in DOMAIN order |-> AboutCallback("deny", order[i])]

FirstAnswer(S, answer) ==
  [c \in Callbacks |-> IF c \in S /\ verdict[c] = "none" THEN answer ELSE verdict[c]]

(* deny_all_worker_requests, then the call.  Without a turn the task       *)
(* answers the interrupt itself.                                           *)
TaskInterrupts ==
  /\ Selecting
  /\ calls < MaxCalls
  /\ calls' = calls + 1
  /\ \E order \in Orders(task.pending) :
       toWorker' = toWorker \o Denials(order)
                     \o (IF task.active THEN <<Frame("interrupt")>> ELSE <<>>)
  /\ verdict' = FirstAnswer(task.pending, "deny")
  /\ task' = [task EXCEPT !.pending = {},
                          !.call = IF task.active THEN "interrupt" ELSE "none"]
  /\ UNCHANGED <<fromWorker, worker, sdk, asked, faults, steered, dropped>>

(* respond_worker_approval and respond_worker_question                     *)
TaskAnswers(c, answer) ==
  /\ Selecting
  /\ c \in task.pending
  /\ toWorker' = Append(toWorker, AboutCallback(answer, c))
  /\ verdict' = FirstAnswer({c}, answer)
  /\ task' = [task EXCEPT !.pending = @ \ {c}]
  /\ UNCHANGED <<fromWorker, worker, sdk, asked, calls, faults, steered, dropped>>

(* expire_worker_requests, or deny_all_worker_requests when the client     *)
(* disconnects (then S is all of them).                                    *)
TaskDenies(S) ==
  /\ Selecting
  /\ S # {}
  /\ S \subseteq task.pending
  /\ \E order \in Orders(S) : toWorker' = toWorker \o Denials(order)
  /\ verdict' = FirstAnswer(S, "deny")
  /\ task' = [task EXCEPT !.pending = @ \ S]
  /\ UNCHANGED <<fromWorker, worker, sdk, asked, calls, faults, steered, dropped>>

(* Shutdown: deny, leave the loop, and ask the worker to shut down.        *)
TaskShutsDown ==
  /\ Selecting
  /\ \E order \in Orders(task.pending) :
       toWorker' = Append(toWorker \o Denials(order), Frame("shutdown"))
  /\ verdict' = FirstAnswer(task.pending, "deny")
  /\ task' = [task EXCEPT !.pc = "closing", !.pending = {}, !.call = "shutdown"]
  /\ UNCHANGED <<fromWorker, worker, sdk, asked, calls, faults, steered, dropped>>

(* publish_worker_inbound                                                  *)
Published(t, inbound, active) ==
  [t EXCEPT !.pending = @ \cup {inbound[i].callback : i \in
                                  {j \in DOMAIN inbound : inbound[j].op = "callback"}},
            !.active = active /\ ~\E i \in DOMAIN inbound : Ends(inbound[i])]

TaskReads ==
  /\ Selecting
  /\ task.active
  /\ fromWorker # <<>>
  /\ task' = Published(task, <<Head(fromWorker)>>, TRUE)
  /\ fromWorker' = Tail(fromWorker)
  /\ UNCHANGED <<toWorker, worker, sdk, asked, calls, faults, history>>

(* ClaudeWorker::request collects what is not its reply.                   *)
TaskCollects ==
  /\ task.call # "none"
  /\ fromWorker # <<>>
  /\ Head(fromWorker).op \notin {"ok", "error"}
  /\ task' = [task EXCEPT !.collected = Append(@, Head(fromWorker))]
  /\ fromWorker' = Tail(fromWorker)
  /\ UNCHANGED <<toWorker, worker, sdk, asked, calls, faults, history>>

(* The Ok arms: the turn's end may be among what was collected.            *)
CallSucceeds ==
  /\ fromWorker # <<>>
  /\ Head(fromWorker).op = "ok"
  /\ task.call # "none"
  /\ LET t == [task EXCEPT !.call = "none", !.collected = <<>>]
     IN  task' = IF task.call = "shutdown"
                   THEN [t EXCEPT !.pc = "gone"]
                   ELSE Published(t, task.collected,
                                  task.call = "prompt" \/ task.active)
  /\ fromWorker' = Tail(fromWorker)
  /\ UNCHANGED <<toWorker, worker, sdk, asked, calls, faults, history>>

(* The Err arms: the error replaces the outcome and what it collected.     *)
CallFails ==
  /\ fromWorker # <<>>
  /\ Head(fromWorker).op = "error"
  /\ task' = [task EXCEPT !.call = "none", !.collected = <<>>]
  /\ dropped' = (dropped \/ (task.active /\ \E i \in DOMAIN task.collected :
                                              Ends(task.collected[i])))
  /\ fromWorker' = Tail(fromWorker)
  /\ UNCHANGED <<toWorker, worker, sdk, asked, calls, faults, verdict, steered>>

TaskStep == TaskCollects \/ CallSucceeds \/ CallFails \/ TaskReads

(***************************************************************************)
(* The worker: requests                                                    *)
(***************************************************************************)

(* _active_turn                                                            *)
ActiveTurn == worker.turn # "none" /\ worker.responses > 0

(* accept: a task of its own for each request, behind the session's lock.  *)
WorkerAccepts ==
  /\ ~worker.closed
  /\ worker.request = "none"
  /\ toWorker # <<>>
  /\ Head(toWorker).op \in Calls
  /\ worker' = [worker EXCEPT !.request = Head(toWorker).op]
  /\ toWorker' = Tail(toWorker)
  /\ UNCHANGED <<task, fromWorker, sdk, asked, calls, faults, history>>

(* Mutant: the turn holds the lock until it ends.                          *)
MayStartBetweenTurns(op) ==
  /\ worker.request = op
  /\ ~worker.atSdk
  /\ worker.turn = "none"

(* The lock is first come, first served: a turn task that waits for it     *)
(* came first, since it acts as soon as the lock is free.                  *)
MayStart(op) ==
  /\ worker.request = op
  /\ ~worker.atSdk
  /\ worker.turn \notin {"waiting", "failing"}

Answer(op) == fromWorker' = Append(fromWorker, Frame(op))

(* A query or an interrupt is handed to the SDK, which may be dead.        *)
SdkQueried(s) == [s EXCEPT !.unanswered = @ + 1]

(* A closed client answers no callback of its own with a permission.       *)
Cancelled == [c \in Callbacks |-> IF c \in Waiting THEN "denied" ELSE asked[c]]

(* _prompt: a changed effort closes the session and resumes it in a new    *)
(* client; when that fails the closed client stays in the table.           *)
PromptStarts ==
  /\ MayStart("prompt")
  /\ ~ActiveTurn
  /\ \/ /\ sdk.alive
        /\ sdk' = SdkQueried(sdk)
        /\ worker' = [worker EXCEPT !.atSdk = TRUE]
        /\ UNCHANGED asked
     \/ /\ sdk' = SdkQueried(FreshSdk)
        /\ worker' = [worker EXCEPT !.atSdk = TRUE, !.futures = {}]
        /\ asked' = Cancelled
  /\ UNCHANGED <<task, toWorker, fromWorker, calls, faults, history>>

ReopenFails ==
  /\ MayStart("prompt")
  /\ ~ActiveTurn
  /\ faults < MaxFaults
  /\ faults' = faults + 1
  /\ sdk' = DeadSdk
  /\ worker' = [worker EXCEPT !.request = "none", !.futures = {}]
  /\ asked' = Cancelled
  /\ Answer("error")
  /\ UNCHANGED <<task, toWorker, calls, history>>

SteerStarts ==
  /\ MayStart("steer")
  /\ ActiveTurn
  /\ sdk.alive
  /\ sdk' = SdkQueried(sdk)
  /\ worker' = [worker EXCEPT !.atSdk = TRUE]
  /\ UNCHANGED <<task, toWorker, fromWorker, asked, calls, faults, history>>

InterruptStarts ==
  /\ MayStart("interrupt")
  /\ ActiveTurn
  /\ sdk.alive
  /\ sdk' = [sdk EXCEPT !.interrupted = TRUE]
  /\ worker' = [worker EXCEPT !.atSdk = TRUE]
  /\ UNCHANGED <<task, toWorker, fromWorker, asked, calls, faults, history>>

(* -32042, -32043, or an exception of a dead client.                       *)
RequestRefused ==
  /\ \/ MayStart("prompt") /\ (ActiveTurn \/ ~sdk.alive)
     \/ MayStart("steer") /\ ~(ActiveTurn /\ sdk.alive)
     \/ MayStart("interrupt") /\ ActiveTurn /\ ~sdk.alive
  /\ worker' = [worker EXCEPT !.request = "none"]
  /\ Answer("error")
  /\ UNCHANGED <<task, toWorker, sdk, asked, calls, faults, history>>

(* {"interrupted": false} is no error.                                     *)
NothingToInterrupt ==
  /\ MayStart("interrupt")
  /\ ~ActiveTurn
  /\ worker' = [worker EXCEPT !.request = "none"]
  /\ Answer("ok")
  /\ UNCHANGED <<task, toWorker, sdk, asked, calls, faults, history>>

(* Mutant: a steering message owes no response.                            *)
CountedOnce(w) ==
  CASE w.request = "prompt" -> [w EXCEPT !.responses = 1, !.turn = "reading"]
    [] OTHER -> w

(* The rest of _prompt and _steer once the SDK has the message.            *)
Counted(w) ==
  CASE w.request = "prompt"    -> [w EXCEPT !.responses = 1, !.turn = "reading"]
    [] w.request = "steer"     -> [w EXCEPT !.responses = @ + 1]
    [] w.request = "interrupt" -> w

RequestDone ==
  /\ worker.atSdk
  /\ sdk.alive
  /\ worker' = [Counted(worker) EXCEPT !.request = "none", !.atSdk = FALSE]
  /\ steered' = (steered \/ worker.request = "steer")
  /\ Answer("ok")
  /\ UNCHANGED <<task, toWorker, sdk, asked, calls, faults, verdict, dropped>>

(* The SDK has died under the request.                                     *)
RequestRaises ==
  /\ worker.atSdk
  /\ ~sdk.alive
  /\ worker' = [worker EXCEPT !.request = "none", !.atSdk = FALSE]
  /\ Answer("error")
  /\ UNCHANGED <<task, toWorker, sdk, asked, calls, faults, history>>

(***************************************************************************)
(* The worker: turns                                                       *)
(***************************************************************************)

(* receive_turn emits a result and returns.  A result comes when nobody    *)
(* is asked anything, or after an interrupt.                               *)
ResultArrives ==
  /\ worker.turn = "reading"
  /\ sdk.alive
  /\ sdk.unanswered > 0
  /\ Waiting = {} \/ sdk.interrupted
  /\ sdk' = [sdk EXCEPT !.unanswered = @ - 1, !.interrupted = FALSE]
  /\ worker' = [worker EXCEPT !.turn = "waiting"]
  /\ Answer("result")
  /\ UNCHANGED <<task, toWorker, asked, calls, faults, history>>

(* Mutant: one response too many is awaited.                               *)
AwaitsOneMore(w) ==
  IF w.responses = 0
    THEN [w EXCEPT !.turn = "none", !.finishing = TRUE]
    ELSE [w EXCEPT !.turn = "reading", !.responses = @ - 1]

(* _receive_turn under the lock: the last response ends the turn.          *)
TakesResponse(w) ==
  IF w.responses <= 1
    THEN [w EXCEPT !.turn = "none", !.responses = 0, !.finishing = TRUE]
    ELSE [w EXCEPT !.turn = "reading", !.responses = @ - 1]

ResponseTaken ==
  /\ worker.turn = "waiting"
  /\ ~worker.atSdk
  /\ worker' = TakesResponse(worker)
  /\ UNCHANGED <<task, toWorker, fromWorker, sdk, asked, calls, faults, history>>

(* receive_turn raises: the SDK is dead, or a message of a live one cannot *)
(* be encoded.                                                             *)
TurnRaises ==
  /\ worker.turn = "reading"
  /\ \/ ~sdk.alive /\ UNCHANGED faults
     \/ sdk.alive /\ faults < MaxFaults /\ faults' = faults + 1
  /\ worker' = [worker EXCEPT !.turn = "failing"]
  /\ UNCHANGED <<task, toWorker, fromWorker, sdk, asked, calls, history>>

(* Mutant: the failed receive loop says nothing.                           *)
FailSilently ==
  /\ worker.turn = "failing"
  /\ ~worker.atSdk
  /\ worker' = [worker EXCEPT !.turn = "none", !.responses = 0, !.finishing = TRUE]
  /\ sdk' = [sdk EXCEPT !.left = sdk.unanswered]
  /\ UNCHANGED <<task, toWorker, fromWorker, asked, calls, faults, history>>

(* The except arm of _receive_turn: what the SDK still owes is left.       *)
TurnFails ==
  /\ worker.turn = "failing"
  /\ ~worker.atSdk
  /\ worker' = [worker EXCEPT !.turn = "none", !.responses = 0, !.finishing = TRUE]
  /\ sdk' = [sdk EXCEPT !.left = sdk.unanswered]
  /\ Answer("failed")
  /\ UNCHANGED <<task, toWorker, asked, calls, faults, history>>

(* _turn_finished, a callback of the loop: by then the next turn's task    *)
(* may be in the table, and is left alone.                                 *)
TurnFinished ==
  /\ worker.finishing
  /\ worker' = [worker EXCEPT !.finishing = FALSE,
                              !.responses = IF worker.turn = "none" THEN 0 ELSE @]
  /\ UNCHANGED <<task, toWorker, fromWorker, sdk, asked, calls, faults, history>>

(***************************************************************************)
(* The worker: callbacks and shutdown                                      *)
(***************************************************************************)

(* can_use_tool: _request_broker registers a future and writes a request.  *)
SdkAsks(c) ==
  /\ sdk.alive
  /\ sdk.unanswered > 0
  /\ asked[c] = "unasked"
  /\ asked' = [asked EXCEPT ![c] = "waiting"]
  /\ worker' = [worker EXCEPT !.futures = @ \cup {c}]
  /\ fromWorker' = Append(fromWorker, AboutCallback("callback", c))
  /\ UNCHANGED <<task, toWorker, sdk, calls, faults, history>>

Settle(c, outcome) ==
  /\ asked' = [asked EXCEPT ![c] = outcome]
  /\ worker' = [worker EXCEPT !.futures = @ \ {c}]

IsAnswer(m) == m.op \in {"allow", "deny"}

(* Mutant: an answer goes to whichever callback waits.                     *)
AnswersWhoeverWaits(c, m) == c \in worker.futures

(* _pending_callbacks.get(request_id), not done                            *)
Answers(c, m) == c \in worker.futures /\ m.callback = c

(* _accept_response                                                        *)
AnswerAccepted ==
  /\ ~worker.closed
  /\ toWorker # <<>>
  /\ IsAnswer(Head(toWorker))
  /\ \E c \in Callbacks :
       /\ Answers(c, Head(toWorker))
       /\ Settle(c, IF Head(toWorker).op = "allow" THEN "allowed" ELSE "denied")
  /\ toWorker' = Tail(toWorker)
  /\ UNCHANGED <<task, fromWorker, sdk, calls, faults, history>>

(* An unknown or a late answer is ignored.                                 *)
AnswerIgnored ==
  /\ ~worker.closed
  /\ toWorker # <<>>
  /\ IsAnswer(Head(toWorker))
  /\ ~\E c \in Callbacks : Answers(c, Head(toWorker))
  /\ toWorker' = Tail(toWorker)
  /\ UNCHANGED <<task, fromWorker, worker, sdk, asked, calls, faults, history>>

(* Mutant: the deadline runs only while a turn is read.                    *)
TimesOutInTurn(c) ==
  /\ c \in worker.futures
  /\ worker.turn = "reading"
  /\ Settle(c, "denied")
  /\ UNCHANGED <<task, toWorker, fromWorker, sdk, calls, faults, history>>

(* wait_for's timeout: the callback fails closed.                          *)
CallbackTimesOut(c) ==
  /\ c \in worker.futures
  /\ Settle(c, "denied")
  /\ UNCHANGED <<task, toWorker, fromWorker, sdk, calls, faults, history>>

(* close, and the reply to worker/shutdown                                 *)
WorkerShutsDown ==
  /\ ~worker.closed
  /\ toWorker # <<>>
  /\ Head(toWorker).op = "shutdown"
  /\ worker' = [worker EXCEPT !.closed = TRUE, !.turn = "none", !.responses = 0,
                              !.finishing = FALSE, !.futures = {}]
  /\ sdk' = DeadSdk
  /\ asked' = Cancelled
  /\ Answer("ok")
  /\ toWorker' = Tail(toWorker)
  /\ UNCHANGED <<task, calls, faults, history>>

(* The process of the SDK dies.                                            *)
SdkDies ==
  /\ sdk.alive
  /\ faults < MaxFaults
  /\ faults' = faults + 1
  /\ sdk' = DeadSdk
  /\ UNCHANGED <<task, toWorker, fromWorker, worker, asked, calls, history>>

WorkerStep ==
  \/ WorkerAccepts
  \/ PromptStarts \/ ReopenFails \/ SteerStarts \/ InterruptStarts
  \/ RequestRefused \/ NothingToInterrupt
  \/ RequestDone \/ RequestRaises
  \/ ResponseTaken \/ TurnFails \/ TurnFinished
  \/ AnswerAccepted \/ AnswerIgnored
  \/ WorkerShutsDown

Next ==
  \/ TaskPrompts \/ TaskSteers \/ TaskInterrupts \/ TaskShutsDown
  \/ \E c \in Callbacks, answer \in {"allow", "deny"} : TaskAnswers(c, answer)
  \/ \E S \in SUBSET Callbacks : TaskDenies(S)
  \/ TaskStep
  \/ WorkerStep
  \/ ResultArrives \/ TurnRaises \/ SdkDies
  \/ \E c \in Callbacks : SdkAsks(c) \/ CallbackTimesOut(c)

(* The task and the worker run on event loops that poll them, the worker's *)
(* timers fire and the SDK takes a message it is handed.  Nothing is asked *)
(* of the user, nor of the SDK's turns.                                    *)
Spec ==
  /\ Init
  /\ [][Next]_vars
  /\ WF_vars(TaskStep)
  /\ WF_vars(WorkerStep)
  /\ \A c \in Callbacks : WF_vars(CallbackTimesOut(c))

(***************************************************************************)
(* Properties                                                              *)
(***************************************************************************)

(* The records of both processes (run_claude's locals, Worker's tables)    *)
(* keep their types, and a request at the SDK holds the session's lock.    *)
TypeOK ==
  /\ task \in TaskRecords
  /\ toWorker \in Seq(ToFrames)
  /\ fromWorker \in Seq(Replies \cup Inbound)
  /\ worker \in WorkerRecords
  /\ sdk \in SdkRecords
  /\ asked \in [Callbacks -> {"unasked", "waiting", "allowed", "denied"}]
  /\ calls \in 0 .. MaxCalls
  /\ faults \in 0 .. MaxFaults
  /\ verdict \in [Callbacks -> {"none", "allow", "deny"}]
  /\ steered \in BOOLEAN
  /\ dropped \in BOOLEAN
  /\ worker.atSdk => worker.request # "none"

(* _pending_responses is what the SDK owes this turn: the messages it was  *)
(* handed, less the results it gave, less what a failed turn left behind.  *)
(* A steering message may be on its way to the SDK while the result of the *)
(* message before it waits for the lock.                                   *)
ResponsesAccounted ==
  sdk.alive =>
    worker.responses + sdk.left
        + (IF worker.atSdk /\ worker.request # "interrupt" THEN 1 ELSE 0)
      = sdk.unanswered + (IF worker.turn = "waiting" THEN 1 ELSE 0)

(* A tool runs only if the task's first answer to that very callback let   *)
(* it, whichever of the two deadlines, the interrupt and the shutdown      *)
(* intervene (_accept_response, _request_broker).                          *)
AllowedByTheUser ==
  \A c \in Callbacks : asked[c] = "allowed" => verdict[c] = "allow"

EndOnItsWay ==
  \/ worker.turn # "none"
  \/ \E i \in DOMAIN fromWorker : Ends(fromWorker[i])

(* A task that believes a turn is active will read its end, the promise    *)
(* AgentSession's provider makes, except after a call failed whose         *)
(* collected messages held that end (publish_worker_inbound's callers).    *)
EndIsSeen ==
  Selecting /\ task.active => EndOnItsWay \/ dropped

(* A turn the worker still receives is one the task reads, unless a        *)
(* steering message made it longer than the first result says              *)
(* (next_inbound is polled only while active_turn_id is set).              *)
UnreadTurnWasSteered ==
  Selecting /\ worker.turn \in {"reading", "failing"} => task.active \/ steered

(* A callback is settled though nobody answers it, the task has stopped    *)
(* reading or a failed call dropped it: the worker's own deadline          *)
(* (_request_broker) is what ends it then.                                 *)
CallbacksSettle ==
  \A c \in Callbacks : asked[c] = "waiting" ~> asked[c] # "waiting"

(* Every call gets its reply: neither the session's lock nor a callback    *)
(* nobody answers holds the worker up.  AgentSession assumes as much of    *)
(* its provider.                                                           *)
CallsReturn == task.call # "none" ~> task.call = "none"

(* docs/spec.md: "State transitions, results, approvals, questions, and    *)
(* errors are lossless."  A steering message that meets the turn's end is  *)
(* refused, and the result collected before the refusal goes with it.      *)
NoEndIsLost == Selecting /\ task.active => EndOnItsWay
=============================================================================
