---------------------------- MODULE AgentSession ----------------------------
(***************************************************************************)
(* One agent of the durable broker: the broker's view of it (embedded.rs), *)
(* the provider task that serves it (runtime.rs: run_codex, run_claude),   *)
(* the bounded command channel and the unbounded event channel between     *)
(* them, and the provider process the task talks to over a pipe.           *)
(*                                                                         *)
(* Two views of one session are kept in step only by messages: the broker  *)
(* decides what a client may do from `agent', the task from `rt', and a    *)
(* client request, a provider message, a deadline and a disconnect may     *)
(* each overtake the others.                                               *)
(***************************************************************************)
EXTENDS Naturals, Sequences, FiniteSets

CONSTANTS
  Provider,     (* "codex" or "claude": which of the two tasks is modelled  *)
  Approvals,    (* the approval requests the provider may issue             *)
  Questions,    (* the questions the provider may issue                     *)
  None,         (* no human request                                         *)
  Requests,     (* the kinds of client request a run enables                *)
  MaxRequests,  (* bound: client requests of one behaviour                  *)
  MaxDrops,     (* bound: client disconnects of one behaviour               *)
  MaxCommands,  (* capacity of the command channel (32 in spawn_agent)      *)
  MaxQueued     (* capacity of the prompt queue (32 in send_agent_input)    *)

Human == Approvals \cup Questions

ASSUME SessionAssumption ==
  /\ Provider \in {"codex", "claude"}
  /\ Approvals \cap Questions = {}
  /\ IsFiniteSet(Approvals)
  /\ IsFiniteSet(Questions)
  /\ None \notin Human
  /\ Requests \subseteq
       {"Prompt", "Queue", "Steer", "Interrupt", "History", "Approval", "Question"}
  /\ MaxRequests \in Nat
  /\ MaxDrops \in Nat
  /\ MaxCommands \in Nat \ {0}
  /\ MaxQueued \in Nat

VARIABLES
  (* The broker. *)
  connected,    (* the client's connection is in the Ready phase            *)
  agent,        (* the broker's ManagedAgent                                *)
  unanswered,   (* pending_runtime_requests, by the client's request number *)
  queuedReqs,   (* queued_runtime_requests                                  *)
  sending,      (* the command a handler is awaiting room for, or << >>     *)
  late,         (* ClientDisconnected commands left to spawned senders      *)
  seen,         (* requests whose *.requested event the broker published    *)
  (* The two channels. *)
  commands,
  events,
  (* The provider task, the provider process and its standard output. *)
  rt,
  prov,
  wire,
  (* What the client and the provider have done. *)
  nreq,         (* the client's last request number                         *)
  drops,        (* client disconnects so far                                *)
  consent,      (* requests the client has answered "allow" or "answer"     *)
  replies,      (* responses each request has had from the task             *)
  allowed,      (* requests whose response let the provider go ahead        *)
  started       (* prompts written to the provider, in order, and whether   *)
                (* each had waited in the broker's queue                    *)

brokerVars == <<connected, agent, unanswered, queuedReqs, sending, late, seen>>
clientVars == <<nreq, drops, consent>>
answerVars == <<replies, allowed>>
vars == <<brokerVars, commands, events, rt, prov, wire, clientVars, answerVars,
          started>>

-----------------------------------------------------------------------------
(* The values that travel. *)

AcceptsPrompt == {"Idle", "Completed", "Interrupted"}
Busy          == {"Running", "WaitingInput", "WaitingApproval"}
AgentStates   == {"Starting", "Failed", "Disconnected"} \cup AcceptsPrompt \cup Busy

Ids == 0 .. MaxRequests

Ops == {"Prompt", "Steer", "Interrupt", "History", "Approval", "Question",
        "ClientDisconnected", "Shutdown"}

Commands == [op : Ops, id : Ids, human : Human \cup {None}, allow : BOOLEAN]

Command(op, id) == [op |-> op, id |-> id, human |-> None, allow |-> FALSE]

Disconnected == Command("ClientDisconnected", 0)

EventOps == {"Started", "Response", "Rejected", "RequestFailed", "ProviderFailed",
             "Stopped", "turn.started", "turn.completed", "turn.interrupted",
             "turn.failed", "requested", "resolved"}

AboutHuman(m) == m.op \in {"requested", "resolved"} => m.human \in Human

Events == {e \in [op : EventOps, id : Ids, human : Human \cup {None}] : AboutHuman(e)}

Event(op)      == [op |-> op, id |-> 0, human |-> None]
Reply(op, id)  == [op |-> op, id |-> id, human |-> None]
Ask(h)         == [op |-> "requested", id |-> 0, human |-> h]

(* What the provider writes to its standard output: turn events, requests,
   and the reply to the call the task is awaiting. *)
TurnOps  == {"turn.started", "turn.completed", "turn.interrupted", "turn.failed"}
Terminal == {"turn.completed", "turn.interrupted", "turn.failed"}
WireOps  == TurnOps \cup {"requested", "ok", "error"}
Messages == {m \in [op : WireOps, id : Ids, human : Human \cup {None}] : AboutHuman(m)}

(* What is not a reply, and so is published. *)
Notices == {m \in Messages : m.op \notin {"ok", "error"}}

(* The task, and what it can tell of the provider process. *)
TaskRecords ==
  [pc : {"starting", "loop", "call", "exiting", "stopped"}, active : BOOLEAN,
   pending : SUBSET Human, call : Seq(Commands), collected : Seq(Notices)]

ProviderRecords ==
  [alive : BOOLEAN, turn : BOOLEAN, stopping : BOOLEAN, call : Ops \cup {"none"},
   issued : SUBSET Human]

(* The requests of S in some order: they are kept in a hash map. *)
Orders(S) == {o \in [1 .. Cardinality(S) -> S] : \A h \in S : \E i \in DOMAIN o : o[i] = h}

(* Mutant: a denial that is not published. *)
ResolvedInSilence(order) == << >>

Resolved(order) ==
  [i \in DOMAIN order |-> [op |-> "resolved", id |-> 0, human |-> order[i]]]

-----------------------------------------------------------------------------
(* The broker's agent record. That the broker has given the session up and set
   its counts to zero is only recorded (givenUp): the code keeps no such flag. *)

AgentRecords ==
  [state : AgentStates, turn : BOOLEAN, approvals : Nat, questions : Nat,
   queued : Seq(Ids), task : BOOLEAN, givenUp : BOOLEAN]

NewAgent ==
  [state |-> "Starting", turn |-> FALSE, approvals |-> 0, questions |-> 0,
   queued |-> << >>, task |-> TRUE, givenUp |-> FALSE]

Decrement(n) == IF n = 0 THEN 0 ELSE n - 1

RestoreWaitingState(a) ==
  IF a.state \in {"Disconnected", "Failed"} THEN a
  ELSE [a EXCEPT !.state = IF a.approvals > 0 THEN "WaitingApproval"
                           ELSE IF a.questions > 0 THEN "WaitingInput"
                           ELSE IF a.turn THEN "Running"
                           ELSE "Idle"]

ApplyEventState(a, e) ==
  CASE e.op = "turn.started"     -> [a EXCEPT !.state = "Running", !.turn = TRUE]
    [] e.op = "turn.completed"   -> [a EXCEPT !.state = "Completed", !.turn = FALSE]
    [] e.op = "turn.interrupted" -> [a EXCEPT !.state = "Interrupted", !.turn = FALSE]
    [] e.op = "turn.failed"      -> [a EXCEPT !.state = "Failed", !.turn = FALSE]
    [] e.op = "requested" /\ e.human \in Approvals ->
         [a EXCEPT !.approvals = @ + 1, !.state = "WaitingApproval"]
    [] e.op = "requested" /\ e.human \in Questions ->
         [a EXCEPT !.questions = @ + 1,
                   !.state = IF a.approvals = 0 THEN "WaitingInput" ELSE @]
    [] e.op = "resolved" /\ e.human \in Approvals ->
         RestoreWaitingState([a EXCEPT !.approvals = Decrement(@)])
    [] e.op = "resolved" /\ e.human \in Questions ->
         RestoreWaitingState([a EXCEPT !.questions = Decrement(@)])
    [] OTHER -> a

(* Mutant: nothing is cancelled. *)
CancelNothing(a) == a

CancelQueuedPrompts(a) == [a EXCEPT !.queued = << >>]

ProviderFailure(a) ==
  [a EXCEPT !.state = "Disconnected", !.turn = FALSE, !.approvals = 0,
            !.questions = 0, !.queued = << >>, !.givenUp = TRUE]

-----------------------------------------------------------------------------
(* The command channel as the broker sees it. *)

Open == rt.pc # "stopped"
Room == Len(commands) < MaxCommands

(* commands.send(c).await at the end of a handler that leaves the agent as a:
   the handler, and with it the whole broker, waits while the channel is full. *)
Send(c, a) ==
  IF Open
  THEN /\ agent' = a
       /\ unanswered' = unanswered \cup {c.id}
       /\ IF Room THEN /\ commands' = Append(commands, c)
                       /\ UNCHANGED sending
                  ELSE /\ sending' = <<c>>
                       /\ UNCHANGED commands
  ELSE /\ agent' = [a EXCEPT !.state = "Disconnected"]
       /\ UNCHANGED <<unanswered, commands, sending>>

(* Mutant: a full channel loses the notice. *)
TryClientDisconnect ==
  /\ commands' = IF Open /\ Room THEN Append(commands, Disconnected) ELSE commands
  /\ UNCHANGED late

(* try_send, and a spawned task that waits for room when it fails. *)
QueueClientDisconnect ==
  IF Open /\ Room
  THEN commands' = Append(commands, Disconnected) /\ UNCHANGED late
  ELSE late' = (IF Open THEN late + 1 ELSE late) /\ UNCHANGED commands

-----------------------------------------------------------------------------
(* Client requests, each handled by one run of the broker's loop. *)

Turn == sending = << >>

NextRequest(kind) ==
  /\ Turn /\ connected
  /\ kind \in Requests
  /\ nreq < MaxRequests
  /\ nreq' = nreq + 1

brokerOnly == <<events, rt, prov, wire, answerVars, started>>

(* agent/prompt sent at once. *)
Prompt ==
  /\ NextRequest("Prompt")
  /\ agent.state \in AcceptsPrompt
  /\ Send(Command("Prompt", nreq'), [agent EXCEPT !.state = "Running"])
  /\ UNCHANGED <<connected, queuedReqs, late, seen, drops, consent, brokerOnly>>

QueueHasRoom == Len(agent.queued) < MaxQueued

(* agent/prompt with queue = true while a turn runs. *)
QueuePrompt ==
  /\ NextRequest("Queue")
  /\ agent.state \in Busy
  /\ QueueHasRoom
  /\ agent' = [agent EXCEPT !.queued = Append(@, nreq')]
  /\ UNCHANGED <<connected, unanswered, queuedReqs, sending, late, seen, commands,
                 drops, consent, brokerOnly>>

Steer ==
  /\ NextRequest("Steer")
  /\ agent.state = "Running"
  /\ Send(Command("Steer", nreq'), agent)
  /\ UNCHANGED <<connected, queuedReqs, late, seen, drops, consent, brokerOnly>>

(* Queued prompts are cancelled before the interrupt is even sent. *)
Interrupt ==
  /\ NextRequest("Interrupt")
  /\ Send(Command("Interrupt", nreq'), CancelQueuedPrompts(agent))
  /\ UNCHANGED <<connected, queuedReqs, late, seen, drops, consent, brokerOnly>>

History ==
  /\ NextRequest("History")
  /\ agent.task
  /\ Send(Command("History", nreq'), agent)
  /\ UNCHANGED <<connected, queuedReqs, late, seen, drops, consent, brokerOnly>>

(* approval/respond and question/respond: the broker does not check that the
   request is still pending, the task does. *)
Respond(op, h, allow) ==
  /\ NextRequest(op)
  /\ h \in seen
  /\ Send([Command(op, nreq') EXCEPT !.human = h, !.allow = allow], agent)
  /\ consent' = IF allow THEN consent \cup {h} ELSE consent
  /\ UNCHANGED <<connected, queuedReqs, late, seen, drops, brokerOnly>>

(* Mutant: the wait does not end with the task. *)
FinishSendWithRoom ==
  /\ sending # << >>
  /\ Open /\ Room
  /\ commands' = Append(commands, sending[1])
  /\ sending' = << >>
  /\ UNCHANGED <<agent, unanswered, connected, queuedReqs, late, seen, clientVars,
                 brokerOnly>>

(* The awaited send of a handler finds room, or the task gone. *)
FinishSend ==
  /\ sending # << >>
  /\ \/ /\ Open /\ Room
        /\ commands' = Append(commands, sending[1])
        /\ UNCHANGED <<agent, unanswered>>
     \/ /\ ~Open
        /\ agent' = [agent EXCEPT !.state = "Disconnected"]
        /\ unanswered' = unanswered \ {sending[1].id}
        /\ UNCHANGED commands
  /\ sending' = << >>
  /\ UNCHANGED <<connected, queuedReqs, late, seen, clientVars, brokerOnly>>

(* "initialized" after a successful handshake. *)
ClientConnect ==
  /\ Turn /\ ~connected
  /\ connected' = TRUE
  /\ UNCHANGED <<agent, unanswered, queuedReqs, sending, late, seen, commands,
                 clientVars, brokerOnly>>

(* The connection closes: its requests are forgotten, the task is told. *)
ClientDisconnect ==
  /\ Turn /\ connected
  /\ drops < MaxDrops
  /\ drops' = drops + 1
  /\ connected' = FALSE
  /\ unanswered' = {}
  /\ QueueClientDisconnect
  /\ UNCHANGED <<agent, queuedReqs, sending, seen, nreq, consent, brokerOnly>>

SendLate ==
  /\ late > 0
  /\ \/ Open /\ Room /\ commands' = Append(commands, Disconnected) /\ late' = late - 1
     \/ ~Open /\ late' = 0 /\ UNCHANGED commands
  /\ UNCHANGED <<connected, agent, unanswered, queuedReqs, sending, seen,
                 clientVars, brokerOnly>>

-----------------------------------------------------------------------------
(* Runtime events, in the order the task sent them. *)

NextEvent(ops) ==
  /\ Turn
  /\ events # << >>
  /\ Head(events).op \in ops
  /\ events' = Tail(events)
  /\ UNCHANGED <<connected, sending, clientVars, rt, prov, wire, answerVars, started>>

HandleStarted ==
  /\ NextEvent({"Started"})
  /\ agent' = [agent EXCEPT !.state = "Idle"]
  /\ unanswered' = unanswered \ {Head(events).id}
  /\ UNCHANGED <<queuedReqs, late, seen, commands>>

HandleResponse ==
  /\ NextEvent({"Response"})
  /\ queuedReqs' = queuedReqs \ {Head(events).id}
  /\ unanswered' = unanswered \ {Head(events).id}
  /\ UNCHANGED <<agent, late, seen, commands>>

(* A queued prompt has no client waiting for it: whatever failed, the session
   is given up. *)
HandleQueuedFailure ==
  /\ NextEvent({"Rejected", "RequestFailed"})
  /\ Head(events).id \in queuedReqs
  /\ queuedReqs' = queuedReqs \ {Head(events).id}
  /\ agent' = ProviderFailure(agent)
  /\ UNCHANGED <<unanswered, late, seen, commands>>

HandleRejected ==
  /\ NextEvent({"Rejected"})
  /\ Head(events).id \notin queuedReqs
  /\ unanswered' = unanswered \ {Head(events).id}
  /\ UNCHANGED <<agent, queuedReqs, late, seen, commands>>

(* The Shutdown is only tried: a full channel loses it. *)
HandleRequestFailed ==
  /\ NextEvent({"RequestFailed"})
  /\ Head(events).id \notin queuedReqs
  /\ agent' = [CancelQueuedPrompts(agent) EXCEPT !.state = "Failed", !.turn = FALSE]
  /\ commands' = IF Open /\ Room THEN Append(commands, Command("Shutdown", 0))
                                 ELSE commands
  /\ unanswered' = unanswered \ {Head(events).id}
  /\ UNCHANGED <<queuedReqs, late, seen>>

(* Mutant: the prompt sent stays in the queue. *)
DispatchFrontAgain(a) ==
  IF a.queued = << >> \/ ~Open \/ ~Room
  THEN agent' = a /\ UNCHANGED <<queuedReqs, commands>>
  ELSE /\ commands' = Append(commands, Command("Prompt", Head(a.queued)))
       /\ queuedReqs' = queuedReqs \cup {Head(a.queued)}
       /\ agent' = [a EXCEPT !.state = "Running"]

(* The prompt leaves the queue even when the channel has no room for it. *)
DispatchQueuedPrompt(a) ==
  IF a.queued = << >>
  THEN agent' = a /\ UNCHANGED <<queuedReqs, commands>>
  ELSE IF Open /\ Room
  THEN /\ commands' = Append(commands, Command("Prompt", Head(a.queued)))
       /\ queuedReqs' = queuedReqs \cup {Head(a.queued)}
       /\ agent' = [a EXCEPT !.queued = Tail(@), !.state = "Running"]
  ELSE agent' = ProviderFailure(a) /\ UNCHANGED <<queuedReqs, commands>>

HandleTurnEvent ==
  /\ NextEvent(TurnOps)
  /\ LET a == ApplyEventState(agent, Head(events))
     IN \/ /\ Head(events).op \in {"turn.completed", "turn.interrupted"}
           /\ a.state = "Completed" /\ a.approvals = 0 /\ a.questions = 0
           /\ DispatchQueuedPrompt(a)
        \/ /\ Head(events).op \in {"turn.completed", "turn.interrupted"}
           /\ ~(a.state = "Completed" /\ a.approvals = 0 /\ a.questions = 0)
           /\ agent' = CancelQueuedPrompts(a)
           /\ UNCHANGED <<queuedReqs, commands>>
        \/ /\ Head(events).op = "turn.failed"
           /\ agent' = CancelQueuedPrompts(a)
           /\ UNCHANGED <<queuedReqs, commands>>
        \/ /\ Head(events).op = "turn.started"
           /\ agent' = a
           /\ UNCHANGED <<queuedReqs, commands>>
  /\ UNCHANGED <<unanswered, late, seen>>

(* A request nobody can see is denied as if its client had just left. *)
HandleRequested ==
  /\ NextEvent({"requested"})
  /\ IF connected THEN UNCHANGED <<commands, late>> ELSE QueueClientDisconnect
  /\ agent' = ApplyEventState(agent, Head(events))
  /\ seen' = seen \cup {Head(events).human}
  /\ UNCHANGED <<unanswered, queuedReqs>>

HandleResolved ==
  /\ NextEvent({"resolved"})
  /\ agent' = ApplyEventState(agent, Head(events))
  /\ UNCHANGED <<unanswered, queuedReqs, late, seen, commands>>

HandleProviderFailed ==
  /\ NextEvent({"ProviderFailed"})
  /\ agent' = ProviderFailure(agent)
  /\ UNCHANGED <<unanswered, queuedReqs, late, seen, commands>>

(* The pending counts are left as they are. *)
HandleStopped ==
  /\ NextEvent({"Stopped"})
  /\ agent' = [CancelQueuedPrompts(agent) EXCEPT
                 !.task = FALSE, !.state = "Disconnected",
                 !.turn = @ /\ agent.state = "Disconnected"]
  /\ UNCHANGED <<unanswered, queuedReqs, late, seen, commands>>

-----------------------------------------------------------------------------
(* The provider task. *)

taskOnly == <<brokerVars, clientVars>>

Emit(es) == events' = events \o es

(* One response per request of S; none arrives once the process is gone. *)
Deny(S) ==
  /\ replies' = [h \in Human |-> IF h \in S /\ prov.alive THEN replies[h] + 1
                                                          ELSE replies[h]]
  /\ UNCHANGED allowed

DenialFails(S) == S # {} /\ ~prov.alive

(* A failed call fails the agent, except that history is only refused. *)
CallFailed(c) == Reply(IF c.op = "History" THEN "Rejected" ELSE "RequestFailed", c.id)

(* Spawn, initialize and open the thread. *)
RtStart ==
  /\ rt.pc = "starting"
  /\ \/ /\ Emit(<<Reply("Started", 0)>>)
        /\ rt' = [rt EXCEPT !.pc = "loop"]
        /\ UNCHANGED <<commands, prov>>
     \/ /\ Emit(<<Reply("RequestFailed", 0), Event("Stopped")>>)
        /\ rt' = [rt EXCEPT !.pc = "stopped"]
        /\ commands' = << >>
        /\ prov' = [prov EXCEPT !.alive = FALSE]
  /\ UNCHANGED <<wire, answerVars, started, taskOnly>>

Receive(ops) ==
  /\ rt.pc = "loop"
  /\ commands # << >>
  /\ Head(commands).op \in ops
  /\ commands' = Tail(commands)
  /\ UNCHANGED <<wire, taskOnly>>

(* Write a call to the provider and wait for its reply. *)
Call(c) ==
  IF prov.alive
  THEN /\ rt' = [rt EXCEPT !.pc = "call", !.call = <<c>>]
       /\ prov' = [prov EXCEPT !.call = c.op]
       /\ UNCHANGED events
  ELSE /\ Emit(<<CallFailed(c)>>)
       /\ UNCHANGED <<rt, prov>>

WrittenPrompts == [id : Ids, queued : BOOLEAN]

WrittenPrompt(c) == [id |-> c.id, queued |-> c.id \in queuedReqs]

(* Mutant: the task trusts the broker to know that no turn is active. *)
RtPromptUnchecked ==
  /\ Receive({"Prompt"})
  /\ Call(Head(commands))
  /\ started' = IF prov.alive THEN Append(started, WrittenPrompt(Head(commands)))
                              ELSE started
  /\ UNCHANGED answerVars

RtPrompt ==
  /\ Receive({"Prompt"})
  /\ LET c == Head(commands)
     IN IF rt.active
        THEN /\ Emit(<<Reply("Rejected", c.id)>>)
             /\ UNCHANGED <<rt, prov, started>>
        ELSE /\ Call(c)
             /\ started' = IF prov.alive THEN Append(started, WrittenPrompt(c)) ELSE started
  /\ UNCHANGED answerVars

RtSteer ==
  /\ Receive({"Steer"})
  /\ IF rt.active
     THEN Call(Head(commands))
     ELSE /\ Emit(<<Reply("Rejected", Head(commands).id)>>)
          /\ UNCHANGED <<rt, prov>>
  /\ UNCHANGED <<answerVars, started>>

(* Every pending request is denied first; only then is the turn interrupted. *)
RtInterrupt ==
  /\ Receive({"Interrupt"})
  /\ Deny(rt.pending)
  /\ \E order \in Orders(rt.pending) :
       IF DenialFails(rt.pending)
       THEN /\ Emit(Append(Resolved(order), Reply("RequestFailed", Head(commands).id)))
            /\ rt' = [rt EXCEPT !.pending = {}]
            /\ UNCHANGED prov
       ELSE IF rt.active /\ prov.alive
       THEN /\ Emit(Resolved(order))
            /\ rt' = [rt EXCEPT !.pending = {}, !.pc = "call", !.call = <<Head(commands)>>]
            /\ prov' = [prov EXCEPT !.call = "Interrupt"]
       ELSE /\ Emit(Append(Resolved(order),
                           Reply(IF rt.active THEN "RequestFailed" ELSE "Response",
                                 Head(commands).id)))
            /\ rt' = [rt EXCEPT !.pending = {}]
            /\ UNCHANGED prov
  /\ UNCHANGED started

RtHistory ==
  /\ Receive({"History"})
  /\ Call(Head(commands))
  /\ UNCHANGED <<answerVars, started>>

(* Mutant: any request of the right kind, answered before or not. *)
AnswerableAgain(c) == c.op = "Approval" <=> c.human \in Approvals

Answerable(c) ==
  /\ c.human \in rt.pending
  /\ c.op = "Approval" <=> c.human \in Approvals

(* Mutant: a denial lets the provider go ahead. *)
LetGoRegardless(c) == {c.human}

LetGo(c) == IF c.allow THEN {c.human} ELSE {}

(* A response that cannot be written leaves the request pending. *)
RtRespond ==
  /\ Receive({"Approval", "Question"})
  /\ LET c == Head(commands)
     IN \/ /\ ~Answerable(c)
           /\ Emit(<<Reply("Rejected", c.id)>>)
           /\ UNCHANGED <<rt, answerVars>>
        \/ /\ Answerable(c) /\ prov.alive
           /\ replies' = [replies EXCEPT ![c.human] = @ + 1]
           /\ allowed' = allowed \cup LetGo(c)
           /\ rt' = [rt EXCEPT !.pending = @ \ {c.human}]
           /\ Emit(<<Reply("Response", c.id)>> \o Resolved(<<c.human>>))
        \/ /\ Answerable(c) /\ ~prov.alive
           /\ Emit(<<Reply("RequestFailed", c.id)>>)
           /\ UNCHANGED <<rt, answerVars>>
  /\ UNCHANGED <<prov, started>>

RtClientDisconnected ==
  /\ Receive({"ClientDisconnected"})
  /\ Deny(rt.pending)
  /\ \E order \in Orders(rt.pending) :
       IF DenialFails(rt.pending)
       THEN /\ Emit(Append(Resolved(order), Event("ProviderFailed")))
            /\ rt' = [rt EXCEPT !.pending = {}, !.pc = "exiting"]
       ELSE /\ Emit(Resolved(order))
            /\ rt' = [rt EXCEPT !.pending = {}]
  /\ UNCHANGED <<prov, started>>

RtShutdown ==
  /\ Receive({"Shutdown"})
  /\ Deny(rt.pending)
  /\ \E order \in Orders(rt.pending) : Emit(Resolved(order))
  /\ rt' = [rt EXCEPT !.pending = {}, !.pc = "exiting"]
  /\ UNCHANGED <<prov, started>>

(* Messages that arrive before the reply are kept for later. The Codex client
   answers a request among them at once with a denial; the Claude client does
   not. *)
RtCollect ==
  /\ rt.pc = "call"
  /\ wire # << >>
  /\ Head(wire).op \notin {"ok", "error"}
  /\ wire' = Tail(wire)
  /\ LET m == Head(wire)
         denied == IF Provider = "codex" /\ m.op = "requested" THEN {m.human} ELSE {}
     IN /\ Deny(denied)
        /\ IF DenialFails(denied)
           THEN /\ Emit(<<CallFailed(rt.call[1])>>)
                /\ rt' = [rt EXCEPT !.pc = "loop", !.call = << >>, !.collected = << >>]
           ELSE /\ rt' = [rt EXCEPT !.collected = Append(@, m)]
                /\ UNCHANGED events
  /\ UNCHANGED <<commands, prov, started, taskOnly>>

Requested(ms) == {ms[i].human : i \in {j \in DOMAIN ms : ms[j].op = "requested"}}
Ends(ms)      == \E i \in DOMAIN ms : ms[i].op \in Terminal

(* Mutant: the messages kept during the call are forgotten. *)
PublishedWithoutCollected(c) ==
  IF c.op = "Prompt" /\ Provider = "claude" THEN <<Event("turn.started")>> ELSE << >>

(* What is published after the reply: the messages kept during the call, except
   that the reply to a history call comes back without them. *)
Published(c) ==
  (IF c.op = "Prompt" /\ Provider = "claude" THEN <<Event("turn.started")>> ELSE << >>)
    \o (IF c.op = "History" THEN << >> ELSE rt.collected)

(* Mutant: a request denied during the call is still held. *)
HeldAfterDenial(ms) == Requested(ms)

(* The requests among ms that are still to be answered. *)
Held(ms) == IF Provider = "claude" THEN Requested(ms) ELSE {}

RtCallReturns ==
  /\ rt.pc = "call"
  /\ wire # << >>
  /\ Head(wire).op = "ok"
  /\ wire' = Tail(wire)
  /\ LET c  == rt.call[1]
         ms == Published(c)
     IN /\ Emit(<<Reply("Response", c.id)>> \o ms)
        /\ rt' = [rt EXCEPT !.pc = "loop", !.call = << >>, !.collected = << >>,
                            !.active = (@ \/ c.op = "Prompt") /\ ~Ends(ms),
                            !.pending = @ \cup Held(ms)]
  /\ UNCHANGED <<commands, prov, answerVars, started, taskOnly>>

(* An error reply, or the end of the provider's output. *)
RtCallFails ==
  /\ rt.pc = "call"
  /\ \/ wire # << >> /\ Head(wire).op = "error" /\ wire' = Tail(wire)
     \/ wire = << >> /\ ~prov.alive /\ UNCHANGED wire
  /\ Emit(<<CallFailed(rt.call[1])>>)
  /\ rt' = [rt EXCEPT !.pc = "loop", !.call = << >>, !.collected = << >>]
  /\ UNCHANGED <<commands, prov, answerVars, started, taskOnly>>

(* Provider output is only read while a turn is active. *)
RtRead ==
  /\ rt.pc = "loop"
  /\ rt.active
  /\ wire # << >> /\ Head(wire).op \notin {"ok", "error"}
  /\ wire' = Tail(wire)
  /\ Emit(<<Head(wire)>>)
  /\ rt' = [rt EXCEPT !.active = Head(wire).op \notin Terminal,
                      !.pending = @ \cup Requested(<<Head(wire)>>)]
  /\ UNCHANGED <<commands, prov, answerVars, started, taskOnly>>

(* Mutant: the end of the output goes unnoticed. *)
OutputMalformed == wire # << >> /\ Head(wire).op \in {"ok", "error"}

(* The end of the output, or a reply to a call that was given up. *)
OutputUnusable ==
  IF wire = << >> THEN ~prov.alive ELSE Head(wire).op \in {"ok", "error"}

RtStreamCloses ==
  /\ rt.pc = "loop"
  /\ rt.active
  /\ OutputUnusable
  /\ Emit(<<Event("ProviderFailed")>>)
  /\ rt' = [rt EXCEPT !.pc = "exiting"]
  /\ UNCHANGED <<commands, prov, wire, answerVars, started, taskOnly>>

(* The deadline of the requests in S passes before anybody answered them. *)
RtExpire ==
  /\ rt.pc = "loop"
  /\ \E S \in SUBSET rt.pending \ {{}} :
       /\ Deny(S)
       /\ \E order \in Orders(S) :
            IF DenialFails(S)
            THEN /\ Emit(Append(Resolved(order), Event("ProviderFailed")))
                 /\ rt' = [rt EXCEPT !.pending = @ \ S, !.pc = "exiting"]
            ELSE /\ Emit(Resolved(order))
                 /\ rt' = [rt EXCEPT !.pending = @ \ S]
  /\ UNCHANGED <<commands, prov, wire, started, taskOnly>>

(* After the loop: the last denials, the process is killed, and the receiver
   is dropped with whatever commands it still holds. *)
RtStop ==
  /\ rt.pc = "exiting"
  /\ Deny(rt.pending)
  /\ \E order \in Orders(rt.pending) : Emit(Append(Resolved(order), Event("Stopped")))
  /\ rt' = [rt EXCEPT !.pending = {}, !.pc = "stopped"]
  /\ prov' = [prov EXCEPT !.alive = FALSE]
  /\ commands' = << >>
  /\ UNCHANGED <<wire, started, taskOnly>>

-----------------------------------------------------------------------------
(* The provider process, as the task's code expects it to behave. *)

providerOnly == <<brokerVars, clientVars, commands, events, rt, answerVars, started>>

Say(ms) == wire' = wire \o ms

Outstanding == {h \in prov.issued : replies[h] = 0}

(* The reply to a call. Codex announces a turn it has started on either side
   of the reply; for Claude the task makes up the event itself. *)
ProviderReplies ==
  /\ prov.alive
  /\ prov.call # "none"
  /\ \/ /\ Say(<<Event("error")>>)
        /\ prov' = [prov EXCEPT !.call = "none"]
     \/ /\ prov.call = "Prompt" /\ ~prov.turn
        /\ \/ Provider = "codex" /\ Say(<<Event("ok"), Event("turn.started")>>)
           \/ Provider = "codex" /\ Say(<<Event("turn.started"), Event("ok")>>)
           \/ Provider = "claude" /\ Say(<<Event("ok")>>)
        /\ prov' = [prov EXCEPT !.call = "none", !.turn = TRUE, !.stopping = FALSE]
     \/ /\ prov.call # "Prompt"
        /\ Say(<<Event("ok")>>)
        /\ prov' = [prov EXCEPT !.call = "none",
                                !.stopping = @ \/ (prov.call = "Interrupt" /\ prov.turn)]
  /\ UNCHANGED providerOnly

ProviderAsks(h) ==
  /\ prov.alive
  /\ prov.turn /\ ~prov.stopping
  /\ h \notin prov.issued
  /\ Say(<<Ask(h)>>)
  /\ prov' = [prov EXCEPT !.issued = @ \cup {h}]
  /\ UNCHANGED providerOnly

(* A turn completes with no request outstanding; it may fail, or be
   interrupted, with some. *)
ProviderEndsTurn ==
  /\ prov.alive
  /\ prov.turn
  /\ \/ prov.stopping /\ Say(<<Event("turn.interrupted")>>)
     \/ ~prov.stopping /\ Outstanding = {} /\ Say(<<Event("turn.completed")>>)
     \/ ~prov.stopping /\ Say(<<Event("turn.failed")>>)
  /\ prov' = [prov EXCEPT !.turn = FALSE, !.stopping = FALSE]
  /\ UNCHANGED providerOnly

ProviderDies ==
  /\ prov.alive
  /\ rt.pc # "starting"
  /\ prov' = [prov EXCEPT !.alive = FALSE, !.turn = FALSE]
  /\ UNCHANGED <<wire, providerOnly>>

-----------------------------------------------------------------------------

Init ==
  /\ connected = TRUE
  /\ agent = NewAgent
  /\ unanswered = {0}
  /\ queuedReqs = {}
  /\ sending = << >>
  /\ late = 0
  /\ seen = {}
  /\ commands = << >>
  /\ events = << >>
  /\ rt = [pc |-> "starting", active |-> FALSE, pending |-> {}, call |-> << >>,
           collected |-> << >>]
  /\ prov = [alive |-> TRUE, turn |-> FALSE, stopping |-> FALSE, call |-> "none",
             issued |-> {}]
  /\ wire = << >>
  /\ nreq = 0
  /\ drops = 0
  /\ consent = {}
  /\ replies = [h \in Human |-> 0]
  /\ allowed = {}
  /\ started = << >>

BrokerRequest ==
  \/ Prompt \/ QueuePrompt \/ Steer \/ Interrupt \/ History
  \/ \E h \in Human, allow \in BOOLEAN :
       Respond("Approval", h, allow) \/ Respond("Question", h, allow)

BrokerEvent ==
  \/ HandleStarted \/ HandleResponse \/ HandleQueuedFailure \/ HandleRejected
  \/ HandleRequestFailed \/ HandleTurnEvent \/ HandleRequested \/ HandleResolved
  \/ HandleProviderFailed \/ HandleStopped

TaskCommand ==
  \/ RtPrompt \/ RtSteer \/ RtInterrupt \/ RtHistory \/ RtRespond
  \/ RtClientDisconnected \/ RtShutdown

TaskRead == RtCollect \/ RtCallReturns \/ RtCallFails \/ RtRead \/ RtStreamCloses

ProviderStep ==
  \/ ProviderReplies \/ ProviderEndsTurn \/ ProviderDies
  \/ \E h \in Human : ProviderAsks(h)

Next ==
  \/ BrokerRequest \/ FinishSend \/ ClientConnect \/ ClientDisconnect \/ SendLate
  \/ BrokerEvent
  \/ RtStart \/ TaskCommand \/ TaskRead \/ RtExpire \/ RtStop
  \/ ProviderStep

Spec == Init /\ [][Next]_vars

(* The broker's loop and the task are scheduled again and again; each of a
   select's ready branches is taken in the end, and so is the deadline of a
   pending request. The provider is assumed to answer every call and to end
   every turn it is not waiting on a human for: no timeout in the code makes up
   for one that does not. Nobody has to send a request, connect, or answer. *)
Fairness ==
  /\ WF_vars(BrokerEvent \/ FinishSend)
  /\ WF_vars(SendLate)
  /\ WF_vars(RtStart \/ TaskCommand \/ TaskRead \/ RtStop)
  /\ WF_vars(RtExpire)
  /\ WF_vars(ProviderReplies)
  /\ WF_vars(ProviderEndsTurn)

FairSpec == Spec /\ Fairness

-----------------------------------------------------------------------------
(* Safety. *)

BrokerTypeOK ==
  /\ connected \in BOOLEAN
  /\ agent \in AgentRecords
  /\ Len(agent.queued) <= MaxQueued
  /\ unanswered \subseteq Ids
  /\ queuedReqs \subseteq Ids
  /\ sending \in Seq(Commands) /\ Len(sending) <= 1
  /\ late \in Nat
  /\ seen \subseteq Human

ChannelTypeOK ==
  /\ commands \in Seq(Commands) /\ Len(commands) <= MaxCommands
  /\ events \in Seq(Events)

TaskTypeOK ==
  /\ rt \in TaskRecords
  /\ rt.pc = "call" => Len(rt.call) = 1
  /\ prov \in ProviderRecords
  /\ wire \in Seq(Messages)

HistoryTypeOK ==
  /\ nreq \in Ids
  /\ drops \in 0 .. MaxDrops
  /\ consent \subseteq Human
  /\ replies \in [Human -> Nat]
  /\ allowed \subseteq Human
  /\ started \in Seq(WrittenPrompts)

(* Every variable keeps to its values; the command channel and the prompt
   queue never exceed their capacity, one handler at most awaits a send, and the
   task knows the call it awaits (spawn_agent, send_agent_input, Broker). *)
TypeOK == BrokerTypeOK /\ ChannelTypeOK /\ TaskTypeOK /\ HistoryTypeOK

(* Nothing the broker does on its own lets the provider go ahead: a timeout, an
   interrupt, a disconnect, a shutdown or a dead provider only ever denies, and
   a request is allowed only if a client said so of that very request
   (deny_all_codex_requests, expire_codex_requests, respond_codex_approval). *)
ConsentBeforeAllow == allowed \subseteq consent

(* A request gets one response, whichever of the client's answer, the deadline,
   the interrupt, the disconnect, the automatic denial during a call and the
   last denial on exit comes first (the pending map of run_codex and
   run_claude). *)
AnsweredAtMostOnce == \A h \in Human : replies[h] <= 1

Has(s, ops) == \E i \in DOMAIN s : s[i].op \in ops

(* Once no client is left to answer it, a pending request will be denied without
   waiting for its deadline: a disconnect is on its way to the task, or the
   broker has yet to see the request and will then send one, or the task is on
   its way out (ClientDisconnect, HandleRequested; embedded.rs disconnect and
   handle_provider_event). *)
OrphansAreDenied ==
  \A h \in rt.pending :
    \/ connected
    \/ late > 0
    \/ rt.pc = "exiting"
    \/ Has(commands, {"ClientDisconnected", "Shutdown"})
    \/ h \in Requested(events)

(* No prompt reaches the provider twice; those sent at once reach it in the order
   the client sent them, and so do those that waited in the broker's queue while a
   turn ran (send_agent_input, dispatch_queued_prompt). One of either kind may
   overtake one of the other: the broker takes a prompt for the agent at once
   although others wait, when it believes no turn is running. *)
PromptsStartInOrder ==
  \A i, j \in DOMAIN started :
    i < j => /\ started[i].id # started[j].id
             /\ started[i].queued = started[j].queued => started[i].id < started[j].id

(* The task never asks the provider for a turn while one is running there,
   whatever the broker believes (the active_turn_id check of run_codex). *)
OneTurnAtATime == prov.call = "Prompt" => ~prov.turn

(* A prompt the client was told is queued runs in its turn: when the broker sends it
   on, at the end of the turn before it, the task does not turn it away for a turn
   still running there (dispatch_queued_prompt, the Rejected arm of run_codex and
   run_claude; README.md, on prompts submitted during a turn). *)
QueuedNeverRejected ==
  \A i \in DOMAIN events : events[i].op = "Rejected" => events[i].id \notin queuedReqs

(* A turn the task believes active is running, or its end is still on its way
   to the task, or the provider is gone, or the session has been failed or given up,
   or is about to be: the task never waits for an end it has thrown away (RtCollect,
   RtCallReturns; the events a call collects in codex.rs request and worker.rs
   request). History calls do throw them away. *)
NoLostTerminal ==
  rt.active =>
    \/ prov.turn \/ ~prov.alive
    \/ Has(wire, Terminal) \/ Has(rt.collected, Terminal)
    \/ Has(events, {"RequestFailed"}) \/ agent.state \in {"Failed", "Disconnected"}

Count(op, S) ==
  Cardinality({i \in DOMAIN events : events[i].op = op /\ events[i].human \in S})

(* Until the broker gives the session up, the counts it shows of a Claude agent are
   the requests the task holds, once the events on their way are counted in: no
   request is shown that nobody can answer, and none is held that nobody is shown
   (apply_event_state, publish_worker_inbound). *)
PendingCountsMatch ==
  ~agent.givenUp =>
    /\ agent.approvals + Count("requested", Approvals)
         = Cardinality(rt.pending \cap Approvals) + Count("resolved", Approvals)
    /\ agent.questions + Count("requested", Questions)
         = Cardinality(rt.pending \cap Questions) + Count("resolved", Questions)

-----------------------------------------------------------------------------
(* Liveness, of FairSpec. *)

(* The broker's single loop is never stuck for good behind a full command
   channel (FinishSend; commands.send().await in embedded.rs). *)
BrokerUnblocks == sending # << >> ~> sending = << >>

Queued(id) == \E i \in DOMAIN agent.queued : agent.queued[i] = id

(* A prompt the client was told is queued is sent or cancelled in the end
   (dispatch_queued_prompt, cancel_queued_prompts). *)
QueuedPromptSettles == \A id \in Ids : Queued(id) ~> ~Queued(id)

(* The death of the provider during a turn reaches the broker, whichever of a
   read, a call and a denial finds out first (RtStreamCloses, RtCallFails). *)
DeadProviderReported ==
  (rt.active /\ ~prov.alive) ~> (~rt.active \/ agent.state = "Disconnected")

(* An agent does not stay at WaitingApproval for ever: what is not answered is
   denied, and the broker hears of it (expire_codex_requests, resolved_event). *)
CountsSettle == agent.approvals > 0 ~> agent.approvals = 0

(* Every request of a living provider is answered in the end (the deny_all_* and
   expire_* functions of runtime.rs). *)
RequestsSettle ==
  \A h \in Human : h \in prov.issued ~> (replies[h] > 0 \/ ~prov.alive)
=============================================================================
