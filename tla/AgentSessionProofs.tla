------------------------- MODULE AgentSessionProofs -------------------------
(***************************************************************************)
(* Theorems about AgentSession, for any number of requests, disconnects,   *)
(* human requests and any capacity of the channel and the queue.           *)
(***************************************************************************)
EXTENDS AgentSession, SequenceFacts, FiniteSetTheorems, SequenceTheorems,
        TLAPS

(* What is published for a set of requests is a sequence of events. *)
LEMMA ResolvedType ==
  ASSUME NEW S \in SUBSET Human, NEW order \in Orders(S)
  PROVE  Resolved(order) \in Seq(Events)
<1>1. IsFiniteSet(S)
  BY SessionAssumption, FS_Subset, FS_Union DEF Human
<1>2. Cardinality(S) \in Nat
  BY <1>1, FS_CardinalityType
<1>3. order \in [1 .. Cardinality(S) -> S]
  BY DEF Orders
<1>4. \A i \in 1 .. Cardinality(S) :
        [op |-> "resolved", id |-> 0, human |-> order[i]] \in Events
  BY <1>3, SessionAssumption DEF Events, EventOps, Ids, AboutHuman
<1> QED
  BY <1>2, <1>3, <1>4 DEF Resolved

(* One resolution published on its own (resolved_event) is an event. *)
LEMMA ResolvedOneType ==
  ASSUME NEW h \in Human
  PROVE  Resolved(<<h>>) \in Seq(Events)
BY SessionAssumption DEF Resolved, Events, EventOps, Ids, AboutHuman

(* apply_event_state and restore_waiting_state keep the ManagedAgent's shape and
   leave its prompt queue alone. *)
LEMMA ApplyEventStateType ==
  ASSUME NEW a \in AgentRecords, NEW e \in Events
  PROVE  /\ ApplyEventState(a, e) \in AgentRecords
         /\ ApplyEventState(a, e).queued = a.queued
<1>1. \A n \in Nat : Decrement(n) \in Nat
  BY DEF Decrement
<1>2. \A b \in AgentRecords : /\ RestoreWaitingState(b) \in AgentRecords
                              /\ RestoreWaitingState(b).queued = b.queued
  BY DEF RestoreWaitingState, AgentRecords, AgentStates, AcceptsPrompt, Busy
<1>3. CASE e.op \notin {"requested", "resolved"}
  BY <1>3 DEF ApplyEventState, AgentRecords, AgentStates, AcceptsPrompt, Busy
<1>4. CASE e.op = "requested"
  <2>1. a.approvals + 1 \in Nat /\ a.questions + 1 \in Nat
    BY DEF AgentRecords
  <2> QED
    BY <1>4, <2>1 DEF ApplyEventState, AgentRecords, AgentStates, Busy
<1>5. CASE e.op = "resolved"
  <2>1. /\ [a EXCEPT !.approvals = Decrement(@)] \in AgentRecords
        /\ [a EXCEPT !.approvals = Decrement(@)].queued = a.queued
        /\ [a EXCEPT !.questions = Decrement(@)] \in AgentRecords
        /\ [a EXCEPT !.questions = Decrement(@)].queued = a.queued
    BY <1>1 DEF AgentRecords
  <2>2. \/ ApplyEventState(a, e) = RestoreWaitingState([a EXCEPT !.approvals = Decrement(@)])
        \/ ApplyEventState(a, e) = RestoreWaitingState([a EXCEPT !.questions = Decrement(@)])
        \/ ApplyEventState(a, e) = a
    BY <1>5 DEF ApplyEventState
  <2> QED
    BY <1>2, <2>1, <2>2
<1> QED
  BY <1>3, <1>4, <1>5

-----------------------------------------------------------------------------
(* Type correctness of the helpers the actions are built from. *)

(* Every RuntimeCommand the broker builds is one the task understands. *)
LEMMA CommandType ==
  /\ \A op \in Ops, id \in Ids : Command(op, id) \in Commands
  /\ Disconnected \in Commands
  /\ 0 \in Ids
BY SessionAssumption DEF Command, Commands, Disconnected, Ops, Ids

(* commands.send().await: with no handler already waiting, the channel keeps to its
   capacity, and at most one command waits for room. *)
LEMMA SendType ==
  ASSUME TypeOK, sending = << >>,
         NEW c \in Commands, NEW a \in AgentRecords, Len(a.queued) <= MaxQueued,
         Send(c, a)
  PROVE  /\ agent' \in AgentRecords /\ Len(agent'.queued) <= MaxQueued
         /\ unanswered' \subseteq Ids
         /\ sending' \in Seq(Commands) /\ Len(sending') <= 1
         /\ commands' \in Seq(Commands) /\ Len(commands') <= MaxCommands
<1> USE DEF TypeOK, BrokerTypeOK, ChannelTypeOK
<1>1. c.id \in Ids
  BY DEF Commands
<1>2. CASE Open
  <2>1. agent' = a /\ unanswered' \subseteq Ids
    BY <1>1, <1>2 DEF Send
  <2>2. CASE Room
    <3>1. commands' = Append(commands, c) /\ sending' = sending
      BY <1>2, <2>2 DEF Send
    <3>2. Len(commands) < MaxCommands
      BY <2>2 DEF Room
    <3>3. Len(commands) \in Nat /\ MaxCommands \in Nat
      BY LenType, SessionAssumption
    <3>4. Len(commands) + 1 <= MaxCommands
      BY <3>2, <3>3
    <3> QED
      BY <2>1, <3>1, <3>4, AppendType
  <2>3. CASE ~Room
    <3>1. commands' = commands /\ sending' = <<c>>
      BY <1>2, <2>3 DEF Send
    <3> QED
      BY <2>1, <3>1, AppendType
  <2> QED
    BY <2>2, <2>3
<1>3. CASE ~Open
  <2>1. agent' = [a EXCEPT !.state = "Disconnected"]
    BY <1>3 DEF Send
  <2> QED
    BY <1>3, <2>1 DEF Send, AgentRecords, AgentStates
<1> QED
  BY <1>2, <1>3

(* queue_client_disconnect: the notice is queued when there is room, and left to a
   spawned sender otherwise. *)
LEMMA QueueClientDisconnectType ==
  ASSUME TypeOK, QueueClientDisconnect
  PROVE  /\ late' \in Nat
         /\ commands' \in Seq(Commands) /\ Len(commands') <= MaxCommands
<1> USE DEF TypeOK, BrokerTypeOK, ChannelTypeOK
<1>1. Len(commands) \in Nat /\ MaxCommands \in Nat
  BY LenType, SessionAssumption
<1>2. CASE Open /\ Room
  <2>1. commands' = Append(commands, Disconnected) /\ late' = late
    BY <1>2 DEF QueueClientDisconnect
  <2>2. Len(commands) + 1 <= MaxCommands
    BY <1>1, <1>2 DEF Room
  <2> QED
    BY <2>1, <2>2, CommandType, AppendType
<1>3. CASE ~(Open /\ Room)
  <2>1. commands' = commands /\ late' \in {late, late + 1}
    BY <1>3 DEF QueueClientDisconnect
  <2> QED
    BY <2>1
<1> QED
  BY <1>2, <1>3

(* cancel_queued_prompts and handle_provider_failure leave an agent record with an
   empty prompt queue. *)
LEMMA AgentUpdates ==
  ASSUME NEW a \in AgentRecords
  PROVE  /\ CancelQueuedPrompts(a) \in AgentRecords
         /\ CancelQueuedPrompts(a).queued = << >>
         /\ ProviderFailure(a) \in AgentRecords
         /\ ProviderFailure(a).queued = << >>
<1>1. << >> \in Seq(Ids)
  BY EmptyType
<1> QED
  BY <1>1 DEF CancelQueuedPrompts, ProviderFailure, AgentRecords, AgentStates

-----------------------------------------------------------------------------
(* Type correctness of the broker's steps. *)

(* Every client request (handle_request and the handlers it calls) keeps the types;
   the prompt queue never passes the limit send_agent_input checks. *)
LEMMA RequestType ==
  ASSUME TypeOK, BrokerRequest
  PROVE  TypeOK'
<1> USE DEF TypeOK, BrokerTypeOK, ChannelTypeOK, TaskTypeOK, HistoryTypeOK
<1> DEFINE SendOK(c, a) == c \in Commands /\ a \in AgentRecords /\ Len(a.queued) <= MaxQueued
<1>1. ASSUME NEW kind, NextRequest(kind)
      PROVE  sending = << >> /\ nreq' \in Ids
  BY <1>1, SessionAssumption DEF NextRequest, Turn, Ids
<1>2. CASE Prompt
  <2>1. Command("Prompt", nreq') \in Commands
    BY <1>1, <1>2, CommandType DEF Prompt, Ops
  <2>2. /\ [agent EXCEPT !.state = "Running"] \in AgentRecords
        /\ Len([agent EXCEPT !.state = "Running"].queued) <= MaxQueued
    BY DEF AgentRecords, AgentStates, Busy
  <2> QED
    BY <1>1, <1>2, <2>1, <2>2, SendType DEF Prompt, brokerOnly, answerVars
<1>3. CASE QueuePrompt
  <2>1. agent' \in AgentRecords /\ Len(agent'.queued) <= MaxQueued
    <3> DEFINE q == Append(agent.queued, nreq')
    <3>1. Len(agent.queued) < MaxQueued /\ agent.queued \in Seq(Ids) /\ nreq' \in Ids
      BY <1>1, <1>3 DEF QueuePrompt, QueueHasRoom, AgentRecords
    <3>2. q \in Seq(Ids) /\ Len(q) = Len(agent.queued) + 1
      BY <3>1, AppendType
    <3>3. Len(q) <= MaxQueued
      BY <3>1, <3>2, LenType, SessionAssumption
    <3>4. agent' = [agent EXCEPT !.queued = q]
      BY <1>3 DEF QueuePrompt
    <3> HIDE DEF q
    <3> QED
      BY <3>2, <3>3, <3>4 DEF AgentRecords
  <2> QED
    BY <1>1, <1>3, <2>1 DEF QueuePrompt, brokerOnly, answerVars
<1>4. CASE Steer
  <2>1. SendOK(Command("Steer", nreq'), agent)
    BY <1>1, <1>4, CommandType DEF Steer, Ops
  <2> QED
    BY <1>1, <1>4, <2>1, SendType DEF Steer, brokerOnly, answerVars
<1>5. CASE Interrupt
  <2>1. SendOK(Command("Interrupt", nreq'), CancelQueuedPrompts(agent))
    BY <1>1, <1>5, CommandType, AgentUpdates, SessionAssumption DEF Interrupt, Ops
  <2> QED
    BY <1>1, <1>5, <2>1, SendType DEF Interrupt, brokerOnly, answerVars
<1>6. CASE History
  <2>1. SendOK(Command("History", nreq'), agent)
    BY <1>1, <1>6, CommandType DEF History, Ops
  <2> QED
    BY <1>1, <1>6, <2>1, SendType DEF History, brokerOnly, answerVars
<1>7. ASSUME NEW op \in {"Approval", "Question"}, NEW h \in Human, NEW allow \in BOOLEAN,
             Respond(op, h, allow)
      PROVE  TypeOK'
  <2>1. SendOK([Command(op, nreq') EXCEPT !.human = h, !.allow = allow], agent)
    BY <1>1, <1>7 DEF Respond, Command, Commands, Ops
  <2>2. consent' \subseteq Human
    BY <1>7 DEF Respond
  <2> QED
    BY <1>1, <1>7, <2>1, <2>2, SendType DEF Respond, brokerOnly, answerVars
<1> QED
  BY <1>2, <1>3, <1>4, <1>5, <1>6, <1>7 DEF BrokerRequest
(* The runtime event the broker's loop takes is one the task sent. *)
LEMMA EventHeadType ==
  ASSUME TypeOK, NEW ops, NextEvent(ops)
  PROVE  /\ Head(events) \in Events /\ Head(events).op \in ops
         /\ Head(events).id \in Ids /\ AboutHuman(Head(events))
         /\ events' \in Seq(Events)
<1>1. events \in Seq(Events) /\ events # << >> /\ events' = Tail(events)
  BY DEF TypeOK, ChannelTypeOK, NextEvent
<1>2. Head(events) \in Events /\ events' \in Seq(Events)
  BY <1>1, TailType
<1> QED
  BY <1>2 DEF NextEvent, Events

(* Every runtime event (handle_runtime_event, handle_provider_event) keeps the types;
   dispatch_queued_prompt sends only when the channel has room. *)
LEMMA EventType ==
  ASSUME TypeOK, BrokerEvent
  PROVE  TypeOK'
<1> USE DEF TypeOK, BrokerTypeOK, ChannelTypeOK, TaskTypeOK, HistoryTypeOK
<1> DEFINE Kept == UNCHANGED <<connected, sending, clientVars, rt, prov, wire, answerVars,
                               started>>
           AgentOK(a) == a \in AgentRecords /\ Len(a.queued) <= MaxQueued
<1>1. ASSUME NEW ops, NextEvent(ops)
      PROVE  /\ Kept /\ events' \in Seq(Events)
             /\ Head(events) \in Events /\ Head(events).op \in ops
             /\ Head(events).id \in Ids /\ AboutHuman(Head(events))
  BY <1>1, EventHeadType DEF NextEvent
<1>2. CASE HandleStarted
  <2>1. AgentOK(agent')
    BY <1>2 DEF HandleStarted, AgentRecords, AgentStates, AcceptsPrompt
  <2> QED
    BY <1>1, <1>2, <2>1 DEF HandleStarted, clientVars, answerVars
<1>3. CASE HandleResponse
  BY <1>1, <1>3 DEF HandleResponse, clientVars, answerVars
<1>4. CASE HandleQueuedFailure
  <2>1. AgentOK(agent')
    BY <1>4, AgentUpdates, EmptyType, SessionAssumption DEF HandleQueuedFailure
  <2> QED
    BY <1>1, <1>4, <2>1 DEF HandleQueuedFailure, clientVars, answerVars
<1>5. CASE HandleRejected
  BY <1>1, <1>5 DEF HandleRejected, clientVars, answerVars
<1>6. CASE HandleRequestFailed
  <2>1. AgentOK(agent')
    <3> DEFINE a == CancelQueuedPrompts(agent)
    <3>1. AgentOK(a)
      BY AgentUpdates, EmptyType, SessionAssumption
    <3>2. agent' = [a EXCEPT !.state = "Failed", !.turn = FALSE]
      BY <1>6 DEF HandleRequestFailed
    <3> HIDE DEF a
    <3> QED
      BY <3>1, <3>2 DEF AgentRecords, AgentStates
  <2>2. commands' \in Seq(Commands) /\ Len(commands') <= MaxCommands
    <3>1. Command("Shutdown", 0) \in Commands
      BY CommandType DEF Ops
    <3>2. Room => Len(commands) + 1 <= MaxCommands
      BY LenType, SessionAssumption DEF Room
    <3>3. commands' = IF Open /\ Room THEN Append(commands, Command("Shutdown", 0))
                                     ELSE commands
      BY <1>6 DEF HandleRequestFailed
    <3> QED
      BY <3>1, <3>2, <3>3, AppendType
  <2> QED
    BY <1>1, <1>6, <2>1, <2>2 DEF HandleRequestFailed, clientVars, answerVars
<1>7. CASE HandleTurnEvent
  <2> DEFINE a == ApplyEventState(agent, Head(events))
             b == [a EXCEPT !.queued = Tail(@), !.state = "Running"]
  <2>1. AgentOK(a)
    BY <1>1, <1>7, ApplyEventStateType DEF HandleTurnEvent
  <2>2. AgentOK(CancelQueuedPrompts(a)) /\ AgentOK(ProviderFailure(a))
    BY <2>1, AgentUpdates, EmptyType, SessionAssumption
  <2>3. ASSUME a.queued # << >>
        PROVE  /\ AgentOK(b) /\ Head(a.queued) \in Ids
    <3>1. /\ Head(a.queued) \in Ids
          /\ Tail(a.queued) \in Seq(Ids) /\ Len(Tail(a.queued)) = Len(a.queued) - 1
      BY <2>1, <2>3, TailType DEF AgentRecords
    <3>2. Len(Tail(a.queued)) <= MaxQueued
      BY <2>1, <3>1, LenType, SessionAssumption DEF AgentRecords
    <3> HIDE DEF a
    <3>3. b \in AgentRecords /\ b.queued = Tail(a.queued)
      BY <2>1, <3>1 DEF AgentRecords, AgentStates, Busy
    <3> QED
      BY <3>1, <3>2, <3>3
  <2>4. ASSUME DispatchQueuedPrompt(a)
        PROVE  /\ AgentOK(agent') /\ queuedReqs' \subseteq Ids
               /\ commands' \in Seq(Commands) /\ Len(commands') <= MaxCommands
    <3> HIDE DEF a
    <3>1. CASE a.queued # << >> /\ Open /\ Room
      <4>1. /\ commands' = Append(commands, Command("Prompt", Head(a.queued)))
            /\ queuedReqs' = queuedReqs \cup {Head(a.queued)}
            /\ agent' = b
        BY <2>4, <3>1 DEF DispatchQueuedPrompt
      <4>2. Command("Prompt", Head(a.queued)) \in Commands
        BY <2>3, <3>1, CommandType DEF Ops
      <4>3. Len(commands) + 1 <= MaxCommands
        BY <3>1, LenType, SessionAssumption DEF Room
      <4> HIDE DEF b
      <4> QED
        BY <2>3, <3>1, <4>1, <4>2, <4>3, AppendType
    <3>2. CASE ~(a.queued # << >> /\ Open /\ Room)
      <4>1. /\ agent' \in {a, ProviderFailure(a)}
            /\ queuedReqs' = queuedReqs /\ commands' = commands
        BY <2>4, <3>2 DEF DispatchQueuedPrompt
      <4> QED
        BY <2>1, <2>2, <4>1
    <3> QED
      BY <3>1, <3>2
  <2>5. \/ DispatchQueuedPrompt(a)
        \/ agent' \in {a, CancelQueuedPrompts(a)} /\ UNCHANGED <<queuedReqs, commands>>
    BY <1>7 DEF HandleTurnEvent
  <2>6. /\ AgentOK(agent') /\ queuedReqs' \subseteq Ids
        /\ commands' \in Seq(Commands) /\ Len(commands') <= MaxCommands
    BY <2>1, <2>2, <2>4, <2>5
  <2>7. Kept /\ events' \in Seq(Events) /\ UNCHANGED <<unanswered, late, seen>>
    BY <1>1, <1>7 DEF HandleTurnEvent
  <2> HIDE DEF a, b
  <2> QED
    BY <2>6, <2>7 DEF clientVars, answerVars
<1>8. CASE HandleRequested
  <2>1. AgentOK(agent')
    BY <1>1, <1>8, ApplyEventStateType DEF HandleRequested
  <2>2. /\ late' \in Nat
        /\ commands' \in Seq(Commands) /\ Len(commands') <= MaxCommands
    BY <1>8, QueueClientDisconnectType DEF HandleRequested
  <2>3. seen' \subseteq Human
    <3>1. NextEvent({"requested"})
      BY <1>8 DEF HandleRequested
    <3>2. Head(events).op \in {"requested"} /\ AboutHuman(Head(events))
      BY <1>1, <3>1
    <3>3. Head(events).human \in Human
      BY <3>2 DEF AboutHuman
    <3> QED
      BY <1>8, <3>3 DEF HandleRequested
  <2> QED
    BY <1>1, <1>8, <2>1, <2>2, <2>3 DEF HandleRequested, clientVars, answerVars
<1>9. CASE HandleResolved
  <2>1. AgentOK(agent')
    BY <1>1, <1>9, ApplyEventStateType DEF HandleResolved
  <2> QED
    BY <1>1, <1>9, <2>1 DEF HandleResolved, clientVars, answerVars
<1>10. CASE HandleProviderFailed
  <2>1. AgentOK(agent')
    BY <1>10, AgentUpdates, EmptyType, SessionAssumption DEF HandleProviderFailed
  <2> QED
    BY <1>1, <1>10, <2>1 DEF HandleProviderFailed, clientVars, answerVars
<1>11. CASE HandleStopped
  <2>1. AgentOK(agent')
    <3> DEFINE a == CancelQueuedPrompts(agent)
               turn == a.turn /\ agent.state = "Disconnected"
    <3>1. AgentOK(a) /\ turn \in BOOLEAN
      BY AgentUpdates, EmptyType, SessionAssumption
    <3>2. agent' = [a EXCEPT !.task = FALSE, !.state = "Disconnected", !.turn = turn]
      BY <1>11 DEF HandleStopped
    <3> HIDE DEF a, turn
    <3> QED
      BY <3>1, <3>2 DEF AgentRecords, AgentStates
  <2> QED
    BY <1>1, <1>11, <2>1 DEF HandleStopped, clientVars, answerVars
<1> QED
  BY <1>2, <1>3, <1>4, <1>5, <1>6, <1>7, <1>8, <1>9, <1>10, <1>11 DEF BrokerEvent
-----------------------------------------------------------------------------
(* Type correctness of the task's steps. *)

(* What the task adds to the unbounded event channel are RuntimeEvents. *)
LEMMA EmitType ==
  ASSUME TypeOK, NEW es \in Seq(Events), Emit(es)
  PROVE  events' \in Seq(Events)
<1>1. \A s, t \in Seq(Events) : s \o t \in Seq(Events)
  OBVIOUS
<1> QED
  BY <1>1 DEF TypeOK, ChannelTypeOK, Emit

(* The events the task makes up itself. *)
LEMMA EventValueType ==
  /\ \A op \in EventOps \ {"requested", "resolved"} : Event(op) \in Events
  /\ \A op \in EventOps \ {"requested", "resolved"}, id \in Ids : Reply(op, id) \in Events
BY SessionAssumption DEF Event, Reply, Events, AboutHuman, Ids

(* Provider messages that are not replies are published as they are
   (publish_codex_events, publish_worker_inbound). *)
LEMMA NoticeType ==
  /\ Notices \subseteq Events
  /\ \A s \in Seq(Notices) : s \in Seq(Events)
<1>1. Notices \subseteq Events
  BY DEF Notices, Messages, WireOps, TurnOps, Events, EventOps
<1>2. \A s \in Seq(Notices) : s \in Seq(Events)
  BY <1>1
<1> QED
  BY <1>1, <1>2

(* deny_all_* and expire_* write one more denial per request and allow nothing. *)
LEMMA DenyType ==
  ASSUME TypeOK, NEW S, Deny(S)
  PROVE  replies' \in [Human -> Nat] /\ allowed' \subseteq Human
BY DEF TypeOK, HistoryTypeOK, Deny

(* commands.recv(): the task takes the front of the bounded channel. *)
LEMMA ReceiveType ==
  ASSUME TypeOK, NEW ops, Receive(ops)
  PROVE  /\ rt.pc = "loop"
         /\ Head(commands) \in Commands /\ Head(commands).op \in ops
         /\ Head(commands).id \in Ids
         /\ commands' \in Seq(Commands) /\ Len(commands') <= MaxCommands
         /\ UNCHANGED <<wire, taskOnly>>
<1>1. /\ commands \in Seq(Commands) /\ commands # << >> /\ commands' = Tail(commands)
      /\ Len(commands) <= MaxCommands
  BY DEF TypeOK, ChannelTypeOK, Receive
<1>2. /\ Head(commands) \in Commands /\ commands' \in Seq(Commands)
      /\ Len(commands') = Len(commands) - 1
  BY <1>1, TailType
<1>3. Len(commands') <= MaxCommands
  BY <1>1, <1>2, LenType, SessionAssumption
<1>4. Head(commands).id \in Ids
  BY <1>2 DEF Commands
<1> QED
  BY <1>2, <1>3, <1>4 DEF Receive

(* A call that fails becomes a RequestFailed, or a ProviderFailed for an interrupt
   or an answer. *)
LEMMA CallFailedType ==
  ASSUME NEW c \in Commands
  PROVE  CallFailed(c) \in Events
<1>1. c.id \in Ids
  BY DEF Commands
<1> QED
  BY <1>1, EventValueType DEF CallFailed, EventOps

(* A call the task starts is the one it awaits (codex.rs request, worker.rs request). *)
LEMMA CallType ==
  ASSUME TypeOK, NEW c \in Commands, Call(c), UNCHANGED wire
  PROVE  events' \in Seq(Events) /\ TaskTypeOK'
<1> USE DEF TypeOK, ChannelTypeOK, TaskTypeOK
<1>1. CASE prov.alive
  <2>1. <<c>> \in Seq(Commands) /\ Len(<<c>>) = 1 /\ c.op \in Ops
    BY AppendType DEF Commands
  <2>2. /\ rt' = [rt EXCEPT !.pc = "call", !.call = <<c>>]
        /\ prov' = [prov EXCEPT !.call = c.op]
        /\ events' = events
    BY <1>1 DEF Call
  <2>3. rt' \in TaskRecords /\ rt'.call = <<c>>
    BY <2>1, <2>2 DEF TaskRecords
  <2>4. prov' \in ProviderRecords
    BY <2>1, <2>2 DEF ProviderRecords
  <2> QED
    BY <2>1, <2>2, <2>3, <2>4
<1>2. CASE ~prov.alive
  <2>1. <<CallFailed(c)>> \in Seq(Events)
    BY CallFailedType, AppendType
  <2>2. events' \in Seq(Events) /\ rt' = rt /\ prov' = prov
    BY <1>2, <2>1, EmitType DEF Call
  <2> QED
    BY <2>2
<1> QED
  BY <1>1, <1>2
(* Denying the requests of S and publishing that, then perhaps one event more. *)
LEMMA DeniedType ==
  ASSUME NEW S \in SUBSET Human, NEW order \in Orders(S), NEW e \in Events
  PROVE  /\ Resolved(order) \in Seq(Events)
         /\ Append(Resolved(order), e) \in Seq(Events)
BY ResolvedType, AppendType

(* Every arm of the task's select over its commands keeps the types. *)
LEMMA CommandHandledType ==
  ASSUME TypeOK, TaskCommand
  PROVE  TypeOK'
<1> USE DEF TypeOK, TaskTypeOK
<1> DEFINE c == Head(commands)
           Kept == UNCHANGED <<wire, taskOnly>>
           Received == /\ c \in Commands /\ c.id \in Ids
                       /\ commands' \in Seq(Commands) /\ Len(commands') <= MaxCommands
                       /\ rt.pc = "loop" /\ Kept
           ChannelOK == ChannelTypeOK'
           TaskOK == rt' \in TaskRecords /\ (rt'.pc = "call" => Len(rt'.call) = 1)
           AnswersOK == replies' \in [Human -> Nat] /\ allowed' \subseteq Human
<1>1. ASSUME NEW ops, Receive(ops)
      PROVE  Received
  BY <1>1, ReceiveType
<1>2. ASSUME Received, events' \in Seq(Events), TaskTypeOK', AnswersOK,
             started' \in Seq(WrittenPrompts)
      PROVE  TypeOK'
  BY <1>2 DEF BrokerTypeOK, ChannelTypeOK, HistoryTypeOK, taskOnly, brokerVars, clientVars
<1>3. ASSUME UNCHANGED answerVars
      PROVE  AnswersOK
  BY <1>3 DEF answerVars, HistoryTypeOK
<1>4. started \in Seq(WrittenPrompts) /\ rt.pending \in SUBSET Human
  BY DEF HistoryTypeOK, TaskRecords
<1>5. \A op \in EventOps \ {"requested", "resolved"}, id \in Ids :
        <<Reply(op, id)>> \in Seq(Events)
  BY EventValueType, AppendType
<1>6. CASE RtPrompt
  <2>1. Received
    BY <1>1, <1>6 DEF RtPrompt
  <2>2. events' \in Seq(Events) /\ TaskTypeOK'
    <3>1. CASE rt.active
      <4>1. Emit(<<Reply("Rejected", c.id)>>) /\ UNCHANGED <<rt, prov>>
        BY <1>6, <3>1 DEF RtPrompt
      <4> QED
        BY <2>1, <4>1, <1>5, EmitType DEF EventOps
    <3>2. CASE ~rt.active
      BY <1>6, <2>1, <3>2, CallType DEF RtPrompt
    <3> QED
      BY <3>1, <3>2
  <2>3. started' \in Seq(WrittenPrompts)
    <3>1. started' \in {started, Append(started, WrittenPrompt(c))}
      BY <1>6 DEF RtPrompt
    <3>2. WrittenPrompt(c) \in WrittenPrompts
      BY <2>1 DEF WrittenPrompt, WrittenPrompts
    <3> QED
      BY <1>4, <3>1, <3>2, AppendType
  <2> QED
    BY <1>2, <1>3, <1>6, <2>1, <2>2, <2>3 DEF RtPrompt
<1>7. CASE RtSteer
  <2>1. Received
    BY <1>1, <1>7 DEF RtSteer
  <2>2. events' \in Seq(Events) /\ TaskTypeOK'
    <3>1. CASE ~rt.active
      <4>1. Emit(<<Reply("Rejected", c.id)>>) /\ UNCHANGED <<rt, prov>>
        BY <1>7, <3>1 DEF RtSteer
      <4> QED
        BY <2>1, <4>1, <1>5, EmitType DEF EventOps
    <3>2. CASE rt.active
      BY <1>7, <2>1, <3>2, CallType DEF RtSteer
    <3> QED
      BY <3>1, <3>2
  <2> QED
    BY <1>2, <1>3, <1>4, <1>7, <2>1, <2>2 DEF RtSteer
<1>8. CASE RtHistory
  <2>1. Received
    BY <1>1, <1>8 DEF RtHistory
  <2>2. events' \in Seq(Events) /\ TaskTypeOK'
    BY <1>8, <2>1, CallType DEF RtHistory
  <2> QED
    BY <1>2, <1>3, <1>4, <1>8, <2>1, <2>2 DEF RtHistory
<1>9. CASE RtInterrupt
  <2>1. Received
    BY <1>1, <1>9 DEF RtInterrupt
  <2>2. AnswersOK
    BY <1>9, DenyType DEF RtInterrupt
  <2>3. PICK order \in Orders(rt.pending) :
          \/ /\ \E op \in {"RequestFailed", "Response"} :
                  Emit(Append(Resolved(order), Reply(op, c.id)))
             /\ rt' = [rt EXCEPT !.pending = {}]
             /\ prov' = prov
          \/ /\ Emit(Resolved(order))
             /\ rt' = [rt EXCEPT !.pending = {}, !.pc = "call", !.call = <<c>>]
             /\ prov' = [prov EXCEPT !.call = "Interrupt"]
    BY <1>9 DEF RtInterrupt
  <2>4. events' \in Seq(Events)
    <3>1. \A op \in {"RequestFailed", "Response"} : Reply(op, c.id) \in Events
      BY <2>1, EventValueType DEF EventOps
    <3>2. Resolved(order) \in Seq(Events)
      BY <1>4, ResolvedType
    <3>3. \A op \in {"RequestFailed", "Response"} :
            Append(Resolved(order), Reply(op, c.id)) \in Seq(Events)
      BY <3>1, <3>2, AppendType
    <3> QED
      BY <2>3, <3>2, <3>3, EmitType
  <2>5. TaskOK
    <3>1. CASE rt' = [rt EXCEPT !.pending = {}]
      BY <2>1, <3>1 DEF TaskRecords
    <3>2. CASE rt' = [rt EXCEPT !.pending = {}, !.pc = "call", !.call = <<c>>]
      <4>1. <<c>> \in Seq(Commands) /\ Len(<<c>>) = 1
        BY <2>1, AppendType
      <4> HIDE DEF c
      <4>2. rt' \in TaskRecords /\ rt'.call = <<c>>
        BY <3>2, <4>1 DEF TaskRecords
      <4> QED
        BY <4>1, <4>2
    <3> QED
      BY <2>3, <3>1, <3>2
  <2>6. prov' \in ProviderRecords
    <3>1. CASE prov' = [prov EXCEPT !.call = "Interrupt"]
      BY <3>1 DEF ProviderRecords, Ops
    <3> QED
      BY <2>3, <3>1
  <2> QED
    BY <1>2, <1>4, <1>9, <2>1, <2>2, <2>4, <2>5, <2>6 DEF RtInterrupt, taskOnly
<1>10. CASE RtRespond
  <2>1. Received
    BY <1>1, <1>10 DEF RtRespond
  <2>2. CASE ~Answerable(c)
    <3>1. Emit(<<Reply("Rejected", c.id)>>) /\ UNCHANGED <<rt, prov, answerVars, started>>
      BY <1>10, <2>2 DEF RtRespond
    <3> QED
      BY <1>2, <1>3, <1>4, <1>5, <2>1, <3>1, EmitType DEF EventOps
  <2>3. CASE Answerable(c) /\ ~prov.alive
    <3>1. Emit(<<Reply("RequestFailed", c.id)>>) /\ UNCHANGED <<rt, prov, answerVars, started>>
      BY <1>10, <2>3 DEF RtRespond
    <3> QED
      BY <1>2, <1>3, <1>4, <1>5, <2>1, <3>1, EmitType DEF EventOps
  <2>4. CASE Answerable(c) /\ prov.alive
    <3>1. /\ replies' = [replies EXCEPT ![c.human] = @ + 1]
          /\ allowed' = allowed \cup LetGo(c)
          /\ rt' = [rt EXCEPT !.pending = @ \ {c.human}]
          /\ Emit(<<Reply("Response", c.id)>> \o Resolved(<<c.human>>))
          /\ UNCHANGED <<prov, started>>
      BY <1>10, <2>4 DEF RtRespond
    <3>2. c.human \in Human
      BY <1>4, <2>4 DEF Answerable
    <3>3. AnswersOK
      <4>1. LetGo(c) \subseteq Human
        BY <3>2 DEF LetGo
      <4>2. \A n \in Nat : n + 1 \in Nat
        OBVIOUS
      <4> HIDE DEF c
      <4> QED
        BY <3>1, <3>2, <4>1, <4>2 DEF HistoryTypeOK
    <3>4. events' \in Seq(Events)
      <4>1. /\ <<Reply("Response", c.id)>> \in Seq(Events)
            /\ Resolved(<<c.human>>) \in Seq(Events)
        BY <1>5, <2>1, <3>2, ResolvedOneType DEF EventOps
      <4>2. <<Reply("Response", c.id)>> \o Resolved(<<c.human>>) \in Seq(Events)
        BY <4>1
      <4> QED
        BY <3>1, <4>2, EmitType
    <3>5. TaskOK
      BY <2>1, <3>1 DEF TaskRecords
    <3> QED
      BY <1>2, <1>4, <2>1, <3>1, <3>3, <3>4, <3>5
  <2> QED
    BY <2>2, <2>3, <2>4
<1>11. ASSUME NEW next \in {"loop", "exiting"},
              \E order \in Orders(rt.pending) :
                \/ Emit(Resolved(order))
                \/ Emit(Append(Resolved(order), Event("ProviderFailed"))),
              rt' = [rt EXCEPT !.pending = {}, !.pc = next] \/ rt' = [rt EXCEPT !.pending = {}],
              Deny(rt.pending), Received, UNCHANGED <<prov, started>>
       PROVE  TypeOK'
  <2>1. AnswersOK
    BY <1>11, DenyType
  <2>2. events' \in Seq(Events)
    <3>1. Event("ProviderFailed") \in Events
      BY EventValueType DEF EventOps
    <3>2. \A order \in Orders(rt.pending) :
            /\ Resolved(order) \in Seq(Events)
            /\ Append(Resolved(order), Event("ProviderFailed")) \in Seq(Events)
      BY <1>4, <3>1, DeniedType
    <3> QED
      BY <1>11, <3>2, EmitType
  <2>3. TaskOK
    BY <1>11 DEF TaskRecords
  <2> QED
    BY <1>2, <1>4, <1>11, <2>1, <2>2, <2>3
<1>12. CASE RtClientDisconnected
  <2>1. Received /\ Deny(rt.pending) /\ UNCHANGED <<prov, started>>
    BY <1>1, <1>12 DEF RtClientDisconnected
  <2>2. /\ \E order \in Orders(rt.pending) :
             \/ Emit(Resolved(order))
             \/ Emit(Append(Resolved(order), Event("ProviderFailed")))
        /\ \/ rt' = [rt EXCEPT !.pending = {}, !.pc = "exiting"]
           \/ rt' = [rt EXCEPT !.pending = {}]
    BY <1>12 DEF RtClientDisconnected
  <2> QED
    BY <1>11, <2>1, <2>2
<1>13. CASE RtShutdown
  <2>1. Received /\ Deny(rt.pending) /\ UNCHANGED <<prov, started>>
    BY <1>1, <1>13 DEF RtShutdown
  <2>2. /\ \E order \in Orders(rt.pending) : Emit(Resolved(order))
        /\ rt' = [rt EXCEPT !.pending = {}, !.pc = "exiting"]
    BY <1>13 DEF RtShutdown
  <2> QED
    BY <1>11, <2>1, <2>2
<1> QED
  BY <1>6, <1>7, <1>8, <1>9, <1>10, <1>12, <1>13 DEF TaskCommand
(* Messages that arrive before the reply are collected, and a Codex request among
   them is denied (codex.rs request). *)
LEMMA CollectType ==
  ASSUME TypeOK, RtCollect
  PROVE  /\ rt' \in TaskRecords /\ (rt'.pc = "call" => Len(rt'.call) = 1)
         /\ wire' \in Seq(Messages)
         /\ events' \in Seq(Events)
         /\ replies' \in [Human -> Nat] /\ allowed' \subseteq Human
<1> USE DEF TypeOK, TaskTypeOK
<1> DEFINE m == Head(wire)
           denied == IF Provider = "codex" /\ m.op = "requested" THEN {m.human} ELSE {}
<1>1. m \in Notices /\ wire' \in Seq(Messages)
  BY TailType DEF RtCollect, Notices
<1>2. Deny(denied)
  BY DEF RtCollect
<1>3. rt.call[1] \in Commands /\ rt.collected \in Seq(Notices)
  BY DEF RtCollect, TaskRecords
<1>4. CASE DenialFails(denied)
  <2>1. /\ Emit(<<CallFailed(rt.call[1])>>)
        /\ rt' = [rt EXCEPT !.pc = "loop", !.call = << >>, !.collected = << >>]
    BY <1>4 DEF RtCollect
  <2>2. <<CallFailed(rt.call[1])>> \in Seq(Events)
    BY <1>3, CallFailedType, AppendType
  <2>3. rt' \in TaskRecords /\ rt'.pc = "loop"
    BY <2>1, EmptyType DEF TaskRecords
  <2> QED
    BY <1>1, <1>2, <2>1, <2>2, <2>3, EmitType, DenyType
<1>5. CASE ~DenialFails(denied)
  <2>1. rt' = [rt EXCEPT !.collected = Append(@, m)] /\ events' = events
    BY <1>5 DEF RtCollect
  <2>2. Append(rt.collected, m) \in Seq(Notices)
    BY <1>1, <1>3, AppendType
  <2> HIDE DEF m, denied
  <2>3. rt' \in TaskRecords /\ rt'.pc = rt.pc /\ rt'.call = rt.call
    BY <2>1, <2>2 DEF TaskRecords
  <2> QED
    BY <1>1, <1>2, <2>1, <2>3, DenyType DEF ChannelTypeOK
<1> QED
  BY <1>4, <1>5

(* The requests among collected messages are human requests. *)
LEMMA RequestedType ==
  ASSUME NEW ms \in Seq(Notices)
  PROVE  Requested(ms) \subseteq Human
<1>1. \A i \in DOMAIN ms : ms[i] \in Notices
  OBVIOUS
<1>2. \A m \in Notices : m.op = "requested" => m.human \in Human
  BY DEF Notices, Messages, AboutHuman
<1> QED
  BY <1>1, <1>2 DEF Requested

(* What is published after a reply are events. *)
LEMMA PublishedType ==
  ASSUME TypeOK, NEW c \in Commands
  PROVE  Published(c) \in Seq(Notices)
<1>1. Event("turn.started") \in Notices
  BY SessionAssumption DEF Event, Notices, Messages, WireOps, TurnOps, AboutHuman, Ids
<1>2. <<Event("turn.started")>> \in Seq(Notices) /\ << >> \in Seq(Notices)
  BY <1>1, AppendType, EmptyType
<1>3. rt.collected \in Seq(Notices)
  BY DEF TypeOK, TaskTypeOK, TaskRecords
<1>4. \A s, t \in Seq(Notices) : s \o t \in Seq(Notices)
  OBVIOUS
<1> QED
  BY <1>2, <1>3, <1>4 DEF Published

(* The reply to a call ends the wait and publishes what was collected. *)
LEMMA CallReturnsType ==
  ASSUME TypeOK, RtCallReturns
  PROVE  /\ rt' \in TaskRecords /\ (rt'.pc = "call" => Len(rt'.call) = 1)
         /\ wire' \in Seq(Messages)
         /\ events' \in Seq(Events)
<1> USE DEF TypeOK, TaskTypeOK
<1> DEFINE c  == rt.call[1]
           ms == Published(c)
           active  == (rt.active \/ c.op = "Prompt") /\ ~Ends(ms)
           pending == rt.pending \cup Held(ms)
<1>1. wire' \in Seq(Messages)
  BY TailType DEF RtCallReturns
<1>2. c \in Commands /\ c.id \in Ids
  <2>1. rt.pc = "call"
    BY DEF RtCallReturns
  <2>2. rt.call \in Seq(Commands) /\ Len(rt.call) = 1
    BY <2>1 DEF TaskRecords
  <2>3. c \in Commands
    BY <2>2, FirstType
  <2> HIDE DEF c
  <2> QED
    BY <2>3 DEF Commands
<1>3. ms \in Seq(Notices)
  BY <1>2, PublishedType
<1>4. pending \subseteq Human
  BY <1>3, RequestedType DEF Held, TaskRecords
<1>5. active \in BOOLEAN
  OBVIOUS
<1>6. /\ Emit(<<Reply("Response", c.id)>> \o ms)
      /\ rt' = [rt EXCEPT !.pc = "loop", !.call = << >>, !.collected = << >>,
                          !.active = active, !.pending = pending]
  BY DEF RtCallReturns
<1>7. <<Reply("Response", c.id)>> \o ms \in Seq(Events)
  <2>1. <<Reply("Response", c.id)>> \in Seq(Events) /\ ms \in Seq(Events)
    BY <1>2, <1>3, EventValueType, AppendType, NoticeType DEF EventOps
  <2> QED
    BY <2>1
<1>8. events' \in Seq(Events)
  BY <1>6, <1>7, EmitType
<1> HIDE DEF active, pending
<1>9. rt' \in TaskRecords /\ rt'.pc = "loop"
  BY <1>4, <1>5, <1>6, EmptyType DEF TaskRecords
<1> QED
  BY <1>1, <1>8, <1>9

(* A failed call, a message read in the loop and the end of the output keep the
   types. *)
LEMMA ReadType ==
  ASSUME TypeOK, RtCallFails \/ RtRead \/ RtStreamCloses
  PROVE  /\ rt' \in TaskRecords /\ (rt'.pc = "call" => Len(rt'.call) = 1)
         /\ wire' \in Seq(Messages)
         /\ events' \in Seq(Events)
<1> USE DEF TypeOK, TaskTypeOK
<1>1. CASE RtCallFails
  <2>1. rt.call[1] \in Commands
    BY <1>1 DEF RtCallFails, TaskRecords
  <2>2. <<CallFailed(rt.call[1])>> \in Seq(Events)
    BY <2>1, CallFailedType, AppendType
  <2>3. /\ Emit(<<CallFailed(rt.call[1])>>)
        /\ rt' = [rt EXCEPT !.pc = "loop", !.call = << >>, !.collected = << >>]
        /\ wire' = wire \/ (wire # << >> /\ wire' = Tail(wire))
    BY <1>1 DEF RtCallFails
  <2>4. rt' \in TaskRecords /\ rt'.pc = "loop"
    BY <2>3, EmptyType DEF TaskRecords
  <2> QED
    BY <2>2, <2>3, <2>4, EmitType, TailType
<1>2. CASE RtRead
  <2> DEFINE m == Head(wire)
             active  == m.op \notin Terminal
             pending == rt.pending \cup Requested(<<m>>)
  <2>1. m \in Notices /\ wire' \in Seq(Messages)
    BY <1>2, TailType DEF RtRead, Notices
  <2>2. <<m>> \in Seq(Notices) /\ <<m>> \in Seq(Events)
    BY <2>1, AppendType, NoticeType
  <2>3. pending \subseteq Human /\ active \in BOOLEAN
    BY <2>2, RequestedType DEF TaskRecords
  <2>4. rt' = [rt EXCEPT !.active = active, !.pending = pending] /\ Emit(<<m>>)
    BY <1>2 DEF RtRead
  <2>5. rt.pc = "loop"
    BY <1>2 DEF RtRead
  <2>6. events' \in Seq(Events)
    BY <2>2, <2>4, EmitType
  <2> HIDE DEF active, pending, m
  <2>7. rt' \in TaskRecords /\ rt'.pc = "loop"
    BY <2>3, <2>4, <2>5 DEF TaskRecords
  <2> QED
    BY <2>1, <2>6, <2>7
<1>3. CASE RtStreamCloses
  <2>1. <<Event("ProviderFailed")>> \in Seq(Events)
    BY EventValueType, AppendType DEF EventOps
  <2>2. events' \in Seq(Events) /\ wire' = wire
    BY <1>3, <2>1, EmitType DEF RtStreamCloses
  <2>3. rt' \in TaskRecords /\ rt'.pc = "exiting"
    BY <1>3 DEF RtStreamCloses, TaskRecords
  <2> QED
    BY <2>2, <2>3
<1> QED
  BY <1>1, <1>2, <1>3
(* The task's start, its reads, its deadlines and its exit keep the types. *)
LEMMA TaskStepType ==
  ASSUME TypeOK, RtStart \/ TaskRead \/ RtExpire \/ RtStop
  PROVE  TypeOK'
<1> USE DEF TypeOK, TaskTypeOK
<1> DEFINE TaskOK    == rt' \in TaskRecords /\ (rt'.pc = "call" => Len(rt'.call) = 1)
           AnswersOK == replies' \in [Human -> Nat] /\ allowed' \subseteq Human
           EventsOK  == events' \in Seq(Events)
           WireOK    == wire' \in Seq(Messages)
           ChannelOK == commands' = commands \/ commands' = << >>
           Others    == UNCHANGED <<started, taskOnly>>
<1>1. ASSUME TaskOK, AnswersOK, EventsOK, WireOK, ChannelOK, Others, prov' \in ProviderRecords
      PROVE  TypeOK'
  <2>1. commands' \in Seq(Commands) /\ Len(commands') <= MaxCommands
    <3>1. CASE commands' = << >>
      BY <3>1, EmptyType, SessionAssumption
    <3>2. CASE commands' = commands
      BY <3>2 DEF ChannelTypeOK
    <3> QED
      BY <1>1, <3>1, <3>2
  <2> QED
    BY <1>1, <2>1
    DEF BrokerTypeOK, ChannelTypeOK, HistoryTypeOK, taskOnly, brokerVars, clientVars
<1>2. ASSUME UNCHANGED answerVars
      PROVE  AnswersOK
  BY <1>2 DEF answerVars, HistoryTypeOK
<1>3. [prov EXCEPT !.alive = FALSE] \in ProviderRecords
  BY DEF ProviderRecords
<1>4. rt.pending \in SUBSET Human
  BY DEF TaskRecords
<1>5. CASE RtStart
  <2>1. rt' \in TaskRecords /\ rt'.pc \in {"loop", "stopped"}
    BY <1>5 DEF RtStart, TaskRecords
  <2>2. EventsOK
    <3>1. /\ <<Reply("Started", 0)>> \in Seq(Events)
          /\ <<Reply("RequestFailed", 0), Event("Stopped")>> \in Seq(Events)
      <4>1. /\ Reply("Started", 0) \in Events /\ Reply("RequestFailed", 0) \in Events
            /\ Event("Stopped") \in Events
        BY EventValueType, CommandType DEF EventOps
      <4> QED
        BY <4>1
    <3>2. \/ Emit(<<Reply("Started", 0)>>)
          \/ Emit(<<Reply("RequestFailed", 0), Event("Stopped")>>)
      BY <1>5 DEF RtStart
    <3> QED
      BY <3>1, <3>2, EmitType
  <2>3. /\ prov' = prov \/ prov' = [prov EXCEPT !.alive = FALSE]
        /\ ChannelOK /\ Others /\ UNCHANGED <<wire, answerVars>>
    BY <1>5 DEF RtStart
  <2> QED
    BY <1>1, <1>2, <1>3, <2>1, <2>2, <2>3
<1>6. CASE RtCollect
  BY <1>1, <1>6, CollectType DEF RtCollect
<1>7. CASE RtCallReturns
  BY <1>1, <1>2, <1>7, CallReturnsType DEF RtCallReturns
<1>8. CASE RtCallFails \/ RtRead \/ RtStreamCloses
  BY <1>1, <1>2, <1>8, ReadType DEF RtCallFails, RtRead, RtStreamCloses
<1>9. CASE RtExpire
  <2>1. PICK S \in SUBSET rt.pending \ {{}} :
          /\ Deny(S)
          /\ \E order \in Orders(S) :
               \/ /\ Emit(Append(Resolved(order), Event("ProviderFailed")))
                  /\ rt' = [rt EXCEPT !.pending = @ \ S, !.pc = "exiting"]
               \/ /\ Emit(Resolved(order))
                  /\ rt' = [rt EXCEPT !.pending = @ \ S]
    BY <1>9 DEF RtExpire
  <2>2. EventsOK
    <3>1. Event("ProviderFailed") \in Events
      BY EventValueType DEF EventOps
    <3>2. \A order \in Orders(S) :
            /\ Resolved(order) \in Seq(Events)
            /\ Append(Resolved(order), Event("ProviderFailed")) \in Seq(Events)
      BY <1>4, <3>1, DeniedType
    <3> QED
      BY <2>1, <3>2, EmitType
  <2>3. TaskOK
    <3>1. rt \in TaskRecords
      BY DEF TypeOK, TaskTypeOK
    <3>2. CASE rt' = [rt EXCEPT !.pending = @ \ S, !.pc = "exiting"]
      BY <3>1, <3>2 DEF TaskRecords
    <3>3. CASE rt' = [rt EXCEPT !.pending = @ \ S]
      <4>1. rt.pc = "loop"
        BY <1>9 DEF RtExpire
      <4> QED
        BY <3>1, <3>3, <4>1 DEF TaskRecords
    <3> QED
      BY <2>1, <3>2, <3>3
  <2> QED
    BY <1>1, <1>9, <2>1, <2>2, <2>3, DenyType DEF RtExpire
<1>10. CASE RtStop
  <2>1. EventsOK
    <3>1. Event("Stopped") \in Events
      BY EventValueType DEF EventOps
    <3>2. \A order \in Orders(rt.pending) :
            Append(Resolved(order), Event("Stopped")) \in Seq(Events)
      BY <1>4, <3>1, DeniedType
    <3>3. \E order \in Orders(rt.pending) : Emit(Append(Resolved(order), Event("Stopped")))
      BY <1>10 DEF RtStop
    <3> QED
      BY <3>2, <3>3, EmitType
  <2>2. TaskOK
    BY <1>10 DEF RtStop, TaskRecords
  <2>3. AnswersOK
    BY <1>10, DenyType DEF RtStop
  <2> QED
    BY <1>1, <1>3, <1>10, <2>1, <2>2, <2>3 DEF RtStop
<1> QED
  BY <1>5, <1>6, <1>7, <1>8, <1>9, <1>10 DEF TaskRead

-----------------------------------------------------------------------------
(* Type correctness of the provider's steps, and of the client coming and going. *)

(* What the provider process writes keeps the types. *)
LEMMA ProviderType ==
  ASSUME TypeOK, ProviderStep
  PROVE  TypeOK'
<1> USE DEF TypeOK, TaskTypeOK
<1>1. ASSUME wire' \in Seq(Messages), prov' \in ProviderRecords, providerOnly' = providerOnly
      PROVE  TypeOK'
  BY <1>1 DEF BrokerTypeOK, ChannelTypeOK, HistoryTypeOK, providerOnly, brokerVars,
              clientVars, answerVars
<1>2. \A ms \in Seq(Messages) : Say(ms) => wire' \in Seq(Messages)
  BY DEF Say
<1>3. /\ \A op \in WireOps \ {"requested"} : Event(op) \in Messages
      /\ \A h \in Human : Ask(h) \in Messages
  BY SessionAssumption DEF Event, Ask, Messages, WireOps, TurnOps, AboutHuman, Ids
<1>4. /\ \A op \in WireOps \ {"requested"} : <<Event(op)>> \in Seq(Messages)
      /\ \A h \in Human : <<Ask(h)>> \in Seq(Messages)
      /\ <<Event("ok"), Event("turn.started")>> \in Seq(Messages)
      /\ <<Event("turn.started"), Event("ok")>> \in Seq(Messages)
  <2>1. Event("ok") \in Messages /\ Event("turn.started") \in Messages
    BY <1>3 DEF WireOps, TurnOps
  <2> QED
    BY <1>3, <2>1, AppendType
<1>5. CASE ProviderReplies
  <2>1. wire' \in Seq(Messages)
    BY <1>2, <1>4, <1>5 DEF ProviderReplies, WireOps
  <2>2. prov' \in ProviderRecords
    BY <1>5 DEF ProviderReplies, ProviderRecords
  <2> QED
    BY <1>1, <1>5, <2>1, <2>2 DEF ProviderReplies
<1>6. CASE ProviderEndsTurn
  <2>1. wire' \in Seq(Messages)
    BY <1>2, <1>4, <1>6 DEF ProviderEndsTurn, WireOps, TurnOps
  <2>2. prov' \in ProviderRecords
    BY <1>6 DEF ProviderEndsTurn, ProviderRecords
  <2> QED
    BY <1>1, <1>6, <2>1, <2>2 DEF ProviderEndsTurn
<1>7. CASE ProviderDies
  <2>1. prov' \in ProviderRecords
    BY <1>7 DEF ProviderDies, ProviderRecords
  <2> QED
    BY <1>1, <1>7, <2>1 DEF ProviderDies
<1>8. ASSUME NEW h \in Human, ProviderAsks(h)
      PROVE  TypeOK'
  <2>1. wire' \in Seq(Messages)
    BY <1>2, <1>4, <1>8 DEF ProviderAsks
  <2>2. prov' \in ProviderRecords
    BY <1>8 DEF ProviderAsks, ProviderRecords
  <2> QED
    BY <1>1, <1>8, <2>1, <2>2 DEF ProviderAsks
<1> QED
  BY <1>5, <1>6, <1>7, <1>8 DEF ProviderStep

(* A finished send, a connect, a disconnect and a late disconnect notice keep the
   types. *)
LEMMA ConnectionType ==
  ASSUME TypeOK, FinishSend \/ ClientConnect \/ ClientDisconnect \/ SendLate
  PROVE  TypeOK'
<1> USE DEF TypeOK, BrokerTypeOK, ChannelTypeOK, TaskTypeOK, HistoryTypeOK,
            clientVars, brokerOnly, answerVars
<1>1. Room => Len(commands) + 1 <= MaxCommands
  BY LenType, SessionAssumption DEF Room
<1>2. CASE FinishSend
  <2>1. sending[1] \in Commands /\ sending' = << >>
    BY <1>2, LenType DEF FinishSend
  <2>2. commands' \in Seq(Commands) /\ Len(commands') <= MaxCommands
    <3>1. CASE Room /\ commands' = Append(commands, sending[1])
      <4>1. Len(commands) + 1 <= MaxCommands
        BY <1>1, <3>1
      <4> QED
        BY <2>1, <3>1, <4>1, AppendType
    <3>2. CASE commands' = commands
      BY <3>2
    <3> QED
      BY <1>2, <3>1, <3>2 DEF FinishSend
  <2>3. agent' \in AgentRecords /\ Len(agent'.queued) <= MaxQueued
    <3>1. agent' = agent \/ agent' = [agent EXCEPT !.state = "Disconnected"]
      BY <1>2 DEF FinishSend
    <3> QED
      BY <3>1 DEF AgentRecords, AgentStates
  <2>4. unanswered' \subseteq Ids
    BY <1>2 DEF FinishSend
  <2> QED
    BY <1>2, <2>1, <2>2, <2>3, <2>4, EmptyType DEF FinishSend
<1>3. CASE ClientConnect
  BY <1>3 DEF ClientConnect
<1>4. CASE ClientDisconnect
  <2>1. drops' \in 0 .. MaxDrops
    BY <1>4, SessionAssumption DEF ClientDisconnect
  <2>2. /\ late' \in Nat
        /\ commands' \in Seq(Commands) /\ Len(commands') <= MaxCommands
    BY <1>4, QueueClientDisconnectType DEF ClientDisconnect
  <2> QED
    BY <1>4, <2>1, <2>2 DEF ClientDisconnect
<1>5. CASE SendLate
  <2>1. late' \in Nat
    BY <1>5 DEF SendLate
  <2>2. commands' \in Seq(Commands) /\ Len(commands') <= MaxCommands
    <3>1. CASE Room /\ commands' = Append(commands, Disconnected)
      <4>1. Len(commands) + 1 <= MaxCommands
        BY <1>1, <3>1
      <4> QED
        BY <3>1, <4>1, CommandType, AppendType
    <3>2. CASE commands' = commands
      BY <3>2
    <3> QED
      BY <1>5, <3>1, <3>2 DEF SendLate
  <2> QED
    BY <1>5, <2>1, <2>2 DEF SendLate
<1> QED
  BY <1>2, <1>3, <1>4, <1>5

(* A session that has just been launched (launch_agent, spawn_agent) has the types. *)
LEMMA InitType ==
  Init => TypeOK
<1> SUFFICES ASSUME Init PROVE TypeOK
  OBVIOUS
<1>1. agent \in AgentRecords /\ agent.queued = << >>
  BY EmptyType DEF Init, NewAgent, AgentRecords, AgentStates
<1>2. BrokerTypeOK
  BY <1>1, EmptyType, CommandType, SessionAssumption DEF Init, BrokerTypeOK
<1>3. ChannelTypeOK
  BY EmptyType, SessionAssumption DEF Init, ChannelTypeOK
<1>4. TaskTypeOK
  BY EmptyType DEF Init, TaskTypeOK, TaskRecords, ProviderRecords
<1>5. HistoryTypeOK
  BY EmptyType, SessionAssumption DEF Init, HistoryTypeOK, Ids
<1> QED
  BY <1>2, <1>3, <1>4, <1>5 DEF TypeOK

(* Every step of the session keeps the types. *)
LEMMA NextType ==
  TypeOK /\ [Next]_vars => TypeOK'
<1> SUFFICES ASSUME TypeOK, [Next]_vars PROVE TypeOK'
  OBVIOUS
<1>1. CASE UNCHANGED vars
  BY <1>1 DEF vars, brokerVars, clientVars, answerVars, TypeOK, BrokerTypeOK,
              ChannelTypeOK, TaskTypeOK, HistoryTypeOK
<1>2. CASE Next
  BY <1>2, RequestType, EventType, CommandHandledType, TaskStepType, ProviderType,
     ConnectionType DEF Next
<1> QED
  BY <1>1, <1>2

(* Every variable keeps to its type, and the command channel, the prompt queue
   and the awaited send to their capacities, in every reachable state
   (spawn_agent's channel(32), send_agent_input's queue limit). *)
THEOREM TypeCorrect ==
  Spec => []TypeOK
BY InitType, NextType, PTL DEF Spec
-----------------------------------------------------------------------------
(* Consent. An "allow" is only ever on its way to the task because a client gave
   it, so it is enough to follow the commands that carry one. *)

Consented(cs, S) == \A i \in DOMAIN cs : cs[i].allow => cs[i].human \in S

ConsentInv ==
  /\ Consented(commands, consent)
  /\ Consented(sending, consent)
  /\ ConsentBeforeAllow

(* Consent is never withdrawn, so a channel whose commands were consented to stays so,
   also with one more command that was. *)
LEMMA ConsentedSequences ==
  ASSUME NEW S, NEW T, S \subseteq T,
         NEW cs \in Seq(Commands), Consented(cs, S),
         NEW c \in Commands, c.allow => c.human \in T
  PROVE  /\ Consented(cs, T)
         /\ Consented(<< >>, T)
         /\ Consented(<<c>>, T)
         /\ Consented(Append(cs, c), T)
         /\ cs # << >> => Consented(Tail(cs), T)
<1>1. Consented(cs, T) /\ Consented(<< >>, T) /\ Consented(<<c>>, T)
  BY DEF Consented
<1>2. Consented(Append(cs, c), T)
  BY <1>1 DEF Consented
<1>3. cs # << >> => Consented(Tail(cs), T)
  BY <1>1 DEF Consented
<1> QED
  BY <1>1, <1>2, <1>3

(* queue_client_disconnect adds nothing but a ClientDisconnected. *)
LEMMA TryDisconnect ==
  ASSUME QueueClientDisconnect
  PROVE  commands' = commands \/ commands' = Append(commands, Disconnected)
BY DEF QueueClientDisconnect

(* How a step can change the commands on their way and the requests allowed. *)
CommandsKept ==
  \/ commands' = commands
  \/ commands' = << >>
  \/ commands # << >> /\ commands' = Tail(commands)
  \/ \E c \in Commands : ~c.allow /\ commands' = Append(commands, c)

(* A handler's send adds its own command and no other. *)
LEMMA SendKeeps ==
  ASSUME NEW c, NEW a, Send(c, a)
  PROVE  /\ commands' = commands \/ commands' = Append(commands, c)
         /\ sending' = sending \/ sending' = <<c>>
BY DEF Send

(* A client request puts at most one command on its way, and an allowing one only
   together with the consent (respond_approval, respond_question). *)
LEMMA RequestConsent ==
  ASSUME TypeOK, BrokerRequest
  PROVE  /\ consent \subseteq consent' /\ allowed' = allowed
         /\ \E c \in Commands :
              /\ c.allow => c.human \in consent'
              /\ commands' = commands \/ commands' = Append(commands, c)
              /\ sending' = sending \/ sending' = <<c>>
<1>1. \A op \in Ops : NextRequest(op) => /\ Command(op, nreq') \in Commands
                                         /\ ~Command(op, nreq').allow
  <2>1. \A op : NextRequest(op) => nreq' \in Ids
    BY SessionAssumption DEF NextRequest, TypeOK, HistoryTypeOK, Ids
  <2> QED
    BY <2>1, CommandType DEF Command
<1>2. CASE Prompt
  <2>1. Command("Prompt", nreq') \in Commands /\ ~Command("Prompt", nreq').allow
    BY <1>1, <1>2 DEF Prompt, Ops
  <2> QED
    BY <1>2, <2>1, SendKeeps DEF Prompt, brokerOnly, answerVars
<1>3. CASE QueuePrompt
  BY <1>3, CommandType DEF QueuePrompt, brokerOnly, answerVars, Disconnected, Command
<1>4. CASE Steer
  <2>1. Command("Steer", nreq') \in Commands /\ ~Command("Steer", nreq').allow
    BY <1>1, <1>4 DEF Steer, Ops
  <2> QED
    BY <1>4, <2>1, SendKeeps DEF Steer, brokerOnly, answerVars
<1>5. CASE Interrupt
  <2>1. Command("Interrupt", nreq') \in Commands /\ ~Command("Interrupt", nreq').allow
    BY <1>1, <1>5 DEF Interrupt, Ops
  <2> QED
    BY <1>5, <2>1, SendKeeps DEF Interrupt, brokerOnly, answerVars
<1>6. CASE History
  <2>1. Command("History", nreq') \in Commands /\ ~Command("History", nreq').allow
    BY <1>1, <1>6 DEF History, Ops
  <2> QED
    BY <1>6, <2>1, SendKeeps DEF History, brokerOnly, answerVars
<1>7. ASSUME NEW op \in {"Approval", "Question"}, NEW h \in Human, NEW allow \in BOOLEAN,
             Respond(op, h, allow)
      PROVE  /\ consent \subseteq consent' /\ allowed' = allowed
             /\ \E c \in Commands :
                  /\ c.allow => c.human \in consent'
                  /\ commands' = commands \/ commands' = Append(commands, c)
                  /\ sending' = sending \/ sending' = <<c>>
  <2> DEFINE c == [Command(op, nreq') EXCEPT !.human = h, !.allow = allow]
  <2>1. nreq' \in Ids
    BY <1>7, SessionAssumption DEF Respond, NextRequest, TypeOK, HistoryTypeOK, Ids
  <2>2. c \in Commands /\ c.human = h /\ c.allow = allow
    BY <2>1 DEF Command, Commands, Ops
  <2>3. /\ commands' = commands \/ commands' = Append(commands, c)
        /\ sending' = sending \/ sending' = <<c>>
    BY <1>7, SendKeeps DEF Respond
  <2>4. consent \subseteq consent' /\ (allow => h \in consent') /\ allowed' = allowed
    BY <1>7 DEF Respond, brokerOnly, answerVars
  <2> HIDE DEF c
  <2> QED
    BY <2>2, <2>3, <2>4
<1> QED
  BY <1>2, <1>3, <1>4, <1>5, <1>6, <1>7 DEF BrokerRequest
(* Handling runtime events sends prompts, disconnects and shutdowns, never an answer. *)
LEMMA EventConsent ==
  ASSUME TypeOK, BrokerEvent
  PROVE  /\ \/ commands' = commands
            \/ \E c \in Commands : ~c.allow /\ commands' = Append(commands, c)
         /\ UNCHANGED <<consent, sending, allowed>>
<1>1. Disconnected \in Commands /\ ~Disconnected.allow
  BY CommandType DEF Disconnected, Command
<1>2. \A op \in Ops, id \in Ids : Command(op, id) \in Commands /\ ~Command(op, id).allow
  BY CommandType DEF Command
<1>3. \A ops : NextEvent(ops) => UNCHANGED <<consent, sending, allowed>>
  BY DEF NextEvent, clientVars, answerVars
<1>4. CASE HandleRequestFailed
  <2>1. Command("Shutdown", 0) \in Commands /\ ~Command("Shutdown", 0).allow
    BY <1>2, CommandType DEF Ops
  <2> QED
    BY <1>3, <1>4, <2>1 DEF HandleRequestFailed
<1>5. CASE HandleTurnEvent
  <2> DEFINE a == ApplyEventState(agent, Head(events))
  <2>1. UNCHANGED <<consent, sending, allowed>>
    BY <1>3, <1>5 DEF HandleTurnEvent
  <2>2. CASE commands' = commands
    BY <2>1, <2>2
  <2>3. CASE commands' # commands
    <3>1. DispatchQueuedPrompt(a) /\ NextEvent(TurnOps)
      BY <1>5, <2>3 DEF HandleTurnEvent
    <3>2. a.queued # << >> /\ commands' = Append(commands, Command("Prompt", Head(a.queued)))
      BY <2>3, <3>1 DEF DispatchQueuedPrompt
    <3>3. a.queued \in Seq(Ids)
      <4>1. a \in AgentRecords
        BY <3>1, EventHeadType, ApplyEventStateType DEF TypeOK, BrokerTypeOK
      <4> HIDE DEF a
      <4> QED
        BY <4>1 DEF AgentRecords
    <3>4. Head(a.queued) \in Ids
      BY <3>2, <3>3, TailType
    <3>5. /\ Command("Prompt", Head(a.queued)) \in Commands
          /\ ~Command("Prompt", Head(a.queued)).allow
      BY <1>2, <3>4 DEF Ops
    <3> QED
      BY <2>1, <3>2, <3>5
  <2> QED
    BY <2>2, <2>3
<1>6. CASE HandleRequested
  BY <1>1, <1>3, <1>6, TryDisconnect DEF HandleRequested
<1>7. CASE \/ HandleStarted \/ HandleResponse \/ HandleQueuedFailure \/ HandleRejected
           \/ HandleResolved \/ HandleProviderFailed \/ HandleStopped
  BY <1>3, <1>7
  DEF HandleStarted, HandleResponse, HandleQueuedFailure, HandleRejected, HandleResolved,
      HandleProviderFailed, HandleStopped
<1> QED
  BY <1>4, <1>5, <1>6, <1>7 DEF BrokerEvent

(* The task lets the provider go ahead only for an allowing command at the front of
   its channel (respond_codex_approval, respond_worker_approval). *)
LEMMA TaskConsent ==
  ASSUME TypeOK, RtStart \/ TaskCommand \/ TaskRead \/ RtExpire \/ RtStop \/ ProviderStep
  PROVE  /\ CommandsKept /\ UNCHANGED <<consent, sending>>
         /\ \/ allowed' = allowed
            \/ /\ commands # << >> /\ Head(commands).allow
               /\ allowed' = allowed \cup {Head(commands).human}
<1>1. UNCHANGED <<consent, sending>>
  BY DEF RtStart, TaskCommand, RtPrompt, RtSteer, RtInterrupt, RtHistory, RtRespond,
         RtClientDisconnected, RtShutdown, Receive, TaskRead, RtCollect, RtCallReturns,
         RtCallFails, RtRead, RtStreamCloses, RtExpire, RtStop, ProviderStep,
         ProviderReplies, ProviderEndsTurn, ProviderDies, ProviderAsks, providerOnly,
         taskOnly, brokerVars, clientVars
<1>2. CommandsKept
  BY DEF RtStart, TaskCommand, RtPrompt, RtSteer, RtInterrupt, RtHistory, RtRespond,
         RtClientDisconnected, RtShutdown, Receive, TaskRead, RtCollect, RtCallReturns,
         RtCallFails, RtRead, RtStreamCloses, RtExpire, RtStop, ProviderStep,
         ProviderReplies, ProviderEndsTurn, ProviderDies, ProviderAsks, providerOnly,
         CommandsKept
<1>3. CASE RtRespond
  <2>1. commands # << >> /\ (allowed' = allowed \/ allowed' = allowed \cup LetGo(Head(commands)))
    BY <1>3 DEF RtRespond, Receive, answerVars
  <2> QED
    BY <1>1, <1>2, <2>1 DEF LetGo
<1>4. CASE ~RtRespond
  <2>1. allowed' = allowed
    BY <1>4
    DEF RtStart, TaskCommand, RtPrompt, RtSteer, RtInterrupt, RtHistory,
        RtClientDisconnected, RtShutdown, TaskRead, RtCollect, RtCallReturns,
        RtCallFails, RtRead, RtStreamCloses, RtExpire, RtStop, ProviderStep,
        ProviderReplies, ProviderEndsTurn, ProviderDies, ProviderAsks, providerOnly,
        answerVars, Deny
  <2> QED
    BY <1>1, <1>2, <2>1
<1> QED
  BY <1>3, <1>4

(* The connection's steps only move on a command that was already on its way. *)
LEMMA ConnectionConsent ==
  ASSUME TypeOK, FinishSend \/ ClientConnect \/ ClientDisconnect \/ SendLate
  PROVE  /\ UNCHANGED <<consent, allowed>>
         /\ \/ CommandsKept /\ sending' = sending
            \/ /\ sending # << >> /\ sending' = << >>
               /\ commands' = commands \/ commands' = Append(commands, sending[1])
<1>1. Disconnected \in Commands /\ ~Disconnected.allow
  BY CommandType DEF Disconnected, Command
<1>2. CASE FinishSend
  BY <1>2 DEF FinishSend, clientVars, brokerOnly, answerVars
<1>3. CASE ClientDisconnect
  BY <1>1, <1>3, TryDisconnect DEF ClientDisconnect, CommandsKept, brokerOnly, answerVars
<1>4. CASE ClientConnect \/ SendLate
  BY <1>1, <1>4 DEF ClientConnect, SendLate, CommandsKept, clientVars, brokerOnly, answerVars
<1> QED
  BY <1>2, <1>3, <1>4

(* The channel stays consented to when nothing but its front, an answerless command or
   everything changes. *)
LEMMA ConsentKept ==
  ASSUME TypeOK, ConsentInv, CommandsKept, UNCHANGED consent
  PROVE  Consented(commands', consent')
<1>1. commands \in Seq(Commands) /\ Consented(commands, consent) /\ consent' = consent
  BY DEF TypeOK, ChannelTypeOK, ConsentInv
<1>2. Disconnected \in Commands /\ ~Disconnected.allow
  BY CommandType DEF Disconnected, Command
<1>3. CASE commands' = commands \/ commands' = << >>
  BY <1>1, <1>3 DEF Consented
<1>4. CASE commands # << >> /\ commands' = Tail(commands)
  BY <1>1, <1>2, <1>4, ConsentedSequences
<1>5. CASE \E c \in Commands : ~c.allow /\ commands' = Append(commands, c)
  <2>1. PICK c \in Commands : ~c.allow /\ commands' = Append(commands, c)
    BY <1>5
  <2>2. consent \subseteq consent /\ (c.allow => c.human \in consent)
    BY <2>1
  <2>3. Consented(Append(commands, c), consent)
    BY <1>1, <2>2, ConsentedSequences
  <2> QED
    BY <1>1, <2>1, <2>3
<1> QED
  BY <1>3, <1>4, <1>5 DEF CommandsKept

(* The strengthened invariant is inductive: every allowing command on its way was
   consented to, and so was every request already allowed. *)
LEMMA ConsentStep ==
  ASSUME TypeOK, ConsentInv, [Next]_vars
  PROVE  ConsentInv'
<1> USE DEF ConsentBeforeAllow
<1>1. commands \in Seq(Commands) /\ sending \in Seq(Commands) /\ Len(sending) <= 1
  BY DEF TypeOK, BrokerTypeOK, ChannelTypeOK
<1>2. CASE UNCHANGED vars
  BY <1>2 DEF vars, brokerVars, clientVars, answerVars, ConsentInv, Consented
<1>3. CASE BrokerRequest
  <2>1. PICK c \in Commands :
          /\ c.allow => c.human \in consent'
          /\ commands' = commands \/ commands' = Append(commands, c)
          /\ sending' = sending \/ sending' = <<c>>
    BY <1>3, RequestConsent
  <2>2. consent \subseteq consent' /\ allowed' = allowed
    BY <1>3, RequestConsent
  <2>3. /\ Consented(commands, consent) /\ Consented(sending, consent)
        /\ consent \subseteq consent' /\ (c.allow => c.human \in consent')
    BY <2>1, <2>2 DEF ConsentInv
  <2>4. Consented(commands', consent')
    <3>1. Consented(commands, consent') /\ Consented(Append(commands, c), consent')
      BY <1>1, <2>1, <2>3, ConsentedSequences
    <3> QED
      BY <2>1, <3>1
  <2>5. Consented(sending', consent')
    <3>1. Consented(sending, consent') /\ Consented(<<c>>, consent')
      BY <1>1, <2>1, <2>3, ConsentedSequences
    <3> QED
      BY <2>1, <3>1
  <2> QED
    BY <2>2, <2>4, <2>5 DEF ConsentInv
<1>4. CASE BrokerEvent
  BY <1>4, EventConsent, ConsentKept DEF ConsentInv, Consented, CommandsKept
<1>5. CASE RtStart \/ TaskCommand \/ TaskRead \/ RtExpire \/ RtStop \/ ProviderStep
  <2>1. ASSUME commands # << >>, Head(commands).allow
        PROVE  Head(commands).human \in consent
    BY <1>1, <2>1 DEF ConsentInv, Consented
  <2>2. allowed' \subseteq consent'
    BY <1>5, <2>1, TaskConsent DEF ConsentInv
  <2> QED
    BY <1>5, <2>2, TaskConsent, ConsentKept DEF ConsentInv, Consented
<1>6. CASE FinishSend \/ ClientConnect \/ ClientDisconnect \/ SendLate
  <2>1. CASE CommandsKept /\ sending' = sending
    BY <1>6, <2>1, ConnectionConsent, ConsentKept DEF ConsentInv, Consented
  <2>2. CASE /\ sending # << >> /\ sending' = << >>
             /\ commands' = commands \/ commands' = Append(commands, sending[1])
    <3>1. /\ sending[1] \in Commands
          /\ sending[1].allow => sending[1].human \in consent
      <4>1. sending # << >>
        BY <2>2
      <4>2. 1 \in DOMAIN sending /\ sending[1] \in Commands
        BY <1>1, <4>1, NonEmptyType
      <4> QED
        BY <4>2 DEF ConsentInv, Consented
    <3>2. Consented(commands', consent) /\ Consented(sending', consent)
      <4>1. consent \subseteq consent /\ Consented(commands, consent)
        BY DEF ConsentInv
      <4>2. Consented(Append(commands, sending[1]), consent)
        BY <1>1, <3>1, <4>1, ConsentedSequences
      <4>3. Consented(<< >>, consent)
        BY DEF Consented
      <4> QED
        BY <2>2, <4>1, <4>2, <4>3
    <3> QED
      BY <1>6, <3>2, ConnectionConsent DEF ConsentInv, Consented
  <2> QED
    BY <1>6, <2>1, <2>2, ConnectionConsent
<1> QED
  BY <1>2, <1>3, <1>4, <1>5, <1>6 DEF Next

(* Whatever the interleaving of answers, deadlines, interrupts, disconnects and
   deaths, the provider goes ahead with a request only if a client allowed it
   (deny_all_codex_requests, expire_codex_requests, respond_codex_approval and
   their worker counterparts). *)
THEOREM ConsentIsNeeded ==
  Spec => []ConsentBeforeAllow
<1>1. Init => ConsentInv
  BY DEF Init, ConsentInv, Consented, ConsentBeforeAllow
<1>2. TypeOK /\ ConsentInv /\ [Next]_vars => ConsentInv'
  BY ConsentStep
<1>3. ConsentInv => ConsentBeforeAllow
  BY DEF ConsentInv
<1> QED
  BY <1>1, <1>2, <1>3, TypeCorrect, PTL DEF Spec
-----------------------------------------------------------------------------
(* One response. A request is in one place at a time: not issued, in the provider's
   output, kept during a call, held, or answered; only a held one, and for Codex one
   met during a call, is answered, and it leaves that place with the answer. *)

(* A request stands at most once in the provider's output. *)
AskedOnce(q) ==
  \A i, j \in DOMAIN q :
    q[i].op = "requested" /\ q[j].op = "requested" /\ q[i].human = q[j].human => i = j

(* r: the responses so far; P: held; I: issued; W: in the output; C: collected. *)
Once(r, P, I, W, C) ==
  \A h \in Human :
    /\ r[h] <= 1
    /\ h \notin I => r[h] = 0 /\ h \notin P \cup W \cup C
    /\ h \in P => r[h] = 0
    /\ h \in W => r[h] = 0 /\ h \notin P \cup C
    /\ Provider = "claude" /\ h \in C => r[h] = 0 /\ h \notin P

OnceInv ==
  /\ AskedOnce(wire)
  /\ Once(replies, rt.pending, prov.issued, Requested(wire), Requested(rt.collected))

(* Taking the first message, or everything, off a queue takes its requests off. *)
LEMMA RequestedTail ==
  ASSUME NEW q \in Seq(Messages), q # << >>, AskedOnce(q)
  PROVE  /\ AskedOnce(Tail(q))
         /\ Requested(Tail(q)) \subseteq Requested(q)
         /\ Head(q).op = "requested" =>
              /\ Head(q).human \in Requested(q)
              /\ Head(q).human \notin Requested(Tail(q))
<1>1. /\ Tail(q) \in Seq(Messages) /\ Len(q) \in Nat \ {0}
      /\ Len(Tail(q)) = Len(q) - 1
      /\ Head(q) = q[1]
      /\ \A i \in 1..Len(Tail(q)) : Tail(q)[i] = q[i + 1]
  BY TailElements
<1>2. DOMAIN q = 1..Len(q) /\ DOMAIN Tail(q) = 1..Len(Tail(q))
  BY <1>1
<1>3. \A i \in DOMAIN Tail(q) : i \in Nat \ {0} /\ i + 1 \in DOMAIN q /\ Tail(q)[i] = q[i + 1]
  BY <1>1, <1>2
<1>4. AskedOnce(Tail(q))
  <2>1. SUFFICES ASSUME NEW i \in DOMAIN Tail(q), NEW j \in DOMAIN Tail(q),
                        Tail(q)[i].op = "requested", Tail(q)[j].op = "requested",
                        Tail(q)[i].human = Tail(q)[j].human
                 PROVE  i = j
    BY DEF AskedOnce
  <2>2. i + 1 = j + 1
    BY <1>3, <2>1 DEF AskedOnce
  <2> QED
    BY <1>3, <2>2
<1>5. Requested(Tail(q)) \subseteq Requested(q)
  BY <1>3 DEF Requested
<1>6. ASSUME Head(q).op = "requested"
      PROVE  Head(q).human \in Requested(q) /\ Head(q).human \notin Requested(Tail(q))
  <2>1. 1 \in DOMAIN q /\ q[1].op = "requested" /\ q[1].human = Head(q).human
    BY <1>1, <1>2, <1>6
  <2>2. ASSUME NEW i \in DOMAIN Tail(q), Tail(q)[i].op = "requested",
               Tail(q)[i].human = Head(q).human
        PROVE  FALSE
    <3>1. i + 1 = 1
      BY <1>3, <2>1, <2>2 DEF AskedOnce
    <3> QED
      BY <1>3, <3>1
  <2> QED
    BY <2>1, <2>2 DEF Requested
<1> QED
  BY <1>4, <1>5, <1>6

(* Messages without a request leave the requests of the output as they were. *)
LEMMA RequestedConcat ==
  ASSUME NEW q \in Seq(Messages), NEW t \in Seq(Messages), AskedOnce(q),
         \A i \in DOMAIN t : t[i].op # "requested"
  PROVE  AskedOnce(q \o t) /\ Requested(q \o t) = Requested(q)
<1>1. /\ q \o t \in Seq(Messages) /\ Len(q) \in Nat /\ Len(t) \in Nat
      /\ Len(q \o t) = Len(q) + Len(t)
      /\ \A i \in 1..Len(q) : (q \o t)[i] = q[i]
      /\ \A i \in 1..Len(t) : (q \o t)[Len(q) + i] = t[i]
  BY ConcatElements
<1>2. DOMAIN q = 1..Len(q) /\ DOMAIN t = 1..Len(t) /\ DOMAIN (q \o t) = 1..Len(q) + Len(t)
  BY <1>1
<1>3. ASSUME NEW i \in DOMAIN (q \o t), (q \o t)[i].op = "requested"
      PROVE  i \in DOMAIN q /\ (q \o t)[i] = q[i]
  <2>1. CASE i <= Len(q)
    BY <1>1, <1>2, <2>1
  <2>2. CASE ~(i <= Len(q))
    <3>1. i - Len(q) \in 1..Len(t) /\ i = Len(q) + (i - Len(q))
      BY <1>1, <1>2, <2>2
    <3>2. (q \o t)[i] = t[i - Len(q)]
      BY <1>1, <3>1
    <3> QED
      BY <1>2, <1>3, <3>1, <3>2
  <2> QED
    BY <2>1, <2>2
<1>4. \A i \in DOMAIN q : i \in DOMAIN (q \o t) /\ (q \o t)[i] = q[i]
  BY <1>1, <1>2
<1>5. AskedOnce(q \o t)
  BY <1>3 DEF AskedOnce
<1>6. Requested(q \o t) = Requested(q)
  BY <1>3, <1>4 DEF Requested
<1> QED
  BY <1>5, <1>6

(* One message more: its request is added, and stays the only one if it is new. *)
LEMMA RequestedAppend ==
  ASSUME NEW q \in Seq(Messages), NEW m \in Messages
  PROVE  /\ Requested(Append(q, m)) =
              Requested(q) \cup (IF m.op = "requested" THEN {m.human} ELSE {})
         /\ AskedOnce(q) /\ m.human \notin Requested(q) => AskedOnce(Append(q, m))
<1>1. /\ Len(q) \in Nat
      /\ Len(Append(q, m)) = Len(q) + 1
      /\ Append(q, m)[Len(q) + 1] = m
      /\ \A i \in 1..Len(q) : Append(q, m)[i] = q[i]
  BY AppendElements
<1>2. DOMAIN q = 1..Len(q) /\ DOMAIN Append(q, m) = 1..Len(q) + 1
  BY <1>1
<1>3. \A i \in DOMAIN Append(q, m) :
        \/ i \in DOMAIN q /\ Append(q, m)[i] = q[i]
        \/ i = Len(q) + 1 /\ Append(q, m)[i] = m
  BY <1>1, <1>2
<1>4. /\ \A i \in DOMAIN q : i \in DOMAIN Append(q, m) /\ Append(q, m)[i] = q[i]
      /\ Len(q) + 1 \in DOMAIN Append(q, m)
  BY <1>1, <1>2
<1>5. Requested(Append(q, m)) =
        Requested(q) \cup (IF m.op = "requested" THEN {m.human} ELSE {})
  BY <1>1, <1>3, <1>4 DEF Requested
<1>6. ASSUME AskedOnce(q), m.human \notin Requested(q)
      PROVE  AskedOnce(Append(q, m))
  <2>1. SUFFICES ASSUME NEW i \in DOMAIN Append(q, m), NEW j \in DOMAIN Append(q, m),
                        Append(q, m)[i].op = "requested", Append(q, m)[j].op = "requested",
                        Append(q, m)[i].human = Append(q, m)[j].human
                 PROVE  i = j
    BY DEF AskedOnce
  <2>2. \A k \in DOMAIN q : q[k].op = "requested" => q[k].human # m.human
    BY <1>6 DEF Requested
  <2> QED
    BY <1>3, <1>6, <2>1, <2>2 DEF AskedOnce
<1> QED
  BY <1>5, <1>6

(* Nothing asked, held, kept or answered that was not before. *)
LEMMA OnceShrinks ==
  ASSUME NEW r, NEW P, NEW I, NEW W, NEW C, Once(r, P, I, W, C),
         NEW P2 \in SUBSET P, NEW W2 \in SUBSET W, NEW C2 \in SUBSET C
  PROVE  Once(r, P2, I, W2, C2)
BY DEF Once

(* Only requests that are held are answered, and they are no longer held then. *)
LEMMA OnceAnswered ==
  ASSUME TypeOK, NEW P, NEW I, NEW W, NEW C, Once(replies, P, I, W, C),
         NEW S \in SUBSET P,
         \A h \in Human : \/ replies'[h] = replies[h]
                          \/ h \in S /\ replies'[h] = replies[h] + 1
  PROVE  Once(replies', P \ S, I, W, C)
<1>1. SUFFICES ASSUME NEW h \in Human
               PROVE  /\ replies'[h] <= 1
                      /\ h \notin I => replies'[h] = 0 /\ h \notin (P \ S) \cup W \cup C
                      /\ h \in P \ S => replies'[h] = 0
                      /\ h \in W => replies'[h] = 0 /\ h \notin (P \ S) \cup C
                      /\ Provider = "claude" /\ h \in C => replies'[h] = 0 /\ h \notin P \ S
  BY DEF Once
<1>2. replies[h] \in Nat
  BY DEF TypeOK, HistoryTypeOK
<1>3. CASE h \in S /\ replies'[h] = replies[h] + 1
  BY <1>2, <1>3 DEF Once
<1>4. CASE replies'[h] = replies[h]
  BY <1>4 DEF Once
<1> QED
  BY <1>3, <1>4

(* A denial answers the requests it is about, or nothing once the provider is gone. *)
LEMMA DenyAnswers ==
  ASSUME NEW S, Deny(S)
  PROVE  \A h \in Human : \/ replies'[h] = replies[h]
                          \/ h \in S /\ replies'[h] = replies[h] + 1
BY DEF Deny

(* A step of the task that answers the held requests of S, takes them from its map and
   leaves the provider's output alone. *)
LEMMA OnceHeld ==
  ASSUME TypeOK, OnceInv, NEW S \in SUBSET rt.pending,
         rt'.pending = rt.pending \ S, rt'.collected = rt.collected,
         prov'.issued = prov.issued, wire' = wire,
         \A h \in Human : \/ replies'[h] = replies[h]
                          \/ h \in S /\ replies'[h] = replies[h] + 1
  PROVE  OnceInv'
<1>1. Once(replies', rt.pending \ S, prov.issued, Requested(wire), Requested(rt.collected))
  BY OnceAnswered DEF OnceInv
<1> QED
  BY <1>1 DEF OnceInv

(* Every arm of the task's select over its commands answers each request it has held
   once and lets go of it (run_codex, run_claude). *)
LEMMA OnceCommand ==
  ASSUME TypeOK, OnceInv, TaskCommand
  PROVE  OnceInv'
<1>1. rt \in TaskRecords /\ prov \in ProviderRecords /\ replies \in [Human -> Nat]
  BY DEF TypeOK, TaskTypeOK, HistoryTypeOK
<1>2. wire' = wire
  BY DEF TaskCommand, RtPrompt, RtSteer, RtInterrupt, RtHistory, RtRespond,
         RtClientDisconnected, RtShutdown, Receive
<1>3. \A c : Call(c) => /\ rt'.pending = rt.pending /\ rt'.collected = rt.collected
                        /\ prov'.issued = prov.issued
  BY <1>1 DEF Call, TaskRecords, ProviderRecords
<1>4. CASE RtPrompt \/ RtSteer \/ RtHistory
  <2>1. /\ rt'.pending = rt.pending \ {} /\ rt'.collected = rt.collected
        /\ prov'.issued = prov.issued /\ replies' = replies
    BY <1>3, <1>4 DEF RtPrompt, RtSteer, RtHistory, answerVars
  <2> QED
    BY <1>2, <2>1, OnceHeld
<1>5. CASE RtInterrupt
  <2>1. Deny(rt.pending)
    BY <1>5 DEF RtInterrupt
  <2>2. /\ rt'.pending = {} /\ rt'.collected = rt.collected
        /\ prov'.issued = prov.issued
    BY <1>1, <1>5 DEF RtInterrupt, TaskRecords, ProviderRecords
  <2> QED
    BY <1>2, <2>1, <2>2, DenyAnswers, OnceHeld
<1>6. CASE RtClientDisconnected \/ RtShutdown
  <2>1. Deny(rt.pending)
    BY <1>6 DEF RtClientDisconnected, RtShutdown
  <2>2. /\ rt'.pending = {} /\ rt'.collected = rt.collected
        /\ prov'.issued = prov.issued
    BY <1>1, <1>6 DEF RtClientDisconnected, RtShutdown, TaskRecords
  <2> QED
    BY <1>2, <2>1, <2>2, DenyAnswers, OnceHeld
<1>7. CASE RtRespond
  <2> DEFINE c == Head(commands)
  <2>1. CASE UNCHANGED <<rt, answerVars>>
    BY <1>2, <1>7, <2>1, OnceHeld DEF RtRespond, answerVars
  <2>2. CASE ~UNCHANGED <<rt, answerVars>>
    <3>1. /\ Answerable(c) /\ prov' = prov
          /\ replies' = [replies EXCEPT ![c.human] = @ + 1]
          /\ rt' = [rt EXCEPT !.pending = @ \ {c.human}]
      BY <1>7, <2>2 DEF RtRespond
    <3>2. {c.human} \in SUBSET rt.pending
      BY <3>1 DEF Answerable
    <3>3. /\ rt'.pending = rt.pending \ {c.human} /\ rt'.collected = rt.collected
          /\ prov'.issued = prov.issued
      BY <1>1, <3>1 DEF TaskRecords
    <3>4. \A h \in Human : \/ replies'[h] = replies[h]
                           \/ h \in {c.human} /\ replies'[h] = replies[h] + 1
      BY <1>1, <3>1
    <3> HIDE DEF c
    <3> QED
      BY <1>2, <3>2, <3>3, <3>4, OnceHeld
  <2> QED
    BY <2>1, <2>2
<1> QED
  BY <1>4, <1>5, <1>6, <1>7 DEF TaskCommand

(* A request read from the provider's output is held, or kept until the call returns;
   Codex answers the latter at once, Claude when they are held (RtRead, RtCollect,
   RtCallReturns). *)
LEMMA OnceRead ==
  ASSUME TypeOK, OnceInv, TaskRead
  PROVE  OnceInv'
<1> DEFINE W == Requested(wire)
           C == Requested(rt.collected)
           P == rt.pending
           I == prov.issued
<1>1. /\ rt \in TaskRecords /\ replies \in [Human -> Nat] /\ wire \in Seq(Messages)
      /\ rt.collected \in Seq(Notices)
  BY DEF TypeOK, TaskTypeOK, HistoryTypeOK, TaskRecords
<1>2. prov' = prov
  BY DEF TaskRead, RtCollect, RtCallReturns, RtCallFails, RtRead, RtStreamCloses
<1>3. Once(replies, P, I, W, C) /\ AskedOnce(wire)
  BY DEF OnceInv
<1>4. Requested(<< >>) = {}
  BY DEF Requested
<1>5. /\ AskedOnce(wire') /\ Requested(wire') \in SUBSET W
      /\ wire # << >> /\ wire' = Tail(wire) =>
           /\ Head(wire) \in Messages
           /\ Head(wire).op = "requested" =>
                /\ Head(wire).human \in W /\ Head(wire).human \in Human
                /\ Head(wire).human \notin Requested(wire')
  <2>1. wire' = wire \/ (wire # << >> /\ wire' = Tail(wire))
    BY DEF TaskRead, RtCollect, RtCallReturns, RtCallFails, RtRead, RtStreamCloses
  <2>2. CASE wire' = wire /\ ~(wire # << >> /\ wire' = Tail(wire))
    BY <1>3, <2>2
  <2>3. CASE wire # << >> /\ wire' = Tail(wire)
    <3>1. Head(wire) \in Messages
      BY <1>1, <2>3, TailElements
    <3>2. Head(wire).op = "requested" => Head(wire).human \in Human
      BY <3>1 DEF Messages, AboutHuman
    <3> QED
      BY <1>1, <1>3, <2>3, <3>1, <3>2, RequestedTail
  <2> QED
    BY <2>1, <2>2, <2>3
<1> SUFFICES Once(replies', rt'.pending, I, Requested(wire'), Requested(rt'.collected))
  BY <1>2, <1>5 DEF OnceInv
<1>6. CASE RtCollect
  <2> DEFINE m == Head(wire)
             asked == IF m.op = "requested" THEN {m.human} ELSE {}
             denied == IF Provider = "codex" THEN asked ELSE {}
  <2>1. wire # << >> /\ wire' = Tail(wire) /\ Deny(denied)
    BY <1>6 DEF RtCollect
  <2>2. asked \subseteq W /\ asked \cap Requested(wire') = {}
    BY <1>5, <2>1
  <2>3. Once(replies', P, I, Requested(wire'), C)
    <3>1. Once(replies, P \cup denied, I, Requested(wire'), C)
      BY <1>3, <1>5, <2>2 DEF Once
    <3>2. Once(replies', (P \cup denied) \ denied, I, Requested(wire'), C)
      <4>1. denied \in SUBSET (P \cup denied)
        OBVIOUS
      <4> HIDE DEF denied
      <4> QED
        BY <2>1, <3>1, <4>1, DenyAnswers, OnceAnswered
    <3>3. P \cap denied = {}
      BY <1>3, <2>2, <1>5, <2>1 DEF Once
    <3>4. (P \cup denied) \ denied = P
      BY <3>3
    <3> QED
      BY <3>2, <3>4
  <2>4. CASE DenialFails(denied)
    <3>1. rt'.pending = P /\ rt'.collected = << >>
      BY <1>1, <1>6, <2>4 DEF RtCollect, TaskRecords
    <3> QED
      BY <1>4, <2>3, <3>1, OnceShrinks
  <2>5. CASE ~DenialFails(denied)
    <3>1. rt'.pending = P /\ rt'.collected = Append(rt.collected, m)
      BY <1>1, <1>6, <2>5 DEF RtCollect, TaskRecords
    <3>2. m \in Messages
      BY <1>5, <2>1
    <3>3. rt.collected \in Seq(Messages)
      BY <1>1 DEF Notices
    <3>4. Requested(rt'.collected) = C \cup asked
      BY <3>1, <3>2, <3>3, RequestedAppend
    <3>5. Once(replies', P, I, Requested(wire'), C \cup asked)
      <4>1. Provider = "claude" => replies' = replies
        <5>1. Provider = "claude" => denied = {}
          OBVIOUS
        <5> QED
          BY <1>1, <2>1, <5>1 DEF Deny
      <4>2. \A h \in asked : h \in Human /\ h \in W /\ h \notin Requested(wire')
        BY <1>5, <2>1
      <4> HIDE DEF asked, W, P, C, I
      <4> QED
        BY <1>3, <2>3, <4>1, <4>2 DEF Once
    <3> QED
      BY <3>1, <3>4, <3>5
  <2> QED
    BY <2>4, <2>5
<1>7. CASE RtCallReturns
  <2> DEFINE ms == Published(rt.call[1])
  <2>1. /\ rt'.pending = P \cup Held(ms) /\ rt'.collected = << >>
        /\ replies' = replies
    BY <1>1, <1>7 DEF RtCallReturns, answerVars, TaskRecords
  <2>2. Held(ms) \subseteq C /\ (Held(ms) # {} => Provider = "claude")
    <3>1. Requested(ms) \subseteq C
      <4> DEFINE made == IF rt.call[1].op = "Prompt" /\ Provider = "claude"
                         THEN <<Event("turn.started")>> ELSE << >>
                 kept == IF rt.call[1].op = "History" THEN << >> ELSE rt.collected
      <4>1. made \in Seq(Messages) /\ kept \in Seq(Messages)
        <5>1. Event("turn.started") \in Messages
          BY SessionAssumption DEF Event, Messages, WireOps, TurnOps, AboutHuman, Ids
        <5>2. rt.collected \in Seq(Messages)
          BY <1>1 DEF Notices
        <5> QED
          BY <5>1, <5>2, AppendType, EmptyType
      <4>2. \A i \in DOMAIN made : made[i].op # "requested"
        BY DEF Event
      <4>3. Requested(kept) \subseteq C
        BY <1>4
      <4>4. ms = made \o kept
        BY DEF Published
      <4> HIDE DEF made, kept, ms
      <4>5. /\ Len(made) \in Nat /\ Len(kept) \in Nat
            /\ Len(ms) = Len(made) + Len(kept)
            /\ ms \in Seq(Messages)
            /\ \A i \in 1..Len(made) : ms[i] = made[i]
            /\ \A i \in 1..Len(kept) : ms[Len(made) + i] = kept[i]
        BY <4>1, <4>4, ConcatElements
      <4>6. ASSUME NEW i \in DOMAIN ms, ms[i].op = "requested"
            PROVE  \E j \in DOMAIN kept : ms[i] = kept[j]
        <5>1. i \in 1 .. Len(made) + Len(kept)
          BY <4>5
        <5>2. ~(i \in 1..Len(made))
          BY <4>1, <4>2, <4>5, <4>6
        <5>3. i - Len(made) \in 1..Len(kept) /\ i = Len(made) + (i - Len(made))
          BY <4>5, <5>1, <5>2
        <5>4. ms[i] = kept[i - Len(made)]
          BY <4>5, <5>3
        <5>5. i - Len(made) \in DOMAIN kept
          BY <4>1, <5>3
        <5> QED
          BY <5>4, <5>5
      <4>7. Requested(ms) \subseteq Requested(kept)
        BY <4>6 DEF Requested
      <4> QED
        BY <4>3, <4>7
    <3> HIDE DEF ms
    <3> QED
      BY <3>1 DEF Held
  <2> HIDE DEF ms, W, P, C, I
  <2>3. Once(replies, P \cup Held(ms), I, W, {})
    BY <1>3, <2>2 DEF Once
  <2> QED
    BY <1>4, <1>5, <2>1, <2>3, OnceShrinks
<1>8. CASE RtCallFails \/ RtStreamCloses
  <2>1. /\ rt'.pending = P /\ Requested(rt'.collected) \subseteq C /\ replies' = replies
    BY <1>1, <1>4, <1>8 DEF RtCallFails, RtStreamCloses, answerVars, TaskRecords
  <2> HIDE DEF W, P, C, I
  <2> QED
    BY <1>3, <1>5, <2>1, OnceShrinks
<1>9. CASE RtRead
  <2> DEFINE asked == Requested(<<Head(wire)>>)
  <2>1. /\ wire # << >> /\ wire' = Tail(wire)
        /\ rt'.pending = P \cup asked /\ rt'.collected = rt.collected /\ replies' = replies
    BY <1>1, <1>9 DEF RtRead, answerVars, TaskRecords
  <2>2. \A h \in asked : h \in Human /\ h \in W /\ h \notin Requested(wire')
    BY <1>5, <2>1 DEF Requested
  <2> HIDE DEF asked, W, P, C, I
  <2>3. Once(replies, P \cup asked, I, Requested(wire'), C)
    BY <1>3, <1>5, <2>2 DEF Once
  <2> QED
    BY <2>1, <2>3 DEF C
<1> QED
  BY <1>6, <1>7, <1>8, <1>9 DEF TaskRead

(* The provider's own steps: it asks with a request it has not used before. *)
LEMMA OnceProvider ==
  ASSUME TypeOK, OnceInv, ProviderStep
  PROVE  OnceInv'
<1>1. rt' = rt /\ replies' = replies
  BY DEF ProviderStep, ProviderReplies, ProviderEndsTurn, ProviderDies, ProviderAsks,
         providerOnly, answerVars
<1>2. wire \in Seq(Messages) /\ prov \in ProviderRecords
  BY DEF TypeOK, TaskTypeOK
<1>3. CASE ProviderReplies \/ ProviderEndsTurn \/ ProviderDies
  <2>1. \A op \in WireOps \ {"requested", "resolved"} : Event(op) \in Messages
    BY SessionAssumption DEF Event, Messages, AboutHuman, Ids
  <2>2. \A op \in WireOps \ {"requested", "resolved"} :
          /\ <<Event(op)>> \in Seq(Messages)
          /\ \A i \in DOMAIN <<Event(op)>> : <<Event(op)>>[i].op # "requested"
    BY <2>1 DEF Event
  <2>3. LET two == <<Event("ok"), Event("turn.started")>>
            other == <<Event("turn.started"), Event("ok")>>
        IN  /\ two \in Seq(Messages) /\ other \in Seq(Messages)
            /\ \A i \in DOMAIN two : two[i].op # "requested"
            /\ \A i \in DOMAIN other : other[i].op # "requested"
    BY <2>1 DEF Event, WireOps, TurnOps
  <2>4. \/ wire' = wire
        \/ \E t \in Seq(Messages) : /\ \A i \in DOMAIN t : t[i].op # "requested"
                                    /\ wire' = wire \o t
    <3>1. CASE ProviderReplies
      BY <2>2, <2>3, <3>1 DEF ProviderReplies, Say, WireOps, TurnOps
    <3>2. CASE ProviderEndsTurn
      BY <2>2, <3>2 DEF ProviderEndsTurn, Say, WireOps, TurnOps
    <3>3. CASE ProviderDies
      BY <3>3 DEF ProviderDies
    <3> QED
      BY <1>3, <3>1, <3>2, <3>3
  <2>5. AskedOnce(wire') /\ Requested(wire') = Requested(wire)
    BY <1>2, <2>4, RequestedConcat DEF OnceInv
  <2>6. prov'.issued = prov.issued
    BY <1>2, <1>3 DEF ProviderReplies, ProviderEndsTurn, ProviderDies, ProviderRecords
  <2> QED
    BY <1>1, <2>5, <2>6 DEF OnceInv
<1>4. ASSUME NEW h \in Human, ProviderAsks(h)
      PROVE  OnceInv'
  <2>1. /\ h \notin prov.issued /\ wire' = wire \o <<Ask(h)>>
        /\ prov'.issued = prov.issued \cup {h}
    BY <1>2, <1>4 DEF ProviderAsks, Say, ProviderRecords
  <2>2. Ask(h) \in Messages /\ Ask(h).op = "requested" /\ Ask(h).human = h
    BY SessionAssumption DEF Ask, Messages, WireOps, AboutHuman, Ids
  <2>3. wire' = Append(wire, Ask(h))
    BY <1>2, <2>1, <2>2
  <2>4. h \notin Requested(wire)
    BY <2>1 DEF OnceInv, Once
  <2>5. AskedOnce(wire') /\ Requested(wire') = Requested(wire) \cup {h}
    BY <1>2, <2>2, <2>3, <2>4, RequestedAppend DEF OnceInv
  <2>6. Once(replies, rt.pending, prov.issued \cup {h}, Requested(wire) \cup {h},
             Requested(rt.collected))
    BY <2>1 DEF OnceInv, Once
  <2> QED
    BY <1>1, <2>1, <2>5, <2>6 DEF OnceInv
<1> QED
  BY <1>3, <1>4 DEF ProviderStep

(* The strengthened invariant is inductive. *)
LEMMA OnceStep ==
  ASSUME TypeOK, OnceInv, [Next]_vars
  PROVE  OnceInv'
<1>1. rt \in TaskRecords /\ prov \in ProviderRecords /\ replies \in [Human -> Nat]
  BY DEF TypeOK, TaskTypeOK, HistoryTypeOK
<1>2. CASE UNCHANGED vars
  BY <1>2 DEF vars, answerVars, OnceInv
<1>3. CASE BrokerRequest \/ FinishSend \/ ClientConnect \/ ClientDisconnect \/ SendLate
  <2>1. UNCHANGED <<rt, prov, wire, replies>>
    BY <1>3 DEF BrokerRequest, Prompt, QueuePrompt, Steer, Interrupt, History, Respond,
                FinishSend, ClientConnect, ClientDisconnect, SendLate, brokerOnly, answerVars
  <2> QED
    BY <2>1 DEF OnceInv
<1>4. CASE BrokerEvent
  <2>1. UNCHANGED <<rt, prov, wire, replies>>
    BY <1>4 DEF BrokerEvent, HandleStarted, HandleResponse, HandleQueuedFailure,
                HandleRejected, HandleRequestFailed, HandleTurnEvent, HandleRequested,
                HandleResolved, HandleProviderFailed, HandleStopped, NextEvent, answerVars
  <2> QED
    BY <2>1 DEF OnceInv
<1>5. CASE RtStart
  <2>1. /\ rt'.pending = rt.pending \ {} /\ rt'.collected = rt.collected
        /\ prov'.issued = prov.issued /\ wire' = wire /\ replies' = replies
    BY <1>1, <1>5 DEF RtStart, answerVars, TaskRecords, ProviderRecords
  <2> QED
    BY <2>1, OnceHeld
<1>6. CASE RtExpire
  <2>1. PICK S \in SUBSET rt.pending \ {{}} :
          /\ Deny(S)
          /\ rt'.pending = rt.pending \ S /\ rt'.collected = rt.collected
    BY <1>1, <1>6 DEF RtExpire, TaskRecords
  <2>2. prov' = prov /\ wire' = wire
    BY <1>6 DEF RtExpire
  <2> QED
    BY <2>1, <2>2, DenyAnswers, OnceHeld
<1>7. CASE RtStop
  <2>1. /\ Deny(rt.pending)
        /\ rt'.pending = rt.pending \ rt.pending /\ rt'.collected = rt.collected
        /\ prov'.issued = prov.issued /\ wire' = wire
    BY <1>1, <1>7 DEF RtStop, TaskRecords, ProviderRecords
  <2> QED
    BY <2>1, DenyAnswers, OnceHeld
<1> QED
  BY <1>2, <1>3, <1>4, <1>5, <1>6, <1>7, OnceCommand, OnceRead, OnceProvider DEF Next

(* A request gets one response at most: the client's answer, the deadline, an
   interrupt, a disconnect, the denial during a call and the last denial on exit all
   take it from the one place it is in (the pending maps of run_codex and run_claude). *)
THEOREM AnsweredOnce ==
  Spec => []AnsweredAtMostOnce
<1>1. Init => OnceInv
  BY DEF Init, OnceInv, Once, AskedOnce, Requested
<1>2. TypeOK /\ OnceInv /\ [Next]_vars => OnceInv'
  BY OnceStep
<1>3. OnceInv => AnsweredAtMostOnce
  BY DEF OnceInv, Once, AnsweredAtMostOnce
<1> QED
  BY <1>1, <1>2, <1>3, TypeCorrect, PTL DEF Spec

-----------------------------------------------------------------------------
(* What a channel holds, read off its elements. *)

(* What a channel holds is said of the messages in it, wherever they stand. *)
LEMMA ByElements ==
  ASSUME NEW s
  PROVE  /\ \A ops : Has(s, ops) <=> \E x \in Elements(s) : x.op \in ops
         /\ Requested(s) = {x.human : x \in {y \in Elements(s) : y.op = "requested"}}
BY DEF Has, Requested, Elements

(* What a channel is found to hold as it grows at its end and shrinks at its front. *)
LEMMA HasChanges ==
  ASSUME NEW S, NEW s \in Seq(S), NEW ops
  PROVE  /\ \A e \in S : Has(Append(s, e), ops) <=> Has(s, ops) \/ e.op \in ops
         /\ \A t \in Seq(S) : Has(s \o t, ops) <=> Has(s, ops) \/ Has(t, ops)
         /\ s # << >> => (Has(s, ops) <=> Head(s).op \in ops \/ Has(Tail(s), ops))
         /\ ~Has(<< >>, ops)
<1>1. \A q : Has(q, ops) <=> \E x \in Elements(q) : x.op \in ops
  BY ByElements
<1>2. \A e \in S : Elements(Append(s, e)) = Elements(s) \cup {e}
  BY ElementsAppend
<1>3. \A t \in Seq(S) : Elements(s \o t) = Elements(s) \cup Elements(t)
  BY ElementsConcat
<1>4. s # << >> => Elements(s) = {Head(s)} \cup Elements(Tail(s))
  BY ElementsTail
<1>5. Elements(<< >>) = {}
  BY ElementsFew
<1>6. \A e \in S : Has(Append(s, e), ops) <=> Has(s, ops) \/ e.op \in ops
  BY <1>1, <1>2
<1>7. \A t \in Seq(S) : Has(s \o t, ops) <=> Has(s, ops) \/ Has(t, ops)
  BY <1>1, <1>3
<1>8. s # << >> => (Has(s, ops) <=> Head(s).op \in ops \/ Has(Tail(s), ops))
  BY <1>1, <1>4
<1>9. ~Has(<< >>, ops)
  BY <1>1, <1>5
<1> QED
  BY <1>6, <1>7, <1>8, <1>9

(* The events after which the broker may show an agent as ready or busy again. *)
Reviving == {"Started", "requested"} \cup TurnOps

(* Every step of the task appends to what it has published: replies, resolutions and the
   end of the session, but for the start, a message it reads and a call that returns. *)
LEMMA TaskEmits ==
  ASSUME TypeOK, RtStart \/ TaskCommand \/ TaskRead \/ RtExpire \/ RtStop
  PROVE  \E es \in Seq(Events) :
           /\ events' = events \o es
           /\ RtStart \/ RtRead \/ RtCallReturns \/ ~Has(es, Reviving)
<1> USE DEF TypeOK, TaskTypeOK
<1> DEFINE Plain(es) == es \in Seq(Events) /\ ~Has(es, Reviving)
           Sent == \E es : Plain(es) /\ events' = events \o es
<1>1. Plain(<< >>) /\ events \o << >> = events
  BY EmptyType DEF Has, ChannelTypeOK
<1>2. events' = events => Sent
  BY <1>1
<1>3. \A es : Plain(es) /\ Emit(es) => Sent
  BY DEF Emit
<1>4. rt.pending \in SUBSET Human
  BY DEF TaskRecords
<1>5. \A op \in EventOps \ (Reviving \cup {"resolved"}), id \in Ids :
        Reply(op, id) \in Events /\ Plain(<<Reply(op, id)>>)
  <2>1. \A op \in EventOps \ (Reviving \cup {"resolved"}), id \in Ids :
          /\ Reply(op, id) \in Events /\ <<Reply(op, id)>> \in Seq(Events)
          /\ Reply(op, id).op = op
    BY EventValueType, AppendType DEF Reviving, Reply
  <2> QED
    BY <2>1 DEF Has
<1>6. \A ops : Receive(ops) => Head(commands) \in Commands /\ Head(commands).id \in Ids
  BY ReceiveType
<1>7. \A c \in Commands : Plain(<<CallFailed(c)>>)
  <2>1. \A c \in Commands : <<CallFailed(c)>> \in Seq(Events)
    BY CallFailedType, AppendType
  <2>2. \A c \in Commands : ~Has(<<CallFailed(c)>>, Reviving)
    BY DEF Has, CallFailed, Reply, Reviving, TurnOps
  <2> QED
    BY <2>1, <2>2
<1>8. ASSUME NEW S \in SUBSET rt.pending, NEW order \in Orders(S)
      PROVE  /\ Plain(Resolved(order))
             /\ \A e \in Events : e.op \notin Reviving => Plain(Append(Resolved(order), e))
  <2>1. Resolved(order) \in Seq(Events)
    BY <1>4, ResolvedType
  <2>2. ~Has(Resolved(order), Reviving)
    BY DEF Has, Resolved, Reviving, TurnOps
  <2>3. ASSUME NEW e \in Events, e.op \notin Reviving
        PROVE  Plain(Append(Resolved(order), e))
    BY <2>1, <2>2, <2>3, AppendType, HasChanges
  <2> QED
    BY <2>1, <2>2, <2>3
<1>9. /\ Event("ProviderFailed") \in Events /\ Event("ProviderFailed").op \notin Reviving
      /\ Event("Stopped") \in Events /\ Event("Stopped").op \notin Reviving
      /\ Plain(<<Event("ProviderFailed")>>)
  <2>1. /\ Event("ProviderFailed") \in Events /\ Event("ProviderFailed").op \notin Reviving
        /\ Event("Stopped") \in Events /\ Event("Stopped").op \notin Reviving
        /\ <<Event("ProviderFailed")>> \in Seq(Events)
    BY EventValueType, AppendType DEF EventOps, Event, Reviving, TurnOps
  <2> QED
    BY <2>1 DEF Has
<1>10. SUFFICES ASSUME ~RtStart, ~RtRead, ~RtCallReturns
                PROVE  Sent
  <2>1. ASSUME RtStart
        PROVE  \E es \in Seq(Events) : events' = events \o es
    <3>1. /\ <<Reply("Started", 0)>> \in Seq(Events)
          /\ <<Reply("RequestFailed", 0), Event("Stopped")>> \in Seq(Events)
      <4>1. Reply("Started", 0) \in Events /\ Reply("RequestFailed", 0) \in Events
        BY EventValueType, CommandType DEF EventOps
      <4> QED
        BY <1>9, <4>1
    <3> QED
      BY <2>1, <3>1 DEF RtStart, Emit
  <2>2. ASSUME RtCallReturns
        PROVE  \E es \in Seq(Events) : events' = events \o es
    <3> DEFINE c == rt.call[1]
               es == <<Reply("Response", c.id)>> \o Published(c)
    <3>1. c \in Commands /\ c.id \in Ids
      <4>1. c \in Commands
        BY <2>2, FirstType DEF RtCallReturns, TaskRecords
      <4> HIDE DEF c
      <4> QED
        BY <4>1 DEF Commands
    <3>2. <<Reply("Response", c.id)>> \in Seq(Events) /\ Published(c) \in Seq(Events)
      BY <3>1, EventValueType, AppendType, PublishedType, NoticeType DEF EventOps
    <3>3. es \in Seq(Events) /\ events' = events \o es
      BY <2>2, <3>2 DEF RtCallReturns, Emit
    <3> QED
      BY <3>3
  <2>3. ASSUME RtRead
        PROVE  \E es \in Seq(Events) : events' = events \o es
    <3>1. <<Head(wire)>> \in Seq(Events)
      <4>1. Head(wire) \in Notices
        BY <2>3, TailType DEF RtRead, Notices
      <4> QED
        BY <4>1, NoticeType, AppendType
    <3> QED
      BY <2>3, <3>1 DEF RtRead, Emit
  <2> QED
    BY <2>1, <2>2, <2>3
<1> HIDE DEF Plain
<1>11. CASE RtPrompt \/ RtSteer \/ RtHistory
  <2>1. \A c \in Commands : Call(c) => Sent
    BY <1>2, <1>3, <1>7 DEF Call
  <2>2. Plain(<<Reply("Rejected", Head(commands).id)>>) /\ Head(commands) \in Commands
    BY <1>5, <1>6, <1>11 DEF RtPrompt, RtSteer, RtHistory, EventOps, Reviving, TurnOps
  <2> QED
    BY <1>3, <1>11, <2>1, <2>2 DEF RtPrompt, RtSteer, RtHistory
<1>12. CASE RtInterrupt
  <2>1. \A op \in {"RequestFailed", "Response"} :
          /\ Reply(op, Head(commands).id) \in Events
          /\ Reply(op, Head(commands).id).op \notin Reviving
    BY <1>6, <1>12, EventValueType DEF RtInterrupt, EventOps, Reviving, TurnOps, Reply
  <2>2. \E order \in Orders(rt.pending) :
          \/ \E op \in {"RequestFailed", "Response"} :
               Emit(Append(Resolved(order), Reply(op, Head(commands).id)))
          \/ Emit(Resolved(order))
    BY <1>12 DEF RtInterrupt
  <2> QED
    BY <1>3, <1>8, <2>1, <2>2
<1>13. CASE RtRespond
  <2> DEFINE c == Head(commands)
  <2>1. c.human \in rt.pending => Plain(<<Reply("Response", c.id)>> \o Resolved(<<c.human>>))
    <3>1. SUFFICES ASSUME c.human \in rt.pending
                   PROVE  Plain(<<Reply("Response", c.id)>> \o Resolved(<<c.human>>))
      OBVIOUS
    <3> DEFINE s == <<Reply("Response", c.id)>>
               t == Resolved(<<c.human>>)
    <3>2. Plain(s)
      BY <1>5, <1>6, <1>13 DEF RtRespond, EventOps, Reviving, TurnOps
    <3>3. t \in Seq(Events)
      BY <1>4, <3>1, ResolvedOneType
    <3>4. ~Has(t, Reviving)
      BY DEF Has, Resolved, Reviving, TurnOps
    <3> HIDE DEF s, t
    <3>5. s \o t \in Seq(Events) /\ (Has(s \o t, Reviving) <=> Has(s, Reviving) \/ Has(t, Reviving))
      BY <3>2, <3>3, HasChanges DEF Plain
    <3> QED
      BY <3>2, <3>4, <3>5 DEF Plain, s, t
  <2>2. \A op \in {"Rejected", "RequestFailed"} : Plain(<<Reply(op, c.id)>>)
    BY <1>5, <1>6, <1>13 DEF RtRespond, EventOps, Reviving, TurnOps
  <2>3. \/ \E op \in {"Rejected", "RequestFailed"} : Emit(<<Reply(op, c.id)>>)
        \/ /\ c.human \in rt.pending
           /\ Emit(<<Reply("Response", c.id)>> \o Resolved(<<c.human>>))
    BY <1>13 DEF RtRespond, Answerable
  <2> QED
    BY <1>3, <2>1, <2>2, <2>3
<1>14. CASE RtClientDisconnected \/ RtShutdown
  BY <1>3, <1>8, <1>9, <1>14 DEF RtClientDisconnected, RtShutdown
<1>15. CASE RtCollect \/ RtCallFails
  <2>1. rt.call[1] \in Commands
    BY <1>15, FirstType DEF RtCollect, RtCallFails, TaskRecords
  <2>2. events' = events \/ Emit(<<CallFailed(rt.call[1])>>)
    BY <1>15 DEF RtCollect, RtCallFails
  <2> QED
    BY <1>2, <1>3, <1>7, <2>1, <2>2
<1>16. CASE RtStreamCloses
  BY <1>3, <1>9, <1>16 DEF RtStreamCloses
<1>17. CASE RtExpire \/ RtStop
  BY <1>3, <1>8, <1>9, <1>17 DEF RtExpire, RtStop
<1> QED
  BY <1>10, <1>11, <1>12, <1>13, <1>14, <1>15, <1>16, <1>17 DEF TaskCommand, TaskRead

(* The requests a channel announces, as it grows and shrinks. *)
LEMMA RequestedChanges ==
  ASSUME NEW S, NEW s \in Seq(S)
  PROVE  /\ \A t \in Seq(S) : Requested(s \o t) = Requested(s) \cup Requested(t)
         /\ \A h \in Requested(s) :
              s # << >> => \/ Head(s).op = "requested" /\ Head(s).human = h
                          \/ h \in Requested(Tail(s))
         /\ s # << >> => Requested(Tail(s)) \subseteq Requested(s)
         /\ Requested(<< >>) = {}
<1>1. \A q : Requested(q) = {x.human : x \in {y \in Elements(q) : y.op = "requested"}}
  BY ByElements
<1>2. \A t \in Seq(S) : Elements(s \o t) = Elements(s) \cup Elements(t)
  BY ElementsConcat
<1>3. s # << >> => Elements(s) = {Head(s)} \cup Elements(Tail(s))
  BY ElementsTail
<1>4. Elements(<< >>) = {}
  BY ElementsFew
<1>5. ASSUME NEW t \in Seq(S)
      PROVE  Requested(s \o t) = Requested(s) \cup Requested(t)
  BY <1>1, <1>2
<1>6. ASSUME NEW h \in Requested(s), s # << >>
      PROVE  \/ Head(s).op = "requested" /\ Head(s).human = h
             \/ h \in Requested(Tail(s))
  BY <1>1, <1>3, <1>6
<1>7. s # << >> => Requested(Tail(s)) \subseteq Requested(s)
  BY <1>1, <1>3
<1>8. Requested(<< >>) = {}
  BY <1>1, <1>4
<1> QED
  BY <1>5, <1>6, <1>7, <1>8

-----------------------------------------------------------------------------
(* Orphans. What the task holds while no client is connected is on its way to being
   denied; nothing is held before the task has started, or after it has stopped. *)

OrphanInv ==
  /\ OrphansAreDenied
  /\ rt.pc \in {"starting", "stopped"} => rt.pending = {}

Denying == {"ClientDisconnected", "Shutdown"}

(* A step keeps the invariant when it holds no request that was not held before or
   is published with it, and takes no denial away. *)
LEMMA OrphanKept ==
  ASSUME OrphanInv,
         rt'.pending \subseteq rt.pending \cup Requested(events'),
         rt'.pc \in {"starting", "stopped"} => rt'.pending = {},
         connected => connected',
         late > 0 => late' > 0,
         rt.pc = "exiting" => rt'.pc = "exiting",
         Has(commands, Denying) => Has(commands', Denying),
         Requested(events) \cap rt'.pending \subseteq Requested(events')
  PROVE  OrphanInv'
BY DEF OrphanInv, OrphansAreDenied, Denying

(* The broker's handlers add to the command channel and leave the task alone; a
   request it sees with no client connected is followed by a notice. *)
LEMMA OrphanBroker ==
  ASSUME TypeOK, OrphanInv,
         BrokerRequest \/ BrokerEvent \/ FinishSend \/ ClientConnect \/ SendLate
  PROVE  OrphanInv'
<1>1. /\ commands \in Seq(Commands) /\ events \in Seq(Events) /\ late \in Nat
      /\ sending \in Seq(Commands) /\ Len(sending) <= 1
  BY DEF TypeOK, BrokerTypeOK, ChannelTypeOK
<1>2. \A c \in Commands : Has(commands, Denying) => Has(Append(commands, c), Denying)
  BY <1>1, HasChanges
<1>3. Disconnected \in Commands /\ Disconnected.op = "ClientDisconnected"
  BY CommandType DEF Disconnected, Command
<1>9. Has(Append(commands, Disconnected), Denying)
  <2>1. Disconnected.op \in Denying
    BY <1>3 DEF Denying
  <2> QED
    BY <1>1, <1>3, <2>1, HasChanges
<1>4. CASE BrokerRequest
  <2>1. UNCHANGED <<connected, late, events, rt>>
    BY <1>4 DEF BrokerRequest, Prompt, QueuePrompt, Steer, Interrupt, History, Respond,
                brokerOnly
  <2>2. \E c \in Commands : commands' = commands \/ commands' = Append(commands, c)
    BY <1>4, RequestConsent
  <2> QED
    BY <1>2, <2>1, <2>2, OrphanKept DEF OrphanInv
<1>5. CASE FinishSend
  <2>1. UNCHANGED <<connected, late, events, rt>>
    BY <1>5 DEF FinishSend, brokerOnly
  <2>2. \E c \in Commands : commands' = commands \/ commands' = Append(commands, c)
    <3>1. sending[1] \in Commands
      BY <1>1, <1>5, NonEmptyType DEF FinishSend
    <3> QED
      BY <1>5, <3>1 DEF FinishSend
  <2> QED
    BY <1>2, <2>1, <2>2, OrphanKept DEF OrphanInv
<1>6. CASE ClientConnect
  <2>1. UNCHANGED <<late, events, rt, commands>> /\ connected'
    BY <1>6 DEF ClientConnect, brokerOnly
  <2> QED
    BY <2>1, OrphanKept DEF OrphanInv
<1>7. CASE SendLate
  <2>1. UNCHANGED <<connected, events, rt>>
    BY <1>7 DEF SendLate, brokerOnly
  <2>2. CASE Open
    <3>1. commands' = Append(commands, Disconnected)
      BY <1>7, <2>2 DEF SendLate
    <3>2. Has(commands', Denying)
      BY <1>9, <3>1
    <3> QED
      BY <2>1, <3>2 DEF OrphanInv, OrphansAreDenied, Denying
  <2>3. CASE ~Open
    BY <2>1, <2>3 DEF OrphanInv, OrphansAreDenied, Open
  <2> QED
    BY <2>2, <2>3
<1>8. CASE BrokerEvent
  <2>1. /\ UNCHANGED <<connected, rt>> /\ events # << >> /\ events' = Tail(events)
    BY <1>8 DEF BrokerEvent, HandleStarted, HandleResponse, HandleQueuedFailure,
                HandleRejected, HandleRequestFailed, HandleTurnEvent, HandleRequested,
                HandleResolved, HandleProviderFailed, HandleStopped, NextEvent
  <2>2. CASE HandleRequested
    <3>1. Has(commands, Denying) => Has(commands', Denying)
      BY <1>2, <1>3, <2>2, TryDisconnect DEF HandleRequested
    <3>2. late > 0 => late' > 0
      BY <1>1, <2>2 DEF HandleRequested, QueueClientDisconnect
    <3>3. CASE connected \/ ~Open
      BY <2>1, <3>3 DEF OrphanInv, OrphansAreDenied, Open
    <3>4. CASE ~connected /\ Open
      <4>1. QueueClientDisconnect
        BY <2>2, <3>4 DEF HandleRequested
      <4>2. late' > 0 \/ commands' = Append(commands, Disconnected)
        BY <1>1, <3>4, <4>1 DEF QueueClientDisconnect
      <4>3. late' > 0 \/ Has(commands', Denying)
        BY <1>9, <4>2
      <4> QED
        BY <2>1, <4>3 DEF OrphanInv, OrphansAreDenied, Denying
    <3> QED
      BY <3>3, <3>4
  <2>3. CASE ~HandleRequested
    <3>1. Head(events).op # "requested" /\ late' = late
      BY <1>8, <2>3 DEF BrokerEvent, HandleStarted, HandleResponse, HandleQueuedFailure,
                HandleRejected, HandleRequestFailed, HandleTurnEvent,
                HandleResolved, HandleProviderFailed, HandleStopped, NextEvent, TurnOps
    <3>2. Requested(events) \subseteq Requested(events')
      BY <1>1, <2>1, <3>1, RequestedChanges
    <3>3. commands' = commands \/ \E c \in Commands : commands' = Append(commands, c)
      BY <1>8, EventConsent
    <3>4. Has(commands, Denying) => Has(commands', Denying)
      BY <1>2, <3>3
    <3> QED
      BY <2>1, <3>1, <3>2, <3>4, OrphanKept DEF OrphanInv
  <2> QED
    BY <2>2, <2>3
<1> QED
  BY <1>4, <1>5, <1>6, <1>7, <1>8

(* The task answers the requests it lets go of, publishes those it takes on, and takes
   a denial off its channel only by carrying it out. *)
LEMMA OrphanTask ==
  ASSUME TypeOK, OrphanInv,
         RtStart \/ TaskCommand \/ TaskRead \/ RtExpire \/ RtStop
  PROVE  OrphanInv'
<1>1. /\ commands \in Seq(Commands) /\ events \in Seq(Events)
      /\ rt \in TaskRecords /\ wire \in Seq(Messages)
  BY DEF TypeOK, ChannelTypeOK, TaskTypeOK
<1>2. PICK es \in Seq(Events) : events' = events \o es
  BY TaskEmits
<1>3. Requested(events') = Requested(events) \cup Requested(es)
  BY <1>1, <1>2, RequestedChanges
<1>4. UNCHANGED <<connected, late>>
  BY DEF RtStart, TaskCommand, RtPrompt, RtSteer, RtInterrupt, RtHistory, RtRespond,
         RtClientDisconnected, RtShutdown, Receive, TaskRead, RtCollect, RtCallReturns,
         RtCallFails, RtRead, RtStreamCloses, RtExpire, RtStop, taskOnly, brokerVars
<1>5. CASE rt'.pending = {}
  BY <1>5 DEF OrphanInv, OrphansAreDenied
<1>6. CASE RtStart \/ RtStop
  <2>1. rt'.pending = {}
    BY <1>1, <1>6 DEF RtStart, RtStop, OrphanInv, TaskRecords
  <2> QED
    BY <1>5, <2>1
<1>7. CASE RtInterrupt \/ RtClientDisconnected \/ RtShutdown
  <2>1. rt'.pending = {}
    BY <1>1, <1>7 DEF RtInterrupt, RtClientDisconnected, RtShutdown, TaskRecords
  <2> QED
    BY <1>5, <2>1
<1>8. CASE RtPrompt \/ RtSteer \/ RtHistory \/ RtRespond
  <2>1. /\ rt'.pending \subseteq rt.pending /\ rt.pc = "loop" /\ rt'.pc \in {"loop", "call"}
        /\ commands # << >> /\ commands' = Tail(commands) /\ Head(commands).op \notin Denying
    BY <1>1, <1>8 DEF RtPrompt, RtSteer, RtHistory, RtRespond, Receive, Call, TaskRecords,
                      Denying
  <2>2. Has(commands, Denying) => Has(commands', Denying)
    BY <1>1, <2>1, HasChanges
  <2> QED
    BY <1>3, <1>4, <2>1, <2>2, OrphanKept
<1>9. CASE TaskRead
  <2>1. commands' = commands /\ rt.pc \in {"loop", "call"}
    BY <1>9 DEF TaskRead, RtCollect, RtCallReturns, RtCallFails, RtRead, RtStreamCloses
  <2>2. /\ rt'.pc \in {"loop", "call", "exiting"}
        /\ rt'.pending \subseteq rt.pending \cup Requested(events')
    <3>1. CASE RtCollect \/ RtCallFails \/ RtStreamCloses
      BY <1>1, <3>1 DEF RtCollect, RtCallFails, RtStreamCloses, TaskRecords
    <3>2. CASE RtRead
      <4> DEFINE asked == Requested(<<Head(wire)>>)
      <4>1. /\ rt'.pc = "loop" /\ rt'.pending = rt.pending \cup asked
            /\ events' = events \o <<Head(wire)>>
        BY <1>1, <3>2 DEF RtRead, Emit, TaskRecords
      <4>2. <<Head(wire)>> \in Seq(Events)
        <5>1. Head(wire) \in Notices
          BY <1>1, <3>2, TailType DEF RtRead, Notices
        <5> QED
          BY <5>1, NoticeType, AppendType
      <4>3. Requested(events') = Requested(events) \cup asked
        <5> DEFINE one == <<Head(wire)>>
        <5>1. one \in Seq(Events) /\ events' = events \o one /\ asked = Requested(one)
          BY <4>1, <4>2
        <5> HIDE DEF one, asked
        <5> QED
          BY <1>1, <5>1, RequestedChanges
      <4> HIDE DEF asked
      <4> QED
        BY <4>1, <4>3
    <3>3. CASE RtCallReturns
      <4> DEFINE c  == rt.call[1]
                 ms == Published(c)
      <4>1. c \in Commands /\ c.id \in Ids
        <5>1. rt.call \in Seq(Commands) /\ Len(rt.call) = 1
          BY <1>1, <3>3 DEF RtCallReturns, TypeOK, TaskTypeOK, TaskRecords
        <5>2. c \in Commands
          BY <5>1, FirstType
        <5> HIDE DEF c
        <5> QED
          BY <5>2 DEF Commands
      <4>2. <<Reply("Response", c.id)>> \in Seq(Events) /\ ms \in Seq(Events)
        BY <4>1, PublishedType, NoticeType, EventValueType, AppendType DEF EventOps
      <4>3. /\ rt'.pc = "loop" /\ rt'.pending = rt.pending \cup Held(ms)
            /\ events' = events \o (<<Reply("Response", c.id)>> \o ms)
        BY <1>1, <3>3 DEF RtCallReturns, Emit, TaskRecords
      <4> HIDE DEF ms, c
      <4>4. <<Reply("Response", c.id)>> \o ms \in Seq(Events)
        BY <4>2
      <4>5. Requested(ms) \subseteq Requested(events')
        <5> DEFINE first == <<Reply("Response", c.id)>>
                   both  == first \o ms
        <5>1. /\ first \in Seq(Events) /\ ms \in Seq(Events) /\ both \in Seq(Events)
              /\ events' = events \o both
          BY <4>2, <4>3, <4>4
        <5> HIDE DEF first
        <5>2. Requested(both) = Requested(first) \cup Requested(ms)
          BY <5>1, RequestedChanges
        <5> HIDE DEF both
        <5>3. Requested(events') = Requested(events) \cup Requested(both)
          BY <1>1, <5>1, RequestedChanges
        <5> QED
          BY <5>2, <5>3
      <4>6. Held(ms) \subseteq Requested(ms)
        BY DEF Held
      <4> QED
        BY <4>3, <4>5, <4>6
    <3> QED
      BY <1>9, <3>1, <3>2, <3>3 DEF TaskRead
  <2> QED
    BY <1>3, <1>4, <2>1, <2>2, OrphanKept
<1>10. CASE RtExpire
  <2>1. /\ rt'.pending \subseteq rt.pending /\ rt.pc = "loop" /\ rt'.pc \in {"loop", "exiting"}
        /\ commands' = commands
    BY <1>1, <1>10 DEF RtExpire, TaskRecords
  <2> QED
    BY <1>3, <1>4, <2>1, OrphanKept
<1> QED
  BY <1>6, <1>7, <1>8, <1>9, <1>10 DEF TaskCommand

(* No step leaves a request to its deadline with nobody told that its client has gone. *)
LEMMA OrphanStep ==
  ASSUME TypeOK, OrphanInv, [Next]_vars
  PROVE  OrphanInv'
<1>1. CASE UNCHANGED vars \/ ProviderStep
  <2>1. UNCHANGED <<connected, late, commands, events, rt>>
    BY <1>1 DEF vars, brokerVars, ProviderStep, ProviderReplies, ProviderEndsTurn,
                ProviderDies, ProviderAsks, providerOnly
  <2> QED
    BY <2>1 DEF OrphanInv, OrphansAreDenied, Has
<1>2. CASE ClientDisconnect
  <2>1. UNCHANGED <<events, rt>> /\ QueueClientDisconnect
    BY <1>2 DEF ClientDisconnect, brokerOnly
  <2>2. commands \in Seq(Commands) /\ late \in Nat
    BY DEF TypeOK, BrokerTypeOK, ChannelTypeOK
  <2>3. CASE Open
    <3>1. late' > 0 \/ commands' = Append(commands, Disconnected)
      BY <2>1, <2>2, <2>3 DEF QueueClientDisconnect
    <3>2. Has(Append(commands, Disconnected), Denying)
      <4>1. Disconnected \in Commands /\ Disconnected.op \in Denying
        BY CommandType DEF Disconnected, Command, Denying
      <4> QED
        BY <2>2, <4>1, HasChanges
    <3> QED
      BY <2>1, <3>1, <3>2 DEF OrphanInv, OrphansAreDenied, Denying
  <2>4. CASE ~Open
    BY <2>1, <2>4 DEF OrphanInv, OrphansAreDenied, Open
  <2> QED
    BY <2>3, <2>4
<1> QED
  BY <1>1, <1>2, OrphanBroker, OrphanTask DEF Next

(* Whatever the order of the client's leaving, the broker's notices, the channel's filling
   up and the provider's requests, no request is left to its deadline because nobody was
   told that its client had gone (ClientDisconnect, HandleRequested, SendLate). *)
THEOREM OrphansDenied ==
  Spec => []OrphansAreDenied
<1>1. Init => OrphanInv
  BY DEF Init, OrphanInv, OrphansAreDenied
<1>2. TypeOK /\ OrphanInv /\ [Next]_vars => OrphanInv'
  BY OrphanStep
<1>3. OrphanInv => OrphansAreDenied
  BY DEF OrphanInv
<1> QED
  BY <1>1, <1>2, <1>3, TypeCorrect, PTL DEF Spec

-----------------------------------------------------------------------------
(* One turn at a time. *)

(* At most one element of a channel is of a kind. *)
AtMostOne(s, ops) == \A i, j \in DOMAIN s : s[i].op \in ops /\ s[j].op \in ops => i = j

(* With the front of a channel gone there is still at most one of a kind, and none if
   the front was it. *)
LEMMA AtMostOneTail ==
  ASSUME NEW S, NEW s \in Seq(S), NEW ops, s # << >>, AtMostOne(s, ops)
  PROVE  /\ AtMostOne(Tail(s), ops)
         /\ Head(s).op \in ops => ~Has(Tail(s), ops)
<1>1. /\ Tail(s) \in Seq(S) /\ Len(s) \in Nat \ {0}
      /\ Len(Tail(s)) = Len(s) - 1 /\ Head(s) = s[1]
      /\ \A i \in 1..Len(Tail(s)) : Tail(s)[i] = s[i + 1]
  BY TailElements
<1>2. DOMAIN s = 1..Len(s) /\ DOMAIN Tail(s) = 1..Len(s) - 1
  BY <1>1
<1>3. \A i \in DOMAIN Tail(s) :
        i \in Nat \ {0} /\ i + 1 \in DOMAIN s /\ Tail(s)[i] = s[i + 1]
  BY <1>1, <1>2
<1>4. AtMostOne(Tail(s), ops)
  <2>1. SUFFICES ASSUME NEW i \in DOMAIN Tail(s), NEW j \in DOMAIN Tail(s),
                        Tail(s)[i].op \in ops, Tail(s)[j].op \in ops
                 PROVE  i = j
    BY DEF AtMostOne
  <2>2. i + 1 = j + 1
    BY <1>3, <2>1 DEF AtMostOne
  <2> QED
    BY <1>3, <2>2
<1>5. ASSUME Head(s).op \in ops, Has(Tail(s), ops)
      PROVE  FALSE
  <2>1. PICK i \in DOMAIN Tail(s) : Tail(s)[i].op \in ops
    BY <1>5 DEF Has
  <2>2. 1 \in DOMAIN s /\ s[1].op \in ops
    BY <1>1, <1>2, <1>5
  <2>3. i + 1 = 1
    BY <1>3, <2>1, <2>2 DEF AtMostOne
  <2> QED
    BY <1>3, <2>3
<1> QED
  BY <1>4, <1>5

(* Two stretches of a channel have at most one of a kind between them when not both have
   one. *)
LEMMA AtMostOneConcat ==
  ASSUME NEW S, NEW s \in Seq(S), NEW t \in Seq(S), NEW ops,
         AtMostOne(s, ops), AtMostOne(t, ops), ~(Has(s, ops) /\ Has(t, ops))
  PROVE  AtMostOne(s \o t, ops)
<1>1. /\ s \o t \in Seq(S) /\ Len(s) \in Nat /\ Len(t) \in Nat
      /\ Len(s \o t) = Len(s) + Len(t)
      /\ \A i \in 1..Len(s) : (s \o t)[i] = s[i]
      /\ \A i \in 1..Len(t) : (s \o t)[Len(s) + i] = t[i]
  BY ConcatElements
<1>2. /\ DOMAIN s = 1..Len(s) /\ DOMAIN t = 1..Len(t)
      /\ DOMAIN (s \o t) = 1..Len(s) + Len(t)
  BY <1>1
<1>3. \A k \in DOMAIN (s \o t) :
        \/ k \in DOMAIN s /\ (s \o t)[k] = s[k]
        \/ k - Len(s) \in DOMAIN t /\ (s \o t)[k] = t[k - Len(s)]
  <2>1. TAKE k \in DOMAIN (s \o t)
  <2>2. CASE k \in DOMAIN s
    BY <1>1, <1>2, <2>2
  <2>3. CASE ~(k \in DOMAIN s)
    <3>1. k - Len(s) \in 1..Len(t) /\ Len(s) + (k - Len(s)) = k
      BY <1>1, <1>2, <2>3
    <3> QED
      BY <1>1, <1>2, <3>1
  <2> QED
    BY <2>2, <2>3
<1>4. SUFFICES ASSUME NEW i \in DOMAIN (s \o t), NEW j \in DOMAIN (s \o t),
                      (s \o t)[i].op \in ops, (s \o t)[j].op \in ops
               PROVE  i = j
  BY DEF AtMostOne
<1>5. CASE i \in DOMAIN s /\ (s \o t)[i] = s[i]
  <2>1. Has(s, ops)
    BY <1>4, <1>5 DEF Has
  <2>2. j \in DOMAIN s /\ (s \o t)[j] = s[j]
    BY <1>3, <1>4, <2>1 DEF Has
  <2> QED
    BY <1>4, <1>5, <2>2 DEF AtMostOne
<1>6. CASE i - Len(s) \in DOMAIN t /\ (s \o t)[i] = t[i - Len(s)]
  <2>1. Has(t, ops)
    BY <1>4, <1>6 DEF Has
  <2>2. j - Len(s) \in DOMAIN t /\ (s \o t)[j] = t[j - Len(s)]
    BY <1>3, <1>4, <2>1 DEF Has
  <2>3. i - Len(s) = j - Len(s)
    BY <1>4, <1>6, <2>2 DEF AtMostOne
  <2> QED
    BY <1>1, <1>2, <2>3
<1> QED
  BY <1>3, <1>5, <1>6

Replying  == {"ok", "error"}
Accepting == {"ok"}

(* p: the provider; w: its output; C: collected; pc, call, active: the task.
   The provider owes the task a reply exactly as long as the task waits for one, of
   each turn it says the end once, and no turn runs there, nor has an end unread,
   unless the task has one active or is about to read that its prompt was accepted. *)
TurnOK(pc, call, active, C, p, w) ==
  /\ p.call = "Prompt" => ~p.turn
  /\ p.alive =>
     /\ pc # "call" => p.call = "none" /\ ~Has(w, Replying)
     /\ pc = "call" => p.call = IF Has(w, Replying) THEN "none" ELSE call[1].op
     /\ pc = "call" /\ call[1].op = "Prompt" => ~active
     /\ AtMostOne(w, Replying) /\ AtMostOne(w, Terminal)
     /\ Has(C, Terminal) => ~Has(w, Terminal)
     /\ Has(C, Terminal) \/ Has(w, Terminal) => ~p.turn
     /\ \/ active
        \/ pc = "call" /\ call[1].op = "Prompt" /\ Has(w, Accepting)
        \/ ~p.turn /\ ~Has(C, Terminal) /\ ~Has(w, Terminal)

TurnInv == TurnOK(rt.pc, rt.call, rt.active, rt.collected, prov, wire)

(* What the task's own steps, other than its calls, leave of the turn. *)
LEMMA TurnKept ==
  ASSUME TurnInv, prov' = prov, wire' = wire,
         rt'.active = rt.active, rt'.collected = rt.collected, rt'.call = rt.call,
         rt'.pc = rt.pc \/ (rt.pc # "call" /\ rt'.pc # "call")
  PROVE  TurnInv'
<1>1. CASE rt'.pc = rt.pc
  BY <1>1 DEF TurnInv
<1>2. CASE rt.pc # "call" /\ rt'.pc # "call"
  BY <1>2 DEF TurnInv, TurnOK
<1> QED
  BY <1>1, <1>2

(* A call is written only outside another one, and a prompt only with no turn active. *)
LEMMA TurnCommand ==
  ASSUME TypeOK, TurnInv, TaskCommand
  PROVE  TurnInv'
<1>1. rt \in TaskRecords /\ prov \in ProviderRecords
  BY DEF TypeOK, TaskTypeOK
<1>2. wire' = wire /\ rt.pc = "loop"
  BY DEF TaskCommand, RtPrompt, RtSteer, RtInterrupt, RtHistory, RtRespond,
         RtClientDisconnected, RtShutdown, Receive
<1>3. ASSUME NEW c, c.op = "Prompt" => ~rt.active, prov.alive,
             rt'.pc = "call", rt'.call = <<c>>, rt'.active = rt.active,
             rt'.collected = rt.collected, prov' = [prov EXCEPT !.call = c.op]
      PROVE  TurnInv'
  <2>1. rt'.call[1] = c
    BY <1>3
  <2>2. prov'.alive = prov.alive /\ prov'.turn = prov.turn /\ prov'.call = c.op
    BY <1>1, <1>3 DEF ProviderRecords
  <2>3. ~Has(wire, Replying) /\ prov.call = "none"
    BY <1>2, <1>3 DEF TurnInv, TurnOK
  <2>4. /\ AtMostOne(wire, Replying) /\ AtMostOne(wire, Terminal)
        /\ Has(rt.collected, Terminal) => ~Has(wire, Terminal)
        /\ Has(rt.collected, Terminal) \/ Has(wire, Terminal) => ~prov.turn
        /\ rt.active \/ (~prov.turn /\ ~Has(rt.collected, Terminal) /\ ~Has(wire, Terminal))
    BY <1>2, <1>3 DEF TurnInv, TurnOK
  <2> QED
    BY <1>2, <1>3, <2>1, <2>2, <2>3, <2>4 DEF TurnInv, TurnOK
<1>4. CASE RtPrompt \/ RtSteer \/ RtHistory
  <2> DEFINE c == Head(commands)
  <2>1. CASE UNCHANGED <<rt, prov>>
    BY <1>2, <2>1, TurnKept
  <2>2. CASE ~UNCHANGED <<rt, prov>>
    <3>1. /\ c.op = "Prompt" => ~rt.active
          /\ Call(c)
      BY <1>4, <2>2 DEF RtPrompt, RtSteer, RtHistory, Receive
    <3>2. /\ prov.alive /\ rt' = [rt EXCEPT !.pc = "call", !.call = <<c>>]
          /\ prov' = [prov EXCEPT !.call = c.op]
      BY <2>2, <3>1 DEF Call
    <3> HIDE DEF c
    <3>3. /\ rt'.pc = "call" /\ rt'.call = <<c>> /\ rt'.active = rt.active
          /\ rt'.collected = rt.collected
      BY <1>1, <3>2 DEF TaskRecords
    <3> QED
      BY <1>3, <3>1, <3>2, <3>3
  <2> QED
    BY <2>1, <2>2
<1>5. CASE RtInterrupt
  <2> DEFINE c == Head(commands)
  <2>1. c.op = "Interrupt"
    BY <1>5 DEF RtInterrupt, Receive
  <2>2. \/ rt' = [rt EXCEPT !.pending = {}] /\ prov' = prov
        \/ /\ rt' = [rt EXCEPT !.pending = {}, !.pc = "call", !.call = <<c>>]
           /\ prov' = [prov EXCEPT !.call = "Interrupt"] /\ prov.alive
    BY <1>5 DEF RtInterrupt
  <2> HIDE DEF c
  <2>3. CASE rt' = [rt EXCEPT !.pending = {}] /\ prov' = prov
    BY <1>1, <1>2, <2>3, TurnKept DEF TaskRecords
  <2>4. CASE /\ rt' = [rt EXCEPT !.pending = {}, !.pc = "call", !.call = <<c>>]
             /\ prov' = [prov EXCEPT !.call = "Interrupt"] /\ prov.alive
    <3>1. /\ rt'.pc = "call" /\ rt'.call = <<c>> /\ rt'.active = rt.active
          /\ rt'.collected = rt.collected
      BY <1>1, <2>4 DEF TaskRecords
    <3> QED
      BY <1>3, <2>1, <2>4, <3>1
  <2> QED
    BY <2>2, <2>3, <2>4
<1>6. CASE RtRespond \/ RtClientDisconnected \/ RtShutdown
  <2>1. /\ prov' = prov /\ rt'.active = rt.active /\ rt'.collected = rt.collected
        /\ rt'.call = rt.call /\ rt'.pc # "call"
    BY <1>1, <1>2, <1>6 DEF RtRespond, RtClientDisconnected, RtShutdown, TaskRecords
  <2> QED
    BY <1>2, <2>1, TurnKept
<1> QED
  BY <1>4, <1>5, <1>6 DEF TaskCommand

(* The messages published with a reply end a turn when those collected do, except that a
   history call's are dropped. *)
LEMMA PublishedEnds ==
  ASSUME TypeOK, NEW c
  PROVE  Ends(Published(c)) <=> c.op # "History" /\ Has(rt.collected, Terminal)
<1> DEFINE made == IF c.op = "Prompt" /\ Provider = "claude"
                   THEN <<Event("turn.started")>> ELSE << >>
           kept == IF c.op = "History" THEN << >> ELSE rt.collected
<1>1. made \in Seq(Notices) /\ kept \in Seq(Notices)
  <2>1. Event("turn.started") \in Notices
    BY SessionAssumption DEF Event, Notices, Messages, WireOps, TurnOps, AboutHuman, Ids
  <2>2. rt.collected \in Seq(Notices)
    BY DEF TypeOK, TaskTypeOK, TaskRecords
  <2> QED
    BY <2>1, <2>2, AppendType, EmptyType
<1>2. ~Has(made, Terminal)
  BY DEF Has, Event, Terminal
<1>3. Has(kept, Terminal) <=> c.op # "History" /\ Has(rt.collected, Terminal)
  BY DEF Has
<1>4. Published(c) = made \o kept /\ (Ends(Published(c)) <=> Has(Published(c), Terminal))
  BY DEF Published, Ends, Has
<1> HIDE DEF made, kept
<1>5. Has(made \o kept, Terminal) <=> Has(made, Terminal) \/ Has(kept, Terminal)
  BY <1>1, HasChanges
<1> QED
  BY <1>2, <1>3, <1>4, <1>5

(* What taking the front off the provider's output tells of the rest. *)
LEMMA OutputTaken ==
  ASSUME TypeOK, wire # << >>
  PROVE  /\ Head(wire) \in Messages /\ Tail(wire) \in Seq(Messages)
         /\ \A ops : Has(wire, ops) <=> Head(wire).op \in ops \/ Has(Tail(wire), ops)
         /\ \A ops : AtMostOne(wire, ops) =>
              /\ AtMostOne(Tail(wire), ops)
              /\ Head(wire).op \in ops => ~Has(Tail(wire), ops)
<1>1. wire \in Seq(Messages)
  BY DEF TypeOK, TaskTypeOK
<1>2. Head(wire) \in Messages /\ Tail(wire) \in Seq(Messages)
  BY <1>1, TailType
<1>3. ASSUME NEW ops
      PROVE  Has(wire, ops) <=> Head(wire).op \in ops \/ Has(Tail(wire), ops)
  BY <1>1, HasChanges
<1>4. ASSUME NEW ops, AtMostOne(wire, ops)
      PROVE  AtMostOne(Tail(wire), ops) /\ (Head(wire).op \in ops => ~Has(Tail(wire), ops))
  BY <1>1, <1>4, AtMostOneTail
<1> QED
  BY <1>2, <1>3, <1>4

(* Reading the provider's output: a turn's end the task comes across, in the loop or
   during a call, is the last thing it will hear of that turn. *)
LEMMA TurnRead ==
  ASSUME TypeOK, TurnInv, TaskRead
  PROVE  TurnInv'
<1>1. /\ rt \in TaskRecords /\ prov' = prov /\ rt.collected \in Seq(Notices)
      /\ prov \in ProviderRecords
  BY DEF TypeOK, TaskTypeOK, TaskRecords, TaskRead, RtCollect, RtCallReturns, RtCallFails,
         RtRead, RtStreamCloses
<1>2. prov.call = "Prompt" => ~prov.turn
  BY DEF TurnInv, TurnOK
<1>3. CASE ~prov.alive
  BY <1>1, <1>2, <1>3 DEF TurnInv, TurnOK
<1>4. CASE RtStreamCloses
  <2>1. /\ rt'.active = rt.active /\ rt'.collected = rt.collected /\ rt'.call = rt.call
        /\ rt.pc # "call" /\ rt'.pc # "call" /\ wire' = wire
    BY <1>1, <1>4 DEF RtStreamCloses, TaskRecords
  <2> QED
    BY <1>1, <2>1, TurnKept
<1> SUFFICES ASSUME prov.alive, wire # << >>, wire' = Tail(wire), ~RtStreamCloses
             PROVE  TurnInv'
  BY <1>3, <1>4 DEF TaskRead, RtCollect, RtCallReturns, RtCallFails, RtRead
<1>5. /\ Has(wire, Replying) <=> Head(wire).op \in Replying \/ Has(wire', Replying)
      /\ Has(wire, Terminal) <=> Head(wire).op \in Terminal \/ Has(wire', Terminal)
      /\ Has(wire, Accepting) <=> Head(wire).op \in Accepting \/ Has(wire', Accepting)
      /\ Has(wire', Accepting) => Has(wire', Replying)
  <2>1. Has(wire', Accepting) => Has(wire', Replying)
    BY DEF Has, Accepting, Replying
  <2> QED
    BY <2>1, OutputTaken
<1>6. /\ AtMostOne(wire', Replying) /\ AtMostOne(wire', Terminal)
      /\ Head(wire).op \in Replying => ~Has(wire', Replying)
      /\ Head(wire).op \in Terminal => ~Has(wire', Terminal)
  BY OutputTaken DEF TurnInv, TurnOK
<1>7. /\ Head(wire).op \in Replying => Head(wire).op \notin Terminal
      /\ Head(wire).op = "ok" <=> Head(wire).op \in Accepting
      /\ Head(wire).op \in Replying <=> Head(wire).op \in {"ok", "error"}
  BY DEF Replying, Accepting, Terminal
<1>8. CASE RtCollect
  <2> DEFINE m == Head(wire)
             denied == IF Provider = "codex" /\ m.op = "requested" THEN {m.human} ELSE {}
  <2>1. /\ rt.pc = "call" /\ m.op \notin Replying
        /\ rt' = [rt EXCEPT !.collected = Append(@, m)]
    BY <1>7, <1>8 DEF RtCollect, DenialFails
  <2>2. /\ rt'.pc = "call" /\ rt'.call = rt.call /\ rt'.active = rt.active
        /\ rt'.collected = Append(rt.collected, m)
    BY <1>1, <2>1 DEF TaskRecords
  <2>3. m \in Notices
    BY <1>7, <2>1, OutputTaken DEF Notices
  <2>4. Has(rt'.collected, Terminal) <=> Has(rt.collected, Terminal) \/ m.op \in Terminal
    BY <1>1, <2>2, <2>3, HasChanges
  <2> QED
    BY <1>1, <1>2, <1>5, <1>6, <1>7, <2>1, <2>2, <2>4 DEF TurnInv, TurnOK
<1>9. CASE RtCallReturns
  <2> DEFINE c  == rt.call[1]
             ms == Published(c)
  <2>1. /\ rt.pc = "call" /\ Head(wire).op \in Accepting
        /\ rt' = [rt EXCEPT !.pc = "loop", !.call = << >>, !.collected = << >>,
                            !.active = (@ \/ c.op = "Prompt") /\ ~Ends(ms),
                            !.pending = @ \cup Held(ms)]
    BY <1>7, <1>9 DEF RtCallReturns
  <2>2. /\ rt'.pc = "loop" /\ rt'.collected = << >>
        /\ rt'.active <=> (rt.active \/ c.op = "Prompt") /\ ~Ends(ms)
    BY <1>1, <2>1 DEF TaskRecords
  <2>3. Ends(ms) <=> c.op # "History" /\ Has(rt.collected, Terminal)
    BY PublishedEnds
  <2>4. ~Has(rt'.collected, Terminal)
    BY <2>2 DEF Has
  <2> HIDE DEF c, ms
  <2>5. /\ prov.call = "none" /\ ~Has(wire', Replying)
        /\ Has(rt.collected, Terminal) => ~Has(wire, Terminal) /\ ~prov.turn
    BY <1>5, <1>6, <1>7, <2>1 DEF TurnInv, TurnOK
  <2>6. Has(wire', Terminal) => ~prov.turn
    BY <1>5 DEF TurnInv, TurnOK
  <2>7. rt'.active \/ (~prov.turn /\ ~Has(wire', Terminal))
    <3>1. CASE Ends(ms)
      BY <1>5, <2>3, <2>5, <3>1
    <3>2. CASE ~Ends(ms) /\ ~rt'.active
      BY <1>5, <2>2, <3>2 DEF TurnInv, TurnOK, c
    <3> QED
      BY <3>1, <3>2
  <2> QED
    BY <1>1, <1>2, <1>6, <2>2, <2>4, <2>5, <2>6, <2>7 DEF TurnInv, TurnOK
<1>10. CASE RtCallFails
  <2>1. /\ rt.pc = "call" /\ Head(wire).op = "error"
        /\ rt' = [rt EXCEPT !.pc = "loop", !.call = << >>, !.collected = << >>]
    BY <1>10 DEF RtCallFails
  <2>2. rt'.pc = "loop" /\ rt'.collected = << >> /\ rt'.active = rt.active
    BY <1>1, <2>1 DEF TaskRecords
  <2>3. ~Has(rt'.collected, Terminal)
    BY <2>2 DEF Has
  <2>4. Head(wire).op \in Replying /\ Head(wire).op \notin Accepting
    BY <2>1 DEF Replying, Accepting
  <2>5. prov.call = "none" /\ ~Has(wire', Replying) /\ ~Has(wire, Accepting)
    BY <1>5, <1>6, <2>1, <2>4 DEF TurnInv, TurnOK
  <2> QED
    BY <1>1, <1>2, <1>5, <1>6, <2>2, <2>3, <2>5 DEF TurnInv, TurnOK
<1>11. CASE RtRead
  <2>1. /\ rt.pc = "loop" /\ Head(wire).op \notin Replying /\ rt.active
        /\ rt' = [rt EXCEPT !.active = Head(wire).op \notin Terminal,
                            !.pending = @ \cup Requested(<<Head(wire)>>)]
    BY <1>7, <1>11 DEF RtRead
  <2>2. /\ rt'.pc = "loop" /\ rt'.collected = rt.collected /\ rt'.call = rt.call
        /\ rt'.active <=> Head(wire).op \notin Terminal
    BY <1>1, <2>1 DEF TaskRecords
  <2> QED
    BY <1>1, <1>2, <1>5, <1>6, <2>1, <2>2 DEF TurnInv, TurnOK
<1> QED
  BY <1>8, <1>9, <1>10, <1>11 DEF TaskRead

(* What the provider says: a reply to the call it owes, one end for the turn it runs. *)
LEMMA TurnProvider ==
  ASSUME TypeOK, TurnInv, ProviderStep
  PROVE  TurnInv'
<1>1. /\ prov \in ProviderRecords /\ wire \in Seq(Messages) /\ rt' = rt
      /\ prov.call = "Prompt" => ~prov.turn
  BY DEF TypeOK, TaskTypeOK, ProviderStep, ProviderReplies, ProviderEndsTurn, ProviderDies,
         ProviderAsks, providerOnly, TurnInv, TurnOK
<1>2. \A op \in WireOps \ {"requested"} : Event(op) \in Messages /\ Event(op).op = op
  BY SessionAssumption DEF Event, Messages, AboutHuman, Ids, WireOps, TurnOps
<1>3. ASSUME NEW t \in Seq(Messages), wire' = wire \o t
      PROVE  \A ops : /\ Has(wire', ops) <=> Has(wire, ops) \/ Has(t, ops)
                      /\ AtMostOne(wire, ops) /\ AtMostOne(t, ops)
                           /\ ~(Has(wire, ops) /\ Has(t, ops)) => AtMostOne(wire', ops)
  <2>1. TAKE ops
  <2>2. Has(wire \o t, ops) <=> Has(wire, ops) \/ Has(t, ops)
    BY <1>1, HasChanges
  <2> QED
    BY <1>1, <1>3, <2>2, AtMostOneConcat
<1>4. CASE ProviderDies
  <2>1. ~prov'.alive /\ ~prov'.turn
    BY <1>1, <1>4 DEF ProviderDies, ProviderRecords
  <2> QED
    BY <2>1 DEF TurnInv, TurnOK
<1>5. ASSUME NEW h \in Human, ProviderAsks(h)
      PROVE  TurnInv'
  <2> DEFINE t == <<Ask(h)>>
  <2>1. t \in Seq(Messages)
    BY SessionAssumption DEF Ask, Messages, WireOps, AboutHuman, Ids
  <2>2. /\ ~Has(t, Replying) /\ ~Has(t, Terminal) /\ ~Has(t, Accepting)
        /\ AtMostOne(t, Replying) /\ AtMostOne(t, Terminal)
    BY DEF Has, AtMostOne, Ask, Replying, Terminal, Accepting
  <2>3. /\ wire' = wire \o t /\ prov'.alive = prov.alive /\ prov'.turn = prov.turn
        /\ prov'.call = prov.call
    BY <1>1, <1>5 DEF ProviderAsks, Say, ProviderRecords
  <2> HIDE DEF t
  <2>4. /\ Has(wire', Replying) <=> Has(wire, Replying)
        /\ Has(wire', Terminal) <=> Has(wire, Terminal)
        /\ Has(wire', Accepting) <=> Has(wire, Accepting)
        /\ AtMostOne(wire, Replying) => AtMostOne(wire', Replying)
        /\ AtMostOne(wire, Terminal) => AtMostOne(wire', Terminal)
    BY <1>3, <2>1, <2>2, <2>3
  <2> QED
    BY <1>1, <2>3, <2>4 DEF TurnInv, TurnOK
<1>6. CASE ProviderEndsTurn
  <2>1. PICK op \in Terminal : wire' = wire \o <<Event(op)>>
    BY <1>6 DEF ProviderEndsTurn, Say, Terminal
  <2> DEFINE t == <<Event(op)>>
  <2>2. t \in Seq(Messages)
    BY <1>2 DEF Terminal, WireOps, TurnOps
  <2>3. /\ ~Has(t, Replying) /\ ~Has(t, Accepting) /\ Has(t, Terminal)
        /\ AtMostOne(t, Replying) /\ AtMostOne(t, Terminal)
    BY DEF Has, AtMostOne, Event, Replying, Terminal, Accepting
  <2>4. /\ prov.alive /\ prov.turn /\ prov'.alive /\ ~prov'.turn /\ prov'.call = prov.call
        /\ wire' = wire \o t
    BY <1>1, <1>6, <2>1 DEF ProviderEndsTurn, ProviderRecords
  <2>5. ~Has(rt.collected, Terminal) /\ ~Has(wire, Terminal)
    BY <2>4 DEF TurnInv, TurnOK
  <2> HIDE DEF t
  <2>6. /\ Has(wire', Replying) <=> Has(wire, Replying)
        /\ Has(wire', Accepting) <=> Has(wire, Accepting)
        /\ AtMostOne(wire, Replying) => AtMostOne(wire', Replying)
        /\ AtMostOne(wire, Terminal) => AtMostOne(wire', Terminal)
    BY <1>3, <2>2, <2>3, <2>4, <2>5
  <2> QED
    BY <1>1, <2>4, <2>5, <2>6 DEF TurnInv, TurnOK
<1>7. CASE ProviderReplies
  <2>1. prov.alive /\ prov.call # "none"
    BY <1>7 DEF ProviderReplies
  <2>2. rt.pc = "call" /\ prov.call = rt.call[1].op /\ ~Has(wire, Replying)
    BY <2>1 DEF TurnInv, TurnOK
  <2>3. ~Has(wire, Accepting)
    BY <2>2 DEF Has, Accepting, Replying
  <2>4. ASSUME NEW t \in Seq(Messages), wire' = wire \o t,
               Has(t, Replying), AtMostOne(t, Replying),
               ~Has(t, Terminal), AtMostOne(t, Terminal),
               prov'.alive, prov'.call = "none",
               \/ prov'.turn = prov.turn
               \/ prov.call = "Prompt" /\ Has(t, Accepting)
        PROVE  TurnInv'
    <3>1. /\ Has(wire', Replying) /\ AtMostOne(wire', Replying)
          /\ AtMostOne(wire', Terminal)
          /\ Has(wire', Terminal) <=> Has(wire, Terminal)
          /\ Has(t, Accepting) => Has(wire', Accepting)
      BY <1>3, <2>1, <2>2, <2>4 DEF TurnInv, TurnOK
    <3>2. CASE prov'.turn = prov.turn
      BY <1>1, <2>1, <2>2, <2>3, <2>4, <3>1, <3>2 DEF TurnInv, TurnOK
    <3>3. CASE prov.call = "Prompt" /\ Has(t, Accepting)
      <4>1. ~Has(rt.collected, Terminal) /\ ~Has(wire, Terminal) /\ ~rt.active
        BY <2>1, <2>2, <2>3, <3>3 DEF TurnInv, TurnOK
      <4> QED
        BY <1>1, <2>1, <2>2, <2>4, <3>1, <3>3, <4>1 DEF TurnInv, TurnOK
    <3> QED
      BY <2>4, <3>2, <3>3
  <2> DEFINE Reply1(t) == /\ t \in Seq(Messages)
                          /\ Has(t, Replying) /\ AtMostOne(t, Replying)
                          /\ ~Has(t, Terminal) /\ AtMostOne(t, Terminal)
  <2>5. Reply1(<<Event("error")>>)
    BY <1>2 DEF Has, AtMostOne, Event, Replying, Terminal, WireOps
  <2>6. Reply1(<<Event("ok")>>) /\ Has(<<Event("ok")>>, Accepting)
    BY <1>2 DEF Has, AtMostOne, Event, Replying, Terminal, WireOps, Accepting
  <2>7. /\ Reply1(<<Event("ok"), Event("turn.started")>>)
        /\ Has(<<Event("ok"), Event("turn.started")>>, Accepting)
    <3> DEFINE t == <<Event("ok"), Event("turn.started")>>
    <3>1. t \in Seq(Messages)
      BY <1>2 DEF WireOps, TurnOps
    <3>2. DOMAIN t = {1, 2} /\ t[1].op = "ok" /\ t[2].op = "turn.started"
      BY DEF Event
    <3> QED
      BY <3>1, <3>2 DEF Has, AtMostOne, Replying, Terminal, Accepting
  <2>8. /\ Reply1(<<Event("turn.started"), Event("ok")>>)
        /\ Has(<<Event("turn.started"), Event("ok")>>, Accepting)
    <3> DEFINE t == <<Event("turn.started"), Event("ok")>>
    <3>1. t \in Seq(Messages)
      BY <1>2 DEF WireOps, TurnOps
    <3>2. DOMAIN t = {1, 2} /\ t[2].op = "ok" /\ t[1].op = "turn.started"
      BY DEF Event
    <3> QED
      BY <3>1, <3>2 DEF Has, AtMostOne, Replying, Terminal, Accepting
  <2>9. \/ /\ wire' = wire \o <<Event("error")>> /\ prov' = [prov EXCEPT !.call = "none"]
        \/ /\ prov.call = "Prompt"
           /\ \/ wire' = wire \o <<Event("ok"), Event("turn.started")>>
              \/ wire' = wire \o <<Event("turn.started"), Event("ok")>>
              \/ wire' = wire \o <<Event("ok")>>
           /\ prov' = [prov EXCEPT !.call = "none", !.turn = TRUE, !.stopping = FALSE]
        \/ /\ wire' = wire \o <<Event("ok")>>
           /\ \E b : prov' = [prov EXCEPT !.call = "none", !.stopping = b]
    BY <1>7 DEF ProviderReplies, Say
  <2>10. CASE /\ wire' = wire \o <<Event("error")>>
              /\ prov' = [prov EXCEPT !.call = "none"]
    <3>1. prov'.alive /\ prov'.call = "none" /\ prov'.turn = prov.turn
      BY <1>1, <2>1, <2>10 DEF ProviderRecords
    <3> QED
      BY <2>4, <2>5, <2>10, <3>1
  <2>11. CASE /\ prov.call = "Prompt"
              /\ \/ wire' = wire \o <<Event("ok"), Event("turn.started")>>
                 \/ wire' = wire \o <<Event("turn.started"), Event("ok")>>
                 \/ wire' = wire \o <<Event("ok")>>
              /\ prov' = [prov EXCEPT !.call = "none", !.turn = TRUE, !.stopping = FALSE]
    <3>1. prov'.alive /\ prov'.call = "none"
      BY <1>1, <2>1, <2>11 DEF ProviderRecords
    <3> HIDE DEF Reply1
    <3>2. PICK t : wire' = wire \o t /\ Reply1(t) /\ Has(t, Accepting)
      BY <2>6, <2>7, <2>8, <2>11
    <3> QED
      BY <2>4, <2>11, <3>1, <3>2 DEF Reply1
  <2>12. CASE /\ wire' = wire \o <<Event("ok")>>
              /\ \E b : prov' = [prov EXCEPT !.call = "none", !.stopping = b]
    <3>1. prov'.alive /\ prov'.call = "none" /\ prov'.turn = prov.turn
      BY <1>1, <2>1, <2>12 DEF ProviderRecords
    <3> QED
      BY <2>4, <2>6, <2>12, <3>1
  <2> QED
    BY <2>9, <2>10, <2>11, <2>12
<1> QED
  BY <1>4, <1>5, <1>6, <1>7 DEF ProviderStep

(* Every step keeps the task and the provider agreed on the call and the turn. *)
LEMMA TurnStep ==
  ASSUME TypeOK, TurnInv, [Next]_vars
  PROVE  TurnInv'
<1>1. rt \in TaskRecords /\ prov \in ProviderRecords
  BY DEF TypeOK, TaskTypeOK
<1>2. CASE \/ UNCHANGED vars \/ BrokerRequest \/ BrokerEvent
           \/ FinishSend \/ ClientConnect \/ ClientDisconnect \/ SendLate
  <2>1. UNCHANGED <<rt, prov, wire>>
    BY <1>2
    DEF vars, BrokerRequest, Prompt, QueuePrompt, Steer, Interrupt, History, Respond,
        BrokerEvent, HandleStarted, HandleResponse, HandleQueuedFailure, HandleRejected,
        HandleRequestFailed, HandleTurnEvent, HandleRequested, HandleResolved,
        HandleProviderFailed, HandleStopped, NextEvent,
        FinishSend, ClientConnect, ClientDisconnect, SendLate, brokerOnly
  <2> QED
    BY <2>1, TurnKept
<1>3. CASE RtExpire
  <2>1. /\ rt'.active = rt.active /\ rt'.collected = rt.collected /\ rt'.call = rt.call
        /\ rt.pc # "call" /\ rt'.pc # "call" /\ wire' = wire /\ prov' = prov
    BY <1>1, <1>3 DEF RtExpire, TaskRecords
  <2> QED
    BY <2>1, TurnKept
<1>4. CASE RtStart \/ RtStop
  <2>1. /\ rt'.active = rt.active /\ rt'.collected = rt.collected /\ rt'.call = rt.call
        /\ rt.pc # "call" /\ rt'.pc # "call" /\ wire' = wire
        /\ \/ prov' = prov
           \/ ~prov'.alive /\ prov'.call = prov.call /\ prov'.turn = prov.turn
    BY <1>1, <1>4 DEF RtStart, RtStop, TaskRecords, ProviderRecords
  <2>2. CASE prov' = prov
    BY <2>1, <2>2, TurnKept
  <2>3. CASE ~prov'.alive /\ prov'.call = prov.call /\ prov'.turn = prov.turn
    BY <2>3 DEF TurnInv, TurnOK
  <2> QED
    BY <2>1, <2>2, <2>3
<1> QED
  BY <1>2, <1>3, <1>4, TurnCommand, TurnRead, TurnProvider DEF Next

(* At first nothing is called, running or said. *)
LEMMA TurnInit ==
  Init => TurnInv
<1>1. ASSUME Init
      PROVE  /\ rt.pc # "call" /\ ~rt.active /\ rt.collected = << >> /\ wire = << >>
             /\ prov.call = "none" /\ ~prov.turn
  BY <1>1 DEF Init
<1>2. \A ops : ~Has(<< >>, ops) /\ AtMostOne(<< >>, ops)
  BY DEF Has, AtMostOne
<1> QED
  BY <1>1, <1>2 DEF TurnInv, TurnOK

(* Whatever the broker believes, and whichever way a turn ended, the task asks the provider
   for a turn only when none is running there (the active_turn_id check of run_codex and
   run_claude, RtPrompt). *)
THEOREM OneTurn ==
  Spec => []OneTurnAtATime
<1>1. TypeOK /\ TurnInv /\ [Next]_vars => TurnInv'
  BY TurnStep
<1>2. TurnInv => OneTurnAtATime
  BY DEF TurnInv, TurnOK, OneTurnAtATime
<1> QED
  BY <1>1, <1>2, TurnInit, TypeCorrect, PTL DEF Spec

-----------------------------------------------------------------------------
(* The end of a turn. *)

(* A failure is on its way to the broker, and nothing behind it makes the broker show the
   agent as ready or busy again. *)
FailsForGood(es) ==
  \E k \in DOMAIN es : /\ es[k].op = "RequestFailed"
                       /\ \A j \in DOMAIN es : k < j => es[j].op \notin Reviving

(* Such a failure stays until it is at the front, whatever plain reports follow it. *)
LEMMA FailsTail ==
  ASSUME NEW S, NEW s \in Seq(S), s # << >>, FailsForGood(s)
  PROVE  \/ FailsForGood(Tail(s))
         \/ Head(s).op = "RequestFailed" /\ ~Has(Tail(s), Reviving)
<1>1. /\ Tail(s) \in Seq(S) /\ Len(s) \in Nat \ {0}
      /\ Len(Tail(s)) = Len(s) - 1 /\ Head(s) = s[1]
      /\ \A i \in 1..Len(Tail(s)) : Tail(s)[i] = s[i + 1]
  BY TailElements
<1>2. DOMAIN s = 1..Len(s) /\ DOMAIN Tail(s) = 1..Len(s) - 1
  BY <1>1
<1>3. \A i \in DOMAIN Tail(s) :
        i \in Nat \ {0} /\ i + 1 \in DOMAIN s /\ Tail(s)[i] = s[i + 1]
  BY <1>1, <1>2
<1>4. PICK k \in DOMAIN s : /\ s[k].op = "RequestFailed"
                            /\ \A j \in DOMAIN s : k < j => s[j].op \notin Reviving
  BY DEF FailsForGood
<1>5. CASE k = 1
  <2>1. \A i \in DOMAIN Tail(s) : Tail(s)[i].op \notin Reviving
    <3>1. TAKE i \in DOMAIN Tail(s)
    <3>2. 1 < i + 1
      BY <1>3
    <3> QED
      BY <1>3, <1>4, <1>5, <3>2
  <2> QED
    BY <1>1, <1>4, <1>5, <2>1 DEF Has
<1>6. CASE k # 1
  <2>1. k - 1 \in DOMAIN Tail(s) /\ k = (k - 1) + 1
    BY <1>1, <1>2, <1>6
  <2>2. Tail(s)[k - 1].op = "RequestFailed"
    BY <1>3, <1>4, <2>1
  <2>3. ASSUME NEW j \in DOMAIN Tail(s), k - 1 < j
        PROVE  Tail(s)[j].op \notin Reviving
    <3>1. k < j + 1
      BY <1>2, <1>3, <2>3
    <3> QED
      BY <1>3, <1>4, <3>1
  <2> QED
    BY <2>1, <2>2, <2>3 DEF FailsForGood
<1> QED
  BY <1>5, <1>6

(* Such a failure stays when plain reports are appended, or is brought by them. *)
LEMMA FailsConcat ==
  ASSUME NEW S, NEW s \in Seq(S), NEW t \in Seq(S), ~Has(t, Reviving),
         FailsForGood(s) \/ FailsForGood(t)
  PROVE  FailsForGood(s \o t)
<1>1. /\ s \o t \in Seq(S) /\ Len(s) \in Nat /\ Len(t) \in Nat
      /\ Len(s \o t) = Len(s) + Len(t)
      /\ \A i \in 1..Len(s) : (s \o t)[i] = s[i]
      /\ \A i \in 1..Len(t) : (s \o t)[Len(s) + i] = t[i]
  BY ConcatElements
<1>2. /\ DOMAIN s = 1..Len(s) /\ DOMAIN t = 1..Len(t)
      /\ DOMAIN (s \o t) = 1..Len(s) + Len(t)
  BY <1>1
<1>3. \A j \in DOMAIN (s \o t) : \/ j \in DOMAIN s /\ (s \o t)[j] = s[j]
                                 \/ (s \o t)[j].op \notin Reviving
  <2>1. TAKE j \in DOMAIN (s \o t)
  <2>2. CASE j \in DOMAIN s
    BY <1>1, <1>2, <2>2
  <2>3. CASE ~(j \in DOMAIN s)
    <3>1. j - Len(s) \in 1..Len(t) /\ Len(s) + (j - Len(s)) = j
      BY <1>1, <1>2, <2>3
    <3>2. (s \o t)[j] = t[j - Len(s)]
      BY <1>1, <3>1
    <3> QED
      BY <1>2, <3>1, <3>2 DEF Has
  <2> QED
    BY <2>2, <2>3
<1>4. CASE FailsForGood(s)
  <2>1. PICK k \in DOMAIN s : /\ s[k].op = "RequestFailed"
                              /\ \A j \in DOMAIN s : k < j => s[j].op \notin Reviving
    BY <1>4 DEF FailsForGood
  <2>2. k \in DOMAIN (s \o t) /\ (s \o t)[k] = s[k]
    BY <1>1, <1>2
  <2> QED
    BY <1>3, <2>1, <2>2 DEF FailsForGood
<1>5. CASE FailsForGood(t)
  <2>1. PICK k \in DOMAIN t : t[k].op = "RequestFailed"
    BY <1>5 DEF FailsForGood
  <2>2. Len(s) + k \in DOMAIN (s \o t) /\ (s \o t)[Len(s) + k] = t[k]
    BY <1>1, <1>2
  <2>3. \A j \in DOMAIN (s \o t) : Len(s) + k < j => (s \o t)[j].op \notin Reviving
    <3>1. TAKE j \in DOMAIN (s \o t)
    <3>2. Len(s) + k < j => j \notin DOMAIN s
      BY <1>1, <1>2
    <3> QED
      BY <1>3, <3>2
  <2> QED
    BY <2>1, <2>2, <2>3 DEF FailsForGood
<1> QED
  BY <1>4, <1>5

(* No history call: its reply comes back without the messages kept during it. *)
HistoryOp == {"History"}

NoHistory ==
  /\ ~Has(commands, HistoryOp) /\ ~Has(sending, HistoryOp)
  /\ rt.pc = "call" => rt.call[1].op # "History"

(* The end of a turn is the last the provider says of it. *)
LastWords == {p \in Messages \X Messages : p[1].op \in Terminal => p[2].op \in Replying}

NoticeOps == TurnOps \cup {"requested"}

EndDue == prov.turn \/ Has(wire, Terminal) \/ Has(rt.collected, Terminal)

GivenUpSoon ==
  \/ FailsForGood(events)
  \/ agent.state \in {"Failed", "Disconnected"} /\ ~Has(events, Reviving)

LostInv ==
  /\ NoHistory
  /\ rt.pc = "starting" => ~rt.active
  /\ prov.alive =>
     /\ Ordered(wire, LastWords)
     /\ Has(rt.collected, Terminal) => ~Has(wire, NoticeOps)
     /\ rt.pc = "call" /\ rt.call[1].op = "Prompt" /\ Has(wire, Accepting) => EndDue
     /\ rt.active /\ ~EndDue =>
          ~Has(wire, NoticeOps) /\ rt.collected = << >> /\ GivenUpSoon

-----------------------------------------------------------------------------
(* Every handler's command but history's own is none of that kind. *)
LEMMA NoHistorySent ==
  ASSUME TypeOK, NoHistory, "History" \notin Requests,
         BrokerRequest \/ BrokerEvent \/ FinishSend \/ ClientConnect \/ ClientDisconnect
           \/ SendLate
  PROVE  NoHistory'
<1>1. /\ commands \in Seq(Commands) /\ sending \in Seq(Commands) /\ Len(sending) <= 1
  BY DEF TypeOK, BrokerTypeOK, ChannelTypeOK
<1>2. rt' = rt
  BY DEF BrokerRequest, Prompt, QueuePrompt, Steer, Interrupt, History, Respond, brokerOnly,
        BrokerEvent, HandleStarted, HandleResponse, HandleQueuedFailure, HandleRejected,
        HandleRequestFailed, HandleTurnEvent, HandleRequested, HandleResolved,
        HandleProviderFailed, HandleStopped, NextEvent,
        FinishSend, ClientConnect, ClientDisconnect, SendLate
<1>3. ASSUME NEW c \in Commands, c.op # "History"
      PROVE  /\ ~Has(Append(commands, c), HistoryOp)
             /\ ~Has(<<c>>, HistoryOp)
  <2>1. ~Has(Append(commands, c), HistoryOp)
    <3>1. c.op \notin HistoryOp
      BY <1>3 DEF HistoryOp
    <3> QED
      BY <1>1, <3>1, HasChanges DEF NoHistory
  <2>2. ~Has(<<c>>, HistoryOp)
    BY <1>3 DEF Has, HistoryOp
  <2> QED
    BY <2>1, <2>2
<1>4. \A op \in Ops \ {"History"}, id \in Ids :
        Command(op, id) \in Commands /\ Command(op, id).op # "History"
  BY CommandType DEF Command
<1>5. Disconnected \in Commands /\ Disconnected.op # "History"
  BY CommandType DEF Disconnected, Command
<1>6. CASE BrokerRequest
  <2>1. \A kind : NextRequest(kind) => nreq' \in Ids /\ kind \in Requests
    BY SessionAssumption DEF NextRequest, TypeOK, HistoryTypeOK, Ids
  <2> DEFINE Sent(c) == /\ c \in Commands /\ c.op # "History"
                        /\ commands' = commands \/ commands' = Append(commands, c)
                        /\ sending' = sending \/ sending' = <<c>>
  <2>2. (commands' = commands /\ sending' = sending) \/ \E c : Sent(c)
    <3>1. ASSUME NEW op \in {"Prompt", "Steer", "Interrupt"}, NEW a, NextRequest(op),
                 Send(Command(op, nreq'), a)
          PROVE  \E c : Sent(c)
      <4>1. op \in Ops \ {"History"}
        BY DEF Ops
      <4>2. Command(op, nreq') \in Commands /\ Command(op, nreq').op # "History"
        BY <1>4, <2>1, <3>1, <4>1
      <4> QED
        BY <3>1, <4>2, SendKeeps
    <3>2. ASSUME NEW op \in {"Approval", "Question"}, NEW h \in Human, NEW allow \in BOOLEAN,
                 Respond(op, h, allow)
          PROVE  \E c : Sent(c)
      <4> DEFINE c == [Command(op, nreq') EXCEPT !.human = h, !.allow = allow]
      <4>1. nreq' \in Ids
        BY <2>1, <3>2 DEF Respond
      <4>2. c \in Commands /\ c.op # "History"
        BY <4>1 DEF Command, Commands, Ops
      <4>3. /\ commands' = commands \/ commands' = Append(commands, c)
            /\ sending' = sending \/ sending' = <<c>>
        BY <3>2, SendKeeps DEF Respond
      <4> HIDE DEF c
      <4> QED
        BY <4>2, <4>3
    <3>3. ~History
      BY <2>1 DEF History
    <3>4. CASE QueuePrompt
      BY <3>4 DEF QueuePrompt
    <3> HIDE DEF Sent
    <3> QED
      BY <1>6, <3>1, <3>2, <3>3, <3>4 DEF BrokerRequest, Prompt, Steer, Interrupt
  <2>3. CASE commands' = commands /\ sending' = sending
    BY <1>2, <2>3 DEF NoHistory
  <2>4. CASE \E c : Sent(c)
    <3>1. PICK c : Sent(c)
      BY <2>4
    <3>2. ~Has(Append(commands, c), HistoryOp) /\ ~Has(<<c>>, HistoryOp)
      BY <1>3, <3>1
    <3>3. ~Has(commands', HistoryOp)
      BY <3>1, <3>2 DEF NoHistory
    <3>4. ~Has(sending', HistoryOp)
      BY <3>1, <3>2 DEF NoHistory
    <3> QED
      BY <1>2, <3>3, <3>4 DEF NoHistory
  <2> QED
    BY <2>2, <2>3, <2>4
<1>7. CASE FinishSend
  <2>1. sending[1] \in Commands /\ sending[1].op # "History"
    <3>1. 1 \in DOMAIN sending /\ sending[1] \in Commands
      BY <1>1, <1>7, NonEmptyType DEF FinishSend
    <3> QED
      BY <3>1 DEF NoHistory, Has, HistoryOp
  <2>2. commands' = commands \/ commands' = Append(commands, sending[1])
    BY <1>7 DEF FinishSend
  <2>3. ~Has(sending', HistoryOp)
    BY <1>7 DEF FinishSend, Has
  <2> QED
    BY <1>2, <1>3, <2>1, <2>2, <2>3 DEF NoHistory
<1>8. CASE ClientConnect \/ ClientDisconnect \/ SendLate
  <2>1. sending' = sending /\ (commands' = commands \/ commands' = Append(commands, Disconnected))
    BY <1>8, TryDisconnect DEF ClientConnect, ClientDisconnect, SendLate
  <2> QED
    BY <1>2, <1>3, <1>5, <2>1 DEF NoHistory
<1>9. CASE BrokerEvent
  <2>1. sending' = sending
    BY <1>9, EventConsent
  <2>2. \/ commands' = commands
        \/ \E c \in Commands : c.op # "History" /\ commands' = Append(commands, c)
    <3>1. CASE HandleRequested
      BY <1>5, <3>1, TryDisconnect DEF HandleRequested
    <3>2. CASE HandleRequestFailed
      <4>1. Command("Shutdown", 0) \in Commands /\ Command("Shutdown", 0).op # "History"
        BY <1>4, CommandType DEF Ops
      <4> QED
        BY <3>2, <4>1 DEF HandleRequestFailed
    <3>3. CASE HandleTurnEvent
      <4>1. \/ commands' = commands
            \/ \E id : commands' = Append(commands, Command("Prompt", id))
        BY <3>3 DEF HandleTurnEvent, DispatchQueuedPrompt
      <4>2. CASE commands' # commands
        <5>1. PICK id : commands' = Append(commands, Command("Prompt", id))
          BY <4>1, <4>2
        <5>2. PICK c \in Commands : commands' = Append(commands, c)
          BY <1>9, <4>2, EventConsent
        <5>3. c.op = "Prompt"
          <6>1. Command("Prompt", id) = commands'[Len(commands) + 1]
            BY <1>1, <5>1
          <6>2. c = commands'[Len(commands) + 1]
            BY <1>1, <5>2
          <6> QED
            BY <6>1, <6>2 DEF Command
        <5> QED
          BY <5>2, <5>3
      <4> QED
        BY <4>2
    <3>4. CASE ~(HandleRequested \/ HandleRequestFailed \/ HandleTurnEvent)
      BY <1>9, <3>4 DEF BrokerEvent, HandleStarted, HandleResponse, HandleQueuedFailure,
                HandleRejected, HandleResolved, HandleProviderFailed, HandleStopped
    <3> QED
      BY <3>1, <3>2, <3>3, <3>4
  <2> QED
    BY <1>2, <1>3, <2>1, <2>2 DEF NoHistory
<1> QED
  BY <1>6, <1>7, <1>8, <1>9

(* The task takes commands off its channel and calls with the one it took. *)
LEMMA NoHistoryTaken ==
  ASSUME TypeOK, NoHistory,
         RtStart \/ TaskCommand \/ TaskRead \/ RtExpire \/ RtStop \/ ProviderStep
  PROVE  NoHistory'
<1>1. commands \in Seq(Commands) /\ rt \in TaskRecords
  BY DEF TypeOK, ChannelTypeOK, TaskTypeOK
<1>2. sending' = sending
  BY TaskConsent
<1>3. ~Has(commands', HistoryOp)
  <2>1. \/ commands' = commands \/ commands' = << >>
        \/ commands # << >> /\ commands' = Tail(commands)
    BY DEF RtStart, TaskCommand, RtPrompt, RtSteer, RtInterrupt, RtHistory, RtRespond,
         RtClientDisconnected, RtShutdown, Receive, TaskRead, RtCollect, RtCallReturns,
         RtCallFails, RtRead, RtStreamCloses, RtExpire, RtStop, ProviderStep,
         ProviderReplies, ProviderEndsTurn, ProviderDies, ProviderAsks, providerOnly
  <2>2. ~Has(<< >>, HistoryOp)
    BY DEF Has
  <2>3. commands # << >> => ~Has(Tail(commands), HistoryOp)
    BY <1>1, HasChanges DEF NoHistory
  <2> QED
    BY <2>1, <2>2, <2>3 DEF NoHistory
<1>4. CASE TaskCommand
  <2>1. commands # << >> /\ rt.pc # "call"
    BY <1>4 DEF TaskCommand, RtPrompt, RtSteer, RtInterrupt, RtHistory, RtRespond,
         RtClientDisconnected, RtShutdown, Receive
  <2>2. Head(commands).op # "History"
    BY <1>1, <2>1, HasChanges DEF NoHistory, HistoryOp
  <2>3. rt'.pc # "call" \/ rt'.call = <<Head(commands)>>
    <3>1. CASE RtPrompt \/ RtSteer \/ RtHistory
      <4>1. rt' = rt \/ Call(Head(commands))
        BY <3>1 DEF RtPrompt, RtSteer, RtHistory
      <4>2. rt' = rt \/ rt' = [rt EXCEPT !.pc = "call", !.call = <<Head(commands)>>]
        BY <4>1 DEF Call
      <4> QED
        BY <1>1, <2>1, <4>2 DEF TaskRecords
    <3>2. CASE RtInterrupt
      <4>1. \/ rt' = [rt EXCEPT !.pending = {}]
            \/ rt' = [rt EXCEPT !.pending = {}, !.pc = "call", !.call = <<Head(commands)>>]
        BY <3>2 DEF RtInterrupt
      <4> QED
        BY <1>1, <2>1, <4>1 DEF TaskRecords
    <3>3. CASE RtRespond \/ RtClientDisconnected \/ RtShutdown
      BY <1>1, <2>1, <3>3 DEF RtRespond, RtClientDisconnected, RtShutdown, TaskRecords
    <3> QED
      BY <1>4, <3>1, <3>2, <3>3 DEF TaskCommand
  <2> QED
    BY <1>2, <1>3, <2>2, <2>3 DEF NoHistory
<1>5. CASE ~TaskCommand
  <2>1. rt'.pc # "call" \/ (rt'.pc = rt.pc /\ rt'.call = rt.call)
    BY <1>1, <1>5
    DEF RtStart, TaskRead, RtCollect, RtCallReturns, RtCallFails, RtRead, RtStreamCloses,
        RtExpire, RtStop, ProviderStep, ProviderReplies, ProviderEndsTurn, ProviderDies,
        ProviderAsks, providerOnly, TaskRecords
  <2> QED
    BY <1>2, <1>3, <2>1 DEF NoHistory
<1> QED
  BY <1>4, <1>5

(* An agent the broker has given up, or is about to, stays so: no client request revives it,
   and no event does that is still to come. *)
LEMMA GivenUpKept ==
  ASSUME TypeOK, GivenUpSoon,
         BrokerRequest \/ BrokerEvent \/ FinishSend \/ ClientConnect \/ ClientDisconnect
           \/ SendLate
  PROVE  GivenUpSoon'
<1> DEFINE Over(a) == a.state \in {"Failed", "Disconnected"}
<1>1. agent \in AgentRecords /\ events \in Seq(Events)
  BY DEF TypeOK, BrokerTypeOK, ChannelTypeOK
<1>2. /\ Over(ProviderFailure(agent))
      /\ Over(agent) => Over(CancelQueuedPrompts(agent))
      /\ Over([CancelQueuedPrompts(agent) EXCEPT !.state = "Failed", !.turn = FALSE])
      /\ Over([agent EXCEPT !.state = "Disconnected"])
  BY <1>1 DEF ProviderFailure, CancelQueuedPrompts, AgentRecords
<1>3. CASE BrokerRequest \/ FinishSend \/ ClientConnect \/ ClientDisconnect \/ SendLate
  <2>1. events' = events
    BY <1>3 DEF BrokerRequest, Prompt, QueuePrompt, Steer, Interrupt, History, Respond,
        FinishSend, ClientConnect, ClientDisconnect, SendLate, brokerOnly
  <2>2. ASSUME Over(agent)
        PROVE  Over(agent')
    <3>1. ASSUME NEW c, NEW a, Send(c, a), Over(a), a \in AgentRecords
          PROVE  Over(agent')
      <4>1. agent' = a \/ agent' = [a EXCEPT !.state = "Disconnected"]
        BY <3>1 DEF Send
      <4> QED
        BY <3>1, <4>1 DEF AgentRecords
    <3>2. ~Prompt
      BY <2>2 DEF Prompt, AcceptsPrompt
    <3>3. CASE QueuePrompt
      BY <2>2, <3>3 DEF QueuePrompt, Busy
    <3>4. CASE Steer
      BY <2>2, <3>4 DEF Steer
    <3>5. CASE Interrupt
      <4>1. CancelQueuedPrompts(agent) \in AgentRecords
        BY <1>1, AgentUpdates
      <4> QED
        BY <1>2, <2>2, <3>1, <3>5, <4>1 DEF Interrupt
    <3>6. CASE History
      BY <1>1, <2>2, <3>1, <3>6 DEF History
    <3>7. CASE \E h \in Human, allow \in BOOLEAN :
                 Respond("Approval", h, allow) \/ Respond("Question", h, allow)
      BY <1>1, <2>2, <3>1, <3>7 DEF Respond
    <3>8. CASE FinishSend
      BY <1>2, <2>2, <3>8 DEF FinishSend
    <3>9. CASE ClientConnect \/ ClientDisconnect \/ SendLate
      BY <2>2, <3>9 DEF ClientConnect, ClientDisconnect, SendLate
    <3> QED
      BY <1>3, <3>2, <3>3, <3>4, <3>5, <3>6, <3>7, <3>8, <3>9 DEF BrokerRequest
  <2> QED
    BY <2>1, <2>2 DEF GivenUpSoon
<1>4. CASE BrokerEvent
  <2> DEFINE e == Head(events)
  <2>1. events # << >> /\ events' = Tail(events)
    BY <1>4 DEF BrokerEvent, HandleStarted, HandleResponse, HandleQueuedFailure,
                HandleRejected, HandleRequestFailed, HandleTurnEvent, HandleRequested,
                HandleResolved, HandleProviderFailed, HandleStopped, NextEvent
  <2>2. HandleQueuedFailure \/ HandleRequestFailed => Over(agent')
    BY <1>2 DEF HandleQueuedFailure, HandleRequestFailed
  <2>3. CASE FailsForGood(events)
    <3>1. \/ FailsForGood(events')
          \/ e.op = "RequestFailed" /\ ~Has(events', Reviving)
      BY <1>1, <2>1, <2>3, FailsTail
    <3>2. e.op = "RequestFailed" => HandleQueuedFailure \/ HandleRequestFailed
      BY <1>4 DEF BrokerEvent, HandleStarted, HandleResponse,
                HandleRejected, HandleTurnEvent, HandleRequested,
                HandleResolved, HandleProviderFailed, HandleStopped, NextEvent, TurnOps
    <3> QED
      BY <2>2, <3>1, <3>2 DEF GivenUpSoon
  <2>4. CASE Over(agent) /\ ~Has(events, Reviving)
    <3>1. e.op \notin Reviving /\ ~Has(events', Reviving)
      BY <1>1, <2>1, <2>4, HasChanges
    <3>2. ~(HandleStarted \/ HandleTurnEvent \/ HandleRequested)
      BY <3>1 DEF HandleStarted, HandleTurnEvent, HandleRequested, NextEvent, Reviving
    <3>3. HandleResolved => Over(agent')
      <4> DEFINE a == [agent EXCEPT !.approvals = Decrement(@)]
                 b == [agent EXCEPT !.questions = Decrement(@)]
      <4>1. Over(a) /\ Over(b)
        BY <1>1, <2>4 DEF AgentRecords
      <4>2. HandleResolved => \/ agent' = RestoreWaitingState(a)
                              \/ agent' = RestoreWaitingState(b)
                              \/ agent' = agent
        BY DEF HandleResolved, ApplyEventState, NextEvent
      <4> HIDE DEF a, b
      <4>3. RestoreWaitingState(a) = a /\ RestoreWaitingState(b) = b
        BY <4>1 DEF RestoreWaitingState
      <4> QED
        BY <2>4, <4>1, <4>2, <4>3
    <3>4. HandleResponse \/ HandleRejected => Over(agent')
      BY <2>4 DEF HandleResponse, HandleRejected
    <3>5. HandleProviderFailed => Over(agent')
      BY <1>2 DEF HandleProviderFailed
    <3>6. HandleStopped => Over(agent')
      <4>1. CancelQueuedPrompts(agent) \in AgentRecords
        BY <1>1, AgentUpdates
      <4> QED
        BY <4>1 DEF HandleStopped, AgentRecords
    <3> QED
      BY <1>4, <2>2, <3>1, <3>2, <3>3, <3>4, <3>5, <3>6 DEF BrokerEvent, GivenUpSoon
  <2> QED
    BY <2>3, <2>4 DEF GivenUpSoon
<1> QED
  BY <1>3, <1>4

(* Plain reports change nothing in that, and a failure is the start of it. *)
LEMMA GivenUpReported ==
  ASSUME TypeOK, NEW es \in Seq(Events), events' = events \o es, agent' = agent,
         ~Has(es, Reviving), GivenUpSoon \/ FailsForGood(es)
  PROVE  GivenUpSoon'
<1>1. events \in Seq(Events)
  BY DEF TypeOK, ChannelTypeOK
<1>2. CASE FailsForGood(events) \/ FailsForGood(es)
  BY <1>1, <1>2, FailsConcat DEF GivenUpSoon
<1>3. CASE agent.state \in {"Failed", "Disconnected"} /\ ~Has(events, Reviving)
  <2>1. ~Has(events \o es, Reviving)
    BY <1>1, <1>3, HasChanges
  <2> QED
    BY <1>3, <2>1 DEF GivenUpSoon
<1> QED
  BY <1>2, <1>3 DEF GivenUpSoon

(* What the task reads. An end it comes across in a call is the last thing there to read,
   and one it drops with a failed call goes with the failure of the agent. *)
LEMMA LostRead ==
  ASSUME TypeOK, TurnInv, LostInv, NoHistory', TaskRead, prov.alive
  PROVE  LostInv'
<1>1. /\ rt \in TaskRecords /\ prov' = prov /\ rt.collected \in Seq(Notices)
      /\ wire \in Seq(Messages) /\ agent' = agent /\ rt'.pc # "starting"
  BY DEF TypeOK, TaskTypeOK, TaskRecords, TaskRead, RtCollect, RtCallReturns, RtCallFails,
         RtRead, RtStreamCloses, taskOnly, brokerVars
<1>2. PICK es \in Seq(Events) : /\ events' = events \o es
                                /\ RtRead \/ RtCallReturns \/ ~Has(es, Reviving)
  <2>1. ~RtStart
    BY DEF RtStart, TaskRead, RtCollect, RtCallReturns, RtCallFails, RtRead, RtStreamCloses
  <2> QED
    BY <2>1, TaskEmits
<1>3. GivenUpSoon /\ ~Has(es, Reviving) => GivenUpSoon'
  BY <1>1, <1>2, GivenUpReported
<1>4. CASE RtStreamCloses
  <2>1. /\ rt'.active = rt.active /\ rt'.collected = rt.collected /\ rt'.pc = "exiting"
        /\ rt.pc = "loop" /\ wire' = wire
    BY <1>1, <1>4 DEF RtStreamCloses, TaskRecords
  <2>2. ~RtRead /\ ~RtCallReturns
    BY <1>1, <1>4, <2>1 DEF RtStreamCloses, RtRead, RtCallReturns, TaskRecords
  <2>3. EndDue' <=> EndDue
    BY <1>1, <2>1 DEF EndDue
  <2> QED
    BY <1>1, <1>2, <1>3, <2>1, <2>2, <2>3 DEF LostInv
<1> SUFFICES ASSUME wire # << >>, wire' = Tail(wire), ~RtStreamCloses
             PROVE  LostInv'
  BY <1>4 DEF TaskRead, RtCollect, RtCallReturns, RtCallFails, RtRead
<1> DEFINE m == Head(wire)
<1>5. /\ Has(wire, Terminal) <=> m.op \in Terminal \/ Has(wire', Terminal)
      /\ Has(wire, NoticeOps) <=> m.op \in NoticeOps \/ Has(wire', NoticeOps)
      /\ Has(wire, Accepting) <=> m.op \in Accepting \/ Has(wire', Accepting)
  BY OutputTaken
<1>6. m \in Messages
  BY OutputTaken
<1>7. Ordered(wire', LastWords) /\ \A x \in Elements(wire') : <<m, x>> \in LastWords
  BY <1>1, OrderedTail DEF LostInv
<1>8. /\ m.op \in NoticeOps <=> m.op \notin {"ok", "error"}
      /\ m.op \in Terminal => m.op \in NoticeOps
      /\ m.op = "ok" <=> m.op \in Accepting
  BY <1>6 DEF Messages, WireOps, NoticeOps, TurnOps, Terminal, Accepting
<1>9. CASE RtCollect
  <2>1. /\ rt.pc = "call" /\ m.op \in NoticeOps
        /\ rt' = [rt EXCEPT !.collected = Append(@, m)]
    BY <1>8, <1>9 DEF RtCollect, DenialFails
  <2>2. /\ rt'.pc = "call" /\ rt'.call = rt.call /\ rt'.active = rt.active
        /\ rt'.collected = Append(rt.collected, m)
    BY <1>1, <2>1 DEF TaskRecords
  <2>3. m \in Notices
    BY <1>6, <1>8, <2>1 DEF Notices
  <2>4. Has(rt'.collected, Terminal) <=> Has(rt.collected, Terminal) \/ m.op \in Terminal
    BY <1>1, <2>2, <2>3, HasChanges
  <2>5. m.op \in Terminal => ~Has(wire', NoticeOps)
    <3>1. ASSUME m.op \in Terminal, NEW x \in Elements(wire')
          PROVE  x.op \notin NoticeOps
      <4>1. x.op \in Replying
        BY <1>7, <3>1 DEF LastWords
      <4> QED
        BY <4>1 DEF Replying, NoticeOps, TurnOps
    <3> QED
      BY <3>1, ByElements
  <2>6. EndDue' <=> EndDue
    BY <1>1, <1>5, <2>4 DEF EndDue
  <2>7. rt.active => EndDue
    BY <1>5, <2>1 DEF LostInv
  <2> QED
    BY <1>1, <1>5, <1>7, <2>1, <2>2, <2>4, <2>5, <2>6, <2>7 DEF LostInv
<1>10. CASE RtCallReturns
  <2> DEFINE c  == rt.call[1]
             ms == Published(c)
  <2>1. /\ rt.pc = "call" /\ m.op \in Accepting /\ m.op \notin NoticeOps
        /\ rt' = [rt EXCEPT !.pc = "loop", !.call = << >>, !.collected = << >>,
                            !.active = (@ \/ c.op = "Prompt") /\ ~Ends(ms),
                            !.pending = @ \cup Held(ms)]
        /\ Emit(<<Reply("Response", c.id)>> \o ms)
    BY <1>8, <1>10 DEF RtCallReturns
  <2>2. /\ rt'.pc = "loop" /\ rt'.collected = << >>
        /\ rt'.active <=> (rt.active \/ c.op = "Prompt") /\ ~Ends(ms)
    BY <1>1, <2>1 DEF TaskRecords
  <2>3. c.op # "History" /\ (Ends(ms) <=> Has(rt.collected, Terminal))
    BY <2>1, PublishedEnds DEF LostInv, NoHistory
  <2>4. ~Has(rt'.collected, Terminal)
    BY <2>2 DEF Has
  <2>5. ASSUME rt'.active, ~EndDue'
        PROVE  ~Has(wire', NoticeOps) /\ GivenUpSoon'
    <3>1. ~EndDue
      BY <1>1, <1>5, <1>8, <2>1, <2>2, <2>3, <2>5 DEF EndDue
    <3>2. rt.active
      BY <1>5, <2>1, <2>2, <2>5, <3>1 DEF LostInv
    <3>3. ~Has(wire, NoticeOps) /\ rt.collected = << >> /\ GivenUpSoon
      BY <3>1, <3>2 DEF LostInv
    <3>4. c.op # "Prompt"
      BY <2>1, <3>2 DEF TurnInv, TurnOK
    <3>5. <<Reply("Response", c.id)>> \o ms = <<Reply("Response", c.id)>>
      BY <2>3, <3>3, <3>4 DEF Published
    <3>6. <<Reply("Response", c.id)>> \in Seq(Events)
      <4>1. c \in Commands
        BY <2>1, FirstType DEF TypeOK, TaskTypeOK, TaskRecords
      <4> HIDE DEF c
      <4>2. c.id \in Ids
        BY <4>1 DEF Commands
      <4> QED
        BY <4>2, EventValueType, AppendType DEF EventOps
    <3>7. ~Has(<<Reply("Response", c.id)>>, Reviving)
      BY DEF Has, Reply, Reviving, TurnOps
    <3>8. events' = events \o <<Reply("Response", c.id)>>
      BY <2>1, <3>5 DEF Emit
    <3> HIDE DEF c, ms
    <3>9. GivenUpSoon'
      BY <1>1, <3>3, <3>6, <3>7, <3>8, GivenUpReported
    <3> QED
      BY <1>5, <3>3, <3>9
  <2> HIDE DEF c, ms
  <2> QED
    BY <1>1, <1>7, <2>2, <2>4, <2>5 DEF LostInv
<1>11. CASE RtCallFails
  <2>1. /\ rt.pc = "call" /\ m.op = "error"
        /\ rt' = [rt EXCEPT !.pc = "loop", !.call = << >>, !.collected = << >>]
        /\ Emit(<<CallFailed(rt.call[1])>>)
    BY <1>11 DEF RtCallFails
  <2>2. rt'.pc = "loop" /\ rt'.collected = << >> /\ rt'.active = rt.active
    BY <1>1, <2>1 DEF TaskRecords
  <2>3. ~Has(rt'.collected, Terminal)
    BY <2>2 DEF Has
  <2>4. m.op \notin NoticeOps /\ m.op \notin Terminal
    BY <1>8, <2>1
  <2>5. /\ <<CallFailed(rt.call[1])>> \in Seq(Events)
        /\ FailsForGood(<<CallFailed(rt.call[1])>>)
        /\ ~Has(<<CallFailed(rt.call[1])>>, Reviving)
    <3> DEFINE e == CallFailed(rt.call[1])
    <3>1. rt.call[1] \in Commands /\ rt.call[1].op # "History"
      BY <2>1, FirstType DEF TypeOK, TaskTypeOK, TaskRecords, LostInv, NoHistory
    <3>2. e \in Events /\ e.op = "RequestFailed"
      BY <3>1, CallFailedType DEF CallFailed, Reply
    <3> HIDE DEF e
    <3>3. <<e>> \in Seq(Events) /\ DOMAIN <<e>> = {1} /\ <<e>>[1] = e
      BY <3>2, AppendType
    <3>4. FailsForGood(<<e>>)
      BY <3>2, <3>3 DEF FailsForGood
    <3>5. ~Has(<<e>>, Reviving)
      BY <3>2, <3>3 DEF Has, Reviving, TurnOps
    <3> QED
      BY <3>3, <3>4, <3>5 DEF e
  <2>6. GivenUpSoon'
    <3> DEFINE t == <<CallFailed(rt.call[1])>>
    <3>1. t \in Seq(Events) /\ FailsForGood(t) /\ ~Has(t, Reviving) /\ events' = events \o t
      BY <2>1, <2>5 DEF Emit
    <3> HIDE DEF t
    <3> QED
      BY <1>1, <3>1, GivenUpReported
  <2>7. ASSUME rt'.active, ~EndDue'
        PROVE  ~Has(wire', NoticeOps)
    <3>1. ~prov.turn /\ ~Has(wire, Terminal)
      BY <1>1, <1>5, <2>4, <2>7 DEF EndDue
    <3>2. CASE Has(rt.collected, Terminal)
      BY <1>5, <3>2 DEF LostInv
    <3>3. CASE ~Has(rt.collected, Terminal)
      BY <1>5, <2>2, <2>7, <3>1, <3>3 DEF LostInv, EndDue
    <3> QED
      BY <3>2, <3>3
  <2> QED
    BY <1>1, <1>7, <2>2, <2>3, <2>6, <2>7 DEF LostInv
<1>12. CASE RtRead
  <2>1. /\ rt.pc = "loop" /\ m.op \in NoticeOps /\ rt.active
        /\ rt' = [rt EXCEPT !.active = Head(wire).op \notin Terminal,
                            !.pending = @ \cup Requested(<<Head(wire)>>)]
    BY <1>8, <1>12 DEF RtRead
  <2>2. /\ rt'.pc = "loop" /\ rt'.collected = rt.collected
        /\ rt'.active <=> m.op \notin Terminal
    BY <1>1, <2>1 DEF TaskRecords
  <2>3. EndDue
    BY <1>5, <2>1 DEF LostInv
  <2>4. rt'.active => EndDue'
    BY <1>1, <1>5, <2>2, <2>3 DEF EndDue
  <2> QED
    BY <1>1, <1>5, <1>7, <2>2, <2>4 DEF LostInv
<1> QED
  BY <1>9, <1>10, <1>11, <1>12 DEF TaskRead

(* The task's other steps leave the turn, and the provider's output, as they were. *)
LEMMA LostTask ==
  ASSUME TypeOK, TurnInv, LostInv, NoHistory', prov.alive,
         RtStart \/ TaskCommand \/ RtExpire \/ RtStop
  PROVE  LostInv'
<1>1. rt \in TaskRecords /\ prov \in ProviderRecords
  BY DEF TypeOK, TaskTypeOK
<1>2. CASE RtStart
  <2>1. /\ rt.pc = "starting" /\ rt'.pc \in {"loop", "stopped"} /\ rt'.active = rt.active
        /\ rt'.collected = rt.collected /\ wire' = wire
        /\ prov' = prov \/ ~prov'.alive
    BY <1>1, <1>2 DEF RtStart, TaskRecords, ProviderRecords
  <2>2. ~rt.active
    BY <2>1 DEF LostInv
  <2> QED
    BY <2>1, <2>2 DEF LostInv, EndDue
<1>3. CASE RtStop
  <2>1. ~prov'.alive /\ rt'.pc # "starting"
    BY <1>1, <1>3 DEF RtStop, ProviderRecords, TaskRecords
  <2> QED
    BY <2>1 DEF LostInv
<1>4. CASE TaskCommand \/ RtExpire
  <2>1. /\ rt.pc = "loop" /\ rt'.pc # "starting" /\ rt'.active = rt.active
        /\ rt'.collected = rt.collected /\ wire' = wire /\ agent' = agent
        /\ prov'.turn = prov.turn /\ prov'.alive = prov.alive
    <3>1. CASE RtPrompt \/ RtSteer \/ RtHistory
      <4> DEFINE c == Head(commands)
      <4>1. \/ rt' = rt /\ prov' = prov
            \/ /\ rt' = [rt EXCEPT !.pc = "call", !.call = <<c>>]
               /\ prov' = [prov EXCEPT !.call = c.op]
        BY <3>1 DEF RtPrompt, RtSteer, RtHistory, Call
      <4>2. rt.pc = "loop" /\ wire' = wire /\ agent' = agent
        BY <3>1 DEF RtPrompt, RtSteer, RtHistory, Receive, taskOnly, brokerVars
      <4> HIDE DEF c
      <4> QED
        BY <1>1, <4>1, <4>2 DEF TaskRecords, ProviderRecords
    <3>2. CASE RtInterrupt
      <4> DEFINE c == Head(commands)
      <4>1. \/ rt' = [rt EXCEPT !.pending = {}] /\ prov' = prov
            \/ /\ rt' = [rt EXCEPT !.pending = {}, !.pc = "call", !.call = <<c>>]
               /\ prov' = [prov EXCEPT !.call = "Interrupt"]
        BY <3>2 DEF RtInterrupt
      <4>2. rt.pc = "loop" /\ wire' = wire /\ agent' = agent
        BY <3>2 DEF RtInterrupt, Receive, taskOnly, brokerVars
      <4> HIDE DEF c
      <4> QED
        BY <1>1, <4>1, <4>2 DEF TaskRecords, ProviderRecords
    <3>3. CASE RtRespond \/ RtClientDisconnected \/ RtShutdown \/ RtExpire
      BY <1>1, <3>3 DEF RtRespond, RtClientDisconnected, RtShutdown, RtExpire, Receive,
                        taskOnly, brokerVars, TaskRecords
    <3> QED
      BY <1>4, <3>1, <3>2, <3>3 DEF TaskCommand
  <2>2. ~RtStart /\ ~RtRead /\ ~RtCallReturns
    <3>1. ~RtStart /\ ~RtCallReturns
      BY <2>1 DEF RtStart, RtCallReturns
    <3>2. RtRead => wire' # wire
      <4>1. wire \in Seq(Messages)
        BY DEF TypeOK, TaskTypeOK
      <4>2. wire # << >> => Len(Tail(wire)) = Len(wire) - 1 /\ Len(wire) \in Nat
        BY <4>1, TailElements
      <4> QED
        BY <4>2 DEF RtRead
    <3> QED
      BY <2>1, <3>1, <3>2
  <2>3. GivenUpSoon => GivenUpSoon'
    <3>1. PICK es \in Seq(Events) : events' = events \o es /\ ~Has(es, Reviving)
      BY <1>4, <2>2, TaskEmits
    <3> QED
      BY <2>1, <3>1, GivenUpReported
  <2>4. EndDue' <=> EndDue
    BY <2>1 DEF EndDue
  <2>5. ~Has(wire', Accepting)
    <3>1. ~Has(wire, Replying)
      BY <2>1 DEF TurnInv, TurnOK
    <3> QED
      BY <2>1, <3>1 DEF Has, Accepting, Replying
  <2> QED
    BY <2>1, <2>3, <2>4, <2>5 DEF LostInv
<1> QED
  BY <1>2, <1>3, <1>4

(* The provider ends a turn once, and says nothing of it after that. *)
LEMMA LostProvider ==
  ASSUME TypeOK, TurnInv, LostInv, NoHistory', ProviderStep, prov.alive
  PROVE  LostInv'
<1>1. /\ prov \in ProviderRecords /\ wire \in Seq(Messages)
      /\ rt' = rt /\ agent' = agent /\ events' = events /\ commands' = commands
      /\ sending' = sending
  BY DEF TypeOK, TaskTypeOK, ProviderStep, ProviderReplies, ProviderEndsTurn, ProviderDies,
         ProviderAsks, providerOnly, brokerVars
<1>2. GivenUpSoon' <=> GivenUpSoon
  BY <1>1 DEF GivenUpSoon
<1>3. \A op \in WireOps \ {"requested"} : Event(op) \in Messages /\ Event(op).op = op
  BY SessionAssumption DEF Event, Messages, AboutHuman, Ids, WireOps, TurnOps
<1>4. prov.turn => ~Has(rt.collected, Terminal) /\ ~Has(wire, Terminal)
  BY DEF TurnInv, TurnOK
<1>5. ASSUME NEW t \in Seq(Messages), wire' = wire \o t
      PROVE  /\ \A ops : Has(wire', ops) <=> Has(wire, ops) \/ Has(t, ops)
             /\ ~Has(wire, Terminal) /\ (\A x, y \in Elements(t) : <<x, y>> \in LastWords)
                  => Ordered(wire', LastWords)
             /\ (\A y \in Elements(t) : y.op \in Replying) => Ordered(wire', LastWords)
  <2>1. \A ops : Has(wire', ops) <=> Has(wire, ops) \/ Has(t, ops)
    <3>1. TAKE ops
    <3> QED
      BY <1>1, <1>5, HasChanges
  <2>2. /\ Elements(wire) \subseteq Messages /\ Elements(t) \subseteq Messages
    BY <1>1, <1>5, ElementsType
  <2>3. (\A x, y \in Elements(t) : <<x, y>> \in LastWords) => Ordered(t, LastWords)
    BY DEF Ordered, Elements
  <2>4. Ordered(wire, LastWords)
    BY DEF LostInv
  <2>5. ASSUME ~Has(wire, Terminal), \A x, y \in Elements(t) : <<x, y>> \in LastWords
        PROVE  Ordered(wire', LastWords)
    <3>1. \A x \in Elements(wire) : x.op \notin Terminal
      BY <2>5, ByElements
    <3>2. \A x \in Elements(wire), y \in Elements(t) : <<x, y>> \in LastWords
      BY <2>2, <3>1 DEF LastWords
    <3>3. Ordered(t, LastWords)
      BY <2>3, <2>5
    <3> QED
      BY <1>1, <1>5, <2>4, <3>2, <3>3, OrderedConcat
  <2>6. ASSUME \A y \in Elements(t) : y.op \in Replying
        PROVE  Ordered(wire', LastWords)
    <3>1. /\ \A x \in Elements(wire), y \in Elements(t) : <<x, y>> \in LastWords
          /\ \A x \in Elements(t), y \in Elements(t) : <<x, y>> \in LastWords
      BY <2>2, <2>6 DEF LastWords
    <3>2. Ordered(t, LastWords)
      BY <2>3, <3>1
    <3> QED
      BY <1>1, <1>5, <2>4, <3>1, <3>2, OrderedConcat
  <2> QED
    BY <2>1, <2>5, <2>6
<1>6. CASE ProviderDies
  <2>1. ~prov'.alive
    BY <1>1, <1>6 DEF ProviderDies, ProviderRecords
  <2> QED
    BY <1>1, <2>1 DEF LostInv
<1>7. ASSUME NEW h \in Human, ProviderAsks(h)
      PROVE  LostInv'
  <2> DEFINE t == <<Ask(h)>>
  <2>1. t \in Seq(Messages) /\ Ask(h) \in Messages /\ Ask(h).op = "requested"
    BY SessionAssumption DEF Ask, Messages, WireOps, AboutHuman, Ids
  <2>2. /\ ~Has(t, Accepting) /\ \A x, y \in Elements(t) : <<x, y>> \in LastWords
    BY <2>1, ElementsFew DEF Has, Ask, Accepting, LastWords, Terminal
  <2>3. wire' = wire \o t /\ prov'.turn = prov.turn /\ prov.turn
    BY <1>1, <1>7 DEF ProviderAsks, Say, ProviderRecords
  <2> HIDE DEF t
  <2>4. Ordered(wire', LastWords)
    BY <1>4, <1>5, <2>1, <2>2, <2>3
  <2> QED
    BY <1>1, <1>4, <2>3, <2>4 DEF LostInv, EndDue
<1>8. CASE ProviderEndsTurn
  <2>1. PICK op \in Terminal : wire' = wire \o <<Event(op)>>
    BY <1>8 DEF ProviderEndsTurn, Say, Terminal
  <2> DEFINE t == <<Event(op)>>
  <2>2. /\ t \in Seq(Messages) /\ Event(op) \in Messages /\ Event(op).op \in Terminal
        /\ Has(t, Terminal) /\ Ordered(t, LastWords)
    <3>1. Event(op) \in Messages /\ Event(op).op \in Terminal
      BY <1>3 DEF Terminal, WireOps, TurnOps
    <3>2. t \in Seq(Messages)
      BY <3>1
    <3>3. DOMAIN t = {1} /\ t[1] = Event(op)
      OBVIOUS
    <3> HIDE DEF t
    <3> QED
      BY <3>1, <3>2, <3>3 DEF Has, Ordered
  <2>3. prov.turn /\ wire' = wire \o t
    BY <1>8, <2>1 DEF ProviderEndsTurn
  <2>4. Ordered(wire', LastWords)
    <3>1. \A x \in Elements(wire) : x.op \notin Terminal
      BY <1>4, <2>3, ByElements
    <3>2. Elements(wire) \subseteq Messages
      BY <1>1, ElementsType
    <3>3. Elements(t) = {Event(op)}
      BY ElementsFew
    <3>4. \A x \in Elements(wire), y \in Elements(t) : <<x, y>> \in LastWords
      BY <2>2, <3>1, <3>2, <3>3 DEF LastWords
    <3> HIDE DEF t
    <3> QED
      BY <1>1, <2>2, <2>3, <3>4, OrderedConcat DEF LostInv
  <2> HIDE DEF t
  <2>5. EndDue'
    BY <1>5, <2>2, <2>3 DEF EndDue
  <2> QED
    BY <1>1, <1>4, <2>3, <2>4, <2>5 DEF LostInv
<1>9. CASE ProviderReplies
  <2>1. prov.call # "none"
    BY <1>9 DEF ProviderReplies
  <2>2. rt.pc = "call" /\ prov.call = rt.call[1].op /\ ~Has(wire, Replying)
    BY <2>1 DEF TurnInv, TurnOK
  <2>3. ~Has(wire, Accepting)
    BY <2>2 DEF Has, Accepting, Replying
  <2>4. ASSUME NEW op \in Replying, wire' = wire \o <<Event(op)>>, prov'.turn = prov.turn,
               rt.call[1].op # "Prompt" \/ op = "error"
        PROVE  LostInv'
    <3> DEFINE t == <<Event(op)>>
    <3>1. t \in Seq(Messages) /\ \A y \in Elements(t) : y.op \in Replying
      <4>1. Event(op) \in Messages /\ Event(op).op = op
        BY <1>3, <2>4 DEF Replying, WireOps, TurnOps
      <4> QED
        BY <4>1, ElementsFew
    <3>2. /\ ~Has(t, NoticeOps) /\ ~Has(t, Terminal)
          /\ op = "error" => ~Has(t, Accepting)
      BY <2>4 DEF Has, Event, Replying, NoticeOps, TurnOps, Terminal, Accepting
    <3>3. wire' = wire \o t
      BY <2>4
    <3> HIDE DEF t
    <3>4. /\ Ordered(wire', LastWords)
          /\ Has(wire', NoticeOps) <=> Has(wire, NoticeOps)
          /\ Has(wire', Terminal) <=> Has(wire, Terminal)
          /\ op = "error" => ~Has(wire', Accepting)
      BY <1>5, <2>3, <3>1, <3>2, <3>3
    <3>5. EndDue' <=> EndDue
      BY <1>1, <2>4, <3>4 DEF EndDue
    <3> QED
      BY <1>1, <1>2, <2>4, <3>4, <3>5 DEF LostInv
  <2>5. ASSUME NEW t \in Seq(Messages), wire' = wire \o t, prov'.turn,
               rt.call[1].op = "Prompt", \A y \in Elements(t) : y.op \notin Terminal
        PROVE  LostInv'
    <3>1. ~Has(rt.collected, Terminal) /\ ~Has(wire, Terminal)
      BY <2>2, <2>3, <2>5 DEF TurnInv, TurnOK
    <3>2. \A x, y \in Elements(t) : <<x, y>> \in LastWords
      <4>1. Elements(t) \subseteq Messages
        BY <2>5, ElementsType
      <4> QED
        BY <2>5, <4>1 DEF LastWords
    <3>3. Ordered(wire', LastWords)
      BY <1>5, <2>5, <3>1, <3>2
    <3> QED
      BY <1>1, <2>5, <3>1, <3>3 DEF LostInv, EndDue
  <2>6. \/ wire' = wire \o <<Event("error")>> /\ prov' = [prov EXCEPT !.call = "none"]
        \/ /\ prov.call = "Prompt"
           /\ \/ wire' = wire \o <<Event("ok"), Event("turn.started")>>
              \/ wire' = wire \o <<Event("turn.started"), Event("ok")>>
              \/ wire' = wire \o <<Event("ok")>>
           /\ prov' = [prov EXCEPT !.call = "none", !.turn = TRUE, !.stopping = FALSE]
        \/ /\ wire' = wire \o <<Event("ok")>> /\ prov.call # "Prompt"
           /\ \E b : prov' = [prov EXCEPT !.call = "none", !.stopping = b]
    BY <1>9 DEF ProviderReplies, Say
  <2>7. CASE wire' = wire \o <<Event("error")>> /\ prov' = [prov EXCEPT !.call = "none"]
    <3>1. prov'.turn = prov.turn /\ "error" \in Replying
      BY <1>1, <2>7 DEF ProviderRecords, Replying
    <3> QED
      BY <2>4, <2>7, <3>1
  <2>8. CASE /\ prov.call = "Prompt"
             /\ \/ wire' = wire \o <<Event("ok"), Event("turn.started")>>
                \/ wire' = wire \o <<Event("turn.started"), Event("ok")>>
                \/ wire' = wire \o <<Event("ok")>>
             /\ prov' = [prov EXCEPT !.call = "none", !.turn = TRUE, !.stopping = FALSE]
    <3>1. prov'.turn
      BY <1>1, <2>8 DEF ProviderRecords
    <3>2. /\ Event("ok") \in Messages /\ Event("turn.started") \in Messages
          /\ Event("ok").op \notin Terminal /\ Event("turn.started").op \notin Terminal
      BY <1>3 DEF WireOps, TurnOps, Terminal, Event
    <3> DEFINE Said(t) == t \in Seq(Messages) /\ \A y \in Elements(t) : y.op \notin Terminal
    <3>3. /\ Said(<<Event("ok"), Event("turn.started")>>)
          /\ Said(<<Event("turn.started"), Event("ok")>>)
          /\ Said(<<Event("ok")>>)
      BY <3>2, ElementsFew
    <3> HIDE DEF Said
    <3>4. PICK t : Said(t) /\ wire' = wire \o t
      BY <2>8, <3>3
    <3> QED
      BY <2>2, <2>5, <2>8, <3>1, <3>4 DEF Said
  <2>9. CASE /\ wire' = wire \o <<Event("ok")>> /\ prov.call # "Prompt"
             /\ \E b : prov' = [prov EXCEPT !.call = "none", !.stopping = b]
    <3>1. prov'.turn = prov.turn /\ "ok" \in Replying
      BY <1>1, <2>9 DEF ProviderRecords, Replying
    <3> QED
      BY <2>2, <2>4, <2>9, <3>1
  <2> QED
    BY <2>6, <2>7, <2>8, <2>9
<1> QED
  BY <1>6, <1>7, <1>8, <1>9 DEF ProviderStep

(* Every step keeps the end of the turn in sight of the task, or the agent lost. *)
LEMMA LostStep ==
  ASSUME TypeOK, TurnInv, LostInv, "History" \notin Requests, [Next]_vars
  PROVE  LostInv'
<1>1. CASE UNCHANGED vars
  BY <1>1 DEF vars, brokerVars, LostInv, NoHistory, EndDue, GivenUpSoon
<1> DEFINE Broker == BrokerRequest \/ BrokerEvent \/ FinishSend \/ ClientConnect
                       \/ ClientDisconnect \/ SendLate
           Task   == RtStart \/ TaskCommand \/ TaskRead \/ RtExpire \/ RtStop \/ ProviderStep
<1>2. Broker \/ Task \/ UNCHANGED vars
  BY DEF Next
<1>3. NoHistory'
  <2>1. Broker \/ Task => NoHistory'
    BY NoHistorySent, NoHistoryTaken DEF LostInv
  <2> QED
    BY <1>1, <1>2, <2>1 DEF LostInv
<1>4. CASE Broker
  <2>1. UNCHANGED <<rt, prov, wire>>
    BY <1>4
    DEF BrokerRequest, Prompt, QueuePrompt, Steer, Interrupt, History, Respond,
        BrokerEvent, HandleStarted, HandleResponse, HandleQueuedFailure, HandleRejected,
        HandleRequestFailed, HandleTurnEvent, HandleRequested, HandleResolved,
        HandleProviderFailed, HandleStopped, NextEvent,
        FinishSend, ClientConnect, ClientDisconnect, SendLate, brokerOnly
  <2>2. GivenUpSoon => GivenUpSoon'
    BY <1>4, GivenUpKept
  <2> QED
    BY <1>3, <2>1, <2>2 DEF LostInv, EndDue
<1>5. CASE Task /\ ~prov.alive
  <2>1. rt \in TaskRecords /\ prov \in ProviderRecords
    BY DEF TypeOK, TaskTypeOK
  <2>2. ~prov'.alive
    <3>1. CASE TaskCommand
      BY <1>5, <3>1, <2>1 DEF TaskCommand, RtPrompt, RtSteer, RtInterrupt, RtHistory, RtRespond,
           RtClientDisconnected, RtShutdown, Call
    <3>2. CASE RtStart \/ TaskRead \/ RtExpire \/ RtStop
      BY <1>5, <3>2, <2>1 DEF RtStart, TaskRead, RtCollect, RtCallReturns, RtCallFails, RtRead,
           RtStreamCloses, RtExpire, RtStop, ProviderRecords
    <3>3. CASE ProviderStep
      BY <1>5, <3>3 DEF ProviderStep, ProviderReplies, ProviderEndsTurn, ProviderDies,
           ProviderAsks
    <3> QED
      BY <1>5, <3>1, <3>2, <3>3
  <2>3. rt'.pc = "starting" => ~rt'.active
    <3>1. rt'.pc # "starting" \/ (rt'.pc = rt.pc /\ rt'.active = rt.active)
      <4>1. CASE TaskCommand
        <5>1. rt'.pc # "starting"
          <6>1. rt.pc = "loop"
            BY <4>1 DEF TaskCommand, RtPrompt, RtSteer, RtInterrupt, RtHistory, RtRespond,
               RtClientDisconnected, RtShutdown, Receive
          <6>2. /\ RtPrompt \/ RtSteer \/ RtHistory => rt' = rt
                /\ RtInterrupt => rt' = [rt EXCEPT !.pending = {}]
            BY <1>5 DEF RtPrompt, RtSteer, RtHistory, Call, RtInterrupt
          <6>3. RtRespond \/ RtClientDisconnected \/ RtShutdown => rt'.pc # "starting"
            BY <2>1, <6>1 DEF RtRespond, RtClientDisconnected, RtShutdown, TaskRecords
          <6> QED
            BY <2>1, <4>1, <6>1, <6>2, <6>3 DEF TaskCommand, TaskRecords
        <5> QED
          BY <5>1
      <4>2. CASE RtStart \/ TaskRead \/ RtExpire \/ RtStop
        BY <4>2, <2>1 DEF RtStart, TaskRead, RtCollect, RtCallReturns, RtCallFails, RtRead,
             RtStreamCloses, RtExpire, RtStop, TaskRecords
      <4>3. CASE ProviderStep
        BY <4>3 DEF ProviderStep, ProviderReplies, ProviderEndsTurn, ProviderDies,
           ProviderAsks, providerOnly
      <4> QED
        BY <1>5, <4>1, <4>2, <4>3
    <3> QED
      BY <3>1 DEF LostInv
  <2> QED
    BY <1>3, <2>2, <2>3 DEF LostInv
<1>6. CASE Task /\ prov.alive
  BY <1>3, <1>6, LostRead, LostTask, LostProvider
<1> QED
  BY <1>1, <1>2, <1>4, <1>5, <1>6

(* However a turn ends while a call is under way, and whatever becomes of the call, the task
   does not wait for an end it has thrown away: either the end is still to come, or the
   agent is lost to the broker as well. Without history calls, whose replies come back
   without the messages that arrived during them (RtCollect, RtCallReturns, RtCallFails). *)
THEOREM TerminalNotLost ==
  ASSUME "History" \notin Requests
  PROVE  Spec => []NoLostTerminal
<1>1. Init => LostInv
  <2>1. ASSUME Init
        PROVE  /\ rt.pc = "starting" /\ ~rt.active /\ rt.collected = << >> /\ wire = << >>
               /\ commands = << >> /\ sending = << >>
    BY <2>1 DEF Init
  <2>2. \A ops : ~Has(<< >>, ops)
    BY DEF Has
  <2> QED
    BY <2>1, <2>2, OrderedFew DEF LostInv, NoHistory
<1>2. TypeOK /\ TurnInv /\ [Next]_vars => TurnInv'
  BY TurnStep
<1>3. TypeOK /\ TurnInv /\ LostInv /\ [Next]_vars => LostInv'
  BY LostStep
<1>4. LostInv => NoLostTerminal
  <2>1. FailsForGood(events) => Has(events, {"RequestFailed"})
    BY DEF FailsForGood, Has
  <2> QED
    BY <2>1 DEF LostInv, EndDue, GivenUpSoon, NoLostTerminal
<1> QED
  BY <1>1, <1>2, <1>3, <1>4, TurnInit, TypeCorrect, PTL DEF Spec

-----------------------------------------------------------------------------
(* The counts the broker shows. *)

AboutOps == {"requested", "resolved"}

(* What is said of one request: that it is asked, then that it is settled, each once. *)
OneStory ==
  {p \in Events \X Events :
     p[1].op \in AboutOps /\ p[2].op \in AboutOps /\ p[1].human = p[2].human =>
       p[1].op = "requested" /\ p[2].op = "resolved"}

Settled(ms) == {ms[i].human : i \in {j \in DOMAIN ms : ms[j].op = "resolved"}}

(* es asks the requests of Q and settles those of V. *)
Tells(es, Q, V) ==
  /\ es \in Seq(Events) /\ Ordered(es, OneStory)
  /\ Requested(es) = Q /\ Settled(es) = V

(* Asked and settled requests are those some event is about. *)
LEMMA StoryElements ==
  ASSUME NEW s
  PROVE  /\ Requested(s) = {x.human : x \in {y \in Elements(s) : y.op = "requested"}}
         /\ Settled(s) = {x.human : x \in {y \in Elements(s) : y.op = "resolved"}}
BY DEF Requested, Settled, Elements

(* No event, and one that is about no request, tell of none. *)
LEMMA TellsFew ==
  /\ Tells(<< >>, {}, {})
  /\ \A e \in Events : e.op \notin AboutOps => Tells(<<e>>, {}, {})
  /\ \A e \in Events : e.op = "requested" => Tells(<<e>>, {e.human}, {})
  /\ \A e \in Events : e.op = "resolved" => Tells(<<e>>, {}, {e.human})
<1>1. Tells(<< >>, {}, {})
  BY EmptyType, OrderedFew, StoryElements, ElementsFew DEF Tells
<1>2. ASSUME NEW e \in Events
      PROVE  /\ e.op \notin AboutOps => Tells(<<e>>, {}, {})
             /\ e.op = "requested" => Tells(<<e>>, {e.human}, {})
             /\ e.op = "resolved" => Tells(<<e>>, {}, {e.human})
  <2> DEFINE s == <<e>>
  <2>1. s \in Seq(Events) /\ Ordered(s, OneStory) /\ Elements(s) = {e}
    <3>1. s \in Seq(Events)
      OBVIOUS
    <3>2. Ordered(s, OneStory)
      BY OrderedFew
    <3>3. Elements(s) = {e}
      BY ElementsFew
    <3> QED
      BY <3>1, <3>2, <3>3
  <2> HIDE DEF s
  <2>2. /\ Requested(s) = {x.human : x \in {y \in {e} : y.op = "requested"}}
        /\ Settled(s) = {x.human : x \in {y \in {e} : y.op = "resolved"}}
    BY <2>1, StoryElements
  <2>3. e.op \notin AboutOps => Tells(s, {}, {})
    BY <2>1, <2>2 DEF Tells, AboutOps
  <2>4. e.op = "requested" => Tells(s, {e.human}, {})
    BY <2>1, <2>2 DEF Tells
  <2>5. e.op = "resolved" => Tells(s, {}, {e.human})
    BY <2>1, <2>2 DEF Tells
  <2> QED
    BY <2>3, <2>4, <2>5 DEF s
<1> QED
  BY <1>1, <1>2

(* Events about no request tell of none, however many they are. *)
LEMMA TellsNothing ==
  ASSUME NEW s \in Seq(Events), \A x \in Elements(s) : x.op \notin AboutOps
  PROVE  Tells(s, {}, {})
<1>1. \A i \in DOMAIN s : s[i] \in Elements(s) /\ s[i] \in Events
  BY DEF Elements
<1>2. Ordered(s, OneStory)
  BY <1>1 DEF Ordered, OneStory
<1>3. Requested(s) = {} /\ Settled(s) = {}
  BY StoryElements DEF AboutOps
<1> QED
  BY <1>2, <1>3 DEF Tells

(* One stretch of events after another: nothing new may be said of a request that is
   settled, and none asked again. *)
LEMMA TellsConcat ==
  ASSUME NEW s, NEW t, NEW Q, NEW V, NEW Q2, NEW V2,
         Tells(s, Q, V), Tells(t, Q2, V2),
         Q \cap Q2 = {}, V \cap (Q2 \cup V2) = {}
  PROVE  Tells(s \o t, Q \cup Q2, V \cup V2)
<1>1. s \in Seq(Events) /\ t \in Seq(Events) /\ s \o t \in Seq(Events)
  BY DEF Tells
<1>2. /\ Elements(s \o t) = Elements(s) \cup Elements(t)
      /\ Elements(s) \subseteq Events /\ Elements(t) \subseteq Events
  BY <1>1, ElementsConcat, ElementsType
<1>3. ASSUME NEW x \in Elements(s), NEW y \in Elements(t)
      PROVE  <<x, y>> \in OneStory
  <2>1. /\ x.op = "requested" => x.human \in Q
        /\ x.op = "resolved" => x.human \in V
        /\ y.op = "requested" => y.human \in Q2
        /\ y.op = "resolved" => y.human \in V2
    BY StoryElements DEF Tells
  <2>2. SUFFICES ASSUME x.op \in AboutOps, y.op \in AboutOps, x.human = y.human
                 PROVE  x.op = "requested" /\ y.op = "resolved"
    BY <1>2 DEF OneStory
  <2> QED
    BY <2>1, <2>2 DEF AboutOps
<1>4. Ordered(s \o t, OneStory)
  BY <1>1, <1>3, OrderedConcat DEF Tells
<1>5. /\ Requested(s \o t) = Requested(s) \cup Requested(t)
      /\ Settled(s \o t) = Settled(s) \cup Settled(t)
  BY <1>2, StoryElements
<1> QED
  BY <1>1, <1>4, <1>5 DEF Tells

(* An event about no request adds nothing. *)
LEMMA TellsAppend ==
  ASSUME NEW s, NEW Q, NEW V, Tells(s, Q, V), NEW e \in Events, e.op \notin AboutOps
  PROVE  Tells(Append(s, e), Q, V)
<1>1. Tells(<<e>>, {}, {})
  BY TellsFew
<1>2. Append(s, e) = s \o <<e>>
  BY DEF Tells
<1>3. Tells(s \o <<e>>, Q \cup {}, V \cup {})
  BY <1>1, TellsConcat
<1> QED
  BY <1>2, <1>3

(* What the broker takes from the front is the first that is said of that request, or
   the last. *)
LEMMA TellsTail ==
  ASSUME NEW s, NEW Q, NEW V, Tells(s, Q, V), s # << >>
  PROVE  LET e == Head(s) IN
           /\ e \in Events
           /\ e.op \notin AboutOps => Tells(Tail(s), Q, V)
           /\ e.op = "requested" => e.human \in Q /\ Tells(Tail(s), Q \ {e.human}, V)
           /\ e.op = "resolved" => e.human \in V \ Q /\ Tells(Tail(s), Q, V \ {e.human})
<1> DEFINE e == Head(s)
           t == Tail(s)
<1>1. s \in Seq(Events) /\ Ordered(s, OneStory) /\ Requested(s) = Q /\ Settled(s) = V
  BY DEF Tells
<1>2. e \in Events /\ t \in Seq(Events)
  BY <1>1, TailType
<1>3. Ordered(t, OneStory) /\ \A x \in Elements(t) : <<e, x>> \in OneStory
  BY <1>1, OrderedTail
<1>4. Elements(s) = {e} \cup Elements(t)
  BY <1>1, ElementsTail
<1> HIDE DEF e, t
<1>5. /\ Q = {x.human : x \in {y \in {e} \cup Elements(t) : y.op = "requested"}}
      /\ V = {x.human : x \in {y \in {e} \cup Elements(t) : y.op = "resolved"}}
  BY <1>1, <1>4, StoryElements
<1>6. /\ Requested(t) = {x.human : x \in {y \in Elements(t) : y.op = "requested"}}
      /\ Settled(t) = {x.human : x \in {y \in Elements(t) : y.op = "resolved"}}
  BY StoryElements
<1>7. \A x \in Elements(t) :
        e.op \in AboutOps /\ x.op \in AboutOps /\ e.human = x.human =>
          e.op = "requested" /\ x.op = "resolved"
  BY <1>3 DEF OneStory
<1>8. CASE e.op \notin AboutOps
  <2>1. Requested(t) = Q /\ Settled(t) = V
    BY <1>5, <1>6, <1>8 DEF AboutOps
  <2> QED
    BY <1>2, <1>3, <1>8, <2>1 DEF Tells, e, t, AboutOps
<1>9. CASE e.op = "requested"
  <2>1. e.human \in Q
    BY <1>5, <1>9
  <2>2. Settled(t) = V
    BY <1>5, <1>6, <1>9
  <2>3. e.human \notin Requested(t)
    BY <1>6, <1>7, <1>9 DEF AboutOps
  <2>4. Q = {e.human} \cup Requested(t)
    BY <1>5, <1>6, <1>9
  <2>5. Requested(t) = Q \ {e.human}
    BY <2>3, <2>4
  <2>6. Tells(t, Q \ {e.human}, V)
    BY <1>2, <1>3, <2>2, <2>5 DEF Tells
  <2> QED
    BY <1>2, <1>9, <2>1, <2>6 DEF e, t, AboutOps
<1>10. CASE e.op = "resolved"
  <2>1. e.human \in V
    BY <1>5, <1>10
  <2>2. Requested(t) = Q
    BY <1>5, <1>6, <1>10
  <2>3. e.human \notin Settled(t) /\ e.human \notin Requested(t)
    BY <1>6, <1>7, <1>10 DEF AboutOps
  <2>4. V = {e.human} \cup Settled(t)
    BY <1>5, <1>6, <1>10
  <2>5. Settled(t) = V \ {e.human}
    BY <2>3, <2>4
  <2>6. Tells(t, Q, V \ {e.human})
    BY <1>2, <1>3, <2>2, <2>5 DEF Tells
  <2> QED
    BY <1>2, <1>10, <2>1, <2>2, <2>3, <2>6 DEF e, t, AboutOps
<1> QED
  BY <1>2, <1>8, <1>9, <1>10 DEF e, t, AboutOps

(* A hash map's requests, in whatever order they are denied, are settled once each. *)
LEMMA TellsResolved ==
  ASSUME NEW S \in SUBSET Human, NEW order \in Orders(S)
  PROVE  Tells(Resolved(order), {}, S)
<1> DEFINE n == Cardinality(S)
           s == Resolved(order)
<1>1. IsFiniteSet(S)
  BY SessionAssumption, FS_Subset, FS_Union DEF Human
<1>2. n \in Nat
  BY <1>1, FS_CardinalityType
<1>3. IsFiniteSet(1..n) /\ Cardinality(1..n) = n
  BY <1>2, FS_Interval
<1>4. order \in [1..n -> S] /\ \A h \in S : \E i \in 1..n : order[i] = h
  BY DEF Orders
<1>5. order \in Surjection(1..n, S)
  BY <1>4 DEF Surjection
<1>6. order \in Injection(1..n, S)
  BY <1>3, <1>5, FS_Surjection
<1>7. \A i, j \in 1..n : order[i] = order[j] => i = j
  BY <1>4, <1>6 DEF Injection, IsInjective
<1>8. s \in Seq(Events)
  BY ResolvedType
<1>9. /\ DOMAIN s = 1..n
      /\ \A i \in 1..n : s[i] = [op |-> "resolved", id |-> 0, human |-> order[i]]
  BY <1>4 DEF Resolved
<1> HIDE DEF s, n
<1>10. \A i \in 1..n : s[i] \in Events /\ s[i].op = "resolved" /\ s[i].human = order[i]
  <2>1. \A i \in 1..n : s[i] \in Events
    <3>1. \A i \in DOMAIN s : s[i] \in Events
      BY <1>8
    <3> QED
      BY <1>9, <3>1
  <2>2. \A i \in 1..n : s[i].op = "resolved" /\ s[i].human = order[i]
    BY <1>9
  <2> QED
    BY <2>1, <2>2
<1>11. Ordered(s, OneStory)
  <2>1. SUFFICES ASSUME NEW i \in 1..n, NEW j \in 1..n, i < j
                 PROVE  <<s[i], s[j]>> \in OneStory
    BY <1>9 DEF Ordered
  <2>2. s[i].human # s[j].human
    BY <1>2, <1>7, <1>10, <2>1
  <2> QED
    BY <1>10, <2>2 DEF OneStory
<1>12. Requested(s) = {}
  BY <1>9, <1>10 DEF Requested
<1>13. Settled(s) = {order[i] : i \in 1..n}
  BY <1>9, <1>10 DEF Settled
<1>14. {order[i] : i \in 1..n} = S
  BY <1>4 DEF n
<1> QED
  BY <1>8, <1>11, <1>12, <1>13, <1>14 DEF Tells, s

(* Where the requests are that the task has yet to hold. *)
Coming == Requested(wire) \cup Requested(rt.collected)

(* The task settles requests it held, and asks those it takes from the provider's output,
   each as it lets go of it or takes hold of it. *)
TaskTold(es, Q, V) ==
  /\ Tells(es, Q, V) /\ events' = events \o es
  /\ V \subseteq rt.pending /\ Q \subseteq Coming /\ Q \cap Coming' = {}
  /\ rt'.pending = (rt.pending \ V) \cup Q
  /\ Ordered(rt'.collected, OneStory)
  /\ Coming' \subseteq Coming

(* The requests in the two places are human requests. *)
LEMMA ComingType ==
  ASSUME TypeOK
  PROVE  /\ Requested(wire) \subseteq Human /\ Requested(rt.collected) \subseteq Human
         /\ rt.collected \in Seq(Notices) /\ rt.collected \in Seq(Events)
         /\ Settled(rt.collected) = {}
<1>1. wire \in Seq(Messages) /\ rt.collected \in Seq(Notices)
  BY DEF TypeOK, TaskTypeOK, TaskRecords
<1>2. /\ Elements(wire) \subseteq Messages /\ Elements(rt.collected) \subseteq Notices
  BY <1>1, ElementsType
<1>3. \A m \in Messages : m.op # "resolved" /\ (m.op = "requested" => m.human \in Human)
  BY DEF Messages, WireOps, TurnOps, AboutHuman
<1>4. \A m \in Notices : m \in Messages
  BY DEF Notices
<1>5. /\ Requested(wire) \subseteq Human /\ Requested(rt.collected) \subseteq Human
      /\ Settled(rt.collected) = {}
  BY <1>2, <1>3, <1>4, StoryElements
<1> QED
  BY <1>1, <1>5, NoticeType

(* What the task's commands and deadlines settle. *)
LEMMA CommandTold ==
  ASSUME TypeOK, Ordered(rt.collected, OneStory),
         RtStart \/ TaskCommand \/ RtExpire \/ RtStop
  PROVE  \E es, Q, V : TaskTold(es, Q, V)
<1>1. rt \in TaskRecords /\ rt.pending \in SUBSET Human
  BY DEF TypeOK, TaskTypeOK, TaskRecords
<1>2. ASSUME NEW es, NEW V, Tells(es, {}, V), events' = events \o es,
             V \subseteq rt.pending, rt'.pending = rt.pending \ V,
             rt'.collected = rt.collected, wire' = wire
      PROVE  \E e, Q, U : TaskTold(e, Q, U)
  <2>1. Coming' = Coming
    BY <1>2 DEF Coming
  <2>2. TaskTold(es, {}, V)
    BY <1>2, <2>1 DEF TaskTold
  <2> QED
    BY <2>2
<1>3. events = events \o << >>
  BY DEF TypeOK, ChannelTypeOK
<1>4. \A op \in EventOps \ AboutOps, id \in Ids :
        /\ Reply(op, id) \in Events /\ Reply(op, id).op \notin AboutOps
        /\ Tells(<<Reply(op, id)>>, {}, {})
  <2>1. \A op \in EventOps \ AboutOps, id \in Ids :
          Reply(op, id) \in Events /\ Reply(op, id).op \notin AboutOps
    BY EventValueType DEF AboutOps, Reply
  <2> QED
    BY <2>1, TellsFew
<1>5. \A op \in EventOps \ AboutOps : Event(op) \in Events /\ Event(op).op \notin AboutOps
  BY EventValueType DEF AboutOps, Event
<1>6. ASSUME NEW S \in SUBSET rt.pending, NEW order \in Orders(S)
      PROVE  /\ Tells(Resolved(order), {}, S)
             /\ \A e \in Events : e.op \notin AboutOps =>
                  Tells(Append(Resolved(order), e), {}, S)
  BY <1>1, TellsResolved, TellsAppend
<1>7. /\ {"Response", "Rejected", "RequestFailed", "ProviderFailed", "Stopped", "Started"}
           \subseteq EventOps \ AboutOps
  BY DEF EventOps, AboutOps
<1>8. \A ops : Receive(ops) => Head(commands) \in Commands /\ Head(commands).id \in Ids
                               /\ wire' = wire
  BY ReceiveType
<1>9. CASE RtStart
  <2>1. /\ Tells(<<Reply("Started", 0)>>, {}, {})
        /\ Tells(<<Reply("RequestFailed", 0), Event("Stopped")>>, {}, {})
    <3> DEFINE a == Reply("RequestFailed", 0)
               b == Event("Stopped")
    <3>1. /\ a \in Events /\ a.op \notin AboutOps /\ Tells(<<Reply("Started", 0)>>, {}, {})
          /\ b \in Events /\ b.op \notin AboutOps
      <4>1. 0 \in Ids /\ {"RequestFailed", "Started", "Stopped"} \subseteq EventOps \ AboutOps
        BY <1>7, SessionAssumption DEF Ids
      <4>2. a \in Events /\ a.op \notin AboutOps /\ Tells(<<Reply("Started", 0)>>, {}, {})
        BY <1>4, <4>1
      <4>3. b \in Events /\ b.op \notin AboutOps
        BY <1>5, <4>1
      <4> QED
        BY <4>2, <4>3
    <3> HIDE DEF a, b
    <3>2. <<a, b>> \in Seq(Events) /\ Elements(<<a, b>>) = {a, b}
      BY <3>1, ElementsFew
    <3>3. Tells(<<a, b>>, {}, {})
      <4>1. \A x \in Elements(<<a, b>>) : x.op \notin AboutOps
        BY <3>1, <3>2
      <4> QED
        BY <3>2, <4>1, TellsNothing
    <3> QED
      BY <3>1, <3>3 DEF a, b
  <2>2. /\ rt'.pending = rt.pending \ {} /\ rt'.collected = rt.collected /\ wire' = wire
        /\ \/ events' = events \o <<Reply("Started", 0)>>
           \/ events' = events \o <<Reply("RequestFailed", 0), Event("Stopped")>>
    BY <1>1, <1>9 DEF RtStart, Emit, TaskRecords
  <2>3. PICK es : Tells(es, {}, {}) /\ events' = events \o es
    BY <2>1, <2>2
  <2> QED
    BY <1>2, <2>2, <2>3
<1>10. CASE RtPrompt \/ RtSteer \/ RtHistory
  <2> DEFINE c == Head(commands)
  <2>1. c \in Commands /\ c.id \in Ids /\ wire' = wire
    BY <1>8, <1>10 DEF RtPrompt, RtSteer, RtHistory
  <2>2. \/ rt' = rt
        \/ rt' = [rt EXCEPT !.pc = "call", !.call = <<c>>]
    BY <1>10 DEF RtPrompt, RtSteer, RtHistory, Call
  <2>3. rt'.pending = rt.pending \ {} /\ rt'.collected = rt.collected
    BY <1>1, <2>2 DEF TaskRecords
  <2>4. \/ events' = events
        \/ \E op \in {"Rejected", "RequestFailed"} : events' = events \o <<Reply(op, c.id)>>
    BY <1>10 DEF RtPrompt, RtSteer, RtHistory, Call, CallFailed, Emit
  <2> HIDE DEF c
  <2>5. PICK es : Tells(es, {}, {}) /\ events' = events \o es
    BY <1>3, <1>4, <1>7, <2>1, <2>4, TellsFew
  <2> QED
    BY <1>2, <2>1, <2>3, <2>5
<1>11. CASE RtInterrupt
  <2> DEFINE c == Head(commands)
  <2>1. c.id \in Ids /\ wire' = wire
    BY <1>8, <1>11 DEF RtInterrupt
  <2>2. /\ rt'.pending = {} /\ rt'.collected = rt.collected
    BY <1>1, <1>11 DEF RtInterrupt, TaskRecords
  <2>3. \E order \in Orders(rt.pending) :
          \/ events' = events \o Resolved(order)
          \/ \E op \in {"RequestFailed", "Response"} :
               events' = events \o Append(Resolved(order), Reply(op, c.id))
    BY <1>11 DEF RtInterrupt, Emit
  <2> HIDE DEF c
  <2>4. PICK es : Tells(es, {}, rt.pending) /\ events' = events \o es
    BY <1>4, <1>6, <1>7, <2>1, <2>3
  <2>5. rt'.pending = rt.pending \ rt.pending
    BY <2>2
  <2> QED
    BY <1>2, <2>1, <2>2, <2>4, <2>5
<1>12. CASE RtClientDisconnected \/ RtShutdown
  <2>1. wire' = wire
    BY <1>8, <1>12 DEF RtClientDisconnected, RtShutdown
  <2>2. rt'.pending = {} /\ rt'.collected = rt.collected
    BY <1>1, <1>12 DEF RtClientDisconnected, RtShutdown, TaskRecords
  <2>3. \E order \in Orders(rt.pending) :
          \/ events' = events \o Resolved(order)
          \/ events' = events \o Append(Resolved(order), Event("ProviderFailed"))
    BY <1>12 DEF RtClientDisconnected, RtShutdown, Emit
  <2>4. PICK es : Tells(es, {}, rt.pending) /\ events' = events \o es
    BY <1>5, <1>6, <1>7, <2>3
  <2>5. rt'.pending = rt.pending \ rt.pending
    BY <2>2
  <2> QED
    BY <1>2, <2>1, <2>2, <2>4, <2>5
<1>13. CASE RtStop
  <2>1. wire' = wire /\ rt'.pending = {} /\ rt'.collected = rt.collected
    BY <1>1, <1>13 DEF RtStop, TaskRecords
  <2>2. \E order \in Orders(rt.pending) :
          events' = events \o Append(Resolved(order), Event("Stopped"))
    BY <1>13 DEF RtStop, Emit
  <2>3. PICK es : Tells(es, {}, rt.pending) /\ events' = events \o es
    BY <1>5, <1>6, <1>7, <2>2
  <2>4. rt'.pending = rt.pending \ rt.pending
    BY <2>1
  <2> QED
    BY <1>2, <2>1, <2>3, <2>4
<1>14. CASE RtExpire
  <2>1. PICK S \in SUBSET rt.pending :
          /\ rt'.pending = rt.pending \ S /\ rt'.collected = rt.collected /\ wire' = wire
          /\ \E order \in Orders(S) :
               \/ events' = events \o Resolved(order)
               \/ events' = events \o Append(Resolved(order), Event("ProviderFailed"))
    BY <1>1, <1>14 DEF RtExpire, Emit, TaskRecords
  <2>2. PICK es : Tells(es, {}, S) /\ events' = events \o es
    BY <1>5, <1>6, <1>7, <2>1
  <2> QED
    BY <1>2, <2>1, <2>2
<1>15. CASE RtRespond
  <2> DEFINE c == Head(commands)
  <2>1. c.id \in Ids /\ wire' = wire
    BY <1>8, <1>15 DEF RtRespond
  <2>2. \/ /\ rt' = rt
           /\ \E op \in {"Rejected", "RequestFailed"} : events' = events \o <<Reply(op, c.id)>>
        \/ /\ c.human \in rt.pending
           /\ rt' = [rt EXCEPT !.pending = @ \ {c.human}]
           /\ events' = events \o (<<Reply("Response", c.id)>> \o Resolved(<<c.human>>))
    BY <1>15 DEF RtRespond, Answerable, Emit
  <2> HIDE DEF c
  <2>3. CASE /\ rt' = rt
             /\ \E op \in {"Rejected", "RequestFailed"} : events' = events \o <<Reply(op, c.id)>>
    <3>1. PICK es : Tells(es, {}, {}) /\ events' = events \o es
      BY <1>4, <1>7, <2>1, <2>3
    <3>2. rt'.pending = rt.pending \ {} /\ rt'.collected = rt.collected
      BY <2>3
    <3> QED
      BY <1>2, <2>1, <3>1, <3>2
  <2>4. CASE /\ c.human \in rt.pending
             /\ rt' = [rt EXCEPT !.pending = @ \ {c.human}]
             /\ events' = events \o (<<Reply("Response", c.id)>> \o Resolved(<<c.human>>))
    <3> DEFINE s == <<Reply("Response", c.id)>>
               t == Resolved(<<c.human>>)
    <3>1. Tells(s, {}, {})
      BY <1>4, <1>7, <2>1
    <3>2. Tells(t, {}, {c.human})
      <4> DEFINE e == [op |-> "resolved", id |-> 0, human |-> c.human]
      <4>1. t = <<e>>
        BY DEF Resolved
      <4>2. e \in Events /\ e.op = "resolved" /\ e.human = c.human
        BY <1>1, <2>4, SessionAssumption DEF Events, EventOps, Ids, AboutHuman
      <4> HIDE DEF t, e
      <4> QED
        BY <4>1, <4>2, TellsFew
    <3> HIDE DEF s, t
    <3>3. Tells(s \o t, {} \cup {}, {} \cup {c.human})
      BY <3>1, <3>2, TellsConcat
    <3>4. rt'.pending = rt.pending \ {c.human} /\ rt'.collected = rt.collected
      BY <1>1, <2>4 DEF TaskRecords
    <3>5. Tells(s \o t, {}, {c.human}) /\ events' = events \o (s \o t)
      BY <2>4, <3>3 DEF s, t
    <3> QED
      BY <1>2, <2>1, <2>4, <3>4, <3>5
  <2> QED
    BY <2>2, <2>3, <2>4
<1> QED
  BY <1>9, <1>10, <1>11, <1>12, <1>13, <1>14, <1>15 DEF TaskCommand

(* What the task takes hold of as it reads, and as a call returns. *)
LEMMA ReadTold ==
  ASSUME TypeOK, OnceInv, Ordered(rt.collected, OneStory), Provider = "claude", TaskRead
  PROVE  \E es, Q, V : TaskTold(es, Q, V)
<1>1. /\ rt \in TaskRecords /\ wire \in Seq(Messages)
      /\ events = events \o << >>
  BY DEF TypeOK, ChannelTypeOK, TaskTypeOK
<1>2. /\ Requested(wire) \subseteq Human /\ Requested(rt.collected) \subseteq Human
      /\ rt.collected \in Seq(Notices) /\ rt.collected \in Seq(Events)
      /\ Settled(rt.collected) = {}
  BY ComingType
<1>3. \A h \in Human : /\ h \in Requested(wire) => h \notin rt.pending \cup Requested(rt.collected)
                       /\ h \in Requested(rt.collected) => h \notin rt.pending
  BY DEF OnceInv, Once
<1>4. /\ wire # << >> /\ wire' = Tail(wire) =>
           /\ Head(wire) \in Messages
           /\ Requested(wire') \subseteq Requested(wire)
           /\ Head(wire).op = "requested" =>
                /\ Head(wire).human \in Requested(wire)
                /\ Head(wire).human \notin Requested(wire')
  BY <1>1, TailElements, RequestedTail DEF OnceInv
<1>5. Requested(<< >>) = {} /\ Ordered(<< >>, OneStory)
  BY OrderedFew DEF Requested
<1>6. CASE RtStreamCloses
  <2>1. /\ rt'.pending = rt.pending /\ rt'.collected = rt.collected /\ wire' = wire
        /\ events' = events \o <<Event("ProviderFailed")>>
    BY <1>1, <1>6 DEF RtStreamCloses, Emit, TaskRecords
  <2>2. Tells(<<Event("ProviderFailed")>>, {}, {})
    <3>1. Event("ProviderFailed") \in Events /\ Event("ProviderFailed").op \notin AboutOps
      BY EventValueType DEF EventOps, Event, AboutOps
    <3> QED
      BY <3>1, TellsFew
  <2>3. Coming' = Coming
    BY <2>1 DEF Coming
  <2>4. TaskTold(<<Event("ProviderFailed")>>, {}, {})
    BY <2>1, <2>2, <2>3 DEF TaskTold
  <2> QED
    BY <2>4
<1>7. CASE RtCallFails
  <2> DEFINE es == <<CallFailed(rt.call[1])>>
  <2>1. /\ rt'.pending = rt.pending /\ rt'.collected = << >>
        /\ wire' = wire \/ (wire # << >> /\ wire' = Tail(wire))
        /\ events' = events \o es /\ rt.call[1] \in Commands
    BY <1>1, <1>7, FirstType DEF RtCallFails, Emit, TaskRecords, TypeOK, TaskTypeOK
  <2>2. Tells(es, {}, {})
    <3>1. CallFailed(rt.call[1]) \in Events /\ CallFailed(rt.call[1]).op \notin AboutOps
      BY <2>1, CallFailedType DEF CallFailed, Reply, AboutOps
    <3> QED
      BY <3>1, TellsFew
  <2> HIDE DEF es
  <2>3. Coming' \subseteq Coming
    BY <1>4, <1>5, <2>1 DEF Coming
  <2>4. TaskTold(es, {}, {})
    BY <1>5, <2>1, <2>2, <2>3 DEF TaskTold
  <2> QED
    BY <2>4
<1>8. CASE RtCollect
  <2> DEFINE m == Head(wire)
             denied == IF Provider = "codex" /\ m.op = "requested" THEN {m.human} ELSE {}
  <2>1. /\ wire # << >> /\ wire' = Tail(wire) /\ m.op \notin {"ok", "error"}
        /\ rt' = [rt EXCEPT !.collected = Append(@, m)] /\ events' = events
    <3>1. denied = {}
      OBVIOUS
    <3>2. ~DenialFails(denied)
      BY <3>1 DEF DenialFails
    <3> HIDE DEF denied
    <3> QED
      BY <1>8, <3>2 DEF RtCollect, denied
  <2>2. /\ rt'.pending = rt.pending /\ rt'.collected = Append(rt.collected, m)
    BY <1>1, <2>1 DEF TaskRecords
  <2>3. m \in Notices /\ m \in Messages /\ m \in Events
    BY <1>4, <2>1, NoticeType DEF Notices
  <2> HIDE DEF m
  <2>4. rt.collected \in Seq(Messages)
    BY <1>2 DEF Notices
  <2>5. Requested(rt'.collected) =
          Requested(rt.collected) \cup (IF m.op = "requested" THEN {m.human} ELSE {})
    BY <2>2, <2>3, <2>4, RequestedAppend
  <2>6. Coming' \subseteq Coming
    BY <1>4, <2>1, <2>5 DEF Coming, m
  <2>7. ASSUME NEW x \in Elements(rt.collected)
        PROVE  <<x, m>> \in OneStory
    <3>1. x \in Notices /\ x \in Events
      BY <1>2, ElementsType, NoticeType
    <3>2. x.op # "resolved" /\ m.op # "resolved"
      BY <2>3, <3>1 DEF Notices, Messages, WireOps, TurnOps
    <3>3. x.op = "requested" => x.human \in Requested(rt.collected)
      BY StoryElements
    <3>4. m.op = "requested" => m.human \in Requested(wire)
      BY <1>4, <2>1 DEF m
    <3>5. ~(x.op = "requested" /\ m.op = "requested" /\ x.human = m.human)
      BY <1>2, <1>3, <3>3, <3>4
    <3> QED
      BY <2>3, <3>1, <3>2, <3>5 DEF OneStory, AboutOps
  <2>8. Ordered(rt'.collected, OneStory)
    BY <1>2, <2>2, <2>3, <2>7, OrderedAppend
  <2>9. TaskTold(<< >>, {}, {})
    BY <1>1, <2>1, <2>2, <2>6, <2>8, TellsFew DEF TaskTold
  <2> QED
    BY <2>9
<1>9. CASE RtRead
  <2> DEFINE m == Head(wire)
             Q == Requested(<<m>>)
  <2>1. /\ wire # << >> /\ wire' = Tail(wire) /\ m.op \notin {"ok", "error"}
        /\ events' = events \o <<m>>
        /\ rt' = [rt EXCEPT !.active = m.op \notin Terminal, !.pending = @ \cup Q]
    BY <1>9 DEF RtRead, Emit
  <2>2. m \in Notices /\ m \in Events
    BY <1>4, <2>1, NoticeType DEF Notices
  <2>3. m.op # "resolved"
    BY <2>2 DEF Notices, Messages, WireOps, TurnOps
  <2>4. Tells(<<m>>, Q, {})
    <3>1. m.op = "requested" => Tells(<<m>>, {m.human}, {})
      BY <2>2, TellsFew
    <3>2. m.op # "requested" => Tells(<<m>>, {}, {})
      BY <2>2, <2>3, TellsFew DEF AboutOps
    <3> QED
      BY <3>1, <3>2 DEF Tells
  <2>5. Q \subseteq Requested(wire) /\ Q \cap Requested(wire') = {}
    <3>1. Q = IF m.op = "requested" THEN {m.human} ELSE {}
      BY DEF Requested
    <3> HIDE DEF Q
    <3> QED
      BY <1>4, <2>1, <3>1
  <2> HIDE DEF Q
  <2>6. rt'.pending = rt.pending \cup Q /\ rt'.collected = rt.collected
    BY <1>1, <2>1 DEF TaskRecords
  <2>7. Coming' \subseteq Coming /\ Q \subseteq Coming /\ Q \cap Coming' = {}
    BY <1>2, <1>3, <1>4, <2>1, <2>5, <2>6 DEF Coming
  <2>8. TaskTold(<<m>>, Q, {})
    BY <2>1, <2>4, <2>6, <2>7 DEF TaskTold
  <2> QED
    BY <2>8
<1>10. CASE RtCallReturns
  <2> DEFINE c == rt.call[1]
             ms == Published(c)
             first == <<Reply("Response", c.id)>>
             made == IF c.op = "Prompt" /\ Provider = "claude"
                     THEN <<Event("turn.started")>> ELSE << >>
             kept == IF c.op = "History" THEN << >> ELSE rt.collected
             Q == Requested(kept)
  <2>1. /\ wire # << >> /\ wire' = Tail(wire) /\ events' = events \o (first \o ms)
        /\ rt'.pending = rt.pending \cup Held(ms) /\ rt'.collected = << >>
    BY <1>1, <1>10 DEF RtCallReturns, Emit, TaskRecords
  <2>2. c \in Commands
    BY <1>10, FirstType DEF RtCallReturns, TypeOK, TaskTypeOK, TaskRecords
  <2>3. Tells(first, {}, {})
    <3> HIDE DEF c
    <3>1. c.id \in Ids
      BY <2>2 DEF Commands
    <3>2. Reply("Response", c.id) \in Events /\ Reply("Response", c.id).op \notin AboutOps
      BY <3>1, EventValueType DEF EventOps, Reply, AboutOps
    <3> QED
      BY <3>2, TellsFew
  <2>4. Tells(made, {}, {})
    <3>1. Event("turn.started") \in Events /\ Event("turn.started").op \notin AboutOps
      BY EventValueType DEF EventOps, Event, AboutOps
    <3> QED
      BY <3>1, TellsFew
  <2>5. Tells(kept, Q, {}) /\ Q \subseteq Requested(rt.collected)
    <3>1. Settled(<< >>) = {}
      BY DEF Settled
    <3>2. Tells(rt.collected, Requested(rt.collected), {})
      BY <1>2 DEF Tells
    <3>3. Tells(<< >>, Requested(<< >>), {})
      BY <1>5, TellsFew
    <3> QED
      BY <1>5, <3>2, <3>3
  <2>6. ms = made \o kept
    BY DEF Published
  <2> HIDE DEF c, ms, first, made, kept, Q
  <2>7. Tells(ms, Q, {})
    <3>1. Tells(made \o kept, {} \cup Q, {} \cup {})
      BY <2>4, <2>5, TellsConcat
    <3> QED
      BY <2>6, <3>1
  <2>8. Tells(first \o ms, Q, {})
    <3>1. Tells(first \o ms, {} \cup Q, {} \cup {})
      BY <2>3, <2>7, TellsConcat
    <3> QED
      BY <3>1
  <2>9. Held(ms) = Q
    BY <2>7 DEF Held, Tells
  <2>10. Coming' \subseteq Coming /\ Q \subseteq Coming /\ Q \cap Coming' = {}
    BY <1>2, <1>3, <1>4, <1>5, <2>1, <2>5 DEF Coming
  <2>11. TaskTold(first \o ms, Q, {})
    BY <1>5, <2>1, <2>8, <2>9, <2>10 DEF TaskTold
  <2> QED
    BY <2>11
<1> QED
  BY <1>6, <1>7, <1>8, <1>9, <1>10 DEF TaskRead

(* The requests that are held, or settled without the broker knowing yet, but for those
   it does not know to be asked. *)
Shown == (rt.pending \cup Settled(events)) \ Requested(events)

CountsAre(a, S) ==
  /\ a.approvals = Cardinality(S \cap Approvals)
  /\ a.questions = Cardinality(S \cap Questions)

CountInv ==
  /\ Tells(events, Requested(events), Settled(events))
  /\ Ordered(rt.collected, OneStory)
  /\ Settled(events) \subseteq prov.issued
  /\ Settled(events) \cap (rt.pending \cup Coming) = {}
  /\ Requested(events) \subseteq rt.pending \cup Settled(events)
  /\ ~agent.givenUp => CountsAre(agent, Shown)

(* apply_event_state counts a request that was not shown, and uncounts one that was. *)
LEMMA CountsApplied ==
  ASSUME NEW a \in AgentRecords, NEW e \in Events, NEW S \in SUBSET Human, CountsAre(a, S)
  PROVE  LET b == ApplyEventState(a, e) IN
           /\ b.givenUp = a.givenUp
           /\ e.op \notin AboutOps => CountsAre(b, S)
           /\ e.op = "requested" /\ e.human \notin S => CountsAre(b, S \cup {e.human})
           /\ e.op = "resolved" /\ e.human \in S => CountsAre(b, S \ {e.human})
<1> DEFINE b == ApplyEventState(a, e)
           A == S \cap Approvals
           Q == S \cap Questions
           h == e.human
<1>1. /\ IsFiniteSet(A) /\ IsFiniteSet(Q) /\ Approvals \cap Questions = {}
      /\ Cardinality(A) \in Nat /\ Cardinality(Q) \in Nat
  BY SessionAssumption, FS_Intersection, FS_CardinalityType
<1>2. a.approvals = Cardinality(A) /\ a.questions = Cardinality(Q)
  BY DEF CountsAre
<1>3. \A c \in AgentRecords : LET r == RestoreWaitingState(c) IN
        r.approvals = c.approvals /\ r.questions = c.questions /\ r.givenUp = c.givenUp
  BY DEF RestoreWaitingState, AgentRecords
<1>4. e.op \in AboutOps => h \in Approvals \/ h \in Questions
  BY DEF Events, AboutHuman, AboutOps, Human
<1>5. CASE e.op \notin AboutOps
  <2>1. b.approvals = a.approvals /\ b.questions = a.questions /\ b.givenUp = a.givenUp
    BY <1>5 DEF ApplyEventState, AgentRecords, AboutOps
  <2> QED
    BY <1>2, <1>5, <2>1 DEF CountsAre, AboutOps
<1>6. CASE e.op = "requested" /\ h \in Approvals
  <2>1. /\ b.approvals = a.approvals + 1 /\ b.questions = a.questions
        /\ b.givenUp = a.givenUp
    <3>1. b = [a EXCEPT !.approvals = @ + 1, !.state = "WaitingApproval"]
      BY <1>1, <1>6 DEF ApplyEventState
    <3> QED
      BY <3>1 DEF AgentRecords
  <2>2. (S \cup {h}) \cap Approvals = A \cup {h} /\ (S \cup {h}) \cap Questions = Q
    BY <1>1, <1>6
  <2>3. h \notin S => Cardinality(A \cup {h}) = Cardinality(A) + 1
    BY <1>1, FS_AddElement
  <2> QED
    BY <1>2, <1>6, <2>1, <2>2, <2>3 DEF CountsAre, AboutOps
<1>7. CASE e.op = "requested" /\ h \in Questions
  <2>1. /\ b.questions = a.questions + 1 /\ b.approvals = a.approvals
        /\ b.givenUp = a.givenUp
    BY <1>1, <1>7 DEF ApplyEventState, AgentRecords
  <2>2. (S \cup {h}) \cap Questions = Q \cup {h} /\ (S \cup {h}) \cap Approvals = A
    BY <1>1, <1>7
  <2>3. h \notin S => Cardinality(Q \cup {h}) = Cardinality(Q) + 1
    BY <1>1, FS_AddElement
  <2> QED
    BY <1>2, <1>7, <2>1, <2>2, <2>3 DEF CountsAre, AboutOps
<1>8. CASE e.op = "resolved" /\ h \in Approvals
  <2> DEFINE c == [a EXCEPT !.approvals = Decrement(@)]
  <2>1. /\ c \in AgentRecords /\ c.approvals = Decrement(a.approvals)
        /\ c.questions = a.questions /\ c.givenUp = a.givenUp
    BY DEF AgentRecords, Decrement
  <2>2. b = RestoreWaitingState(c)
    BY <1>1, <1>8 DEF ApplyEventState
  <2> HIDE DEF b, c
  <2>3. /\ b.approvals = Decrement(a.approvals) /\ b.questions = a.questions
        /\ b.givenUp = a.givenUp
    BY <1>3, <2>1, <2>2
  <2>4. (S \ {h}) \cap Approvals = A \ {h} /\ (S \ {h}) \cap Questions = Q
    BY <1>1, <1>8
  <2>5. ASSUME h \in S
        PROVE  Cardinality(A \ {h}) = Cardinality(A) - 1 /\ Cardinality(A) # 0
    <3>1. h \in A
      BY <1>8, <2>5
    <3> QED
      BY <1>1, <3>1, FS_RemoveElement, FS_EmptySet
  <2> QED
    BY <1>1, <1>2, <1>8, <2>3, <2>4, <2>5 DEF CountsAre, AboutOps, Decrement, b
<1>9. CASE e.op = "resolved" /\ h \in Questions
  <2> DEFINE c == [a EXCEPT !.questions = Decrement(@)]
  <2>1. /\ c \in AgentRecords /\ c.questions = Decrement(a.questions)
        /\ c.approvals = a.approvals /\ c.givenUp = a.givenUp
    BY DEF AgentRecords, Decrement
  <2>2. b = RestoreWaitingState(c)
    BY <1>1, <1>9 DEF ApplyEventState
  <2> HIDE DEF b, c
  <2>3. /\ b.questions = Decrement(a.questions) /\ b.approvals = a.approvals
        /\ b.givenUp = a.givenUp
    BY <1>3, <2>1, <2>2
  <2>4. (S \ {h}) \cap Questions = Q \ {h} /\ (S \ {h}) \cap Approvals = A
    BY <1>1, <1>9
  <2>5. ASSUME h \in S
        PROVE  Cardinality(Q \ {h}) = Cardinality(Q) - 1 /\ Cardinality(Q) # 0
    <3>1. h \in Q
      BY <1>9, <2>5
    <3> QED
      BY <1>1, <3>1, FS_RemoveElement, FS_EmptySet
  <2> QED
    BY <1>1, <1>2, <1>9, <2>3, <2>4, <2>5 DEF CountsAre, AboutOps, Decrement, b
<1> QED
  BY <1>4, <1>5, <1>6, <1>7, <1>8, <1>9 DEF AboutOps

(* The task's steps move requests between the provider's output, its map and the events,
   and leave what the broker shows as it is. *)
LEMMA CountTask ==
  ASSUME TypeOK, OnceInv, CountInv, Provider = "claude",
         RtStart \/ TaskCommand \/ TaskRead \/ RtExpire \/ RtStop
  PROVE  CountInv'
<1> DEFINE P  == rt.pending
           Q0 == Requested(events)
           V0 == Settled(events)
<1>1. PICK es, Q, V : TaskTold(es, Q, V)
  BY CommandTold, ReadTold DEF CountInv
<1>2. agent' = agent /\ prov'.issued = prov.issued
  <2>1. agent' = agent
    BY DEF RtStart, TaskCommand, RtPrompt, RtSteer, RtInterrupt, RtHistory, RtRespond,
         RtClientDisconnected, RtShutdown, Receive, TaskRead, RtCollect, RtCallReturns,
         RtCallFails, RtRead, RtStreamCloses, RtExpire, RtStop, taskOnly, brokerVars
  <2>2. prov \in ProviderRecords
    BY DEF TypeOK, TaskTypeOK
  <2>3. prov' = prov \/ (\E x : prov' = [prov EXCEPT !.call = x])
                     \/ prov' = [prov EXCEPT !.alive = FALSE]
    BY DEF RtStart, TaskCommand, RtPrompt, RtSteer, RtInterrupt, RtHistory, RtRespond, Call,
         RtClientDisconnected, RtShutdown, Receive, TaskRead, RtCollect, RtCallReturns,
         RtCallFails, RtRead, RtStreamCloses, RtExpire, RtStop
  <2>4. prov'.issued = prov.issued
    BY <2>2, <2>3 DEF ProviderRecords
  <2> QED
    BY <2>1, <2>4
<1>3. P \cap Coming = {} /\ P \subseteq prov.issued /\ Coming \subseteq Human
  <2>1. Requested(wire) \subseteq Human /\ Requested(rt.collected) \subseteq Human
    BY ComingType
  <2>2. P \subseteq Human
    BY DEF TypeOK, TaskTypeOK, TaskRecords
  <2> QED
    BY <2>1, <2>2 DEF OnceInv, Once, Coming
<1> HIDE DEF P, Q0, V0
<1>4. /\ Tells(es, Q, V) /\ events' = events \o es
      /\ V \subseteq P /\ Q \subseteq Coming /\ Q \cap Coming' = {}
      /\ rt'.pending = (P \ V) \cup Q /\ Ordered(rt'.collected, OneStory)
      /\ Coming' \subseteq Coming
  BY <1>1 DEF TaskTold, P
<1>5. /\ Tells(events, Q0, V0) /\ V0 \subseteq prov.issued
      /\ V0 \cap (P \cup Coming) = {} /\ Q0 \subseteq P \cup V0
      /\ ~agent.givenUp => CountsAre(agent, (P \cup V0) \ Q0)
  BY DEF CountInv, Shown, P, Q0, V0
<1>6. Q0 \cap Q = {} /\ V0 \cap (Q \cup V) = {}
  BY <1>3, <1>4, <1>5
<1>7. Tells(events \o es, Q0 \cup Q, V0 \cup V)
  BY <1>4, <1>5, <1>6, TellsConcat
<1>8. Requested(events') = Q0 \cup Q /\ Settled(events') = V0 \cup V
  BY <1>4, <1>7 DEF Tells
<1>9. Shown' = (P \cup V0) \ Q0
  <2>1. Shown' = (((P \ V) \cup Q) \cup (V0 \cup V)) \ (Q0 \cup Q)
    BY <1>4, <1>8 DEF Shown
  <2> QED
    BY <1>3, <1>4, <1>5, <2>1
<1>10. /\ V0 \cup V \subseteq prov.issued
       /\ (V0 \cup V) \cap (((P \ V) \cup Q) \cup Coming') = {}
       /\ Q0 \cup Q \subseteq ((P \ V) \cup Q) \cup (V0 \cup V)
  BY <1>3, <1>4, <1>5
<1> QED
  BY <1>2, <1>4, <1>5, <1>7, <1>8, <1>9, <1>10 DEF CountInv

(* The broker's handlers: each takes an event, and counts it. *)
LEMMA CountBroker ==
  ASSUME TypeOK, CountInv,
         BrokerRequest \/ BrokerEvent \/ FinishSend \/ ClientConnect \/ ClientDisconnect
           \/ SendLate
  PROVE  CountInv'
<1>1. UNCHANGED <<rt, prov, wire>>
  BY DEF BrokerRequest, Prompt, QueuePrompt, Steer, Interrupt, History, Respond,
        BrokerEvent, HandleStarted, HandleResponse, HandleQueuedFailure, HandleRejected,
        HandleRequestFailed, HandleTurnEvent, HandleRequested, HandleResolved,
        HandleProviderFailed, HandleStopped, NextEvent,
        FinishSend, ClientConnect, ClientDisconnect, SendLate, brokerOnly
<1>2. agent \in AgentRecords
  BY DEF TypeOK, BrokerTypeOK
<1>3. Coming' = Coming
  BY <1>1 DEF Coming
<1> DEFINE Same(a, b) == /\ a.approvals = b.approvals /\ a.questions = b.questions
                         /\ a.givenUp = b.givenUp
<1>4. ASSUME BrokerRequest \/ FinishSend \/ ClientConnect \/ ClientDisconnect \/ SendLate
      PROVE  CountInv'
  <2>1. events' = events
    BY <1>4 DEF BrokerRequest, Prompt, QueuePrompt, Steer, Interrupt, History, Respond,
        FinishSend, ClientConnect, ClientDisconnect, SendLate, brokerOnly
  <2>2. Same(agent', agent)
    <3>1. ASSUME NEW c, NEW a \in AgentRecords, Send(c, a)
          PROVE  Same(agent', a)
      <4>1. agent' = a \/ agent' = [a EXCEPT !.state = "Disconnected"]
        BY <3>1 DEF Send
      <4> QED
        BY <4>1 DEF AgentRecords
    <3>2. CASE Prompt
      <4>1. [agent EXCEPT !.state = "Running"] \in AgentRecords
        BY <1>2 DEF AgentRecords, AgentStates, Busy
      <4>2. Same(agent', [agent EXCEPT !.state = "Running"])
        BY <3>1, <3>2, <4>1 DEF Prompt
      <4> QED
        BY <1>2, <4>2 DEF AgentRecords
    <3>3. CASE QueuePrompt
      BY <1>2, <3>3 DEF QueuePrompt, AgentRecords
    <3>4. CASE Steer \/ History
      BY <1>2, <3>1, <3>4 DEF Steer, History
    <3>5. CASE Interrupt
      <4>1. CancelQueuedPrompts(agent) \in AgentRecords
        BY <1>2, AgentUpdates
      <4>2. Same(agent', CancelQueuedPrompts(agent))
        BY <3>1, <3>5, <4>1 DEF Interrupt
      <4> QED
        BY <1>2, <4>2 DEF AgentRecords, CancelQueuedPrompts
    <3>6. CASE \E h \in Human, allow \in BOOLEAN :
                 Respond("Approval", h, allow) \/ Respond("Question", h, allow)
      BY <1>2, <3>1, <3>6 DEF Respond
    <3>7. CASE FinishSend
      BY <1>2, <3>7 DEF FinishSend, AgentRecords
    <3>8. CASE ClientConnect \/ ClientDisconnect \/ SendLate
      BY <3>8 DEF ClientConnect, ClientDisconnect, SendLate
    <3> QED
      BY <1>4, <3>2, <3>3, <3>4, <3>5, <3>6, <3>7, <3>8 DEF BrokerRequest
  <2>3. Shown' = Shown
    BY <1>1, <2>1 DEF Shown
  <2> QED
    BY <1>1, <1>3, <2>1, <2>2, <2>3 DEF CountInv, CountsAre
<1>5. ASSUME BrokerEvent
      PROVE  CountInv'
  <2> DEFINE e  == Head(events)
             P  == rt.pending
             Q0 == Requested(events)
             V0 == Settled(events)
             S2 == IF e.op = "requested" THEN Shown \cup {e.human}
                   ELSE IF e.op = "resolved" THEN Shown \ {e.human} ELSE Shown
  <2>1. events # << >> /\ events' = Tail(events)
    BY <1>5 DEF BrokerEvent, HandleStarted, HandleResponse, HandleQueuedFailure,
                HandleRejected, HandleRequestFailed, HandleTurnEvent, HandleRequested,
                HandleResolved, HandleProviderFailed, HandleStopped, NextEvent
  <2>2. Shown \subseteq Human
    <3>1. P \subseteq Human
      BY DEF TypeOK, TaskTypeOK, TaskRecords
    <3>2. V0 \subseteq Human
      <4>1. \A x \in Events : x.op = "resolved" => x.human \in Human
        BY DEF Events, AboutHuman
      <4>2. Elements(events) \subseteq Events
        BY ElementsType DEF TypeOK, ChannelTypeOK
      <4> QED
        BY <4>1, <4>2, StoryElements
    <3> QED
      BY <3>1, <3>2 DEF Shown
  <2>3. /\ e \in Events
        /\ e.op \notin AboutOps => Tells(events', Q0, V0)
        /\ e.op = "requested" => e.human \in Q0 /\ Tells(events', Q0 \ {e.human}, V0)
        /\ e.op = "resolved" => e.human \in V0 \ Q0 /\ Tells(events', Q0, V0 \ {e.human})
    BY <2>1, TellsTail DEF CountInv
  <2> HIDE DEF e
  <2>4. /\ Tells(events', Requested(events'), Settled(events'))
        /\ Settled(events') \subseteq V0 /\ Requested(events') \subseteq Q0
        /\ Requested(events') \subseteq P \cup Settled(events')
        /\ Shown' = S2
        /\ e.op = "requested" => e.human \notin Shown
        /\ e.op = "resolved" => e.human \in Shown
    <3> HIDE DEF P, Q0, V0
    <3>1. /\ V0 \cap P = {} /\ Q0 \subseteq P \cup V0 /\ Shown = (P \cup V0) \ Q0
          /\ Shown' = (P \cup Settled(events')) \ Requested(events')
      BY <1>1 DEF CountInv, Shown, P, Q0, V0
    <3>2. CASE e.op \notin AboutOps
      BY <2>3, <3>1, <3>2 DEF Tells, AboutOps
    <3>3. CASE e.op = "requested"
      <4>1. /\ e.human \in Q0 /\ Tells(events', Q0 \ {e.human}, V0)
            /\ Requested(events') = Q0 \ {e.human} /\ Settled(events') = V0
        BY <2>3, <3>3 DEF Tells
      <4>2. (P \cup V0) \ (Q0 \ {e.human}) = ((P \cup V0) \ Q0) \cup {e.human}
        BY <3>1, <4>1
      <4>3. Shown' = Shown \cup {e.human} /\ e.human \notin Shown
        BY <3>1, <4>1, <4>2
      <4> QED
        BY <3>1, <3>3, <4>1, <4>3
    <3>4. CASE e.op = "resolved"
      <4>1. /\ e.human \in V0 \ Q0 /\ Tells(events', Q0, V0 \ {e.human})
            /\ Requested(events') = Q0 /\ Settled(events') = V0 \ {e.human}
        BY <2>3, <3>4 DEF Tells
      <4>2. (P \cup (V0 \ {e.human})) \ Q0 = ((P \cup V0) \ Q0) \ {e.human}
        BY <3>1, <4>1
      <4>3. Shown' = Shown \ {e.human} /\ e.human \in Shown
        BY <3>1, <4>1, <4>2
      <4> QED
        BY <3>1, <3>4, <4>1, <4>3
    <3> QED
      BY <3>2, <3>3, <3>4 DEF AboutOps
  <2>5. ~agent'.givenUp => CountsAre(agent', S2)
    <3> DEFINE b == ApplyEventState(agent, e)
    <3>1. /\ b \in AgentRecords /\ b.givenUp = agent.givenUp
          /\ ~agent.givenUp => CountsAre(b, S2)
      <4>1. b \in AgentRecords
        BY <1>2, <2>3, ApplyEventStateType
      <4>2. b.givenUp = agent.givenUp
        BY <1>2 DEF ApplyEventState, RestoreWaitingState, AgentRecords
      <4>3. ASSUME ~agent.givenUp
            PROVE  CountsAre(b, S2)
        <5>1. CountsAre(agent, Shown)
          BY <4>3 DEF CountInv
        <5> HIDE DEF b
        <5>2. /\ e.op \notin AboutOps => CountsAre(b, Shown)
              /\ e.op = "requested" /\ e.human \notin Shown => CountsAre(b, Shown \cup {e.human})
              /\ e.op = "resolved" /\ e.human \in Shown => CountsAre(b, Shown \ {e.human})
          BY <1>2, <2>2, <2>3, <5>1, CountsApplied DEF b
        <5> QED
          BY <2>4, <5>2 DEF AboutOps
      <4> QED
        BY <4>1, <4>2, <4>3
    <3> HIDE DEF S2
    <3>2. CASE Same(agent', b) \/ agent'.givenUp
      BY <3>1, <3>2 DEF CountsAre
    <3>3. ASSUME NEW a \in AgentRecords
          PROVE  /\ ProviderFailure(a).givenUp
                 /\ Same(CancelQueuedPrompts(a), a)
                 /\ Same([a EXCEPT !.queued = Tail(@), !.state = "Running"], a)
      BY DEF ProviderFailure, CancelQueuedPrompts, AgentRecords
    <3>4. ASSUME e.op \notin AboutOps \cup TurnOps
          PROVE  b = agent
      BY <3>4 DEF ApplyEventState, AboutOps, TurnOps
    <3>5. CASE HandleStarted \/ HandleResponse \/ HandleRejected
      <4>1. e.op \notin AboutOps \cup TurnOps
        BY <3>5 DEF HandleStarted, HandleResponse, HandleRejected, NextEvent, AboutOps, TurnOps, e
      <4>2. agent' = agent \/ agent' = [agent EXCEPT !.state = "Idle"]
        BY <3>5 DEF HandleStarted, HandleResponse, HandleRejected
      <4>3. Same(agent', agent)
        BY <1>2, <4>2 DEF AgentRecords
      <4> QED
        BY <3>2, <3>4, <4>1, <4>3
    <3>6. CASE HandleQueuedFailure \/ HandleProviderFailed
      BY <1>2, <3>2, <3>3, <3>6 DEF HandleQueuedFailure, HandleProviderFailed
    <3>7. CASE HandleRequestFailed \/ HandleStopped
      <4>1. e.op \notin AboutOps \cup TurnOps
        BY <3>7 DEF HandleRequestFailed, HandleStopped, NextEvent, AboutOps, TurnOps, e
      <4>2. CancelQueuedPrompts(agent) \in AgentRecords
        BY <1>2, AgentUpdates
      <4> DEFINE d == CancelQueuedPrompts(agent)
      <4>3. \/ agent' = [d EXCEPT !.state = "Failed", !.turn = FALSE]
            \/ \E t : agent' = [d EXCEPT !.task = FALSE, !.state = "Disconnected", !.turn = t]
        BY <3>7 DEF HandleRequestFailed, HandleStopped
      <4>4. Same(d, agent)
        BY <1>2, <3>3
      <4> HIDE DEF d
      <4>5. Same(agent', d)
        BY <4>2, <4>3 DEF AgentRecords, d
      <4> QED
        BY <3>2, <3>4, <4>1, <4>4, <4>5
    <3>8. CASE HandleRequested \/ HandleResolved
      <4>1. agent' = b
        BY <3>8 DEF HandleRequested, HandleResolved, e
      <4> QED
        BY <3>2, <4>1
    <3>9. CASE HandleTurnEvent
      <4> HIDE DEF b
      <4>1. \/ DispatchQueuedPrompt(b) \/ agent' = CancelQueuedPrompts(b) \/ agent' = b
        BY <3>9 DEF HandleTurnEvent, e, b
      <4>2. DispatchQueuedPrompt(b) =>
              \/ agent' = b \/ agent' = ProviderFailure(b)
              \/ agent' = [b EXCEPT !.queued = Tail(@), !.state = "Running"]
        BY DEF DispatchQueuedPrompt
      <4>3. /\ ProviderFailure(b).givenUp
            /\ Same(CancelQueuedPrompts(b), b)
            /\ Same([b EXCEPT !.queued = Tail(@), !.state = "Running"], b)
        BY <3>1, <3>3
      <4>4. CASE DispatchQueuedPrompt(b)
        BY <3>2, <4>2, <4>3, <4>4
      <4>5. CASE agent' = CancelQueuedPrompts(b) \/ agent' = b
        BY <3>2, <4>3, <4>5
      <4> QED
        BY <4>1, <4>4, <4>5
    <3> QED
      BY <1>5, <3>5, <3>6, <3>7, <3>8, <3>9 DEF BrokerEvent
  <2>6. /\ Settled(events') \subseteq prov.issued
        /\ Settled(events') \cap (P \cup Coming) = {}
    BY <2>4 DEF CountInv
  <2> HIDE DEF S2
  <2>7. Ordered(rt.collected, OneStory)
    BY DEF CountInv
  <2> QED
    BY <1>1, <1>3, <2>4, <2>5, <2>6, <2>7 DEF CountInv
<1> QED
  BY <1>4, <1>5

(* What the provider says reaches the task's side of the story only: a request it makes
   is a new one. *)
LEMMA CountProvider ==
  ASSUME TypeOK, CountInv, ProviderStep
  PROVE  CountInv'
<1>1. UNCHANGED <<rt, events, agent>>
  BY DEF ProviderStep, ProviderReplies, ProviderEndsTurn, ProviderDies, ProviderAsks,
         providerOnly, brokerVars
<1>2. prov \in ProviderRecords /\ wire \in Seq(Messages)
  BY DEF TypeOK, TaskTypeOK
<1>3. ASSUME NEW ms \in Seq(Messages), wire' = wire \o ms
      PROVE  Requested(wire') = Requested(wire) \cup Requested(ms)
  <2>1. Elements(wire \o ms) = Elements(wire) \cup Elements(ms)
    BY <1>2, ElementsConcat
  <2> QED
    BY <1>3, <2>1, StoryElements
<1>4. CASE ProviderReplies \/ ProviderEndsTurn \/ ProviderDies
  <2>1. \A op \in WireOps \ {"requested", "resolved"} :
          Event(op) \in Messages /\ Event(op).op # "requested"
    BY SessionAssumption DEF Event, Messages, AboutHuman, Ids
  <2>2. ASSUME NEW a \in WireOps \ {"requested", "resolved"},
               NEW b \in WireOps \ {"requested", "resolved"}
        PROVE  /\ <<Event(a)>> \in Seq(Messages) /\ Requested(<<Event(a)>>) = {}
               /\ <<Event(a), Event(b)>> \in Seq(Messages)
               /\ Requested(<<Event(a), Event(b)>>) = {}
    <3>1. /\ Event(a) \in Messages /\ Event(a).op # "requested"
          /\ Event(b) \in Messages /\ Event(b).op # "requested"
      BY <2>1
    <3> HIDE DEF Event
    <3>2. ASSUME NEW x \in Messages, NEW y \in Messages, x.op # "requested", y.op # "requested"
          PROVE  /\ <<x>> \in Seq(Messages) /\ Requested(<<x>>) = {}
                 /\ <<x, y>> \in Seq(Messages) /\ Requested(<<x, y>>) = {}
      BY <3>2 DEF Requested
    <3> QED
      BY <3>1, <3>2
  <2>3. \/ wire' = wire
        \/ \E a, b \in WireOps \ {"requested", "resolved"} :
             wire' = wire \o <<Event(a)>> \/ wire' = wire \o <<Event(a), Event(b)>>
    <3>1. {"ok", "error", "turn.started", "turn.completed", "turn.interrupted", "turn.failed"}
            \subseteq WireOps \ {"requested", "resolved"}
      BY DEF WireOps, TurnOps
    <3>2. CASE ProviderReplies
      BY <3>1, <3>2 DEF ProviderReplies, Say
    <3>3. CASE ProviderEndsTurn
      BY <3>1, <3>3 DEF ProviderEndsTurn, Say
    <3>4. CASE ProviderDies
      BY <3>4 DEF ProviderDies
    <3> QED
      BY <1>4, <3>2, <3>3, <3>4
  <2>4. Requested(wire') = Requested(wire)
    BY <1>3, <2>2, <2>3
  <2>5. prov'.issued = prov.issued
    BY <1>2, <1>4 DEF ProviderReplies, ProviderEndsTurn, ProviderDies, ProviderRecords
  <2> QED
    BY <1>1, <2>4, <2>5 DEF CountInv, Coming, Shown, CountsAre
<1>5. ASSUME NEW h \in Human, ProviderAsks(h)
      PROVE  CountInv'
  <2>1. /\ h \notin prov.issued /\ wire' = wire \o <<Ask(h)>>
        /\ prov'.issued = prov.issued \cup {h}
    BY <1>2, <1>5 DEF ProviderAsks, Say, ProviderRecords
  <2>2. <<Ask(h)>> \in Seq(Messages) /\ Requested(<<Ask(h)>>) = {h}
    <3>1. Ask(h) \in Messages
      BY SessionAssumption DEF Ask, Messages, AboutHuman, WireOps, Ids
    <3>2. Ask(h).op = "requested" /\ Ask(h).human = h
      BY DEF Ask
    <3> HIDE DEF Ask
    <3> QED
      BY <3>1, <3>2 DEF Requested
  <2>3. Requested(wire') = Requested(wire) \cup {h}
    BY <1>3, <2>1, <2>2
  <2>4. /\ Settled(events) \subseteq prov'.issued
        /\ Settled(events) \cap (rt.pending \cup (Requested(wire') \cup Requested(rt.collected))) = {}
    BY <2>1, <2>3 DEF CountInv, Coming
  <2> QED
    BY <1>1, <2>4 DEF CountInv, Coming, Shown, CountsAre
<1> QED
  BY <1>4, <1>5 DEF ProviderStep

(* Every step keeps the counts and the story agreed. *)
LEMMA CountStep ==
  ASSUME TypeOK, OnceInv, CountInv, Provider = "claude", [Next]_vars
  PROVE  CountInv'
<1>1. CASE UNCHANGED vars
  BY <1>1 DEF vars, brokerVars, CountInv, Coming, Shown, CountsAre
<1>2. CASE Next
  BY <1>2, CountTask, CountBroker, CountProvider DEF Next
<1> QED
  BY <1>1, <1>2

(* At first nothing is asked and nothing is counted. *)
LEMMA CountInit ==
  ASSUME Init
  PROVE  CountInv
<1>1. Tells(events, {}, {})
  BY TellsFew DEF Init
<1>2. Requested(events) = {} /\ Settled(events) = {}
  BY <1>1 DEF Tells
<1>3. Ordered(rt.collected, OneStory)
  BY OrderedFew DEF Init
<1>4. Shown = {} /\ agent.approvals = 0 /\ agent.questions = 0
  BY <1>2 DEF Shown, Init, NewAgent
<1>5. CountsAre(agent, {})
  BY <1>4, FS_EmptySet DEF CountsAre
<1> QED
  BY <1>1, <1>2, <1>3, <1>4, <1>5 DEF CountInv

(* No request is asked or settled twice in the events, so they can be counted as such. *)
LEMMA CountIs ==
  ASSUME events \in Seq(Events), Ordered(events, OneStory), NEW S \in SUBSET Human
  PROVE  /\ Count("requested", S) = Cardinality(Requested(events) \cap S)
         /\ Count("resolved", S) = Cardinality(Settled(events) \cap S)
<1> DEFINE Places(op) == {i \in DOMAIN events : events[i].op = op /\ events[i].human \in S}
           Named(op)  == {events[i].human : i \in Places(op)}
<1>1. ASSUME NEW op \in AboutOps
      PROVE  Cardinality(Places(op)) = Cardinality(Named(op))
  <2> DEFINE F == [i \in Places(op) |-> events[i].human]
  <2>1. IsFiniteSet(Places(op))
    <3>1. IsFiniteSet(1 .. Len(events))
      BY LenType, FS_Interval
    <3>2. Places(op) \subseteq 1 .. Len(events)
      OBVIOUS
    <3> QED
      BY <3>1, <3>2, FS_Subset
  <2>2. ASSUME NEW i \in Places(op), NEW j \in Places(op), events[i].human = events[j].human
        PROVE  i = j
    <3>1. ASSUME NEW k \in Places(op), NEW l \in Places(op), k < l,
                 events[k].human = events[l].human
          PROVE  FALSE
      <4>1. <<events[k], events[l]>> \in OneStory
        BY <3>1 DEF Ordered
      <4>2. events[k].op = op /\ events[l].op = op
        OBVIOUS
      <4> QED
        BY <3>1, <4>1, <4>2 DEF OneStory
    <3>2. i \in Int /\ j \in Int
      OBVIOUS
    <3> QED
      BY <2>2, <3>1, <3>2
  <2>3. F \in [Places(op) -> Named(op)] /\ \A i, j \in Places(op) : F[i] = F[j] => i = j
    BY <2>2
  <2>4. \A h \in Named(op) : \E i \in Places(op) : F[i] = h
    OBVIOUS
  <2> HIDE DEF F, Places, Named
  <2>5. F \in Bijection(Places(op), Named(op))
    BY <2>3, <2>4 DEF Bijection, Injection, Surjection, IsInjective
  <2>6. ExistsBijection(Places(op), Named(op))
    BY <2>5 DEF ExistsBijection
  <2> QED
    BY <2>1, <2>6, FS_Bijection
<1>2. Named("requested") = Requested(events) \cap S /\ Named("resolved") = Settled(events) \cap S
  BY DEF Requested, Settled
<1>3. Count("requested", S) = Cardinality(Places("requested")) /\ Count("resolved", S) = Cardinality(Places("resolved"))
  BY DEF Count
<1> HIDE DEF Places, Named
<1> QED
  BY <1>1, <1>2, <1>3 DEF AboutOps

(* The invariant is the equation the broker's counts obey. *)
LEMMA CountsMatch ==
  ASSUME TypeOK, CountInv
  PROVE  PendingCountsMatch
<1> DEFINE P == rt.pending
           Q == Requested(events)
           V == Settled(events)
<1>1. P \cap V = {} /\ Q \subseteq P \cup V
  BY DEF CountInv
<1>2. ASSUME NEW S \in SUBSET Human, IsFiniteSet(S)
      PROVE  /\ Cardinality(Shown \cap S) + Count("requested", S)
                  = Cardinality(P \cap S) + Count("resolved", S)
  <2>1. /\ Count("requested", S) = Cardinality(Q \cap S)
        /\ Count("resolved", S) = Cardinality(V \cap S)
    BY CountIs DEF CountInv, Tells
  <2>2. Shown = (P \cup V) \ Q
    BY DEF Shown
  <2> HIDE DEF P, Q, V
  <2> DEFINE A == P \cap S
             B == V \cap S
             C == Q \cap S
  <2>3. /\ IsFiniteSet(A) /\ IsFiniteSet(B) /\ IsFiniteSet(C)
    BY <1>2, FS_Intersection
  <2>4. /\ A \cap B = {} /\ Shown \cap S = (A \cup B) \ C /\ (A \cup B) \cap C = C
    BY <1>1, <2>2
  <2> HIDE DEF A, B, C
  <2>5. /\ IsFiniteSet(A \cup B)
        /\ Cardinality(A \cup B) = Cardinality(A) + Cardinality(B) - Cardinality({})
    BY <2>3, <2>4, FS_Union
  <2>6. Cardinality((A \cup B) \ C) = Cardinality(A \cup B) - Cardinality(C)
    <3> DEFINE U == A \cup B
    <3>1. IsFiniteSet(U) /\ U \cap C = C
      BY <2>4, <2>5
    <3> HIDE DEF U
    <3>2. Cardinality(U \ C) = Cardinality(U) - Cardinality(U \cap C)
      BY <3>1, FS_Difference
    <3> QED
      BY <3>1, <3>2 DEF U
  <2>7. /\ Cardinality(A) \in Nat /\ Cardinality(B) \in Nat /\ Cardinality(C) \in Nat
        /\ Cardinality({}) = 0
    BY <2>3, FS_CardinalityType, FS_EmptySet
  <2>8. Cardinality(Shown \cap S) + Cardinality(C) = Cardinality(A) + Cardinality(B)
    <3>1. Cardinality(Shown \cap S) = Cardinality((A \cup B) \ C)
      BY <2>4
    <3> QED
      BY <2>5, <2>6, <2>7, <3>1
  <2>9. Cardinality(P \cap S) = Cardinality(A) /\ Cardinality(V \cap S) = Cardinality(B)
        /\ Cardinality(Q \cap S) = Cardinality(C)
    BY DEF A, B, C
  <2> QED
    BY <2>1, <2>8, <2>9
<1>3. /\ Approvals \in SUBSET Human /\ Questions \in SUBSET Human
      /\ IsFiniteSet(Approvals) /\ IsFiniteSet(Questions)
  BY SessionAssumption DEF Human
<1> QED
  BY <1>2, <1>3 DEF PendingCountsMatch, CountInv, CountsAre

(* Of a Claude agent the broker shows as many requests as the task holds, counting in
   the events on their way, until it gives the session up (apply_event_state,
   publish_worker_inbound, expire_claude_requests): PendingCountsMatch. *)
THEOREM CountsAgree ==
  ASSUME Provider = "claude"
  PROVE  Spec => []PendingCountsMatch
<1>1. Init => OnceInv /\ CountInv
  BY CountInit DEF Init, OnceInv, Once, AskedOnce, Requested
<1>2. TypeOK /\ OnceInv /\ CountInv /\ [Next]_vars => (OnceInv /\ CountInv)'
  BY OnceStep, CountStep
<1>3. TypeOK /\ CountInv => PendingCountsMatch
  BY CountsMatch
<1> QED
  BY <1>1, <1>2, <1>3, TypeCorrect, PTL DEF Spec

-----------------------------------------------------------------------------
(* Prompts in order. A request's number is spent once: it waits in the prompt queue,
   in the command channel, in the call the task awaits or in its answer. What was sent
   at once is newer than all of them; what waited is older than what waits still. *)

ReplyOps == {"Response", "Rejected", "RequestFailed"}

IdsOf(s)   == {x.id : x \in Elements(s)}
Answers(s) == {x.id : x \in {y \in Elements(s) : y.op \in ReplyOps}}

(* Two commands in the channel of requests Q of which were queued; two prompts written;
   two prompts waiting; a prompt written and one still in the channel. *)
InLine(Q) ==
  {p \in Commands \X Commands :
     /\ p[1].id # 0 => p[1].id # p[2].id
     /\ p[1].op = "Prompt" /\ p[2].op = "Prompt" /\ (p[1].id \in Q <=> p[2].id \in Q) =>
          p[1].id < p[2].id}

Story ==
  {p \in WrittenPrompts \X WrittenPrompts :
     /\ p[1].id # p[2].id
     /\ p[1].queued = p[2].queued => p[1].id < p[2].id}

Later == {p \in Ids \X Ids : p[1] < p[2]}

Ahead(s, c, Q) == s.id # c.id /\ ((s.queued <=> c.id \in Q) => s.id < c.id)

(* The channel cs, the prompts written ss, the requests the task has taken, the prompt
   queue q, the requests sent on from it, and the last number spent. *)
InOrder(cs, ss, gone, q, Q, n) ==
  /\ Ordered(ss, Story)
  /\ Ordered(cs, InLine(Q))
  /\ \A c \in Elements(cs) :
       /\ c.id # 0 => c.id \notin gone
       /\ c.op = "Prompt" => c.id # 0 /\ \A s \in Elements(ss) : Ahead(s, c, Q)
  /\ Ordered(q, Later)
  /\ \A i \in Elements(q) :
       /\ i \in 1 .. n
       /\ i \notin gone \cup IdsOf(cs) \cup IdsOf(ss)
       /\ \A s \in Elements(ss) : s.queued => s.id < i
       /\ \A c \in Elements(cs) : c.op = "Prompt" /\ c.id \in Q => c.id < i
  /\ gone \cup IdsOf(cs) \cup IdsOf(ss) \cup Q \subseteq 0 .. n

Gone == Answers(events) \cup IdsOf(rt.call)
Used == IF sending = << >> THEN nreq ELSE nreq - 1

OrderInv ==
  /\ InOrder(commands, started, Gone, agent.queued, queuedReqs, Used)
  /\ sending # << >> => sending[1].id = nreq /\ nreq # 0

(* Order is kept when answers are handled, queued prompts cancelled and new numbers
   spent; the requests sent on from the queue are forgotten only once answered. *)
LEMMA OrderLess ==
  ASSUME NEW cs \in Seq(Commands), NEW ss \in Seq(WrittenPrompts), NEW g, NEW q \in Seq(Ids),
         NEW Q, NEW n \in Nat, InOrder(cs, ss, g, q, Q, n),
         NEW g1, g1 \subseteq g \cup {0}, NEW q1, q1 = q \/ q1 = << >>,
         NEW Q1, Q1 \subseteq Q, Q \subseteq Q1 \cup g \cup {0}, NEW m \in Nat, n <= m
  PROVE  InOrder(cs, ss, g1, q1, Q1, m)
<1>1. \A c \in Elements(cs) : c.op = "Prompt" => (c.id \in Q <=> c.id \in Q1)
  BY DEF InOrder
<1>2. Elements(cs) \subseteq Commands /\ \A i \in DOMAIN cs : cs[i] \in Elements(cs)
  BY ElementsType DEF Elements
<1>3. Ordered(cs, InLine(Q1))
  <2>1. SUFFICES ASSUME NEW i \in DOMAIN cs, NEW j \in DOMAIN cs, i < j
                 PROVE  <<cs[i], cs[j]>> \in InLine(Q1)
    BY DEF Ordered
  <2>2. <<cs[i], cs[j]>> \in InLine(Q)
    BY <2>1 DEF InOrder, Ordered
  <2> QED
    BY <1>1, <1>2, <2>2 DEF InLine
<1>4. 0 .. n \subseteq 0 .. m /\ 1 .. n \subseteq 1 .. m /\ 0 \in 0 .. m /\ 0 \notin 1 .. n
  OBVIOUS
<1>5. \A c \in Elements(cs) :
        /\ c.id # 0 => c.id \notin g1
        /\ c.op = "Prompt" => c.id # 0 /\ \A s \in Elements(ss) : Ahead(s, c, Q1)
  BY <1>1 DEF InOrder, Ahead
<1>6. Elements(q1) \subseteq Elements(q) /\ Ordered(q1, Later)
  BY ElementsFew, OrderedFew DEF InOrder
<1>7. \A i \in Elements(q1) :
        /\ i \in 1 .. m
        /\ i \notin g1 \cup IdsOf(cs) \cup IdsOf(ss)
        /\ \A s \in Elements(ss) : s.queued => s.id < i
        /\ \A c \in Elements(cs) : c.op = "Prompt" /\ c.id \in Q1 => c.id < i
  BY <1>4, <1>6 DEF InOrder
<1>8. g1 \cup IdsOf(cs) \cup IdsOf(ss) \cup Q1 \subseteq 0 .. m
  BY <1>4 DEF InOrder
<1>9. Ordered(ss, Story)
  BY DEF InOrder
<1> QED
  BY <1>3, <1>5, <1>6, <1>7, <1>8, <1>9 DEF InOrder

(* A request of a new number joins the end of the channel, and so does a notice that
   answers no request. *)
LEMMA OrderAppend ==
  ASSUME NEW cs \in Seq(Commands), NEW ss \in Seq(WrittenPrompts), NEW g, NEW q \in Seq(Ids),
         NEW Q, NEW n \in Nat, InOrder(cs, ss, g, q, Q, n),
         NEW m \in Nat, n <= m, NEW c \in Commands,
         \/ c.id = 0 /\ c.op # "Prompt"
         \/ n < c.id /\ c.id <= m
  PROVE  InOrder(Append(cs, c), ss, g, q, Q, m)
<1>1. /\ Elements(Append(cs, c)) = Elements(cs) \cup {c}
      /\ IdsOf(Append(cs, c)) = IdsOf(cs) \cup {c.id}
  BY ElementsAppend DEF IdsOf
<1>2. Elements(cs) \subseteq Commands /\ Elements(ss) \subseteq WrittenPrompts
  BY ElementsType
<1>3. /\ g \subseteq 0 .. n /\ Q \subseteq 0 .. n
      /\ \A d \in Elements(cs) : d.id \in 0 .. n
      /\ \A s \in Elements(ss) : s.id \in 0 .. n
      /\ \A i \in Elements(q) : i \in 1 .. n
  BY DEF InOrder, IdsOf
<1>4. 0 .. n \subseteq 0 .. m /\ 1 .. n \subseteq 1 .. m /\ c.id \in 0 .. m /\ 0 \notin 1 .. n
  <2>1. c.id \in Nat
    BY SessionAssumption DEF Commands, Ids
  <2> QED
    BY <2>1
<1>5. \/ c.id = 0 /\ c.op # "Prompt"
      \/ (c.id \notin 0 .. n /\ c.id # 0 /\ \A k \in 0 .. n : k < c.id)
  <2>1. c.id \in Nat
    BY SessionAssumption DEF Commands, Ids
  <2> QED
    BY <2>1
<1>6. Ordered(Append(cs, c), InLine(Q))
  <2>1. \A d \in Elements(cs) : <<d, c>> \in InLine(Q)
    BY <1>2, <1>3, <1>5 DEF InLine
  <2> QED
    BY <2>1, OrderedAppend DEF InOrder
<1>7. \A d \in Elements(Append(cs, c)) :
        /\ d.id # 0 => d.id \notin g
        /\ d.op = "Prompt" => d.id # 0 /\ \A s \in Elements(ss) : Ahead(s, d, Q)
  <2>1. \A d \in Elements(cs) :
          /\ d.id # 0 => d.id \notin g
          /\ d.op = "Prompt" => d.id # 0 /\ \A s \in Elements(ss) : Ahead(s, d, Q)
    BY DEF InOrder
  <2>2. c.id # 0 => c.id \notin g
    BY <1>3, <1>5
  <2>3. c.op = "Prompt" => c.id # 0 /\ \A s \in Elements(ss) : Ahead(s, c, Q)
    BY <1>3, <1>5 DEF Ahead
  <2> QED
    BY <1>1, <2>1, <2>2, <2>3
<1>8. \A i \in Elements(q) :
        /\ i \in 1 .. m
        /\ i \notin g \cup IdsOf(Append(cs, c)) \cup IdsOf(ss)
        /\ \A s \in Elements(ss) : s.queued => s.id < i
        /\ \A d \in Elements(Append(cs, c)) : d.op = "Prompt" /\ d.id \in Q => d.id < i
  <2>1. \A i \in Elements(q) :
        /\ i \in 1 .. n
        /\ i \notin g \cup IdsOf(cs) \cup IdsOf(ss)
        /\ \A s \in Elements(ss) : s.queued => s.id < i
        /\ \A d \in Elements(cs) : d.op = "Prompt" /\ d.id \in Q => d.id < i
    BY DEF InOrder
  <2>2. \A i \in 1 .. n : i # c.id
    BY <1>5, <1>4
  <2>3. c.op = "Prompt" => c.id \notin Q
    BY <1>3, <1>5
  <2> QED
    BY <1>1, <1>4, <2>1, <2>2, <2>3
<1>9. g \cup IdsOf(Append(cs, c)) \cup IdsOf(ss) \cup Q \subseteq 0 .. m
  BY <1>1, <1>4 DEF InOrder
<1>10. Ordered(ss, Story) /\ Ordered(q, Later)
  BY DEF InOrder
<1> QED
  BY <1>6, <1>7, <1>8, <1>9, <1>10 DEF InOrder

(* A prompt told to wait takes the next number and the end of the queue. *)
LEMMA OrderQueue ==
  ASSUME NEW cs \in Seq(Commands), NEW ss \in Seq(WrittenPrompts), NEW g, NEW q \in Seq(Ids),
         NEW Q, NEW n \in Nat, InOrder(cs, ss, g, q, Q, n), n + 1 \in Ids
  PROVE  InOrder(cs, ss, g, Append(q, n + 1), Q, n + 1)
<1>1. Elements(Append(q, n + 1)) = Elements(q) \cup {n + 1}
  BY ElementsAppend
<1>2. /\ g \subseteq 0 .. n /\ Q \subseteq 0 .. n
      /\ \A d \in Elements(cs) : d.id \in 0 .. n
      /\ \A s \in Elements(ss) : s.id \in 0 .. n
      /\ \A i \in Elements(q) : i \in 1 .. n
      /\ IdsOf(cs) \cup IdsOf(ss) \subseteq 0 .. n
  BY DEF InOrder, IdsOf
<1>3. /\ 0 .. n \subseteq 0 .. n + 1 /\ 1 .. n \subseteq 1 .. n + 1
      /\ n + 1 \in 1 .. n + 1 /\ n + 1 \notin 0 .. n
      /\ \A i \in 0 .. n : i < n + 1
      /\ 1 .. n \subseteq 0 .. n
  OBVIOUS
<1>4. Ordered(Append(q, n + 1), Later)
  <2>1. \A i \in Elements(q) : <<i, n + 1>> \in Later
    BY <1>2, <1>3, ElementsType DEF Later
  <2> QED
    BY <2>1, OrderedAppend DEF InOrder
<1>5. \A i \in Elements(q) \cup {n + 1} :
        /\ i \in 1 .. n + 1
        /\ i \notin g \cup IdsOf(cs) \cup IdsOf(ss)
        /\ \A s \in Elements(ss) : s.queued => s.id < i
        /\ \A d \in Elements(cs) : d.op = "Prompt" /\ d.id \in Q => d.id < i
  <2>1. \A i \in Elements(q) :
        /\ i \in 1 .. n
        /\ i \notin g \cup IdsOf(cs) \cup IdsOf(ss)
        /\ \A s \in Elements(ss) : s.queued => s.id < i
        /\ \A d \in Elements(cs) : d.op = "Prompt" /\ d.id \in Q => d.id < i
    BY DEF InOrder
  <2>2. /\ n + 1 \notin g \cup IdsOf(cs) \cup IdsOf(ss)
        /\ \A s \in Elements(ss) : s.id < n + 1
        /\ \A d \in Elements(cs) : d.id < n + 1
    BY <1>2, <1>3
  <2> QED
    BY <1>3, <2>1, <2>2
<1>6. g \cup IdsOf(cs) \cup IdsOf(ss) \cup Q \subseteq 0 .. n + 1
  BY <1>2, <1>3
<1>7. /\ Ordered(ss, Story) /\ Ordered(cs, InLine(Q))
      /\ \A c \in Elements(cs) :
           /\ c.id # 0 => c.id \notin g
           /\ c.op = "Prompt" => c.id # 0 /\ \A s \in Elements(ss) : Ahead(s, c, Q)
  BY DEF InOrder
<1> QED
  BY <1>1, <1>4, <1>5, <1>6, <1>7 DEF InOrder

(* The front of the prompt queue goes to the end of the channel. *)
LEMMA OrderDispatch ==
  ASSUME NEW cs \in Seq(Commands), NEW ss \in Seq(WrittenPrompts), NEW g, NEW q \in Seq(Ids),
         NEW Q, NEW n \in Nat, InOrder(cs, ss, g, q, Q, n), q # << >>
  PROVE  InOrder(Append(cs, Command("Prompt", Head(q))), ss, g, Tail(q), Q \cup {Head(q)}, n)
<1> DEFINE h  == Head(q)
           c  == Command("Prompt", h)
           Q1 == Q \cup {h}
<1>1. h \in Ids /\ c \in Commands /\ c.op = "Prompt" /\ c.id = h
  BY TailType, CommandType DEF Command, Ops
<1>2. /\ Elements(q) = {h} \cup Elements(Tail(q)) /\ Tail(q) \in Seq(Ids)
      /\ Ordered(Tail(q), Later)
      /\ \A i \in Elements(Tail(q)) : h < i
  <2>1. /\ Elements(q) = {h} \cup Elements(Tail(q)) /\ Tail(q) \in Seq(Ids)
        /\ Ordered(q, Later)
    BY ElementsTail, TailType DEF InOrder
  <2>2. Ordered(Tail(q), Later) /\ \A i \in Elements(Tail(q)) : <<h, i>> \in Later
    BY <2>1, OrderedTail
  <2> QED
    BY <2>1, <2>2 DEF Later
<1> HIDE DEF h, c
<1>3. /\ Elements(Append(cs, c)) = Elements(cs) \cup {c}
      /\ IdsOf(Append(cs, c)) = IdsOf(cs) \cup {h}
  BY <1>1, ElementsAppend DEF IdsOf
<1>4. /\ h \in 1 .. n /\ h \notin g \cup IdsOf(cs) \cup IdsOf(ss)
      /\ \A s \in Elements(ss) : s.queued => s.id < h
      /\ \A d \in Elements(cs) : d.op = "Prompt" /\ d.id \in Q => d.id < h
  BY <1>2 DEF InOrder
<1>5. \A d \in Elements(cs) : d.id # h /\ (d.id \in Q <=> d.id \in Q1)
  BY <1>4 DEF IdsOf
<1>6. \A s \in Elements(ss) : s.id # h
  BY <1>4 DEF IdsOf
<1>7. /\ Elements(cs) \subseteq Commands /\ Elements(ss) \subseteq WrittenPrompts
      /\ \A i \in DOMAIN cs : cs[i] \in Elements(cs)
  BY ElementsType DEF Elements
<1>8. Ordered(Append(cs, c), InLine(Q1))
  <2>1. Ordered(cs, InLine(Q1))
    <3>1. SUFFICES ASSUME NEW i \in DOMAIN cs, NEW j \in DOMAIN cs, i < j
                   PROVE  <<cs[i], cs[j]>> \in InLine(Q1)
      BY DEF Ordered
    <3>2. <<cs[i], cs[j]>> \in InLine(Q)
      BY <3>1 DEF InOrder, Ordered
    <3> HIDE DEF Q1
    <3> QED
      BY <1>5, <1>7, <3>2 DEF InLine
  <2>2. \A d \in Elements(cs) : <<d, c>> \in InLine(Q1)
    BY <1>1, <1>4, <1>5, <1>7 DEF InLine
  <2> HIDE DEF Q1
  <2> QED
    BY <1>1, <2>1, <2>2, OrderedAppend
<1>9. \A d \in Elements(cs) \cup {c} :
        /\ d.id # 0 => d.id \notin g
        /\ d.op = "Prompt" => d.id # 0 /\ \A s \in Elements(ss) : Ahead(s, d, Q1)
  <2>1. \A d \in Elements(cs) :
          /\ d.id # 0 => d.id \notin g
          /\ d.op = "Prompt" => d.id # 0 /\ \A s \in Elements(ss) : Ahead(s, d, Q)
    BY DEF InOrder
  <2>2. h # 0 /\ h \notin g /\ \A s \in Elements(ss) : Ahead(s, c, Q1)
    BY <1>1, <1>4, <1>6 DEF Ahead
  <2> QED
    BY <1>1, <1>5, <2>1, <2>2 DEF Ahead
<1>10. \A i \in Elements(Tail(q)) :
         /\ i \in 1 .. n
         /\ i \notin g \cup (IdsOf(cs) \cup {h}) \cup IdsOf(ss)
         /\ \A s \in Elements(ss) : s.queued => s.id < i
         /\ \A d \in Elements(cs) \cup {c} : d.op = "Prompt" /\ d.id \in Q1 => d.id < i
  <2>1. \A i \in Elements(Tail(q)) :
         /\ i \in 1 .. n
         /\ i \notin g \cup IdsOf(cs) \cup IdsOf(ss)
         /\ \A s \in Elements(ss) : s.queued => s.id < i
         /\ \A d \in Elements(cs) : d.op = "Prompt" /\ d.id \in Q => d.id < i
    BY <1>2 DEF InOrder
  <2>2. \A i \in 1 .. n : h < i => i # h
    BY <1>4
  <2> QED
    BY <1>1, <1>2, <1>5, <2>1, <2>2
<1>11. g \cup (IdsOf(cs) \cup {h}) \cup IdsOf(ss) \cup Q1 \subseteq 0 .. n
  <2>1. h \in 0 .. n
    BY <1>4
  <2> QED
    BY <2>1 DEF InOrder
<1>12. Ordered(ss, Story)
  BY DEF InOrder
<1> HIDE DEF Q1
<1>13. InOrder(Append(cs, c), ss, g, Tail(q), Q1, n)
  BY <1>2, <1>3, <1>8, <1>9, <1>10, <1>11, <1>12 DEF InOrder
<1> QED
  BY <1>13 DEF c, h, Q1

(* The task takes the front of the channel, and may write the prompt it finds there. *)
LEMMA OrderTake ==
  ASSUME NEW cs \in Seq(Commands), NEW ss \in Seq(WrittenPrompts), NEW g, NEW q \in Seq(Ids),
         NEW Q, NEW n \in Nat, InOrder(cs, ss, g, q, Q, n), cs # << >>,
         NEW g1, g1 \subseteq g \cup {0, Head(cs).id},
         NEW w \in WrittenPrompts, w.id = Head(cs).id, w.queued <=> Head(cs).id \in Q,
         NEW ss1, ss1 = ss \/ (Head(cs).op = "Prompt" /\ ss1 = Append(ss, w))
  PROVE  InOrder(Tail(cs), ss1, g1, q, Q, n)
<1> DEFINE h == Head(cs)
           G == g \cup {0, h.id}
<1>1. h \in Commands
  BY TailType
<1>2. w.id = h.id /\ (w.queued <=> h.id \in Q)
  OBVIOUS
<1>3. /\ Elements(cs) = {h} \cup Elements(Tail(cs)) /\ Tail(cs) \in Seq(Commands)
      /\ Ordered(Tail(cs), InLine(Q))
      /\ \A c \in Elements(Tail(cs)) : <<h, c>> \in InLine(Q)
  BY ElementsTail, TailType, OrderedTail DEF InOrder
<1> HIDE DEF h
<1>4. \A c \in Elements(Tail(cs)) :
        /\ h.id # 0 => c.id # h.id
        /\ h.op = "Prompt" /\ c.op = "Prompt" /\ (h.id \in Q <=> c.id \in Q) => h.id < c.id
  BY <1>3 DEF InLine
<1>5. /\ IdsOf(cs) = IdsOf(Tail(cs)) \cup {h.id}
      /\ \A c \in Elements(cs) :
           /\ c.id # 0 => c.id \notin g
           /\ c.op = "Prompt" => c.id # 0 /\ \A s \in Elements(ss) : Ahead(s, c, Q)
  BY <1>3 DEF InOrder, IdsOf
<1>6. ss1 = ss \/ (h.op = "Prompt" /\ ss1 = Append(ss, w))
  BY DEF h
<1>7. /\ Elements(ss1) \subseteq Elements(ss) \cup {w}
      /\ h.op # "Prompt" => Elements(ss1) = Elements(ss)
      /\ IdsOf(ss1) \subseteq IdsOf(ss) \cup {h.id}
  <2>1. Elements(Append(ss, w)) = Elements(ss) \cup {w}
    BY <1>1, ElementsAppend
  <2>2. CASE ss1 = ss
    BY <2>2
  <2>3. CASE h.op = "Prompt" /\ ss1 = Append(ss, w)
    BY <1>2, <2>1, <2>3 DEF IdsOf
  <2> QED
    BY <1>6, <2>2, <2>3
<1>8. Ordered(ss1, Story)
  <2>1. CASE ss1 = ss
    BY <2>1 DEF InOrder
  <2>2. CASE h.op = "Prompt" /\ ss1 = Append(ss, w)
    <3>1. \A s \in Elements(ss) : Ahead(s, h, Q)
      BY <1>3, <1>5, <2>2
    <3>2. \A s \in Elements(ss) : <<s, w>> \in Story
      <4>1. SUFFICES ASSUME NEW s \in Elements(ss)
                     PROVE  <<s, w>> \in Story
        OBVIOUS
      <4>2. s \in WrittenPrompts /\ s.queued \in BOOLEAN /\ w.queued \in BOOLEAN
        <5>1. s \in WrittenPrompts
          BY ElementsType
        <5> QED
          BY <5>1 DEF WrittenPrompts
      <4>3. s.id # w.id /\ (s.queued = w.queued => s.id < w.id)
        BY <1>2, <3>1, <4>2 DEF Ahead
      <4> QED
        BY <4>2, <4>3 DEF Story
    <3> QED
      BY <1>1, <2>2, <3>2, OrderedAppend DEF InOrder
  <2> QED
    BY <1>6, <2>1, <2>2
<1>9. \A c \in Elements(Tail(cs)) :
        /\ c.id # 0 => c.id \notin g1
        /\ c.op = "Prompt" => c.id # 0 /\ \A s \in Elements(ss1) : Ahead(s, c, Q)
  <2>1. g1 \subseteq G
    BY DEF h
  <2>2. \A c \in Elements(Tail(cs)) : c.id # 0 => c.id \notin G
    BY <1>3, <1>4, <1>5
  <2>3. \A c \in Elements(Tail(cs)) :
          c.op = "Prompt" => c.id # 0 /\ \A s \in Elements(ss) : Ahead(s, c, Q)
    BY <1>3, <1>5
  <2>4. \A c \in Elements(Tail(cs)) :
          c.op = "Prompt" /\ h.op = "Prompt" => Ahead(w, c, Q)
    BY <1>2, <1>3, <1>4, <1>5 DEF Ahead
  <2> QED
    BY <1>7, <2>1, <2>2, <2>3, <2>4
<1>10. \A i \in Elements(q) :
         /\ i \in 1 .. n
         /\ i \notin g1 \cup IdsOf(Tail(cs)) \cup IdsOf(ss1)
         /\ \A s \in Elements(ss1) : s.queued => s.id < i
         /\ \A c \in Elements(Tail(cs)) : c.op = "Prompt" /\ c.id \in Q => c.id < i
  <2>1. \A i \in Elements(q) :
         /\ i \in 1 .. n
         /\ i \notin g \cup IdsOf(cs) \cup IdsOf(ss)
         /\ \A s \in Elements(ss) : s.queued => s.id < i
         /\ \A c \in Elements(cs) : c.op = "Prompt" /\ c.id \in Q => c.id < i
    BY DEF InOrder
  <2>2. \A i \in Elements(q) : i # 0 /\ i # h.id
    BY <1>5, <2>1
  <2>3. \A i \in Elements(q) : h.op = "Prompt" /\ w.queued => w.id < i
    BY <1>2, <1>3, <2>1
  <2>4. g1 \subseteq g \cup {0, h.id}
    BY DEF h
  <2>5. \A i \in Elements(q), s \in Elements(ss1) : s.queued => s.id < i
    BY <1>7, <2>1, <2>3
  <2> QED
    BY <1>3, <1>5, <1>7, <2>1, <2>2, <2>4, <2>5
<1>11. g1 \cup IdsOf(Tail(cs)) \cup IdsOf(ss1) \cup Q \subseteq 0 .. n
  <2>1. g \cup IdsOf(cs) \cup IdsOf(ss) \cup Q \subseteq 0 .. n /\ 0 \in 0 .. n
    BY DEF InOrder
  <2>2. g1 \subseteq g \cup {0, h.id}
    BY DEF h
  <2> QED
    BY <1>5, <1>7, <2>1, <2>2
<1>12. Ordered(q, Later)
  BY DEF InOrder
<1> QED
  BY <1>3, <1>8, <1>9, <1>10, <1>11, <1>12 DEF InOrder

(* The task goes, and the commands it has not taken with it. *)
LEMMA OrderDrop ==
  ASSUME NEW cs, NEW ss, NEW g, NEW q \in Seq(Ids),
         NEW Q, NEW n \in Nat, InOrder(cs, ss, g, q, Q, n), NEW g1, g1 \subseteq g \cup {0}
  PROVE  InOrder(<< >>, ss, g1, q, Q, n)
<1>1. Elements(<< >>) = {} /\ IdsOf(<< >>) = {} /\ Ordered(<< >>, InLine(Q))
  BY ElementsFew, OrderedFew DEF IdsOf
<1>2. 0 \in 0 .. n /\ 0 \notin 1 .. n
  OBVIOUS
<1> QED
  BY <1>1, <1>2 DEF InOrder

(* The answers in a channel as it grows and shrinks, and in what the task sends. *)
LEMMA AnswersChange ==
  ASSUME NEW s \in Seq(Events)
  PROVE  /\ \A t \in Seq(Events) : Answers(s \o t) = Answers(s) \cup Answers(t)
         /\ \A e \in Events : Answers(Append(s, e)) \subseteq Answers(s) \cup {e.id}
         /\ s # << >> => /\ Answers(Tail(s)) \subseteq Answers(s)
                         /\ Head(s).op \in ReplyOps => Head(s).id \in Answers(s)
<1>1. \A t \in Seq(Events) : Elements(s \o t) = Elements(s) \cup Elements(t)
  BY ElementsConcat
<1>2. \A e \in Events : Elements(Append(s, e)) = Elements(s) \cup {e}
  BY ElementsAppend
<1>3. s # << >> => Elements(s) = {Head(s)} \cup Elements(Tail(s))
  BY ElementsTail
<1>4. \A t \in Seq(Events) : Answers(s \o t) = Answers(s) \cup Answers(t)
  BY <1>1 DEF Answers
<1>5. \A e \in Events : Answers(Append(s, e)) \subseteq Answers(s) \cup {e.id}
  BY <1>2 DEF Answers
<1>6. s # << >> => /\ Answers(Tail(s)) \subseteq Answers(s)
                   /\ Head(s).op \in ReplyOps => Head(s).id \in Answers(s)
  BY <1>3 DEF Answers
<1> QED
  BY <1>4, <1>5, <1>6

(* The answers in what the task sends. *)
LEMMA AnswersFew ==
  /\ Answers(<< >>) = {}
  /\ \A e : Answers(<<e>>) \subseteq {e.id}
  /\ \A e, f : Answers(<<e, f>>) \subseteq {e.id, f.id}
  /\ \A order : Answers(Resolved(order)) = {}
  /\ \A s \in Seq(Notices) : Answers(s) = {}
<1>1. \A order : Answers(Resolved(order)) = {}
  BY DEF Answers, Elements, Resolved, ReplyOps
<1>2. ASSUME NEW s \in Seq(Notices)
      PROVE  Answers(s) = {}
  <2>1. Elements(s) \subseteq Notices
    BY ElementsType
  <2>2. \A m \in Notices : m.op \notin ReplyOps
    BY DEF Notices, Messages, WireOps, TurnOps, ReplyOps
  <2> QED
    BY <2>1, <2>2 DEF Answers
<1>3. /\ Answers(<< >>) = {}
      /\ \A e : Answers(<<e>>) \subseteq {e.id}
      /\ \A e, f : Answers(<<e, f>>) \subseteq {e.id, f.id}
  BY ElementsFew DEF Answers
<1> QED
  BY <1>1, <1>2, <1>3

(* The task takes one command at most, keeps its number in the call or the answer, and
   writes it, if it is a prompt, once. *)
LEMMA CommandMoves ==
  ASSUME TypeOK, TaskCommand
  PROVE  /\ commands # << >> /\ commands' = Tail(commands)
         /\ Gone' \subseteq Gone \cup {0, Head(commands).id}
         /\ \/ started' = started
            \/ /\ Head(commands).op = "Prompt"
               /\ started' = Append(started, WrittenPrompt(Head(commands)))
<1> DEFINE c  == Head(commands)
           OK(es) == es \in Seq(Events) /\ Answers(es) \subseteq {0, c.id}
           Sent   == \E es : OK(es) /\ events' = events \o es
<1>1. PICK ops : Receive(ops)
  BY DEF TaskCommand, RtPrompt, RtSteer, RtInterrupt, RtHistory, RtRespond,
         RtClientDisconnected, RtShutdown
<1>2. /\ commands # << >> /\ commands' = Tail(commands)
      /\ c \in Commands /\ c.id \in Ids
  BY <1>1, ReceiveType DEF Receive
<1>3. rt.pending \in SUBSET Human /\ events \in Seq(Events)
  BY DEF TypeOK, TaskTypeOK, TaskRecords, ChannelTypeOK
<1>4. OK(<< >>) /\ events \o << >> = events
  BY <1>3, EmptyType, AnswersFew
<1>5. \A op \in ReplyOps : /\ Reply(op, c.id) \in Events /\ Reply(op, c.id).id = c.id
                           /\ OK(<<Reply(op, c.id)>>)
  <2>1. \A op \in ReplyOps : Reply(op, c.id) \in Events /\ Reply(op, c.id).id = c.id
    BY <1>2, EventValueType DEF ReplyOps, EventOps, Reply
  <2> HIDE DEF c
  <2>2. ASSUME NEW e \in Events, e.id = c.id
        PROVE  OK(<<e>>)
    <3>1. <<e>> \in Seq(Events) /\ Answers(<<e>>) \subseteq {e.id}
      BY AnswersFew
    <3> QED
      BY <2>2, <3>1
  <2> QED
    BY <2>1, <2>2
<1>6. OK(<<CallFailed(c)>>)
  BY <1>5 DEF CallFailed, ReplyOps
<1>7. ASSUME NEW order \in Orders(rt.pending)
      PROVE  /\ OK(Resolved(order))
             /\ \A e \in Events : e.id \in {0, c.id} => OK(Append(Resolved(order), e))
  <2>1. Resolved(order) \in Seq(Events) /\ Answers(Resolved(order)) = {}
    BY <1>3, ResolvedType, AnswersFew
  <2> HIDE DEF c
  <2>2. ASSUME NEW e \in Events, e.id \in {0, c.id}
        PROVE  OK(Append(Resolved(order), e))
    <3>1. /\ Append(Resolved(order), e) \in Seq(Events)
          /\ Answers(Append(Resolved(order), e)) \subseteq Answers(Resolved(order)) \cup {e.id}
      BY <2>1, AppendType, AnswersChange
    <3> QED
      BY <2>1, <2>2, <3>1
  <2> QED
    BY <2>1, <2>2
<1>8. Event("ProviderFailed") \in Events /\ Event("ProviderFailed").id = 0
  BY EventValueType DEF EventOps, Event
<1>9. c.human \in rt.pending => OK(<<Reply("Response", c.id)>> \o Resolved(<<c.human>>))
  <2>1. SUFFICES ASSUME c.human \in rt.pending
                 PROVE  OK(<<Reply("Response", c.id)>> \o Resolved(<<c.human>>))
    OBVIOUS
  <2> DEFINE s == <<Reply("Response", c.id)>>
             t == Resolved(<<c.human>>)
  <2>2. s \in Seq(Events) /\ Answers(s) \subseteq {0, c.id}
    BY <1>5 DEF ReplyOps
  <2>3. t \in Seq(Events) /\ Answers(t) = {}
    BY <1>3, <2>1, ResolvedOneType, AnswersFew
  <2> HIDE DEF s, t
  <2>4. s \o t \in Seq(Events) /\ Answers(s \o t) = Answers(s) \cup Answers(t)
    BY <2>2, <2>3, ConcatElements, AnswersChange
  <2> QED
    BY <2>2, <2>3, <2>4 DEF s, t
<1> DEFINE Taken == Sent /\ (rt'.call = rt.call \/ rt'.call = <<c>>)
<1>10. rt \in TaskRecords
  BY DEF TypeOK, TaskTypeOK
<1>11. ASSUME Call(c)
       PROVE  Taken
  <2>1. CASE prov.alive
    BY <1>4, <1>10, <1>11, <2>1 DEF Call, TaskRecords
  <2>2. CASE ~prov.alive
    BY <1>6, <1>11, <2>2 DEF Call, Emit
  <2> QED
    BY <2>1, <2>2
<1>12. \A es : OK(es) /\ Emit(es) => Sent
  BY DEF Emit
<1>13. /\ Taken
       /\ \/ started' = started
          \/ c.op = "Prompt" /\ started' = Append(started, WrittenPrompt(c))
  <2> HIDE DEF Sent
  <2>1. CASE RtPrompt
    <3>1. c.op = "Prompt"
      BY <2>1 DEF RtPrompt, Receive
    <3>2. started' = started \/ started' = Append(started, WrittenPrompt(c))
      BY <2>1 DEF RtPrompt
    <3>3. CASE rt.active
      BY <1>5, <1>12, <2>1, <3>1, <3>2, <3>3 DEF RtPrompt, ReplyOps
    <3>4. CASE ~rt.active
      BY <1>11, <2>1, <3>1, <3>2, <3>4 DEF RtPrompt
    <3> QED
      BY <3>3, <3>4
  <2>2. CASE RtSteer
    <3>1. CASE rt.active
      BY <1>11, <2>2, <3>1 DEF RtSteer
    <3>2. CASE ~rt.active
      BY <1>5, <1>12, <2>2, <3>2 DEF RtSteer, ReplyOps
    <3> QED
      BY <2>2, <3>1, <3>2 DEF RtSteer
  <2>3. CASE RtHistory
    BY <1>11, <2>3 DEF RtHistory
  <2>4. CASE RtInterrupt
    <3>1. \E order \in Orders(rt.pending) :
            \/ \E op \in {"RequestFailed", "Response"} :
                 Emit(Append(Resolved(order), Reply(op, c.id)))
            \/ Emit(Resolved(order))
      BY <2>4 DEF RtInterrupt
    <3>2. Sent
      BY <1>5, <1>7, <1>12, <3>1 DEF ReplyOps
    <3>3. rt'.call = rt.call \/ rt'.call = <<c>>
      BY <1>10, <2>4 DEF RtInterrupt, TaskRecords
    <3>4. started' = started
      BY <2>4 DEF RtInterrupt
    <3> QED
      BY <3>2, <3>3, <3>4
  <2>5. CASE RtRespond
    <3>1. \/ \E op \in {"Rejected", "RequestFailed"} : Emit(<<Reply(op, c.id)>>)
          \/ /\ c.human \in rt.pending
             /\ Emit(<<Reply("Response", c.id)>> \o Resolved(<<c.human>>))
      BY <2>5 DEF RtRespond, Answerable
    <3>2. Sent
      BY <1>5, <1>9, <1>12, <3>1 DEF ReplyOps
    <3>3. rt'.call = rt.call /\ started' = started
      BY <1>10, <2>5 DEF RtRespond, TaskRecords
    <3> QED
      BY <3>2, <3>3
  <2>6. CASE RtClientDisconnected \/ RtShutdown
    <3>1. \E order \in Orders(rt.pending) :
            \/ Emit(Append(Resolved(order), Event("ProviderFailed")))
            \/ Emit(Resolved(order))
      BY <2>6 DEF RtClientDisconnected, RtShutdown
    <3>2. Sent
      BY <1>7, <1>8, <1>12, <3>1
    <3>3. rt'.call = rt.call /\ started' = started
      BY <1>10, <2>6 DEF RtClientDisconnected, RtShutdown, TaskRecords
    <3> QED
      BY <3>2, <3>3
  <2> QED
    BY <2>1, <2>2, <2>3, <2>4, <2>5, <2>6 DEF TaskCommand
<1>14. Gone' \subseteq Gone \cup {0, c.id}
  <2> HIDE DEF c
  <2>1. PICK es : OK(es) /\ events' = events \o es
    BY <1>13
  <2>2. Answers(events') \subseteq Answers(events) \cup {0, c.id}
    BY <1>3, <2>1, AnswersChange
  <2>3. IdsOf(rt'.call) \subseteq IdsOf(rt.call) \cup {c.id}
    <3>1. IdsOf(<<c>>) = {c.id}
      BY ElementsFew DEF IdsOf
    <3> QED
      BY <1>13, <3>1
  <2> QED
    BY <2>2, <2>3 DEF Gone
<1> QED
  BY <1>2, <1>13, <1>14

(* Whatever else the task does takes no command and gives no number back. *)
LEMMA OtherMoves ==
  ASSUME TypeOK, RtStart \/ TaskRead \/ RtExpire \/ RtStop
  PROVE  /\ commands' = commands \/ commands' = << >>
         /\ started' = started
         /\ Gone' \subseteq Gone \cup {0}
<1> DEFINE X == IdsOf(rt.call) \cup {0}
           OK(es) == es \in Seq(Events) /\ Answers(es) \subseteq X
           Sent   == \E es : OK(es) /\ events' = events \o es
<1>1. commands' = commands \/ commands' = << >>
  BY DEF RtStart, TaskRead, RtCollect, RtCallReturns, RtCallFails, RtRead, RtStreamCloses,
         RtExpire, RtStop
<1>2. started' = started
  BY DEF RtStart, TaskRead, RtCollect, RtCallReturns, RtCallFails, RtRead, RtStreamCloses,
         RtExpire, RtStop
<1>3. rt.pending \in SUBSET Human /\ events \in Seq(Events) /\ rt \in TaskRecords
  BY DEF TypeOK, TaskTypeOK, TaskRecords, ChannelTypeOK
<1>4. OK(<< >>) /\ events \o << >> = events
  BY <1>3, EmptyType, AnswersFew
<1>5. \A es : OK(es) /\ Emit(es) => Sent
  BY DEF Emit
<1>6. ASSUME NEW S \in SUBSET rt.pending, NEW order \in Orders(S)
      PROVE  /\ OK(Resolved(order))
             /\ \A e \in Events : e.id = 0 => OK(Append(Resolved(order), e))
  <2>1. Resolved(order) \in Seq(Events) /\ Answers(Resolved(order)) = {}
    BY <1>3, ResolvedType, AnswersFew
  <2>2. ASSUME NEW e \in Events, e.id = 0
        PROVE  OK(Append(Resolved(order), e))
    <3>1. /\ Append(Resolved(order), e) \in Seq(Events)
          /\ Answers(Append(Resolved(order), e)) \subseteq Answers(Resolved(order)) \cup {e.id}
      BY <2>1, AppendType, AnswersChange
    <3> QED
      BY <2>1, <2>2, <3>1
  <2> QED
    BY <2>1, <2>2
<1>7. /\ Event("ProviderFailed") \in Events /\ Event("ProviderFailed").id = 0
      /\ Event("Stopped") \in Events /\ Event("Stopped").id = 0
      /\ OK(<<Event("ProviderFailed")>>)
  <2>1. /\ Event("ProviderFailed") \in Events /\ Event("ProviderFailed").id = 0
        /\ Event("Stopped") \in Events /\ Event("Stopped").id = 0
    BY EventValueType DEF EventOps, Event
  <2>2. /\ <<Event("ProviderFailed")>> \in Seq(Events)
        /\ Answers(<<Event("ProviderFailed")>>) \subseteq {Event("ProviderFailed").id}
    BY <2>1, AppendType, AnswersFew
  <2> QED
    BY <2>1, <2>2
<1>8. ASSUME rt.pc = "call"
      PROVE  /\ rt.call[1] \in Commands /\ rt.call[1].id \in Ids
             /\ rt.call[1].id \in IdsOf(rt.call)
  <2>1. rt.call \in Seq(Commands) /\ Len(rt.call) = 1
    BY <1>3, <1>8 DEF TypeOK, TaskTypeOK, TaskRecords
  <2>2. rt.call[1] \in Commands /\ 1 \in DOMAIN rt.call
    BY <2>1, FirstType
  <2>3. rt.call[1].id \in Ids
    BY <2>2 DEF Commands
  <2> QED
    BY <2>2, <2>3 DEF IdsOf, Elements
<1>9. ASSUME rt.pc = "call", NEW op \in ReplyOps
      PROVE  OK(<<Reply(op, rt.call[1].id)>>)
  <2>1. Reply(op, rt.call[1].id) \in Events /\ Reply(op, rt.call[1].id).id = rt.call[1].id
    BY <1>8, <1>9, EventValueType DEF ReplyOps, EventOps, Reply
  <2>2. \A e \in Events : <<e>> \in Seq(Events) /\ Answers(<<e>>) \subseteq {e.id}
    BY AppendType, AnswersFew
  <2> QED
    BY <1>8, <1>9, <2>1, <2>2
<1>10. rt.pc = "call" => OK(<<CallFailed(rt.call[1])>>)
  BY <1>9 DEF CallFailed, ReplyOps
<1>11. Sent /\ (rt'.call = rt.call \/ rt'.call = << >>)
  <2> HIDE DEF OK, Sent
  <2>1. CASE RtStart
    <3>1. /\ Reply("Started", 0) \in Events /\ Reply("Started", 0).id = 0
          /\ Reply("RequestFailed", 0) \in Events /\ Reply("RequestFailed", 0).id = 0
      BY EventValueType, CommandType DEF EventOps, Reply
    <3>2. OK(<<Reply("Started", 0)>>) /\ OK(<<Reply("RequestFailed", 0), Event("Stopped")>>)
      <4>1. \A e, f \in Events : <<e>> \in Seq(Events) /\ <<e, f>> \in Seq(Events)
        OBVIOUS
      <4> QED
        BY <1>7, <3>1, <4>1, AnswersFew DEF OK
    <3>3. rt'.call = rt.call
      BY <1>3, <2>1 DEF RtStart, TaskRecords
    <3> QED
      BY <1>5, <2>1, <3>2, <3>3 DEF RtStart
  <2>2. CASE RtCollect \/ RtCallFails
    <3>1. events' = events \/ Emit(<<CallFailed(rt.call[1])>>)
      BY <2>2 DEF RtCollect, RtCallFails
    <3>2. rt.pc = "call"
      BY <2>2 DEF RtCollect, RtCallFails
    <3>3. rt'.call = rt.call \/ rt'.call = << >>
      BY <1>3, <2>2 DEF RtCollect, RtCallFails, TaskRecords
    <3>4. Sent
      BY <1>4, <1>5, <1>10, <3>1, <3>2 DEF Sent
    <3> QED
      BY <3>3, <3>4
  <2>3. CASE RtCallReturns
    <3> DEFINE c == rt.call[1]
               s == <<Reply("Response", c.id)>>
               t == Published(c)
    <3>1. rt.pc = "call" /\ events' = events \o (s \o t)
      BY <2>3 DEF RtCallReturns, Emit
    <3>2. OK(s)
      BY <1>9, <3>1 DEF ReplyOps
    <3>3. t \in Seq(Events) /\ Answers(t) = {}
      <4>1. t \in Seq(Notices)
        BY <1>8, <3>1, PublishedType
      <4> QED
        BY <4>1, NoticeType, AnswersFew
    <3>4. rt'.call = << >>
      BY <1>3, <2>3 DEF RtCallReturns, TaskRecords
    <3> HIDE DEF s, t
    <3>5. OK(s \o t)
      <4>1. s \o t \in Seq(Events) /\ Answers(s \o t) = Answers(s) \cup Answers(t)
        BY <3>2, <3>3, ConcatElements, AnswersChange DEF OK
      <4> QED
        BY <3>2, <3>3, <4>1 DEF OK
    <3> QED
      BY <3>1, <3>4, <3>5 DEF Sent
  <2>4. CASE RtRead
    <3>1. Head(wire) \in Notices /\ wire \in Seq(Messages)
      BY <2>4, TailType DEF RtRead, Notices, TypeOK, TaskTypeOK
    <3>2. OK(<<Head(wire)>>)
      <4>1. <<Head(wire)>> \in Seq(Notices)
        BY <3>1, AppendType
      <4> QED
        BY <4>1, NoticeType, AnswersFew DEF OK
    <3>3. rt'.call = rt.call
      <4>1. \E x, y : rt' = [rt EXCEPT !.active = x, !.pending = y]
        BY <2>4 DEF RtRead
      <4> QED
        BY <1>3, <4>1 DEF TaskRecords
    <3> QED
      BY <1>5, <2>4, <3>2, <3>3 DEF RtRead
  <2>5. CASE RtStreamCloses
    <3>1. rt'.call = rt.call
      BY <1>3, <2>5 DEF RtStreamCloses, TaskRecords
    <3> QED
      BY <1>5, <1>7, <2>5, <3>1 DEF RtStreamCloses
  <2>6. CASE RtExpire \/ RtStop
    <3>1. rt'.call = rt.call
      <4>1. \/ \E x : rt' = [rt EXCEPT !.pending = x]
            \/ \E x, y : rt' = [rt EXCEPT !.pending = x, !.pc = y]
        BY <2>6 DEF RtExpire, RtStop
      <4> QED
        BY <1>3, <4>1 DEF TaskRecords
    <3>2. \E S \in SUBSET rt.pending : \E order \in Orders(S) :
            \/ Emit(Resolved(order))
            \/ Emit(Append(Resolved(order), Event("ProviderFailed")))
            \/ Emit(Append(Resolved(order), Event("Stopped")))
      BY <2>6 DEF RtExpire, RtStop
    <3>3. Sent
      BY <1>5, <1>6, <1>7, <3>2
    <3> QED
      BY <3>1, <3>3
  <2> QED
    BY <2>1, <2>2, <2>3, <2>4, <2>5, <2>6 DEF TaskRead
<1>12. Gone' \subseteq Gone \cup {0}
  <2>1. PICK es : OK(es) /\ events' = events \o es
    BY <1>11
  <2>2. Answers(events') \subseteq Answers(events) \cup X
    BY <1>3, <2>1, AnswersChange
  <2>3. IdsOf(rt'.call) \subseteq IdsOf(rt.call)
    BY <1>11, ElementsFew DEF IdsOf
  <2> QED
    BY <2>2, <2>3 DEF Gone
<1> QED
  BY <1>1, <1>2, <1>12

(* Used is a number, and everything the order speaks of is of its type. *)
LEMMA OrderTypes ==
  ASSUME TypeOK, OrderInv
  PROVE  /\ commands \in Seq(Commands) /\ started \in Seq(WrittenPrompts)
         /\ agent.queued \in Seq(Ids) /\ events \in Seq(Events)
         /\ nreq \in Nat /\ Used \in Nat
<1>1. agent.queued \in Seq(Ids)
  BY DEF TypeOK, BrokerTypeOK, AgentRecords
<1>2. nreq \in Nat /\ Used \in Nat
  <2>1. nreq \in Nat
    BY SessionAssumption DEF TypeOK, HistoryTypeOK, Ids
  <2> QED
    BY <2>1 DEF OrderInv, Used
<1> QED
  BY <1>1, <1>2 DEF TypeOK, ChannelTypeOK, HistoryTypeOK

(* The task's steps keep the prompts in order. *)
LEMMA OrderTask ==
  ASSUME TypeOK, OrderInv, RtStart \/ TaskCommand \/ TaskRead \/ RtExpire \/ RtStop
  PROVE  OrderInv'
<1>1. UNCHANGED <<agent, queuedReqs, sending, nreq>>
  BY DEF RtStart, TaskCommand, RtPrompt, RtSteer, RtInterrupt, RtHistory, RtRespond,
         RtClientDisconnected, RtShutdown, Receive, TaskRead, RtCollect, RtCallReturns,
         RtCallFails, RtRead, RtStreamCloses, RtExpire, RtStop, taskOnly, brokerVars,
         clientVars
<1>2. /\ commands \in Seq(Commands) /\ started \in Seq(WrittenPrompts)
      /\ agent.queued \in Seq(Ids) /\ Used \in Nat /\ Used' = Used
  BY <1>1, OrderTypes DEF Used
<1>3. InOrder(commands, started, Gone, agent.queued, queuedReqs, Used)
  BY DEF OrderInv
<1>4. CASE TaskCommand
  <2> DEFINE c == Head(commands)
  <2>1. /\ commands # << >> /\ commands' = Tail(commands)
        /\ Gone' \subseteq Gone \cup {0, c.id}
        /\ \/ started' = started
           \/ c.op = "Prompt" /\ started' = Append(started, WrittenPrompt(c))
    BY <1>4, CommandMoves
  <2>2. /\ WrittenPrompt(c) \in WrittenPrompts /\ WrittenPrompt(c).id = c.id
        /\ WrittenPrompt(c).queued <=> c.id \in queuedReqs
    <3>1. c \in Commands
      BY <1>2, <2>1, TailType
    <3>2. c.id \in Ids
      BY <3>1 DEF Commands
    <3> HIDE DEF c
    <3>3. /\ WrittenPrompt(c).id = c.id
          /\ WrittenPrompt(c).queued = (c.id \in queuedReqs)
      BY DEF WrittenPrompt
    <3>4. WrittenPrompt(c) \in WrittenPrompts
      BY <3>2 DEF WrittenPrompt, WrittenPrompts
    <3> QED
      BY <3>3, <3>4
  <2> HIDE DEF Gone, Used
  <2>3. InOrder(commands', started', Gone', agent.queued, queuedReqs, Used)
    BY <1>2, <1>3, <2>1, <2>2, OrderTake
  <2> QED
    BY <1>1, <1>2, <2>3 DEF OrderInv
<1>5. CASE RtStart \/ TaskRead \/ RtExpire \/ RtStop
  <2>1. /\ commands' = commands \/ commands' = << >>
        /\ started' = started
        /\ Gone' \subseteq Gone \cup {0}
    BY <1>5, OtherMoves
  <2>2. CASE commands' = commands
    <3>1. InOrder(commands, started, Gone', agent.queued, queuedReqs, Used)
      BY <1>2, <1>3, <2>1, OrderLess
    <3> QED
      BY <1>1, <1>2, <2>1, <2>2, <3>1 DEF OrderInv
  <2>3. CASE commands' = << >>
    <3>1. InOrder(<< >>, started, Gone', agent.queued, queuedReqs, Used)
      BY <1>2, <1>3, <2>1, OrderDrop
    <3> QED
      BY <1>1, <1>2, <2>1, <2>3, <3>1 DEF OrderInv
  <2> QED
    BY <2>1, <2>2, <2>3
<1> QED
  BY <1>4, <1>5

(* A client request takes the next number: its command joins the channel, or waits for
   room, or finds the task gone. *)
LEMMA OrderSend ==
  ASSUME TypeOK, OrderInv, sending = << >>, nreq' = nreq + 1,
         NEW c \in Commands, c.id = nreq + 1, NEW a \in AgentRecords, Send(c, a),
         a.queued = agent.queued \/ a.queued = << >>,
         UNCHANGED <<queuedReqs, events, rt, started>>
  PROVE  OrderInv'
<1>1. /\ commands \in Seq(Commands) /\ started \in Seq(WrittenPrompts)
      /\ agent.queued \in Seq(Ids) /\ nreq \in Nat /\ Used = nreq
  BY OrderTypes DEF Used
<1>2. Gone' = Gone
  BY DEF Gone
<1>3. agent'.queued = a.queued
  <2>1. agent' = a \/ agent' = [a EXCEPT !.state = "Disconnected"]
    BY DEF Send
  <2> QED
    BY <2>1 DEF AgentRecords
<1>4. InOrder(commands, started, Gone, agent.queued, queuedReqs, nreq)
  BY <1>1 DEF OrderInv
<1>5. \A m \in Nat : nreq <= m => InOrder(commands, started, Gone, a.queued, queuedReqs, m)
  <2>1. Gone \subseteq Gone \cup {0} /\ queuedReqs \subseteq queuedReqs \cup Gone \cup {0}
    OBVIOUS
  <2> QED
    BY <1>1, <1>4, <2>1, OrderLess
<1>6. nreq + 1 \in Nat /\ nreq <= nreq + 1 /\ nreq <= nreq /\ nreq < nreq + 1
      /\ nreq + 1 <= nreq + 1 /\ nreq + 1 # 0 /\ (nreq + 1) - 1 = nreq
  BY <1>1
<1>7. a.queued \in Seq(Ids)
  BY <1>1, EmptyType
<1>8. CASE Open /\ Room
  <2>1. commands' = Append(commands, c) /\ sending' = << >>
    BY <1>8 DEF Send
  <2>2. InOrder(commands, started, Gone, a.queued, queuedReqs, nreq)
    BY <1>1, <1>5, <1>6
  <2>3. InOrder(Append(commands, c), started, Gone, a.queued, queuedReqs, nreq + 1)
    BY <1>1, <1>6, <1>7, <2>2, OrderAppend
  <2>4. Used' = nreq + 1
    BY <2>1 DEF Used
  <2> QED
    BY <1>2, <1>3, <2>1, <2>3, <2>4 DEF OrderInv
<1>9. CASE Open /\ ~Room
  <2>1. commands' = commands /\ sending' = <<c>>
    BY <1>9 DEF Send
  <2>2. InOrder(commands, started, Gone, a.queued, queuedReqs, nreq)
    BY <1>1, <1>5, <1>6
  <2>3. sending' # << >> /\ sending'[1].id = nreq' /\ nreq' # 0
    BY <1>6, <2>1
  <2>4. Used' = nreq
    BY <1>6, <2>3 DEF Used
  <2> QED
    BY <1>2, <1>3, <2>1, <2>2, <2>3, <2>4 DEF OrderInv
<1>10. CASE ~Open
  <2>1. commands' = commands /\ sending' = << >>
    BY <1>10 DEF Send
  <2>2. Used' = nreq + 1
    BY <2>1 DEF Used
  <2>3. InOrder(commands, started, Gone, a.queued, queuedReqs, nreq + 1)
    BY <1>5, <1>6
  <2> QED
    BY <1>2, <1>3, <2>1, <2>2, <2>3 DEF OrderInv
<1> QED
  BY <1>8, <1>9, <1>10

(* Client requests and the connection. *)
LEMMA OrderRequest ==
  ASSUME TypeOK, OrderInv,
         BrokerRequest \/ FinishSend \/ ClientConnect \/ ClientDisconnect \/ SendLate
  PROVE  OrderInv'
<1>1. /\ commands \in Seq(Commands) /\ started \in Seq(WrittenPrompts)
      /\ agent.queued \in Seq(Ids) /\ nreq \in Nat /\ Used \in Nat
      /\ agent \in AgentRecords /\ sending \in Seq(Commands)
  BY OrderTypes DEF TypeOK, BrokerTypeOK
<1>2. UNCHANGED <<queuedReqs, events, rt, started>> /\ Gone' = Gone
  BY DEF BrokerRequest, Prompt, QueuePrompt, Steer, Interrupt, History, Respond,
         FinishSend, ClientConnect, ClientDisconnect, SendLate, brokerOnly, Gone
<1>3. \A kind : NextRequest(kind) =>
        /\ sending = << >> /\ nreq' = nreq + 1
        /\ \A op \in Ops : Command(op, nreq') \in Commands /\ Command(op, nreq').id = nreq + 1
  <2>1. \A kind : NextRequest(kind) => sending = << >> /\ nreq' = nreq + 1 /\ nreq' \in Ids
    BY <1>1, SessionAssumption DEF NextRequest, Turn, Ids
  <2> QED
    BY <2>1, CommandType DEF Command
<1>4. InOrder(commands, started, Gone, agent.queued, queuedReqs, Used)
  BY DEF OrderInv
<1>5. CASE Prompt
  <2> DEFINE a == [agent EXCEPT !.state = "Running"]
  <2>1. a \in AgentRecords /\ a.queued = agent.queued
    BY <1>1 DEF AgentRecords, AgentStates, Busy
  <2>2. /\ sending = << >> /\ nreq' = nreq + 1 /\ "Prompt" \in Ops
        /\ Send(Command("Prompt", nreq'), a)
    BY <1>3, <1>5 DEF Prompt, Ops
  <2>3. Command("Prompt", nreq') \in Commands /\ Command("Prompt", nreq').id = nreq + 1
    BY <1>3, <1>5, <2>2 DEF Prompt
  <2> HIDE DEF a
  <2> QED
    BY <1>2, <2>1, <2>2, <2>3, OrderSend
<1>6. CASE QueuePrompt
  <2>1. /\ agent'.queued = Append(agent.queued, nreq + 1) /\ nreq + 1 \in Ids
        /\ nreq' = nreq + 1 /\ Used = nreq /\ Used' = nreq + 1 /\ sending' = << >>
        /\ commands' = commands
    <3>1. agent' = [agent EXCEPT !.queued = Append(@, nreq')]
      BY <1>6 DEF QueuePrompt
    <3>2. agent'.queued = Append(agent.queued, nreq')
      BY <1>1, <3>1 DEF AgentRecords
    <3>3. sending = << >> /\ sending' = << >> /\ nreq' = nreq + 1 /\ nreq + 1 \in Ids
      BY <1>1, <1>6, SessionAssumption DEF QueuePrompt, NextRequest, Turn, Ids
    <3>4. commands' = commands
      BY <1>6 DEF QueuePrompt
    <3> QED
      BY <3>2, <3>3, <3>4 DEF Used
  <2>2. InOrder(commands, started, Gone, Append(agent.queued, nreq + 1), queuedReqs, nreq + 1)
    BY <1>1, <1>4, <2>1, OrderQueue
  <2> QED
    BY <1>2, <2>1, <2>2 DEF OrderInv
<1>7. CASE Steer \/ History
  <2>1. PICK op \in {"Steer", "History"} : NextRequest(op) /\ Send(Command(op, nreq'), agent)
    BY <1>7 DEF Steer, History
  <2>2. /\ sending = << >> /\ nreq' = nreq + 1
        /\ Command(op, nreq') \in Commands /\ Command(op, nreq').id = nreq + 1
    BY <1>3, <2>1 DEF Ops
  <2> QED
    BY <1>1, <1>2, <2>1, <2>2, OrderSend
<1>8. CASE Interrupt
  <2>1. NextRequest("Interrupt") /\ Send(Command("Interrupt", nreq'), CancelQueuedPrompts(agent))
    BY <1>8 DEF Interrupt
  <2>2. /\ sending = << >> /\ nreq' = nreq + 1
        /\ Command("Interrupt", nreq') \in Commands /\ Command("Interrupt", nreq').id = nreq + 1
    BY <1>3, <2>1 DEF Ops
  <2>3. CancelQueuedPrompts(agent) \in AgentRecords /\ CancelQueuedPrompts(agent).queued = << >>
    BY <1>1, AgentUpdates
  <2> QED
    BY <1>2, <2>1, <2>2, <2>3, OrderSend
<1>9. ASSUME NEW op \in {"Approval", "Question"}, NEW h \in Human, NEW allow \in BOOLEAN,
             Respond(op, h, allow)
      PROVE  OrderInv'
  <2> DEFINE c == [Command(op, nreq') EXCEPT !.human = h, !.allow = allow]
  <2>1. NextRequest(op) /\ Send(c, agent)
    BY <1>9 DEF Respond
  <2>2. sending = << >> /\ nreq' = nreq + 1 /\ op \in Ops
    BY <1>3, <2>1 DEF Ops
  <2>3. Command(op, nreq') \in Commands /\ Command(op, nreq').id = nreq + 1
    BY <1>3, <2>1, <2>2
  <2>4. c \in Commands /\ c.id = nreq + 1
    BY <2>3 DEF Commands, Command
  <2> HIDE DEF c
  <2> QED
    BY <1>1, <1>2, <2>1, <2>2, <2>4, OrderSend
<1>10. CASE FinishSend
  <2>1. /\ sending # << >> /\ sending' = << >> /\ nreq' = nreq
        /\ sending[1].id = nreq /\ nreq # 0 /\ sending[1] \in Commands
        /\ Used = nreq - 1 /\ Used' = nreq /\ agent'.queued = agent.queued
    <3>1. sending # << >> /\ sending' = << >> /\ nreq' = nreq
      BY <1>10 DEF FinishSend, clientVars
    <3>2. sending[1] \in Commands
      BY <1>1, <3>1, NonEmptyType
    <3>3. agent'.queued = agent.queued
      BY <1>1, <1>10 DEF FinishSend, AgentRecords
    <3> QED
      BY <3>1, <3>2, <3>3 DEF OrderInv, Used
  <2>2. Used <= nreq /\ Used < nreq /\ nreq <= nreq
    BY <1>1, <2>1
  <2>3. CASE commands' = Append(commands, sending[1])
    <3>1. InOrder(Append(commands, sending[1]), started, Gone, agent.queued, queuedReqs, nreq)
      BY <1>1, <1>4, <2>1, <2>2, OrderAppend
    <3> QED
      BY <1>2, <2>1, <2>3, <3>1 DEF OrderInv
  <2>4. CASE commands' = commands
    <3>1. Gone \subseteq Gone \cup {0} /\ queuedReqs \subseteq queuedReqs \cup Gone \cup {0}
      OBVIOUS
    <3>2. InOrder(commands, started, Gone, agent.queued, queuedReqs, nreq)
      BY <1>1, <1>4, <2>2, <3>1, OrderLess
    <3> QED
      BY <1>2, <2>1, <2>4, <3>2 DEF OrderInv
  <2> QED
    BY <1>10, <2>3, <2>4 DEF FinishSend
<1>11. CASE ClientConnect \/ ClientDisconnect \/ SendLate
  <2>1. UNCHANGED <<agent, sending, nreq>> /\ Used' = Used
    BY <1>11 DEF ClientConnect, ClientDisconnect, SendLate, clientVars, Used
  <2>2. commands' = commands \/ commands' = Append(commands, Disconnected)
    BY <1>11, TryDisconnect DEF ClientConnect, ClientDisconnect, SendLate
  <2>3. Disconnected \in Commands /\ Disconnected.id = 0 /\ Disconnected.op # "Prompt"
    BY CommandType DEF Disconnected, Command
  <2>4. InOrder(Append(commands, Disconnected), started, Gone, agent.queued, queuedReqs, Used)
    <3>1. Used <= Used
      BY <1>1
    <3> HIDE DEF Used, Gone
    <3> QED
      BY <1>1, <1>4, <2>3, <3>1, OrderAppend
  <2> QED
    BY <1>2, <1>4, <2>1, <2>2, <2>4 DEF OrderInv
<1> QED
  BY <1>5, <1>6, <1>7, <1>8, <1>9, <1>10, <1>11 DEF BrokerRequest

(* Taking an event spends no number; queued prompts are forgotten once answered, or
   cancelled, and the next of them takes the end of the channel. *)
LEMMA OrderEvent ==
  ASSUME TypeOK, OrderInv, BrokerEvent
  PROVE  OrderInv'
<1> DEFINE e == Head(events)
<1>1. /\ commands \in Seq(Commands) /\ started \in Seq(WrittenPrompts)
      /\ agent.queued \in Seq(Ids) /\ Used \in Nat /\ events \in Seq(Events)
      /\ agent \in AgentRecords
  BY OrderTypes DEF TypeOK, BrokerTypeOK
<1>2. /\ events # << >> /\ events' = Tail(events)
      /\ UNCHANGED <<sending, nreq, rt, started>>
  BY DEF BrokerEvent, HandleStarted, HandleResponse, HandleQueuedFailure,
         HandleRejected, HandleRequestFailed, HandleTurnEvent, HandleRequested,
         HandleResolved, HandleProviderFailed, HandleStopped, NextEvent, clientVars
<1>3. e \in Events
  BY <1>1, <1>2, TailType
<1>4. Used' = Used /\ Used <= Used
  BY <1>1, <1>2 DEF Used
<1>5. Gone' \subseteq Gone /\ (e.op \in ReplyOps => e.id \in Gone)
  <2>1. Answers(Tail(events)) \subseteq Answers(events) /\ (e.op \in ReplyOps => e.id \in Answers(events))
    BY <1>1, <1>2, AnswersChange
  <2> QED
    BY <1>2, <2>1 DEF Gone
<1>6. InOrder(commands, started, Gone, agent.queued, queuedReqs, Used)
  BY DEF OrderInv
<1> HIDE DEF e, Used, Gone
<1>7. ASSUME NEW q, q = agent.queued \/ q = << >>, NEW Q, Q = queuedReqs \/ Q = queuedReqs \ {e.id},
             Q = queuedReqs \/ e.op \in ReplyOps
      PROVE  InOrder(commands, started, Gone', q, Q, Used)
  <2>1. /\ Gone' \subseteq Gone \cup {0} /\ Q \subseteq queuedReqs
        /\ queuedReqs \subseteq Q \cup Gone \cup {0}
    BY <1>5, <1>7
  <2> QED
    BY <1>1, <1>4, <1>6, <1>7, <2>1, OrderLess
<1>8. ASSUME commands' = commands, agent'.queued = agent.queued \/ agent'.queued = << >>,
             queuedReqs' = queuedReqs \/ (queuedReqs' = queuedReqs \ {e.id} /\ e.op \in ReplyOps)
      PROVE  OrderInv'
  <2>1. InOrder(commands, started, Gone', agent'.queued, queuedReqs', Used)
    BY <1>7, <1>8
  <2> QED
    BY <1>2, <1>4, <1>8, <2>1 DEF OrderInv
<1>9. ASSUME NEW c \in Commands, c.id = 0, c.op # "Prompt", commands' = Append(commands, c),
             agent'.queued = agent.queued \/ agent'.queued = << >>,
             queuedReqs' = queuedReqs
      PROVE  OrderInv'
  <2>1. InOrder(commands, started, Gone', agent'.queued, queuedReqs', Used)
    BY <1>7, <1>9
  <2>2. agent'.queued \in Seq(Ids)
    BY <1>1, <1>9, EmptyType
  <2>3. InOrder(Append(commands, c), started, Gone', agent'.queued, queuedReqs', Used)
    BY <1>1, <1>4, <1>9, <2>1, <2>2, OrderAppend
  <2> QED
    BY <1>2, <1>4, <1>9, <2>3 DEF OrderInv
<1>10. ASSUME NEW a \in AgentRecords
       PROVE  /\ CancelQueuedPrompts(a).queued = << >> /\ CancelQueuedPrompts(a) \in AgentRecords
              /\ ProviderFailure(a).queued = << >>
  BY AgentUpdates
<1>11. /\ ApplyEventState(agent, e) \in AgentRecords
       /\ ApplyEventState(agent, e).queued = agent.queued
  BY <1>1, <1>3, ApplyEventStateType
<1>12. CASE HandleStarted \/ HandleResponse \/ HandleRejected
  <2>1. agent' = agent \/ agent' = [agent EXCEPT !.state = "Idle"]
    BY <1>12 DEF HandleStarted, HandleResponse, HandleRejected
  <2>2. agent'.queued = agent.queued
    BY <1>1, <2>1 DEF AgentRecords
  <2>3. queuedReqs' = queuedReqs \/ (queuedReqs' = queuedReqs \ {e.id} /\ e.op \in ReplyOps)
    BY <1>12 DEF HandleStarted, HandleResponse, HandleRejected, NextEvent, ReplyOps, e
  <2>4. commands' = commands
    BY <1>12 DEF HandleStarted, HandleResponse, HandleRejected
  <2> QED
    BY <1>8, <2>2, <2>3, <2>4
<1>13. CASE HandleQueuedFailure \/ HandleProviderFailed
  <2>1. agent'.queued = << >>
    BY <1>1, <1>10, <1>13 DEF HandleQueuedFailure, HandleProviderFailed
  <2>2. queuedReqs' = queuedReqs \/ (queuedReqs' = queuedReqs \ {e.id} /\ e.op \in ReplyOps)
    BY <1>13 DEF HandleQueuedFailure, HandleProviderFailed, NextEvent, ReplyOps, e
  <2>3. commands' = commands
    BY <1>13 DEF HandleQueuedFailure, HandleProviderFailed
  <2> QED
    BY <1>8, <2>1, <2>2, <2>3
<1>14. CASE HandleRequestFailed
  <2> DEFINE d == CancelQueuedPrompts(agent)
             c == Command("Shutdown", 0)
  <2>1. agent' = [d EXCEPT !.state = "Failed", !.turn = FALSE] /\ queuedReqs' = queuedReqs
    BY <1>14 DEF HandleRequestFailed
  <2>2. d \in AgentRecords /\ d.queued = << >>
    BY <1>1, <1>10
  <2>3. c \in Commands /\ c.id = 0 /\ c.op # "Prompt"
    BY CommandType DEF Command, Ops
  <2>4. commands' = commands \/ commands' = Append(commands, c)
    BY <1>14 DEF HandleRequestFailed
  <2> HIDE DEF d, c
  <2>5. agent'.queued = << >>
    BY <2>1, <2>2 DEF AgentRecords
  <2> QED
    BY <1>8, <1>9, <2>1, <2>3, <2>4, <2>5
<1>15. CASE HandleRequested \/ HandleResolved
  <2>1. agent'.queued = agent.queued /\ queuedReqs' = queuedReqs
    BY <1>11, <1>15 DEF HandleRequested, HandleResolved, e
  <2>2. commands' = commands \/ commands' = Append(commands, Disconnected)
    BY <1>15, TryDisconnect DEF HandleRequested, HandleResolved
  <2>3. Disconnected \in Commands /\ Disconnected.id = 0 /\ Disconnected.op # "Prompt"
    BY CommandType DEF Disconnected, Command
  <2> QED
    BY <1>8, <1>9, <2>1, <2>2, <2>3
<1>16. CASE HandleStopped
  <2> DEFINE d == CancelQueuedPrompts(agent)
  <2>1. /\ \E t : agent' = [d EXCEPT !.task = FALSE, !.state = "Disconnected", !.turn = t]
        /\ queuedReqs' = queuedReqs /\ commands' = commands
    BY <1>16 DEF HandleStopped
  <2>2. d \in AgentRecords /\ d.queued = << >>
    BY <1>1, <1>10
  <2> HIDE DEF d
  <2>3. agent'.queued = << >>
    BY <2>1, <2>2 DEF AgentRecords
  <2> QED
    BY <1>8, <2>1, <2>3
<1>17. CASE HandleTurnEvent
  <2> DEFINE a == ApplyEventState(agent, e)
  <2>1. \/ DispatchQueuedPrompt(a)
        \/ /\ agent' = CancelQueuedPrompts(a) \/ agent' = a
           /\ UNCHANGED <<queuedReqs, commands>>
    BY <1>17 DEF HandleTurnEvent, e
  <2>2. a \in AgentRecords /\ a.queued = agent.queued
    BY <1>11
  <2> HIDE DEF a
  <2>3. CASE UNCHANGED <<queuedReqs, commands>>
    <3>1. \/ agent' = a \/ agent' = CancelQueuedPrompts(a) \/ agent' = ProviderFailure(a)
          \/ commands' = Append(commands, Command("Prompt", Head(a.queued)))
      BY <2>1 DEF DispatchQueuedPrompt
    <3>2. commands # Append(commands, Command("Prompt", Head(a.queued)))
      <4>1. ASSUME NEW x
            PROVE  commands # Append(commands, x)
        BY <1>1
      <4> QED
        BY <4>1
    <3>3. agent'.queued = agent.queued \/ agent'.queued = << >>
      BY <1>10, <2>2, <2>3, <3>1, <3>2
    <3> QED
      BY <1>8, <2>3, <3>3
  <2>4. CASE ~(UNCHANGED <<queuedReqs, commands>>)
    <3> DEFINE h == Head(a.queued)
    <3>1. /\ a.queued # << >> /\ commands' = Append(commands, Command("Prompt", h))
          /\ queuedReqs' = queuedReqs \cup {h}
          /\ agent' = [a EXCEPT !.queued = Tail(@), !.state = "Running"]
      BY <2>1, <2>4 DEF DispatchQueuedPrompt
    <3>2. agent'.queued = Tail(agent.queued) /\ agent.queued # << >> /\ h = Head(agent.queued)
      BY <2>2, <3>1 DEF AgentRecords
    <3> HIDE DEF h
    <3>3. InOrder(commands, started, Gone', agent.queued, queuedReqs, Used)
      BY <1>7
    <3>4. InOrder(Append(commands, Command("Prompt", h)), started, Gone', Tail(agent.queued),
                  queuedReqs \cup {h}, Used)
      BY <1>1, <3>2, <3>3, OrderDispatch
    <3> QED
      BY <1>2, <1>4, <3>1, <3>2, <3>4 DEF OrderInv
  <2> QED
    BY <2>3, <2>4
<1> QED
  BY <1>12, <1>13, <1>14, <1>15, <1>16, <1>17 DEF BrokerEvent

(* Every step keeps the prompts in order. *)
LEMMA OrderStep ==
  ASSUME TypeOK, OrderInv, [Next]_vars
  PROVE  OrderInv'
<1>1. CASE UNCHANGED vars
  BY <1>1 DEF vars, brokerVars, clientVars, OrderInv, Gone, Used
<1>2. CASE ProviderStep
  <2>1. UNCHANGED <<agent, queuedReqs, sending, commands, events, rt, nreq, started>>
    BY <1>2 DEF ProviderStep, ProviderReplies, ProviderEndsTurn, ProviderDies, ProviderAsks,
                providerOnly, brokerVars, clientVars
  <2> QED
    BY <2>1 DEF OrderInv, Gone, Used
<1>3. CASE Next /\ ~ProviderStep
  BY <1>3, OrderTask, OrderRequest, OrderEvent DEF Next
<1> QED
  BY <1>1, <1>2, <1>3

(* At first no prompt is queued, sent or written. *)
LEMMA OrderInit ==
  ASSUME Init
  PROVE  OrderInv
<1>1. /\ Elements(<< >>) = {} /\ IdsOf(<< >>) = {} /\ Answers(<< >>) = {}
      /\ \A R : Ordered(<< >>, R)
  BY ElementsFew, OrderedFew, AnswersFew DEF IdsOf
<1>2. Gone = {} /\ Used = 0
  BY <1>1 DEF Init, Gone, Used
<1>3. InOrder(<< >>, << >>, {}, << >>, {}, 0)
  BY <1>1 DEF InOrder
<1> QED
  BY <1>2, <1>3 DEF Init, NewAgent, OrderInv

(* No prompt reaches the provider twice, those sent at once reach it in the order of the
   client's requests, and so do those that waited in the broker's queue
   (send_agent_input, dispatch_queued_prompt, run_codex, run_claude):
   PromptsStartInOrder. *)
THEOREM PromptsInOrder == Spec => []PromptsStartInOrder
<1>1. Init => OrderInv
  BY OrderInit
<1>2. TypeOK /\ OrderInv /\ [Next]_vars => OrderInv'
  BY OrderStep
<1>3. OrderInv => PromptsStartInOrder
  BY DEF OrderInv, InOrder, PromptsStartInOrder, Ordered, Story
<1> QED
  BY <1>1, <1>2, <1>3, TypeCorrect, PTL DEF Spec

=============================================================================
