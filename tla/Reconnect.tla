------------------------------ MODULE Reconnect ------------------------------
(***************************************************************************)
(* One Neovim client and the durable broker across lost connections,       *)
(* Neovim restarts and broker restarts: the initialize handshake, the      *)
(* replay of missed events, the live stream, the resync that replaces a    *)
(* replay that is no longer possible, and the deferred answers of agent    *)
(* tasks that arrive after the connection that asked for them is gone.     *)
(* Sources: embedded.rs (connect, disconnect, initialize, initialized,     *)
(* handle_provider_event, runtime_request, send_runtime_response),         *)
(* durable.rs (accept_clients, serve_connection), client.lua and model.lua.*)
(* When client.lua connects again is ClientConnection's.                   *)
(*                                                                         *)
(* One agent publishes.  Its events are plain notes, approval requests and *)
(* their resolutions; AgentSession models how they come about.             *)
(***************************************************************************)
EXTENDS Replay

CONSTANTS
  Approvals,       \* the approval requests the provider may raise
  None,            \* no approval: the event is a plain note
  MaxEvents,       \* bound: events published by one broker process
  MaxCalls,        \* bound: request ids one Neovim process uses for calls
  MaxDrops,        \* bound: lost or refused connections
  MaxAttempts,     \* reconnect.max_attempts, 8 by default
  MaxNvimRestarts, \* bound: Neovim restarts
  MaxBrokerRestarts \* bound: broker restarts

ASSUME AttemptsAssumption == MaxAttempts \in Nat

VARIABLES
  replay,   \* Broker.replay
  broker,   \* Broker: phase, connection_generation, reconnect_cursor, output,
            \* next_runtime_request and pending_runtime_requests
  owed,     \* runtime requests the agent tasks have not answered yet
  approval, \* per approval: new, open, denying (its task has been told the
            \* client is gone) or closed
  input,    \* the ClientInput queue, the unread socket bytes included
  accepted, \* accept_clients' generation counter
  link,     \* the generation of the connection the client holds, 0 for none
  output,   \* messages on their way to the client over that connection
  client,   \* client.lua: the connection (see ClientConnection),
            \* last_sequence, next_id, pending
  model,    \* model.lua: last_sequence, sequence_gap, pending_actions
  whole,    \* history: nothing was skipped since the client's baseline
  budget    \* what is left of the bounds on drops and restarts

vars == <<replay, broker, owed, approval, input, accepted, link, output,
          client, model, whole, budget>>

Connection == INSTANCE ClientConnection

Phases == {"AwaitInitialize", "AwaitInitialized", "Ready"}

NewBroker ==
  [phase |-> "AwaitInitialize", generation |-> 0, cursor |-> 0,
   output |-> FALSE, next_request |-> 1, pending |-> {}]

NewClient ==
  [conn |-> Connection!FreshClient, last_sequence |-> 0, next_id |-> 1,
   pending |-> {}]

NewModel == [last_sequence |-> 0, sequence_gap |-> FALSE, pending |-> {}]

Init ==
  /\ replay = EmptyBuffer
  /\ broker = NewBroker
  /\ owed = {}
  /\ approval = [a \in Approvals |-> "new"]
  /\ input = <<>>
  /\ accepted = 0
  /\ link = 0
  /\ output = <<>>
  /\ client = NewClient
  /\ model = NewModel
  /\ whole = TRUE
  /\ budget = [drops |-> MaxDrops, nvim |-> MaxNvimRestarts,
               broker |-> MaxBrokerRestarts]

-----------------------------------------------------------------------------
(* What travels. *)

Event(type, a) == [sequence |-> 0, type |-> type, approval |-> a]

EventMessage(e) == [kind |-> "event", event |-> e]

(* The answer to the call `id` that was made over connection `origin`. *)
Response(id, origin) == [kind |-> "response", id |-> id, origin |-> origin]

InitializeResult(id, resync, latest) ==
  [kind |-> "initialized_result", id |-> id, resync |-> resync,
   latest |-> latest]

(* send: the connection's writer drops whatever the client no longer reads.*)
(* A message reaches the client only over the connection it still holds.   *)
Sent(messages) ==
  IF broker.output /\ broker.generation = link THEN output \o messages
                                               ELSE output

Send(message) == output' = Sent(<<message>>)

(* What a connection loses with its socket: any unread tail of its frames. *)
Frames == {"initialize", "initialized", "request"}

CutTo(k) ==
  /\ \A i \in k+1..Len(input) : input[i].kind \in Frames
  /\ input' = Append(SubSeq(input, 1, k),
                     [kind |-> "closed", generation |-> link])

-----------------------------------------------------------------------------
(* The broker: provider events. *)

(* handle_provider_event: number the event, retain it, and forward it only *)
(* to a client that has finished the handshake.                            *)
Publish(event) ==
  LET pushed == Push(replay, event)
      last   == pushed.events[Len(pushed.events)]
  IN  /\ Latest(replay) < MaxEvents
      /\ replay' = pushed
      /\ output' = IF broker.phase = "Ready" THEN Sent(<<EventMessage(last)>>)
                                             ELSE output

ProviderNote ==
  /\ Publish(Event("note", None))
  /\ UNCHANGED <<broker, owed, approval, input, accepted, link, client,
                 model, whole, budget>>

(* An approval requested while no client is ready is not left open: its    *)
(* task is told that the client is gone, and will deny it.                 *)
AskedStatus == IF broker.phase = "Ready" THEN "open" ELSE "denying"

ApprovalRequested(a) ==
  /\ approval[a] = "new"
  /\ Publish(Event("approval.requested", a))
  /\ approval' = [approval EXCEPT ![a] = AskedStatus]
  /\ UNCHANGED <<broker, owed, input, accepted, link, client, model, whole,
                 budget>>

(* Answered, expired or denied by its task: the resolution is published. *)
ApprovalResolved(a) ==
  /\ approval[a] \in {"open", "denying"}
  /\ Publish(Event("approval.resolved", a))
  /\ approval' = [approval EXCEPT ![a] = "closed"]
  /\ UNCHANGED <<broker, owed, input, accepted, link, client, model, whole,
                 budget>>

(* send_runtime_response: a task's answer to a deferred call goes out only *)
(* if the call is still remembered and was made over this connection.      *)
TaskAnswers(request) ==
  /\ request \in owed
  /\ owed' = owed \ {request}
  /\ \/ \E p \in broker.pending :
          /\ p.request = request
          /\ broker' = [broker EXCEPT !.pending = @ \ {p}]
          /\ IF p.generation = broker.generation
             THEN Send(Response(p.public_id, p.origin))
             ELSE UNCHANGED output
     \/ /\ \A p \in broker.pending : p.request # request
        /\ UNCHANGED <<broker, output>>
  /\ UNCHANGED <<replay, approval, input, accepted, link, client, model,
                 whole, budget>>

-----------------------------------------------------------------------------
(* The broker: its client input, one item at a time. *)

Item(kind) == input # <<>> /\ Head(input).kind = kind

(* connect: an older generation is ignored. *)
HandleConnected ==
  /\ Item("connected")
  /\ input' = Tail(input)
  /\ LET g == Head(input).generation
     IN  broker' = IF g <= broker.generation THEN broker
                   ELSE [broker EXCEPT !.generation = g,
                                       !.phase = "AwaitInitialize",
                                       !.cursor = 0,
                                       !.output = TRUE]
  /\ UNCHANGED <<replay, owed, approval, accepted, link, output, client,
                 model, whole, budget>>

(* The tasks are not told: whoever connects next may answer.               *)
KeptOpen(status) == status

(* queue_client_disconnect: a task that is told that the client is         *)
(* gone will deny every approval that is open.                             *)
ClientGone(status) == IF status = "open" THEN "denying" ELSE status

(* disconnect: forget this connection's deferred calls, and tell the agent *)
(* tasks.                                                                  *)
HandleClosed ==
  /\ Item("closed")
  /\ input' = Tail(input)
  /\ IF Head(input).generation = broker.generation
     THEN /\ broker' = [broker EXCEPT
                !.output = FALSE,
                !.phase = "AwaitInitialize",
                !.cursor = 0,
                !.pending = {p \in @ : p.generation # broker.generation}]
          /\ approval' = [a \in Approvals |-> ClientGone(approval[a])]
     ELSE UNCHANGED <<broker, approval>>
  /\ UNCHANGED <<replay, owed, accepted, link, output, client, model, whole,
                 budget>>

(* A frame of another generation is dropped unread.  (One connection is    *)
(* served at a time, so its frames lie between its "connected" and its     *)
(* "closed"; the client sends initialize and initialized once per          *)
(* connection, so the refusal of a second one is left out.)                *)
Current == Head(input).generation = broker.generation

(* initialize: remember the client's cursor, or the newest event when the  *)
(* client must resync, and say which.                                      *)
HandleInitialize ==
  /\ Item("initialize")
  /\ input' = Tail(input)
  /\ IF Current /\ broker.phase = "AwaitInitialize"
     THEN LET after  == Head(input).last_sequence
              resync == ResyncRequired(replay, after)
          IN  /\ broker' = [broker EXCEPT
                   !.phase = "AwaitInitialized",
                   !.cursor = IF resync THEN Latest(replay) ELSE after]
              /\ Send(InitializeResult(Head(input).id, resync, Latest(replay)))
     ELSE UNCHANGED <<broker, output>>
  /\ UNCHANGED <<replay, owed, approval, accepted, link, client, model, whole,
                 budget>>

(* initialized: replay what came after the cursor.  When the window has    *)
(* left the cursor behind since initialize, nothing is replayed and        *)
(* nothing is said.                                                        *)
Replayed(cursor) ==
  IF ResyncRequired(replay, cursor) THEN <<>>
  ELSE LET events == EventsAfter(replay, cursor)
       IN  [i \in 1..Len(events) |-> EventMessage(events[i])]

HandleInitialized ==
  /\ Item("initialized")
  /\ input' = Tail(input)
  /\ IF Current /\ broker.phase = "AwaitInitialized"
     THEN /\ broker' = [broker EXCEPT !.phase = "Ready"]
          /\ output' = Sent(Replayed(broker.cursor))
          /\ whole' = (whole /\ ~( /\ broker.generation = link
                                   /\ ResyncRequired(replay, broker.cursor)))
     ELSE UNCHANGED <<broker, output, whole>>
  /\ UNCHANGED <<replay, owed, approval, accepted, link, client, model,
                 budget>>

(* The generation is taken one connection too late. *)
RuntimeRequestForNext(frame) ==
  [request |-> <<broker.generation, broker.next_request>>,
   generation |-> broker.generation + 1,
   public_id |-> frame.id,
   origin |-> frame.generation]

(* runtime_request: what is remembered of a deferred call. *)
RuntimeRequest(frame) ==
  [request |-> <<broker.generation, broker.next_request>>,
   generation |-> broker.generation,
   public_id |-> frame.id,
   origin |-> frame.generation]

(* handle_request: refused before the handshake ends; afterwards the call  *)
(* is handed to a task under a fresh runtime id.                           *)
HandleRequest ==
  /\ Item("request")
  /\ input' = Tail(input)
  /\ \/ /\ Current /\ broker.phase = "Ready"
        /\ LET registered == RuntimeRequest(Head(input))
           IN  /\ broker' = [broker EXCEPT !.next_request = @ + 1,
                                           !.pending = @ \cup {registered}]
               /\ owed' = owed \cup {registered.request}
        /\ UNCHANGED output
     \/ /\ Current /\ broker.phase # "Ready"
        /\ Send(Response(Head(input).id, Head(input).generation))
        /\ UNCHANGED <<broker, owed>>
  /\ UNCHANGED <<replay, approval, accepted, link, client, model, whole,
                 budget>>

BrokerReads ==
  \/ HandleConnected
  \/ HandleClosed
  \/ HandleInitialize
  \/ HandleInitialized
  \/ HandleRequest

-----------------------------------------------------------------------------
(* The client. *)

(* start, called by a user of a client that is not on its way already. *)
AwaitsUser == client.conn.state \in {"stopped", "disconnected", "failed"}

Start ==
  /\ AwaitsUser
  /\ client' = [client EXCEPT !.conn = Connection!Started(@)]
  /\ UNCHANGED <<replay, broker, owed, approval, input, accepted, link,
                 output, model, whole, budget>>

(* The deferred function of _schedule_reconnect. *)
TimerFires ==
  /\ client.conn.timer
  /\ client' = [client EXCEPT !.conn = Connection!TimerFired(@)]
  /\ UNCHANGED <<replay, broker, owed, approval, input, accepted, link,
                 output, model, whole, budget>>

GenerationReused == 1

(* accept_clients: connections are numbered in the order they are served.  *)
NextGeneration == accepted + 1

(* A pipe was opened and is not connected yet. *)
Opening == client.conn.pipe /\ link = 0

(* The pipe connects: _begin_initialize, with accept_clients at the other  *)
(* end: one connection is served at a time, so its "connected" follows the *)
(* "closed" of the one before.                                             *)
Connects ==
  /\ Opening
  /\ accepted' = NextGeneration
  /\ link' = accepted'
  /\ input' = input \o
       <<[kind |-> "connected", generation |-> link'],
         [kind |-> "initialize", generation |-> link', id |-> client.next_id,
          last_sequence |-> client.last_sequence]>>
  /\ client' = [client EXCEPT !.conn = Connection!Negotiating(@),
                              !.next_id = @ + 1,
                              !.pending = @ \cup {client.next_id}]
  /\ UNCHANGED <<replay, broker, owed, approval, output, model, whole, budget>>

(* request: any method called while the pipe is open. *)
Call ==
  /\ link # 0 /\ client.next_id <= MaxCalls
  /\ client' = [client EXCEPT !.next_id = @ + 1,
                              !.pending = @ \cup {client.next_id}]
  /\ input' = Append(input, [kind |-> "request", generation |-> link,
                             id |-> client.next_id])
  /\ UNCHANGED <<replay, broker, owed, approval, accepted, link, output,
                 model, whole, budget>>

Message(kind) == output # <<>> /\ Head(output).kind = kind

(* begin_resync: everything projected from events is dropped. *)
BeginResync(latest) ==
  [last_sequence |-> latest, sequence_gap |-> FALSE, pending |-> {}]

(* The initialize callback: acknowledge, and start over when told to. *)
ReceiveInitialized ==
  /\ Message("initialized_result")
  /\ Head(output).id \in client.pending
  /\ output' = Tail(output)
  /\ LET result == Head(output)
     IN  /\ client' = [client EXCEPT
              !.conn = Connection!Ready(@),
              !.pending = @ \ {result.id},
              !.last_sequence = IF result.resync THEN result.latest ELSE @]
         /\ model' = IF result.resync THEN BeginResync(result.latest) ELSE model
         /\ whole' = (whole \/ result.resync)
  /\ input' = Append(input, [kind |-> "initialized", generation |-> link])
  /\ UNCHANGED <<replay, broker, owed, approval, accepted, link, budget>>

ReceiveResponse ==
  /\ Message("response")
  /\ output' = Tail(output)
  /\ client' = [client EXCEPT !.pending = @ \ {Head(output).id}]
  /\ UNCHANGED <<replay, broker, owed, approval, input, accepted, link, model,
                 whole, budget>>

(* _project_human_request: what is waiting for the user. *)
Projected(pending, event) ==
  CASE event.type = "approval.requested" -> pending \cup {event.approval}
    [] event.type = "approval.resolved"  -> pending \ {event.approval}
    [] OTHER -> pending

(* apply_event: a known sequence number is ignored, and a hole is recorded *)
(* when the model already has a baseline.                                  *)
Applied(event) ==
  IF event.sequence <= model.last_sequence THEN model
  ELSE [last_sequence |-> event.sequence,
        sequence_gap |-> \/ model.sequence_gap
                         \/ /\ model.last_sequence > 0
                            /\ event.sequence # model.last_sequence + 1,
        pending |-> Projected(model.pending, event)]

ReceiveEvent ==
  /\ Message("event")
  /\ output' = Tail(output)
  /\ LET event == Head(output).event
     IN  /\ client' = [client EXCEPT !.last_sequence =
                         IF event.sequence > @ THEN event.sequence ELSE @]
         /\ model' = Applied(event)
  /\ UNCHANGED <<replay, broker, owed, approval, input, accepted, link, whole,
                 budget>>

ClientReads ==
  \/ ReceiveInitialized
  \/ ReceiveResponse
  \/ ReceiveEvent

-----------------------------------------------------------------------------
(* Failures. *)

(* _connection_lost: the calls that wait fail, and so does the model's     *)
(* view of what waits for the user (set_client_state "disconnected").      *)
LoseConnection ==
  /\ link' = 0
  /\ output' = <<>>
  /\ client' = [client EXCEPT !.conn = Connection!Lost(@), !.pending = {}]
  /\ model' = [model EXCEPT !.pending = {}]

(* ... while the broker's reader meets the end of the stream.              *)
ConnectionLost ==
  /\ budget.drops > 0 /\ link # 0
  /\ budget' = [budget EXCEPT !.drops = @ - 1]
  /\ \E k \in 0..Len(input) : CutTo(k)
  /\ LoseConnection
  /\ UNCHANGED <<replay, broker, owed, approval, accepted, whole>>

(* The pipe does not connect. *)
ConnectionRefused ==
  /\ budget.drops > 0 /\ Opening
  /\ budget' = [budget EXCEPT !.drops = @ - 1]
  /\ LoseConnection
  /\ UNCHANGED <<replay, broker, owed, approval, input, accepted, whole>>

(* Neovim exits and comes back with nothing: its ids start again at 1. *)
NvimRestart ==
  /\ budget.nvim > 0
  /\ budget' = [budget EXCEPT !.nvim = @ - 1]
  /\ IF link # 0 THEN \E k \in 0..Len(input) : CutTo(k) ELSE UNCHANGED input
  /\ link' = 0
  /\ output' = <<>>
  /\ client' = NewClient
  /\ model' = NewModel
  /\ whole' = TRUE
  /\ UNCHANGED <<replay, broker, owed, approval, accepted>>

(* The broker process is replaced: the replay window and its numbering     *)
(* start again, and the tasks with their approvals and answers are gone.   *)
BrokerRestart ==
  /\ budget.broker > 0
  /\ budget' = [budget EXCEPT !.broker = @ - 1]
  /\ replay' = EmptyBuffer
  /\ broker' = NewBroker
  /\ owed' = {}
  /\ approval' = [a \in Approvals |->
                    IF approval[a] = "new" THEN "new" ELSE "closed"]
  /\ input' = <<>>
  /\ accepted' = 0
  /\ whole' = (whole /\ client.last_sequence = 0)
  /\ IF link # 0 THEN LoseConnection
                 ELSE UNCHANGED <<link, output, client, model>>

Next ==
  \/ ProviderNote
  \/ \E a \in Approvals : ApprovalRequested(a) \/ ApprovalResolved(a)
  \/ \E request \in owed : TaskAnswers(request)
  \/ BrokerReads
  \/ Start
  \/ TimerFires
  \/ Connects
  \/ Call
  \/ ClientReads
  \/ ConnectionLost
  \/ ConnectionRefused
  \/ NvimRestart
  \/ BrokerRestart

Spec == Init /\ [][Next]_vars

(* The broker's loop and Neovim's event loop keep turning, the reconnect   *)
(* timer fires, and a pipe that is opened connects or is refused.  Nothing *)
(* makes providers or users act.                                           *)
Fairness ==
  /\ WF_vars(BrokerReads)
  /\ WF_vars(ClientReads)
  /\ WF_vars(TimerFires)
  /\ WF_vars(Connects)

FairSpec == Spec /\ Fairness

-----------------------------------------------------------------------------
(* Properties. *)

Events ==
  [sequence : Nat, type : {"note"}, approval : {None}]
    \cup [sequence : Nat,
          type : {"approval.requested", "approval.resolved"},
          approval : Approvals]

Messages ==
  [kind : {"event"}, event : Events]
    \cup [kind : {"response"}, id : Nat, origin : Nat]
    \cup [kind : {"initialized_result"}, id : Nat, resync : BOOLEAN,
          latest : Nat]

Items ==
  [kind : {"connected", "closed", "initialized"}, generation : Nat]
    \cup [kind : {"initialize"}, generation : Nat, id : Nat,
          last_sequence : Nat]
    \cup [kind : {"request"}, generation : Nat, id : Nat]

Registered ==
  [request : Nat \X Nat, generation : Nat, public_id : Nat, origin : Nat]

ReplayTypeOK ==
  /\ replay \in [next_sequence : Nat \ {0}, events : Seq(Events)]
  /\ Window(replay)

BrokerTypeOK ==
  /\ broker \in [phase : Phases, generation : Nat, cursor : Nat,
                 output : BOOLEAN, next_request : Nat,
                 pending : SUBSET Registered]
  /\ broker.output => broker.generation # 0
  /\ owed \subseteq Nat \X Nat
  /\ approval \in [Approvals -> {"new", "open", "denying", "closed"}]
  /\ input \in Seq(Items)
  /\ accepted \in Nat

ClientTypeOK ==
  /\ client \in [conn : [state : Connection!ClientStates, pipe : BOOLEAN,
                         timer : BOOLEAN, attempt : Nat],
                 last_sequence : Nat, next_id : Nat, pending : SUBSET Nat]
  /\ model \in [last_sequence : Nat, sequence_gap : BOOLEAN,
                pending : SUBSET Approvals]
  /\ client.last_sequence = model.last_sequence
  /\ link \in {0, accepted}
  /\ (client.conn.state \in {"negotiating", "connected"}) <=> (link # 0)
  /\ output \in Seq(Messages)
  /\ link = 0 => output = <<>>
  /\ whole \in BOOLEAN

(* The replay window stays within its capacity and without a hole, and the *)
(* cursor of client.lua never parts from the one of model.lua.             *)
TypeOK ==
  /\ ReplayTypeOK
  /\ BrokerTypeOK
  /\ ClientTypeOK

(* The broker is serving the connection the client holds. *)
Live == link # 0 /\ broker.generation = link /\ broker.phase = "Ready"

(* The events the client has been sent and has not read. *)
OnTheWay == {i \in 1..Len(output) : output[i].kind = "event"}

(* Once the handshake is over, what the client has applied and what is on  *)
(* its way continue each other without a hole, a repetition or a           *)
(* reordering up to the newest event: replay and live stream meet exactly, *)
(* whatever was published between initialize and initialized, and however  *)
(* many connections were lost before.  (Only while nothing was skipped     *)
(* since the client's baseline: see ReplayReachesLive.)                    *)
StreamContinues ==
  Live /\ whole =>
    /\ ~model.sequence_gap
    /\ {output[i].event.sequence : i \in OnTheWay}
         = model.last_sequence + 1..Latest(replay)
    /\ \A i, j \in OnTheWay :
         i < j => output[i].event.sequence < output[j].event.sequence

(* An approval the client shows is one a task still holds, and every       *)
(* approval that waits for the user is shown.  The client forgets what it  *)
(* shows with every lost connection and rebuilds it from the replay, which *)
(* starts behind what it has read: reconnecting neither resurrects an      *)
(* approval nor hides one that the agent is blocked on, because the broker *)
(* has its task deny whatever was open on the connection before.           *)
ApprovalsShown ==
  Live /\ whole /\ OnTheWay = {} =>
    /\ \A a \in model.pending : approval[a] \in {"open", "denying"}
    /\ \A a \in Approvals : approval[a] = "open" => a \in model.pending

(* An answer that reaches the client was asked for over the connection it  *)
(* arrives on, even after a Neovim restart that uses the same ids again.   *)
ResponsesAreOurs ==
  \A i \in 1..Len(output) :
    output[i].kind = "response" => output[i].origin = link

CaughtUp ==
  Live /\ output = <<>> /\ (whole => model.last_sequence = Latest(replay))

(* However connections were lost, the client in the end either waits for   *)
(* its user to call start, or is connected for good, has everything it was *)
(* sent and, unless something was skipped, everything that was published.  *)
(* It waits when it was never started, when its attempts are used up and,  *)
(* which _schedule_reconnect does not intend, when a connection was lost   *)
(* before initialize was answered or with the timer of an earlier loss     *)
(* still running: then its state is "disconnected" and the timer does      *)
(* nothing (see ClientRetries of TranscriptCache).                         *)
CatchesUp == <>[](AwaitsUser \/ CaughtUp)

(* A client that is connected and has read everything has seen the newest  *)
(* event: "The client reconnects, sends its last acknowledged sequence     *)
(* number, receives a bounded replay, and then resumes the live stream."   *)
ReplayReachesLive ==
  Live /\ output = <<>> => model.last_sequence >= Latest(replay)

(* "State transitions, results, approvals, questions, and errors are       *)
(* lossless": the client shows every approval an agent is waiting for.     *)
OpenApprovalsShown ==
  Live /\ output = <<>> =>
    \A a \in Approvals : approval[a] = "open" => a \in model.pending

=============================================================================
