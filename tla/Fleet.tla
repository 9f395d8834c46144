------------------------------- MODULE Fleet -------------------------------
(***************************************************************************)
(* The durable broker's fleet of agents (embedded.rs): how an agent is     *)
(* launched, resumed, forked, archived and how its provider session is     *)
(* deleted, which checkout and which managed lease it owns while it lives, *)
(* and what the metadata registry (registry.rs) keeps of it across a       *)
(* restart.                                                                *)
(*                                                                         *)
(* The broker is one loop: it handles one client request or one runtime    *)
(* event at a time.  Retiring an agent, handing off a lease and deleting a *)
(* session are awaited inside the handler, and every provider task goes on *)
(* meanwhile, so `handler' records how far the current request has come.   *)
(* What one agent and its task say to each other is AgentSession's; here a *)
(* turn is a prompt taken, perhaps a human request, and an end, which may  *)
(* come while the request is outstanding or amid a batch of events.        *)
(***************************************************************************)
EXTENDS Naturals, Sequences, FiniteSets

CONSTANTS
  Agents,         (* agent identifiers; a reused one stands for a fresh one *)
  Sessions,       (* provider session identifiers                           *)
  Tasks,          (* managed tasks, each with its own worktree              *)
  Directories,    (* shared places that lie outside any Git checkout        *)
  Checkouts,      (* the other shared places                                *)
  None,           (* no agent, session or task                              *)
  AllowShared,    (* the administrator's shared-checkout policy             *)
  MaxCommands,    (* capacity of the command channel (32 in spawn_agent)    *)
  MaxWork         (* bound: launches, prompts, failing calls, human         *)
                  (* requests and turns that end amid a batch, all together *)

Places == Tasks \cup Directories \cup Checkouts

ASSUME FleetAssumption ==
  /\ None \notin Agents \cup Sessions \cup Tasks \cup Places
  /\ Tasks \cap (Directories \cup Checkouts) = {}
  /\ AllowShared \in BOOLEAN
  /\ MaxCommands \in Nat \ {0}
  /\ MaxWork \in Nat

VARIABLES
  roster,    \* Broker.agents: the agents the broker lists
  agent,     \* ManagedAgent of each listed agent
  task,      \* the spawned provider task of each agent
  commands,  \* the command channel of each task
  events,    \* the event channel all tasks share
  handler,   \* the request the broker is in the middle of
  lease,     \* whether this broker holds the lease of each managed task
  session,   \* what the provider keeps of each session
  registry,  \* the agents the registry file lists
  budget     \* what is left of the bound on work

vars == <<roster, agent, task, commands, events, handler, lease, session,
          registry, budget>>

States ==
  {"Starting", "Idle", "Running", "Waiting", "Completed", "Failed",
   "Disconnected"}

(* The states in which a provider may be at work. *)
Active == {"Starting", "Running", "Waiting"}

(* The states in which a prompt is accepted and a fork may be taken: Idle, *)
(* and Completed, which also stands for Interrupted.                       *)
Ready == {"Idle", "Completed"}

Blank ==
  [state |-> "Disconnected", session |-> None, place |-> None,
   managed |-> None, live |-> FALSE, turn |-> FALSE, asks |-> 0]

NoProvider ==
  [phase |-> "none", launch |-> "start", session |-> None, reading |-> FALSE,
   asking |-> FALSE, ending |-> FALSE, overlapped |-> FALSE]

Idling ==
  [op |-> "none", step |-> "none", agent |-> None, left |-> {},
   matching |-> {}, tasks |-> {}, session |-> None]

Unlisted == [listed |-> FALSE, session |-> None, place |-> None, managed |-> None]

Init ==
  /\ roster = {}
  /\ agent = [a \in Agents |-> Blank]
  /\ task = [a \in Agents |-> NoProvider]
  /\ commands = [a \in Agents |-> <<>>]
  /\ events = <<>>
  /\ handler = Idling
  /\ lease = [t \in Tasks |-> "elsewhere"]
  /\ session = [s \in Sessions |-> "new"]
  /\ registry = [a \in Agents |-> Unlisted]
  /\ budget = MaxWork

-----------------------------------------------------------------------------
(* notify_state: every change of the roster rewrites the registry.  What   *)
(* it keeps of an agent is its identity and its place, never its work.     *)
Entry(a) ==
  [listed |-> TRUE, session |-> agent[a].session, place |-> agent[a].place,
   managed |-> agent[a].managed]

Image == [a \in Agents |-> IF a \in roster THEN Entry(a) ELSE Unlisted]

(* Mutant: notify_state is called before the change it is to save. *)
PersistEarly == registry' = Image

Persist == registry' = Image'

Remove(gone) ==
  /\ roster' = roster \ gone
  /\ agent' = [a \in Agents |-> IF a \in gone THEN Blank ELSE agent[a]]

Free == handler.op = "none"

HasRoom(a) == Len(commands[a]) < MaxCommands

Live(a) == a \in roster /\ agent[a].live

(* An identifier that nothing in the system still mentions. *)
Unused(a) ==
  /\ a \notin roster
  /\ task[a].phase = "none"
  /\ ~registry[a].listed
  /\ \A i \in 1..Len(events) : events[i].agent # a

Emit(kind, a, s) ==
  events' = Append(events, [kind |-> kind, agent |-> a, session |-> s])

Work ==
  /\ budget > 0
  /\ budget' = budget - 1

-----------------------------------------------------------------------------
(* Launching an agent. *)

(* workspace_launch_allowed: with shared checkouts disabled, only a saved  *)
(* conversation may be resumed in a directory outside Git.                 *)
PolicyAllows(launch, place) ==
  \/ place \in Tasks
  \/ AllowShared
  \/ launch = "resume" /\ place \in Directories

(* The writer check: an agent that failed or was disconnected owns nothing.*)
WriterAt(place) ==
  \E b \in Agents : /\ Live(b)
                    /\ agent[b].state \notin {"Disconnected", "Failed"}
                    /\ agent[b].place = place

(* launch_agent: list the agent as Starting and spawn its task. *)
Launch(a, launch, s, place, managed) ==
  /\ Unused(a)
  /\ Work
  /\ roster' = roster \cup {a}
  /\ agent' = [agent EXCEPT ![a] =
       [state |-> "Starting", session |-> None, place |-> place,
        managed |-> managed, live |-> TRUE, turn |-> FALSE, asks |-> 0]]
  /\ task' = [task EXCEPT ![a] =
       [NoProvider EXCEPT !.phase = "starting", !.launch = launch,
                          !.session = s]]
  /\ commands' = [commands EXCEPT ![a] = <<>>]

(* What a client may ask to open: a new session or a saved one. *)
Openings ==
  {<<"start", None>>} \cup
    {<<"resume", s>> : s \in {u \in Sessions : session[u] # "new"}}

(* start_agent and resume_agent with an explicit workspace; a worktree is  *)
(* named by its path, so it may be the worktree of a managed task.         *)
LaunchExplicit(a, opening, place) ==
  /\ Free
  /\ PolicyAllows(opening[1], place)
  /\ ~WriterAt(place)
  /\ Launch(a, opening[1], opening[2], place, None)
  /\ UNCHANGED <<events, handler, lease, session>>
  /\ Persist

(* resolve_managed_workspace refuses a task that any live agent owns. *)
TaskOwned(t) == \E b \in Agents : Live(b) /\ agent[b].managed = t

(* The lifecycle authority may grant the lease, or refuse it because       *)
(* another session of the user holds it; a refusal changes nothing here.   *)
Claimable(t) == Free /\ ~TaskOwned(t)

LaunchManaged(a, opening, t) ==
  /\ Claimable(t)
  /\ ~WriterAt(t)
  /\ lease' = [lease EXCEPT ![t] = "broker"]
  /\ Launch(a, opening[1], opening[2], t, t)
  /\ UNCHANGED <<events, handler, session>>
  /\ Persist

(* A claim whose launch is refused afterwards, by a validation or by the   *)
(* writer check, leaves the lease with the broker.                         *)
ClaimWithoutLaunch(t) ==
  /\ Claimable(t)
  /\ lease' = [lease EXCEPT ![t] = "broker"]
  /\ UNCHANGED <<roster, agent, task, commands, events, handler, session,
                 registry, budget>>

(* A claim that cannot be confirmed is handed off at once. *)
ClaimHandedBack(t) ==
  /\ Claimable(t)
  /\ lease' = [lease EXCEPT ![t] = "elsewhere"]
  /\ UNCHANGED <<roster, agent, task, commands, events, handler, session,
                 registry, budget>>

(* handoff_workspace: refused while a live agent owns the task. *)
Handoff(t) ==
  /\ Free
  /\ ~TaskOwned(t)
  /\ lease' = [lease EXCEPT ![t] = "elsewhere"]
  /\ UNCHANGED <<roster, agent, task, commands, events, handler, session,
                 registry, budget>>

-----------------------------------------------------------------------------
(* Provider tasks (runtime.rs): they run whatever the broker awaits. *)

Opened(a, s) ==
  /\ task' = [task EXCEPT ![a].phase = "open", ![a].launch = "start",
                          ![a].session = s]
  /\ Emit("started", a, s)

(* A new session, of its own or forked from a saved one. *)
TaskOpensSession(a, s) ==
  /\ task[a].phase = "starting"
  /\ \/ task[a].launch = "start"
     \/ task[a].launch = "fork" /\ session[task[a].session] = "saved"
  /\ session[s] = "new"
  /\ session' = [session EXCEPT ![s] = "saved"]
  /\ Opened(a, s)
  /\ UNCHANGED <<roster, agent, commands, handler, lease, registry, budget>>

TaskResumesSession(a) ==
  /\ task[a].phase = "starting"
  /\ task[a].launch = "resume"
  /\ session[task[a].session] = "saved"
  /\ Opened(a, task[a].session)
  /\ UNCHANGED <<roster, agent, commands, handler, lease, session, registry,
                 budget>>

(* Leaving the task's loop: whatever the provider was doing, it is asked   *)
(* to go, and the commands still waiting are never read.                   *)
Close(a, kind) ==
  /\ task' = [task EXCEPT ![a].phase = "closing", ![a].reading = FALSE,
                          ![a].ending = FALSE]
  /\ Emit(kind, a, None)
  /\ UNCHANGED <<roster, agent, commands, handler, lease, session, registry,
                 budget>>

TaskStartFails(a) == task[a].phase = "starting" /\ Close(a, "requestFailed")

(* The task listens to its provider during a turn, and answers it while it *)
(* holds a human request.                                                  *)
ProviderFails(a) ==
  /\ task[a].phase = "open"
  /\ task[a].reading \/ task[a].asking
  /\ Close(a, "providerFailed")

(* runtime_stopped: the last thing a task that was not aborted does. *)
TaskStops(a) ==
  /\ task[a].phase = "closing"
  /\ ~task[a].asking
  /\ task' = [task EXCEPT ![a] = NoProvider]
  /\ commands' = [commands EXCEPT ![a] = <<>>]
  /\ Emit("stopped", a, None)
  /\ UNCHANGED <<roster, agent, handler, lease, session, registry, budget>>

(* No command is taken before a batch of events is published to its end. *)
NextCommand(a, command) ==
  /\ task[a].phase = "open"
  /\ ~task[a].ending
  /\ commands[a] # <<>>
  /\ Head(commands[a]) = command
  /\ commands' = [commands EXCEPT ![a] = Tail(@)]

(* The provider accepts the prompt and its turn begins. *)
TaskPrompts(a) ==
  /\ NextCommand(a, "prompt")
  /\ ~task[a].reading
  /\ task' = [task EXCEPT ![a].reading = TRUE]
  /\ Emit("begun", a, None)
  /\ UNCHANGED <<roster, agent, handler, lease, session, registry, budget>>

(* The broker gives the session up when the prompt came from its queue,    *)
(* although the task goes on.                                              *)
TaskPromptFails(a) ==
  /\ NextCommand(a, "prompt")
  /\ ~task[a].reading
  /\ Emit("requestFailed", a, None) \/ Emit("providerFailed", a, None)
  /\ UNCHANGED <<roster, agent, task, handler, lease, session, registry,
                 budget>>

(* "agent already has an active turn": only a queued prompt's rejection    *)
(* changes the broker's copy.                                              *)
TaskRejectsPrompt(a) ==
  /\ NextCommand(a, "prompt")
  /\ task[a].reading
  /\ UNCHANGED events \/ Emit("providerFailed", a, None)
  /\ UNCHANGED <<roster, agent, task, handler, lease, session, registry,
                 budget>>

TaskShutsDown(a) ==
  /\ NextCommand(a, "shutdown")
  /\ task' = [task EXCEPT ![a].phase = "closing", ![a].reading = FALSE]
  /\ UNCHANGED <<roster, agent, events, handler, lease, session, registry,
                 budget>>

(* Steering, an interrupt or an answer fails at the provider: the task     *)
(* reports it and goes on.                                                 *)
TaskCallFails(a) ==
  /\ task[a].phase = "open"
  /\ task[a].reading \/ task[a].asking
  /\ ~task[a].ending
  /\ Work
  /\ Emit("requestFailed", a, None)
  /\ UNCHANGED <<roster, agent, task, commands, handler, lease, session,
                 registry>>

(* What is left of a turn may come behind its end: a human request that is *)
(* still outstanding is answered then.                                     *)
TurnEnds(a, kind) ==
  /\ task[a].reading
  /\ ~task[a].ending
  /\ task' = [task EXCEPT ![a].reading = FALSE,
       ![a].overlapped = @ \/ (kind = "completed" /\ task[a].asking)]
  /\ Emit(kind, a, None)
  /\ UNCHANGED <<roster, agent, commands, handler, lease, session, registry,
                 budget>>

TurnCompletes(a) == TurnEnds(a, "completed")

(* The task takes every error of Codex, one that Codex will retry included,*)
(* for the end of the turn and stops reading.                              *)
TurnFails(a) == TurnEnds(a, "failed")

(* A batch of events, collected while the task waited for a call's answer, *)
(* holds a turn's end amid others.  It is published to its end before the  *)
(* task takes the turn to be over (active_turn_id).                        *)
TurnEndsAmid(a, kind) ==
  /\ task[a].reading
  /\ ~task[a].ending
  /\ Work
  /\ task' = [task EXCEPT ![a].ending = TRUE, ![a].overlapped = TRUE]
  /\ Emit(kind, a, None)
  /\ UNCHANGED <<roster, agent, commands, handler, lease, session, registry>>

(* Bound: one event that counts here comes behind the turn's end. *)
BatchGoesOn(a, kind) ==
  /\ task[a].ending
  /\ kind = "asked" => ~task[a].asking
  /\ task' = [task EXCEPT ![a].reading = FALSE, ![a].ending = FALSE,
                          ![a].asking = @ \/ kind = "asked"]
  /\ Emit(kind, a, None)
  /\ UNCHANGED <<roster, agent, commands, handler, lease, session, registry,
                 budget>>

ProviderAsks(a) ==
  /\ task[a].reading
  /\ ~task[a].ending
  /\ ~task[a].asking
  /\ Work
  /\ task' = [task EXCEPT ![a].asking = TRUE]
  /\ Emit("asked", a, None)
  /\ UNCHANGED <<roster, agent, commands, handler, lease, session, registry>>

(* The client's answer, a denial at the deadline, or one on the way out. *)
AskResolved(a) ==
  /\ task[a].asking
  /\ ~task[a].ending
  /\ task' = [task EXCEPT ![a].asking = FALSE]
  /\ Emit("resolved", a, None)
  /\ UNCHANGED <<roster, agent, commands, handler, lease, session, registry,
                 budget>>

-----------------------------------------------------------------------------
(* handle_runtime_event: the broker takes the next event of any task. *)

Take(kind) ==
  /\ Free
  /\ events # <<>>
  /\ Head(events).kind = kind
  /\ events' = Tail(events)

From == Head(events).agent

(* Only a listed agent is told; the others' events change nothing here. *)
Told(record) ==
  agent' = IF From \in roster THEN [agent EXCEPT ![From] = record] ELSE agent

(* Mutant: a disconnected agent is superseded though its task still runs. *)
SupersededAlive(a, s) ==
  {b \in roster \ {a} : /\ agent[b].state = "Disconnected"
                        /\ agent[b].session = s}

(* Summaries left behind by earlier runs of the same session. *)
Superseded(a, s) ==
  {b \in roster \ {a} : /\ ~agent[b].live
                        /\ agent[b].state = "Disconnected"
                        /\ agent[b].session = s}

(* Its agent is Starting until then, so no request can have removed it.    *)
OnStarted ==
  /\ Take("started")
  /\ From \in roster
  /\ LET s    == Head(events).session
         gone == Superseded(From, s)
     IN  /\ roster' = roster \ gone
         /\ agent' = [b \in Agents |->
              IF b \in gone THEN Blank
              ELSE IF b = From THEN [agent[b] EXCEPT !.session = s,
                                                     !.state = "Idle"]
              ELSE agent[b]]
  /\ UNCHANGED <<task, commands, handler, lease, session, budget>>
  /\ Persist

(* RequestFailed with fail_agent: the agent fails and its task is asked to *)
(* stop, unless its channel is full or closed.                             *)
OnRequestFailed ==
  /\ Take("requestFailed")
  /\ Told([agent[From] EXCEPT !.state = "Failed", !.turn = FALSE])
  /\ commands' =
       IF /\ From \in roster
          /\ task[From].phase # "none"
          /\ HasRoom(From)
       THEN [commands EXCEPT ![From] = Append(@, "shutdown")]
       ELSE commands
  /\ UNCHANGED <<roster, task, handler, lease, session, budget>>
  /\ Persist

OnTurn(kind, state, turn) ==
  /\ Take(kind)
  /\ Told([agent[From] EXCEPT !.state = state, !.turn = turn])
  /\ UNCHANGED <<roster, task, commands, handler, lease, session, budget>>
  /\ Persist

OnBegun == OnTurn("begun", "Running", TRUE)

OnCompleted == OnTurn("completed", "Completed", FALSE)

OnFailed == OnTurn("failed", "Failed", FALSE)

OnAsked ==
  /\ Take("asked")
  /\ Told([agent[From] EXCEPT !.state = "Waiting", !.asks = @ + 1])
  /\ UNCHANGED <<roster, task, commands, handler, lease, session, budget>>
  /\ Persist

(* restore_waiting_state *)
Restored(a, asks) ==
  IF agent[a].state \in {"Disconnected", "Failed"} THEN agent[a].state
  ELSE IF asks > 0 THEN "Waiting"
  ELSE IF agent[a].turn THEN "Running"
  ELSE "Idle"

OnResolved ==
  /\ Take("resolved")
  /\ LET left == IF agent[From].asks > 0 THEN agent[From].asks - 1 ELSE 0
     IN  Told([agent[From] EXCEPT !.state = Restored(From, left),
                                  !.asks = left])
  /\ UNCHANGED <<roster, task, commands, handler, lease, session, budget>>
  /\ Persist

(* handle_provider_failure *)
OnProviderFailed ==
  /\ Take("providerFailed")
  /\ Told([agent[From] EXCEPT !.state = "Disconnected", !.turn = FALSE,
                               !.asks = 0])
  /\ UNCHANGED <<roster, task, commands, handler, lease, session, budget>>
  /\ Persist

OnStopped ==
  /\ Take("stopped")
  /\ Told([agent[From] EXCEPT !.state = "Disconnected", !.turn = FALSE,
                               !.live = FALSE])
  /\ UNCHANGED <<roster, task, commands, handler, lease, session, budget>>
  /\ Persist

-----------------------------------------------------------------------------
(* Requests for one agent. *)

(* Mutant: the agent becomes Running only when the provider begins. *)
MarkLater(a) == agent

MarkRunning(a) == [agent EXCEPT ![a].state = "Running"]

(* send_agent_input and dispatch_agent_input: the agent is Running from the*)
(* moment its prompt is sent, not when the provider begins.                *)
Prompt(a) ==
  /\ Free
  /\ a \in roster
  /\ agent[a].state \in Ready
  /\ Work
  /\ \/ /\ task[a].phase # "none"
        /\ HasRoom(a)
        /\ commands' = [commands EXCEPT ![a] = Append(@, "prompt")]
        /\ agent' = MarkRunning(a)
     \/ /\ task[a].phase = "none"
        /\ agent' = [agent EXCEPT ![a].state = "Disconnected"]
        /\ UNCHANGED commands
  /\ UNCHANGED <<roster, task, events, handler, lease, session>>
  /\ Persist

(* What archive_agent and provider/session/delete refuse. *)
Busy(a) == agent[a].state \in Active \/ agent[a].asks > 0

(* retire_agent is entered: Shutdown is about to be sent to `a'. *)
Retiring(op, a) == [Idling EXCEPT !.op = op, !.step = "send", !.left = {a}]

ForkBegins(a) ==
  /\ Free
  /\ a \in roster
  /\ agent[a].state \in Ready
  /\ agent[a].asks = 0
  /\ agent[a].session # None
  /\ handler' = Retiring("fork", a)
  /\ UNCHANGED <<roster, agent, task, commands, events, lease, session,
                 registry, budget>>

ArchiveBegins(a) ==
  /\ Free
  /\ a \in roster
  /\ ~Busy(a)
  /\ agent[a].live
  /\ handler' = Retiring("archive", a)
  /\ UNCHANGED <<roster, agent, task, commands, events, lease, session,
                 registry, budget>>

(* archive_agent of a summary whose task is gone. *)
ArchiveSummary(a) ==
  /\ Free
  /\ a \in roster
  /\ ~Busy(a)
  /\ ~agent[a].live
  /\ Remove({a})
  /\ UNCHANGED <<task, commands, events, handler, lease, session, budget>>
  /\ Persist

-----------------------------------------------------------------------------
(* delete_session: retire every idle agent of the session, hand their      *)
(* managed leases off, delete the session, and only then forget the agents.*)

Matching(s) == {a \in roster : agent[a].session = s}

(* What follows once the agents `left' are all that is still to retire. *)
Onward(h) ==
  [h EXCEPT !.agent = None,
            !.step = IF h.left # {} THEN "send"
                     ELSE IF h.tasks # {} THEN "handoff"
                     ELSE "check"]

DeleteBegins(s) ==
  /\ Free
  /\ session[s] # "new"
  /\ \A a \in Matching(s) : ~Busy(a)
  /\ handler' = Onward([Idling EXCEPT
       !.op = "delete", !.session = s, !.matching = Matching(s),
       !.left = {a \in Matching(s) : agent[a].live},
       !.tasks = {agent[a].managed : a \in Matching(s)} \ {None}])
  /\ UNCHANGED <<roster, agent, task, commands, events, lease, session,
                 registry, budget>>

DeleteHandsOff(t) ==
  /\ handler.step = "handoff"
  /\ t \in handler.tasks
  /\ lease' = [lease EXCEPT ![t] = "elsewhere"]
  /\ handler' = LET rest == handler.tasks \ {t}
                IN  [handler EXCEPT !.tasks = rest,
                       !.step = IF rest = {} THEN "check" ELSE "handoff"]
  /\ UNCHANGED <<roster, agent, task, commands, events, session, registry,
                 budget>>

(* Any step of the deletion may be refused; what was done stays done. *)
DeleteRefused ==
  /\ handler.step \in {"handoff", "check", "erase"}
  /\ handler' = Idling
  /\ UNCHANGED <<roster, agent, task, commands, events, lease, session,
                 registry, budget>>

(* The provider's own locks tell whether another process has it open. *)
InUse(s) ==
  \E a \in Agents : task[a].phase \in {"open", "closing"} /\ task[a].session = s

DeleteChecks ==
  /\ handler.step = "check"
  /\ session[handler.session] = "saved"
  /\ ~InUse(handler.session)
  /\ handler' = [handler EXCEPT !.step = "erase"]
  /\ UNCHANGED <<roster, agent, task, commands, events, lease, session,
                 registry, budget>>

DeleteErases ==
  /\ handler.step = "erase"
  /\ session' = [session EXCEPT ![handler.session] = "erased"]
  /\ handler' = [handler EXCEPT !.step = "forget"]
  /\ UNCHANGED <<roster, agent, task, commands, events, lease, registry,
                 budget>>

DeleteForgets ==
  /\ handler.step = "forget"
  /\ Remove(handler.matching)
  /\ handler' = Idling
  /\ UNCHANGED <<task, commands, events, lease, session, budget>>
  /\ Persist

-----------------------------------------------------------------------------
(* retire_agent: the broker waits for room in the command channel, then    *)
(* for the task to end, and aborts it after five seconds.                  *)

(* The task handle is taken before it is awaited. *)
RetireSends(a) ==
  /\ handler.step = "send"
  /\ a \in handler.left
  /\ \/ /\ task[a].phase = "none"
        /\ UNCHANGED commands
     \/ /\ task[a].phase # "none"
        /\ HasRoom(a)
        /\ commands' = [commands EXCEPT ![a] = Append(@, "shutdown")]
  /\ agent' = [agent EXCEPT ![a].live = FALSE]
  /\ handler' = [handler EXCEPT !.step = "join", !.agent = a, !.left = @ \ {a}]
  /\ UNCHANGED <<roster, task, events, lease, session, registry, budget>>

RetireTimesOut ==
  /\ handler.step = "join"
  /\ task[handler.agent].phase # "none"
  /\ task' = [task EXCEPT ![handler.agent] = NoProvider]
  /\ commands' = [commands EXCEPT ![handler.agent] = <<>>]
  /\ UNCHANGED <<roster, agent, events, handler, lease, session, registry,
                 budget>>

Retired(a) ==
  [agent[a] EXCEPT !.state = "Disconnected", !.turn = FALSE, !.asks = 0]

Joined(op) ==
  /\ handler.op = op
  /\ handler.step = "join"
  /\ task[handler.agent].phase = "none"

DeleteRetires ==
  /\ Joined("delete")
  /\ agent' = [agent EXCEPT ![handler.agent] = Retired(handler.agent)]
  /\ handler' = Onward(handler)
  /\ UNCHANGED <<roster, task, commands, events, lease, session, budget>>
  /\ Persist

ArchiveEnds ==
  /\ Joined("archive")
  /\ Remove({handler.agent})
  /\ handler' = Idling
  /\ UNCHANGED <<task, commands, events, lease, session, budget>>
  /\ Persist

(* fork_agent: the fork opens in the checkout, and under the managed lease,*)
(* of its source, which stays behind as a disconnected summary.            *)
ForkLaunches(b) ==
  /\ Joined("fork")
  /\ Unused(b)
  /\ Work
  /\ LET a == handler.agent
     IN  /\ PolicyAllows("fork", agent[a].place)
         /\ ~WriterAt(agent[a].place)
         /\ roster' = roster \cup {b}
         /\ agent' = [agent EXCEPT
              ![a] = Retired(a),
              ![b] = [Blank EXCEPT !.state = "Starting", !.live = TRUE,
                        !.place = agent[a].place,
                        !.managed = agent[a].managed]]
         /\ task' = [task EXCEPT ![b] =
              [NoProvider EXCEPT !.phase = "starting", !.launch = "fork",
                                 !.session = agent[a].session]]
         /\ commands' = [commands EXCEPT ![b] = <<>>]
  /\ handler' = Idling
  /\ UNCHANGED <<events, lease, session>>
  /\ Persist

(* The source is retired even if its fork is then refused. *)
ForkRefused ==
  /\ Joined("fork")
  /\ LET place == agent[handler.agent].place
     IN  ~PolicyAllows("fork", place) \/ WriterAt(place)
  /\ agent' = [agent EXCEPT ![handler.agent] = Retired(handler.agent)]
  /\ handler' = Idling
  /\ UNCHANGED <<roster, task, commands, events, lease, session, budget>>
  /\ Persist

-----------------------------------------------------------------------------
(* The broker process ends, by a signal or a crash, at any moment: its     *)
(* tasks and their providers go with it, its leases have no living owner,  *)
(* and the next broker lists what the registry kept.                       *)
Restart ==
  /\ roster' = {a \in Agents : registry[a].listed}
  /\ agent' = [a \in Agents |->
       [Blank EXCEPT !.session = registry[a].session,
                     !.place = registry[a].place,
                     !.managed = registry[a].managed]]
  /\ task' = [a \in Agents |-> NoProvider]
  /\ commands' = [a \in Agents |-> <<>>]
  /\ events' = <<>>
  /\ handler' = Idling
  /\ lease' = [t \in Tasks |-> "elsewhere"]
  /\ UNCHANGED <<session, registry, budget>>

-----------------------------------------------------------------------------
ClientRequest ==
  \/ \E a \in Agents, o \in Openings :
       \/ \E p \in Places : LaunchExplicit(a, o, p)
       \/ \E t \in Tasks : LaunchManaged(a, o, t)
  \/ \E t \in Tasks : ClaimWithoutLaunch(t) \/ ClaimHandedBack(t) \/ Handoff(t)
  \/ \E a \in Agents :
       Prompt(a) \/ ForkBegins(a) \/ ArchiveBegins(a) \/ ArchiveSummary(a)
  \/ \E s \in Sessions : DeleteBegins(s)

RuntimeEvent ==
  \/ OnStarted \/ OnRequestFailed \/ OnBegun \/ OnCompleted \/ OnFailed
  \/ OnAsked \/ OnResolved \/ OnProviderFailed \/ OnStopped

FinishRequest ==
  \/ \E a \in Agents : RetireSends(a) \/ ForkLaunches(a)
  \/ RetireTimesOut \/ DeleteRetires \/ ArchiveEnds \/ ForkRefused
  \/ \E t \in Tasks : DeleteHandsOff(t)
  \/ DeleteRefused \/ DeleteChecks \/ DeleteErases \/ DeleteForgets

TaskStep(a) ==
  \/ \E s \in Sessions : TaskOpensSession(a, s)
  \/ TaskResumesSession(a) \/ TaskStartFails(a)
  \/ TaskPrompts(a) \/ TaskPromptFails(a) \/ TaskRejectsPrompt(a)
  \/ TaskCallFails(a)
  \/ \E kind \in {"asked", "completed", "failed"} : BatchGoesOn(a, kind)
  \/ TaskShutsDown(a) \/ TaskStops(a) \/ AskResolved(a)

ProviderStep(a) ==
  \/ ProviderFails(a) \/ ProviderAsks(a)
  \/ TurnCompletes(a) \/ TurnFails(a)
  \/ \E kind \in {"completed", "failed"} : TurnEndsAmid(a, kind)

Next ==
  \/ ClientRequest \/ RuntimeEvent \/ FinishRequest \/ Restart
  \/ \E a \in Agents : TaskStep(a) \/ ProviderStep(a)

Spec == Init /\ [][Next]_vars

-----------------------------------------------------------------------------
EventKinds ==
  {"started", "requestFailed", "providerFailed", "stopped", "begun",
   "completed", "failed", "asked", "resolved"}

OrNone(set) == set \cup {None}

AgentRecords ==
  [state : States, session : OrNone(Sessions), place : OrNone(Places),
   managed : OrNone(Tasks), live : BOOLEAN, turn : BOOLEAN, asks : Nat]

TaskRecords ==
  [phase : {"none", "starting", "open", "closing"},
   launch : {"start", "resume", "fork"}, session : OrNone(Sessions),
   reading : BOOLEAN, asking : BOOLEAN, ending : BOOLEAN,
   overlapped : BOOLEAN]

Commands == {"prompt", "shutdown"}

Events == [kind : EventKinds, agent : Agents, session : OrNone(Sessions)]

Handlers ==
  [op : {"none", "archive", "fork", "delete"},
   step : {"none", "send", "join", "handoff", "check", "erase", "forget"},
   agent : OrNone(Agents), left : SUBSET Agents, matching : SUBSET Agents,
   tasks : SUBSET Tasks, session : OrNone(Sessions)]

Entries ==
  [listed : BOOLEAN, session : OrNone(Sessions), place : OrNone(Places),
   managed : OrNone(Tasks)]

TypeOK ==
  /\ roster \subseteq Agents
  /\ agent \in [Agents -> AgentRecords]
  /\ task \in [Agents -> TaskRecords]
  /\ commands \in [Agents -> Seq(Commands)]
  /\ \A a \in Agents : Len(commands[a]) <= MaxCommands
  /\ events \in Seq(Events)
  /\ handler \in Handlers
  /\ handler.step = "join" => handler.agent \in Agents
  /\ lease \in [Tasks -> {"broker", "elsewhere"}]
  /\ session \in [Sessions -> {"new", "saved", "erased"}]
  /\ registry \in [Agents -> Entries]
  /\ budget \in 0..MaxWork

(* No provider runs unseen: a task that has not ended belongs to a listed  *)
(* agent whose handle the broker still holds or is just awaiting.  Archive,*)
(* fork, delete, a superseded summary and a restart all remove or replace  *)
(* agents (embedded.rs:1449, 1490, 984, 2017).                             *)
RuntimesAccounted ==
  \A a \in Agents : task[a].phase # "none" =>
    /\ a \in roster
    /\ agent[a].live \/ (handler.step = "join" /\ handler.agent = a)

(* Shutdown would reach a task, told nothing of the kind before, that is   *)
(* inside a turn or has a prompt to take, of an agent that has neither     *)
(* failed nor been disconnected.                                           *)
CutsOff(a) ==
  /\ agent[a].state \notin {"Failed", "Disconnected"}
  /\ task[a].phase = "open"
  /\ \A i \in 1..Len(commands[a]) : commands[a][i] # "shutdown"
  /\ \/ task[a].reading /\ ~task[a].ending
     \/ \E i \in 1..Len(commands[a]) : commands[a][i] = "prompt"

(* A fork and an archive are refused unless the agent is idle or inactive  *)
(* (embedded.rs:1410, 1492): a request that retires an agent cuts off no   *)
(* work.  The code does not keep this.                                     *)
NoWorkCutOff == handler.step = "send" => \A a \in handler.left : ~CutsOff(a)

(* It does as long as no turn of the agent completed with a human request  *)
(* outstanding and none ended amid a batch.  The broker decides on its own *)
(* copy of the state, which the task's events reach later (embedded.rs:    *)
(* 1400, 1482, 895).                                                       *)
RetiresOnlyQuiet ==
  handler.step = "send" =>
    \A a \in handler.left : CutsOff(a) => task[a].overlapped

(* Between two requests the registry lists exactly the agents the broker   *)
(* does, so a restart neither loses an agent nor brings one back           *)
(* (embedded.rs:2313, registry.rs:132).                                    *)
RegistryCurrent == Free => registry = Image

(* A live agent's managed task is leased to this broker: "A live agent     *)
(* still owns this managed task" is why a handoff is refused               *)
(* (embedded.rs:774).                                                      *)
LeaseHeldWhileLive ==
  \A a \in Agents :
    Live(a) /\ agent[a].managed # None => lease[agent[a].managed] = "broker"

(* A provider session is open and nobody has asked it to stop. *)
Writable(a) ==
  /\ task[a].phase = "open"
  /\ \A i \in 1..Len(commands[a]) : commands[a][i] # "shutdown"

(* "A second live writable agent anywhere in that checkout is rejected"    *)
(* (m4-durable-multi-agent-runtime.md:93-94): no two agents are live in    *)
(* one checkout.                                                           *)
WritersApart ==
  \A a, b \in Agents :
    Writable(a) /\ Writable(b) /\ agent[a].place = agent[b].place => a = b

=============================================================================
