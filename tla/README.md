# A verification of agent-manager

agent-manager runs coding agents (Codex, Claude) under a broker process and shows
them in Neovim. The broker outlives the editor: agents go on while Neovim is gone,
and a client that comes back is brought up to date from a bounded window of events.
These modules state what that arrangement promises, check it with TLC on small
instances, and prove the central parts with TLAPS for every instance.

Paths are relative to `src/`; `broker/` stands for
`crates/agent-manager-broker/src/`, `lua/` for `lua/agent_manager/`, and
`worker.py` for `python/src/agent_manager_claude_worker/worker.py`.

## 1. The system

| Component | State | Operations | Talks to |
|---|---|---|---|
| Broker loop (`broker/embedded.rs`) | phase and generation of one connection, the table of agents, the table of runtime requests, the replay window | one client frame or one runtime event at a time | client over a socket, agent tasks over channels, replay, registry |
| Agent tasks (`broker/runtime.rs`: `run_codex`, `run_claude`) | active turn, pending human requests and their deadlines | prompt, steer, interrupt, history, answers, disconnect, shutdown; read the provider | broker (bounded command channel in, unbounded event channel out), provider over pipes |
| Provider clients (`broker/codex.rs`, `broker/worker.rs`) | the call awaited, messages collected meanwhile | request, respond, next message | provider process |
| Human requests (`broker/human.rs`) | none | which answer means what to which provider | agent tasks |
| Replay (`broker/replay.rs`) | at most N numbered events | push, bounds, replay after a cursor | broker loop |
| Durable service (`broker/durable.rs`, `status.rs`) | socket, generation counter | bind, accept one client at a time, read its frames | broker loop |
| Workspaces, registry (`broker/workspace.rs`, `registry.rs`) | leases of managed worktrees; saved agents | claim, hand off; load, save | broker loop |
| Framing (`broker/framing.rs`, `protocol.rs`) | the buffer of a reader, the partial line of a call | read one bounded line | provider clients, client connection |
| Transcript (`broker/transcript.rs`, `projection.rs`) | messages, lines and revision of each agent's transcript | append, patch, snapshot | broker loop, Lua model |
| Claude worker (`worker.py`, `sdk_adapter.py`) | sessions, turn tasks, steered responses, callbacks | open, start turn, steer, interrupt, close, callbacks | provider SDK, `broker/worker.rs` |
| Neovim client (`lua/client.lua`) | connection state, cursor, pending calls | start, handshake, request, reconnect | broker |
| Neovim model (`lua/model.lua`) | what the user is shown: events, approvals, transcripts | apply event, resync, apply patch | client, views |
| Views, editor, config (`lua/init.lua`, `view.lua`, ...) | buffers and windows | render, ask | model, client |
| Workflow runner (`python/src/agent_manager_workflows`, `lua/workflows.lua`) | none of its own | run, observe and control an external engine | Neovim |
| Operations, release, schemas (`ops/`, `scripts/`, `protocol/`) | files | install, package, validate | none at run time |

### Where it is hard

* **Two views of an agent.** The broker admits a request on its copy of the agent;
  the task has moved on by the time the command arrives. Turn ends, answers,
  deadlines, disconnects and provider failures overtake each other.
* **Messages during a call.** While a task awaits a reply it collects whatever
  else the provider says, and each kind of call treats the collection differently.
* **Who can still answer.** A human request must be denied once nobody can see it;
  the notice may meet a full channel, or a client that has just come back.
* **Cursor and window.** A returning client's cursor, the bounded window and the
  live stream must meet exactly, with events published between the two steps of
  the handshake.
* **Old connections.** Frames and answers of a closed connection are still in
  queues when the next one opens, and request ids start again after a restart.
* **Two accounts of a turn.** The task takes the first result for a turn's end; the
  Claude worker counts a response for every message it was steered with. Each side
  has its own deadline for a callback, and all requests share the session's lock.
* **Dropped futures.** A read that is one branch of a `select!` may be dropped
  between two chunks of a line.
* **Patches and snapshots.** The editor's copy of a transcript is built from patches
  that must follow one another, and from snapshots that were asked for earlier.
* **One loop.** The broker waits for room in an agent's channel inside the loop
  that serves everybody.

What makes each component correct: a provider never proceeds without consent; a
request is answered once and not left open; prompts start once, in order, one turn
at a time; what is shown pending is what is pending; no event is skipped without
the client knowing; an answer reaches the call that asked for it. `PROJECT.json`
lists the hazards line by line with the property that watches each.

## 2. Modules

| Module | Models |
|---|---|
| `AgentSession` | one agent: broker view, command and event channels, task, provider |
| `MCAgentSession` | the sets of client requests its runs enable |
| `Replay` | the replay window as operators on a buffer |
| `Reconnect` | client and broker across lost connections and restarts, on top of `Replay` and `ClientConnection` |
| `MCReconnect` | instances of `Reconnect` |
| `Fleet` | all agents of a durable broker: launch, resume, fork, archive, delete, checkouts, leases, registry |
| `MCFleet` | instances of `Fleet` |
| `ClaudeWorker` | a Claude agent below its task: `run_claude`, the two pipes, the Python worker, the SDK's session |
| `LineStream` | what an adapter promises of a byte stream: whole lines, in order |
| `Framing` | `read_bounded_line` over a `BufReader`; implements `LineStream` |
| `TaskReader` | `Framing` used from a `select!` that may drop a call |
| `LinePatch` | cutting and applying line-range patches |
| `Transcript` | one agent's transcript in the broker, on top of `LinePatch` |
| `MCTranscript` | the texts and histories its run uses |
| `ClientConnection` | the states of the editor's connection as operators on a record |
| `TranscriptCache` | broker transcripts, the editor's copies and what it paints, on top of `ClientConnection` |
| `SequenceFacts` | lemmas about queues |
| `AgentSessionProofs`, `ReconnectProofs`, `FleetProofs`, `FramingProofs`, `ClaudeWorkerProofs`, `TranscriptCacheProofs`, `TranscriptProofs` | theorems and their proofs |

### AgentSession

`agent` is `ManagedAgent`; `unanswered` and `queuedReqs` are
`pending_runtime_requests` and `queued_runtime_requests`; `commands` and `events`
are the two channels; `rt` is the locals of `run_codex`/`run_claude` with a program
counter that says whether the task is selecting (`loop`), awaiting a provider call
(`call`) or past its loop (`exiting`); `wire` is the provider's unread output and
`prov` the provider, which is external: it may ask, reply, end a turn or die at any
time it could. The constant `Provider` chooses the task; definitions test it where
the two functions differ.

A broker handler is one action, since the loop handles one item at a time, with one
exception: where a handler awaits room in a full command channel the model stores
the command in `sending` and no other handler runs until `FinishSend`. A task
handler is split only where it awaits the provider: `RtPrompt`, `RtSteer`,
`RtInterrupt` and `RtHistory` start a call, `RtCollect` takes what arrives
meanwhile, `RtCallReturns` and `RtCallFails` are the rest of the handler.
`HandleX` actions are the arms of `handle_runtime_event`. The callback deadline is
`RtExpire`, possible whenever a request is pending. Two histories are kept for the
properties: `started` records each prompt the task wrote, with its number and whether
the broker had queued it, and `agent.givenUp` that the broker has given the session up
while the task may go on.

Abstracted: texts, attachments, payloads, titles, timestamps, transcripts. A request
is a number, a human request a model value. Left out: startup of the provider beyond
success and failure, and contexts; retire, archive, fork and delete are `Fleet`'s.

### Replay and Reconnect

`replay` is the buffer; `broker` the connection fields of `Broker`; `input` the
queue of `ClientInput` together with unread socket bytes; `link` the generation of
the socket the client holds; `output` what is on its way to the client; `client` and
`model` the cursors and tables of `client.lua` and `model.lua`, with `client.conn` a
record of `ClientConnection`. A client that was never started, or has come to rest,
waits for its user (`AwaitsUser`, `Start`); a pipe that was opened (`Opening`)
connects or is refused; `TimerFires` is the deferred function of the reconnect timer.
Losing a connection (`LoseConnection`) cuts any tail of the unread frames and all of
`output`, fails the pending calls, and empties the model's table of approvals, as
`set_client_state` does on *disconnected* (`lua/model.lua:121`); what the client has
read it is not sent again. That a reconnected client misses no approval is the
broker's doing: its `disconnect` has the tasks deny all that is open
(`ClientGone`). A Neovim restart forgets the
client and its model; a broker restart forgets everything on the broker's side.
`accept_clients` serves one connection to its end before the next, so `connected`,
frames and `closed` of one generation are contiguous in `input`.

`whole` is a history variable: nothing has been skipped since the client's baseline
(its start, or its last resynchronisation). It turns false in exactly two steps: the
handshake in which the window overflows between `initialize` and `initialized`, and
a broker restart under a client that has a cursor. Both are among the known
divergences below.

Left out: agent-state notifications, calls answered inside the loop, frames that are
too large or malformed, `stop`; transcript patches are `TranscriptCache`'s.
The broker refuses a second `initialize`; the client never sends one.

### ClaudeWorker

`AgentSession` assumes a provider that answers each call and says when a turn ends.
For Claude that provider is a Python process, and this module takes it apart. `task`
is the locals of `run_claude` that concern the turn (`active_turn_id`, the pending
callbacks, the call it awaits and what `ClaudeWorker::request` has collected);
`toWorker` and `fromWorker` are the pipes; `worker` is `Worker` for its one session:
the request a dispatched `asyncio` task serves, whether it holds the session's lock
at the SDK (`atSdk`), the turn's task (`turn`), `_pending_responses`, the futures of
callbacks, and whether `_turn_finished` is still to be called back (`finishing`);
`sdk` is external and may ask, give a result, or die.

`TaskX` are the arms of `run_claude`'s `select!`: a call is `StartCall`, then
`TaskCollects` for whatever arrives first, then `CallSucceeds` or `CallFails`.
`WorkerAccepts` is `accept` creating a task; `XStarts` is that task getting the lock
up to its await of the SDK, `RequestDone`, `RequestRaises` and `RequestRefused` the
three ways it ends. The turn's task reads a result without the lock
(`ResultArrives`), then takes the lock to account for it (`ResponseTaken`), or fails
(`TurnRaises`, `TurnFails`). `asyncio.Lock` is first come, first served, which is why
`MayStart` lets a waiting turn go first.

`verdict`, `steered` and `dropped` are history: the task's first answer to each
callback, whether a steering message was accepted, whether a failed call took the end
of a turn with it.

Abstracted: plain messages and usage (neither side acts on them); the session's id,
since the broker runs one worker per agent and opens one session in it. The SDK's
stream ends in a result or an exception. Pipes are unbounded; a full one would block
the worker's event loop. Left out: opening, closing (the broker never sends it),
listing, history and deletion of sessions. The death of the worker process is the
provider's death of `AgentSession`.

### Framing

Bytes are positions and only newlines differ, which is all `read_bounded_line` looks
at. `fetched` and `consumed` are the two ends of the buffer, `first` the start of the
local `frame`. A call is `Call`; then each round of its loop takes a chunk up to the
newline or to the end of the buffer. `LineStream` has no buffer: it hands over a line
once it is complete. `TaskReader` adds one action, `Cancel`: the future is dropped
while `fill_buf` is pending, and the bytes it consumed are gone with it.

### Transcript

`messages`, `lines`, `revision` and `patch` are the fields of `Transcript` and the
patch its last change returned. Of a line the model keeps its length and whether it
starts with a fence run, which decides the style of the lines that follow; the inline
spans of one line are left out, as are the labels' wording. `Splice` is `splice`:
`LinePatch` says which lines old and new have in common and what the patch is.
`state` and `turn` are the agent's state and whether it has an `active_turn_id`, since
they decide which input is taken: `Prompt` and `Steer` are `record_user_input` after a
dispatch, `TurnStarted`, `Asks` and `Resolves` the events that change them. No message
event asks for either: `Delta` and `Completed` may come in any state, behind a turn's
end too, because a call publishes its whole collection
(`broker/runtime.rs:885`, `1639`), and after the broker has given the agent up, because
its task may go on. `TurnCompletes` and `TurnFails` are the two ends, `ProviderLost` a
failure without one, `ReplaceHistory` is `replace_transcript_history`. `stray` is
history: the message that streams at the end began outside a turn, or its turn was
given up without an end. The prompt queue, which the transcript is not told of, shows
only in the state a completed turn leaves; `AgentSession` has it.
A text is what `text_lines` makes of a string, which is never no lines at all; the
texts a user may send and the histories a provider may report are constants, any
texts and any histories for the theorems.

### TranscriptCache

The lines of a transcript are here the pair of the broker process that made them and
their revision; a patch applied to lines it was not cut from yields `Torn`. `cache` is
`Model.transcripts` with the patches queued for the view, `asked` is
`runtime.transcript_requests`, `waiting` is `ready_waiters`, `view` is what
`_render_conversation` remembers of its last painting. `Receive` is one message with
its callback, `Render` one run of the scheduled renderer, which asks for a transcript
it lacks. `ClientConnection` holds `client.lua`'s states, the reconnect timer and its
count; its `Lost` includes the nested call a pending `initialize` makes.

A render scheduled before a pipe's connect callback runs before it, because both wait
in the editor's one queue: that is `Connects`' conjunct on `view.dirty`. Left out: the
hidden view of the workflows mode, `stop`, protocol faults, the embedded mode's child
process, agents that come and go.

### Fleet

`roster` and `agent` are `Broker.agents`; `agent[a].live` is `ManagedAgent.task`
being there; `task`, `commands` and `events` are the provider tasks and their
channels, with a turn reduced to a prompt taken, perhaps a human request, and an end.
`TurnEnds` needs no request to be settled: an interrupted turn ends with its approval
outstanding. `TurnEndsAmid` is an end in the middle of what a call collected, whose
rest `BatchGoesOn` publishes before the task takes its next command; `task[a].ending`
says so, and `task[a].overlapped` is history, that a turn of the agent ended in one of
these two ways. A queued prompt needs no action of its own: one whose call fails may be
reported as `providerFailed`, since the broker gives the session up for it. Further,
`lease` says whether this broker holds the lease of a managed task; `session` what
the provider keeps of each session; `registry` the registry file. The worktree of a
managed task is a place like a directory or a checkout, since an explicit launch may
name its path.

A request that awaits nothing is one action (`LaunchExplicit`, `LaunchManaged`,
`Handoff`, `Prompt`, `ArchiveSummary`). Retiring an agent, handing off a lease and
deleting a session are awaited inside the handler: `ForkBegins`, `ArchiveBegins` and
`DeleteBegins` record in `handler` how far the request has come, and no other request
or event is handled until it ends, while every task and provider goes on. The steps
of a deletion are the awaits of `delete_session`: retire each live agent, hand off
each lease, check that no process has the session open, erase it, forget the agents;
`DeleteRefused` is the failure of any of the last four, after which nothing is undone.
Retiring is `RetireSends` (it awaits room in the channel), the task's own
`TaskStops` or `RetireTimesOut` (the abort after five seconds), and what the caller
does next. `OnX` actions are the arms of `handle_runtime_event`. `Restart` is the end
of the process, cleanly or not, and the load of the registry by the next one.

An agent identifier is used again once nothing mentions it, which stands for the
fresh UUID of the code. Left out: interrupts, steering, queued prompts and contexts
(`AgentSession`); the limit of one live agent in embedded mode; a failed save of the
registry; the provider a session belongs to; titles and times. A prompt to a full
channel waits in the code and is not enabled here. Another session's claim to a
lease shows only as a refusal, which changes nothing.

## 3. What TLC checks

`CHECK_DEADLOCK FALSE` everywhere: a client may stop sending, an agent may idle, a
stream may end, and the bounds run out.

| Run | Instance | States | Shows |
|---|---|---|---|
| `claude_session` | Claude, fair, 1 approval, 4 client requests (prompt, queue, interrupt, answer), no disconnect, command channel 1, prompt queue 1 | 212,000 | consent, single answers, the order of prompts, turns and counts of a session, and the four liveness properties |
| `codex_session` | Codex, 1 question, 3 requests (prompt, steer, history, answer), 1 disconnect, channel 1 | 836,000 | single answers and orphans when requests arrive inside calls |
| `claude_worker` | 2 callbacks, 3 calls (prompts, steering messages, interrupts), 1 fault of the SDK, fair | 404,000 | the worker's accounting, consent, turn ends, settled callbacks, returning calls |
| `reconnect` | window 2, 3 events per broker process, 2 calls, 2 lost or refused connections, 1 reconnect attempt, 1 Neovim and 1 broker restart, 1 approval, fair | 1.16 million | stream continuity, approvals shown, answers to their callers, catching up |
| `framing` | every stream of up to 7 bytes, limit 3, buffer 2, fair | 13,000 | whole lines, the exact limit, arrival, and the refinement of `LineStream` |
| `transcript` | 5 changes, texts of one and two lines, an empty and a three-message history | 498,000 | lines are the rendering of the messages, finished lines stay, open messages have a reason |
| `transcript_cache` | 2 agents, 4 changes, patch queue 1, 1 reconnect attempt, 2 broker processes, 1 drop, fair | 304,000 | copies without gaps, what is painted, single requests, catching up |
| `fleet` | 2 agents, 2 sessions, 1 managed task and 1 directory outside Git, shared checkouts disabled, command channel 1, 5 units of work (a launch, a prompt, a human request, a failing call, a turn that ends in the middle of a batch), restarts unbounded | 3.6 million | no provider unaccounted for, work cut off only where a turn had overlapped, the registry current |
| `queued_rejected`, `frame_torn`, `reconnect_stalls`, `steer_loses_end` | as small as shows the matter | | findings, below |

The bounds: a command channel of one (32 in the code) is full after one command, so
the awaited send, the lost `try_send` and the deferred disconnect are reached by the
second. Four requests are a prompt, a prompt queued behind it, an interrupt or answer
racing both, and a prompt after them. Disconnects come with `codex_session`; for
Claude the theorems of section 4 cover them, and every other bound. Two agents are a
live one and the summary a restart or a fork left of it, or two rivals for a place;
two sessions let one be deleted while the other lives; the directory is the place
where a resume is allowed and a fork is refused. Five units of work are two launches, a prompt that
overlaps its turn's end, a second prompt behind it and one more. A
window of two with three events can be kept, just missed, and overrun by one. Two
losses put a stale connection behind a live one and use up the one reconnect attempt
(8 in the code), and two call ids repeat after a restart.
Three calls of `claude_worker` are a prompt, one that races it, and the next turn's;
two callbacks tell an answer for one from an answer for the other; one fault is the
death of the SDK, a reopening that fails or a message that cannot be encoded. Seven
bytes are a line of the longest length, one that is a byte too long, and a rest
without a newline, and a buffer of two puts a chunk's end everywhere in them. Five
changes of a transcript open a fence, close it and finish, or are a prompt and two
steering messages, each in the middle of an answer. One
patch kept for the view (64 in the code) makes the queue overflow at the second.

The properties of `AgentSession`:

* `ConsentBeforeAllow`, `AnsweredAtMostOnce`: a provider goes ahead on a request
  only if a client said so of that request, and is answered once, whichever of the
  answer, deadline, interrupt, disconnect, automatic denial and exit comes first.
* `OrphansAreDenied`: a pending request with no client connected has a denial on its
  way, even when the notice met a full channel.
* `PromptsStartInOrder`: no prompt reaches the provider twice, prompts sent at once
  keep their order, and so do queued ones. One kind may overtake the other, which is
  what `QueuedNeverRejected`, a finding below, is about.
* `OneTurnAtATime`: whatever the broker believes, the task does not ask for a turn
  while one runs.
* `NoLostTerminal`: a task that believes a turn is active will see its end.
* `PendingCountsMatch`: the counts the broker shows are what the task holds, up to
  the events in flight, until it gives the session up. It is relied on at every turn
  end, where a count above zero cancels the queue.
* `BrokerUnblocks`, `QueuedPromptSettles`, `DeadProviderReported`, `CountsSettle`.

Those of `ClaudeWorker`:

* `ResponsesAccounted`: `_pending_responses` is what the SDK owes the turn. One too
  many and the turn's task waits for a result that never comes; one too few and a
  result is left for the next turn to take as its own.
* `AllowedByTheUser`: a tool runs only if the task's first answer to that very
  callback allowed it, whichever deadline passes first and however late the answer.
* `EndIsSeen`, `UnreadTurnWasSteered`: the task and the worker agree about the turn.
  A task that believes in one has its end still to read; a turn the worker receives is
  one the task reads. Each has an exception in its statement: a failed call may drop
  an end (`dropped`, a finding), and a steered turn outlasts its first result.
* `CallbacksSettle`, `CallsReturn`: callbacks end though nobody answers, and every
  call gets a reply, which `AgentSession`'s fairness takes for granted.

Those of `Framing`:

* `FramesAreWholeLines`, `RefusedOnlyWhenLong`: the frames cover the consumed bytes
  line by line, and the limit does not depend on where chunks end.
* `ImplementsLineStream`, `LinesArrive`: the chunked loop implements the line stream,
  and never stalls at a chunk's end.

Those of `Transcript`:

* `LinesAreTheMessages`: the lines, which only patches change, are the rendering of
  the messages, and every message's line count is right.
* `OpenStreamsWereSteered`: a message in streaming form has an input right behind it,
  or is the last one and its turn is not over. The statement names what else stays
  open (`stray`): a last message that began outside a turn, or whose turn was given up.
* `FinishedLinesStay`: nothing but a reported history repaints a finished message.

Those of `TranscriptCache`:

* `NoSilentGap`: a copy not marked stale is the broker's transcript at that revision,
  and the patches under way lead from there to its present.
* `OneRequestInFlight`: at most one request per agent is waiting, sent or answered,
  and none while the copy is good: what `NoSilentGap` needs of late snapshots.
* `ShownIsTheCopy`: what is painted is one version, and the copy's when idle.
* `CatchesUp`: the selected conversation is shown as it is once the connection stays,
  unless the client has given up at some time.

Those of `Fleet`:

* `RuntimesAccounted`: a provider task that has not ended belongs to a listed agent
  whose handle the broker holds or is just awaiting. Six different steps remove or
  replace agents, on the broker's copy of their state, and one of them leaving a task
  behind would leave a provider at work that nobody can see or stop.
* `RetiresOnlyQuiet`: an archive, fork or deletion sends `Shutdown` to a task that
  reads a turn or still has a prompt to take (`CutsOff`) only if the agent had failed
  or been told to stop, or a turn of its had overlapped: it completed with a request
  outstanding, or in the middle of a collection. Without that exception
  (`NoWorkCutOff`) the code does cut work off; see the known divergences.
* `RegistryCurrent`: between requests the registry lists exactly the broker's agents.

Those of `Reconnect`:

* `StreamContinues`: what a client has applied and what is on its way continue each
  other up to the newest event, while `whole`.
* `ApprovalsShown`: a client that has read everything shows the open approvals and
  nothing that is closed, although every lost connection empties its table and the
  replay starts behind what it has read.
* `ResponsesAreOurs`: a response answers a call of the connection it arrives on.
* `CatchesUp`: in the end the client is connected and up to date, or waits for its
  user: it was never started, its attempts are used up, or a loss before `initialize`
  was answered left it *disconnected* (finding 2).

`TypeOK` of each module
includes the limits of the queues and the shape of the window, so it can fail for a
reason other than a type. It is proved for every module that has theorems, and TLC
checks it where a mutant of a limit or a number breaks it.

Each property of a passing run has a mutant in `PROJECT.json`: a definition of the
model altered as a plausible bug would alter the code (a dropped check, a lost
notice, a cursor not reset), under which TLC finds that property violated. The
mutated definitions stand next to the originals with a comment.

### Fairness

`AgentSession`: the broker's loop and the task are `tokio` tasks that are polled
again and again, so each is weakly fair; a deadline fires; a spawned sender gets its
turn. The provider is assumed to answer a call and to end a turn it is not waiting on
a human for: the broker has no timeout on either, so `BrokerUnblocks` and
`QueuedPromptSettles` rest on it, and a provider that hangs during a call while
its channel fills stops the whole broker. Nobody is assumed to send, connect or
answer. `Reconnect`: the broker reads, the client reads, the reconnect timer fires, and
a pipe that is opened connects or is refused; that one is opened is never assumed.
Providers and users owe nothing. `ClaudeWorker`: the task and the worker run on event
loops, so each is weakly fair as a whole; the worker's timers fire; the SDK takes a
message it is handed or raises, but is not assumed to end a turn. `Framing`: the call
is polled; the child owes nothing. `TranscriptCache`: the broker answers, the editor
runs its callbacks, its timer and its scheduled render, a socket that accepts
connects. `Fleet` and `Transcript` state safety only and assume no fairness.

### Findings

Four runs show the code doing what its documentation excludes.

1. `frame_torn` (`broker/framing.rs:18`): `read_bounded_line` keeps the partial line
   in a local. `run_codex` and `run_claude` call it from a `select!` branch, and when
   a command or a deadline completes first while a line is half read, its head is lost
   and the next frame is a torn line.
2. `reconnect_stalls` (`lua/client.lua:499`): a connection lost while `initialize` is
   pending is handled twice, one inside the other. The inner handling starts the
   timer, the outer one sets the state *disconnected* and finds the timer there; when
   it fires it does nothing, since the state is not *reconnecting*. The client does
   not retry until the user acts.
3. `steer_loses_end` (`broker/runtime.rs:1409`): a steering message that meets the end
   of its turn is refused, and the result collected while the refusal was awaited goes
   with it. The task believes in a turn nobody will end.

4. `queued_rejected` (`broker/embedded.rs:2436`): an approval collected while an
   interrupt call is awaited is asked after the turn has ended interrupted, and is
   still pending when the next prompt sets the agent running. When its deadline
   resolves it, `restore_waiting_state` sets the agent idle, since no turn identity is
   known yet, and another prompt is sent ahead of one queued meanwhile. The queued
   prompt then meets the turn of that other prompt, the task rejects it, and for a
   rejected queued prompt the broker gives the session up (`broker/embedded.rs:2054`).
   It took five requests: the attempt to prove that queued prompts are never
   rejected led to it.

### Known divergences

Met while modelling, each stated by a property that no run checks or by an exception
in one that a run does.

* `AgentSession!RequestsSettle` (a human request is settled, whatever happens). The
  history of an agent read during a turn drops the events collected meanwhile
  (`broker/runtime.rs:1482`, `739`); a failed call drops its callbacks, and the
  `Shutdown` that would end the worker is lost when the channel is full
  (`broker/embedded.rs:2068`).
* `NoLostTerminal` holds without history calls: for the same reason a history read
  during a turn may drop the end of that turn.
* `PendingCountsMatch` excludes a session the broker has given up: it sets the counts
  to zero, while a task whose `Shutdown` was lost still holds its requests.
  And it holds for Claude only. An approval Codex asks for while a call
  is in flight is denied inside the call and then published without a resolution
  (`broker/codex.rs:400`): the broker counts it until the agent is gone.
* `Reconnect!ReplayReachesLive` and `OpenApprovalsShown`, the properties without
  `whole`. When more events than the window holds are published between `initialize`
  and `initialized`, nothing is replayed and no resync is asked for
  (`broker/embedded.rs:545`). A new broker process numbers from 1, and a client that
  kept its cursor drops its events as old ones (`broker/replay.rs:25`,
  `lua/model.lua:320`).
* `Fleet!LeaseHeldWhileLive`. A deletion hands off the lease of every agent it
  forgets; a summary left by a restart or a fork may carry the task of a live agent
  (`broker/embedded.rs:950`), though `handoff_workspace` refuses just that.
* `Fleet!NoWorkCutOff` (`RetiresOnlyQuiet` without `overlapped`). A turn may end
  interrupted while an approval of its is outstanding; when that is resolved behind the
  next prompt, `restore_waiting_state` sets the agent idle (`broker/embedded.rs:2436`),
  and an archive or fork sends `Shutdown` behind the accepted prompt
  (`broker/embedded.rs:1480`, `1453`). A call's collection with two ends, or an end and
  a request, does the same: the broker takes the prompt after the first, and the rest
  ends or resolves what has not begun. It is the cause of finding 4.
* `Fleet!WritersApart` (two tasks that may write to one checkout, its phase open and no
  `Shutdown` on its way). Codex reports an error it will retry; the task takes it for
  the turn's end and the agent fails (`broker/codex.rs:611`, `broker/runtime.rs:907`).
  The writer check ignores failed agents, so a second one may be launched in the
  checkout the first still writes to (`broker/embedded.rs:1222`).
* A prompt queued behind a turn is handed to the provider when the turn ends and never
  recorded (`dispatch_queued_prompt` does not call `push_user`, which records "a user
  prompt or steering message the broker dispatched", `broker/transcript.rs:118`): the
  conversation lacks it until a history is read. No property states it.
* `OpenStreamsWereSteered` names what remains. A message keeps its ellipsis
  (`broker/transcript.rs:256`) if it was steered in the middle, if its turn was given
  up without an end, or if a delta came behind its turn's end and began it: the rest of
  a collection (Claude's second answer of a steered turn, Codex going on after an error
  it retries). The last kind is closed by the next message or turn's end, unless an
  input hides it first.
* `Reconnect!CatchesUp` ends with a client that waits for its user: after
  `max_attempts` (`lua/client.lua:514`), or after the nested loss of finding 2.
* `CatchesUp` excludes a client that has given up: requests waiting for a connection
  are dropped without a call of their callback (`lua/client.lua:517`), their flag in
  `transcript_requests` stays (`lua/init.lua:1112`), and that conversation is not
  asked for again.
* `UnreadTurnWasSteered` excludes sessions that were steered. The worker goes on with
  a turn after the result the task took for its end (`broker/runtime.rs:1588`,
  `worker.py:408`): the second result ends the next prompt's turn early, or that
  prompt is refused with -32042.
* A receive loop that fails on a message it cannot encode leaves the SDK's results to
  the next turn (`sdk.left` in `ResponsesAccounted`); a session whose reopening for a
  changed effort failed stays in the table, closed, and prompts with the old effort
  fail (`worker.py`, `_prompt`).
* The worker's deadline for a callback may pass just before the broker's: an answer
  the broker reports as resolved is then ignored. `AllowedByTheUser` holds, since the
  callback was denied.

One more corner needs three agents and has no property: the late end of a turn can
turn a retired summary *completed*, and its fork does not ask whether a failed agent
that is still live owns the managed task, so two live agents may own one task.

## 4. What is proved

All theorems are of `Spec`, for every value of the constants that satisfies the
module's assumption (finite disjoint sets of human requests, natural bounds, a
positive channel capacity; a positive window capacity; for `Fleet`, disjoint sets of
managed tasks and other places).

* `AgentSessionProofs!TypeCorrect`: `[]TypeOK`. `TypeOK` is inductive as stated; the
  proof has a lemma per handler, with the helpers (`Send`, `Deny`, `Emit`,
  `DispatchQueuedPrompt`, ...) typed once.
* `AgentSessionProofs!ConsentIsNeeded`: `[]ConsentBeforeAllow`. Not inductive alone:
  an allowing command may be in the channel, or in the hands of a handler that awaits
  room. `ConsentInv` adds that every such command names a request the client has
  answered so; consent is never withdrawn, and no other action makes such a command.
* `AgentSessionProofs!AnsweredOnce`: `[]AnsweredAtMostOnce`. `OnceInv` finds a request
  in one place at a time: not issued, once in the provider's output, kept during a
  call, held in the task's map, or answered. Only a held request, and for Codex one met
  during a call, is answered, and it leaves its place with the answer; for Claude a
  kept one is still unanswered when the call returns and it is held.
* `AgentSessionProofs!OrphansDenied`: `[]OrphansAreDenied`, for both providers. All it
  needs besides is that nothing is held before the task has started or after it has
  stopped (`OrphanInv`): every step that takes a disconnect off its way is the one
  that denies what is held.
* `AgentSessionProofs!OneTurn`: `[]OneTurnAtATime`. `TurnInv` relates the task's flag,
  the call it awaits, what it has collected, what is unread and the provider's turn,
  for a provider that lives: at most one reply and one end are on their way, an end
  collected or unread means the provider's turn is over, and an inactive task has the
  acceptance of its own prompt still to read, or nothing of a turn is left anywhere.
* `AgentSessionProofs!TerminalNotLost`: `[]NoLostTerminal`, for clients that send no
  history call. `LostInv` follows the end from the provider's turn over the wire and
  the collection to the event; `GivenUpSoon` says why a call that fails, and takes the
  end with it, gives the session up: no later event can make the agent's state
  anything but failed or disconnected.
* `AgentSessionProofs!CountsAgree`: `[]PendingCountsMatch`. `CountInv` says that the
  events tell the story of each request in order, *requested* before *resolved* and
  each once, so that the requests the broker shows are exactly those held or settled
  in an event on its way, less those it has yet to be asked; the counts are the sizes
  of that set. The counting of events by `Cardinality` follows at the end.
* `AgentSessionProofs!PromptsInOrder`: `[]PromptsStartInOrder`, for both providers.
  `OrderInv`: a request's number is in one place, the queue, the channel, a handler's
  hands, a call, an answer, or `started`, so it is spent once; a prompt in the channel
  that was sent at once is newer than all started before it of its kind, and one that
  waited is older than all that still wait.
* `ReconnectProofs!ReconnectTypeCorrect`: `[]TypeOK`, the window's shape included:
  `PushKeepsTheWindow` says that a push keeps at most `Capacity` events, numbered
  without a hole up to the newest.
* `ReconnectProofs!AnswersReachTheirCaller`: `[]ResponsesAreOurs`. The invariant
  follows a call from its frame through the table of runtime requests: the recorded
  generation is the one of the connection that asked, and generations never repeat
  within a broker process.
* `ReconnectProofs!ReplayMeetsLive`: `[]StreamContinues`. `StreamInv` describes the
  handshake half-way: nothing is streamed early, the one answer to `initialize`
  carries the cursor the broker kept, an acknowledgement is sent only after that
  answer, and a client that missed nothing is never ahead of the broker.
  `EventsAfterContinue` then shows that a replay without resync is exactly
  cursor + 1 .. newest.
* `ReconnectProofs!ApprovalsFollow`: `[]ApprovalsShown`. `Blocks` describes the queue
  of client inputs, one connection's items after another's. `Told` says that the
  retained events, and those on their way, tell an approval's end after its beginning,
  and `Copied` that what is on its way is retained or older than all that is. Then for
  a client that missed nothing each approval it shows wrongly is about to be hidden
  (`WillHide`: the end is on its way, or will be replayed, or the replay will be
  refused), and each open one is shown or about to be (`WillShow`). `Followed`
  adds why the emptied table does no harm: an approval is open only while a client is
  ready, so none is once the broker has read the `closed` of the lost connection, and a
  client the broker does not serve shows nothing.
* `FleetProofs!FleetTypeCorrect`: `[]TypeOK`, for any number of agents, sessions,
  tasks and places. It needs that the agent of a request awaiting a task exists, which
  `TypeOK` says.
* `FleetProofs!FleetAccountsForRuntimes`: `[]RuntimesAccounted`. Not inductive: a
  `stopped` event clears its agent's handle, and forgetting a deleted session removes
  agents without looking at their tasks. `FleetInv` adds `StoppedMeansGone`, that an
  agent whose `stopped` is still to be read has no task, and `RetiredSoFar`, which of
  a deletion's agents have been retired at each of its steps; both rest on an
  identifier not being launched again while anything mentions it.
* `FleetProofs!FleetRegistryCurrent`: `[]RegistryCurrent`, from the stronger `Saved`:
  the registry is current in the middle of a request too, since what a retirement
  changes before it saves is not kept there. That is why a deletion refused part way
  needs no save.

* `FleetProofs!FleetRetiresOnlyQuiet`: `[]RetiresOnlyQuiet`. `TaleInv` tells of each
  agent that is not failed or stopping what is true of a turn from the prompt in the
  channel, through the task that reads it, to the event of its end: there is one at a
  time, and until the broker has taken that event the agent's state is an active one,
  which a retirement does not choose; all this while no turn of the agent overlapped. A request the task could not serve always
  finds its channel empty, so the task it fails is always told to stop.
* `FramingProofs!TypeCorrect`, `WholeLines`, `LimitIsExact`: `[]TypeOK`,
  `[]FramesAreWholeLines` and `[]RefusedOnlyWhenLong`, for every stream, limit and
  buffer. The invariant says where the pending call stands: the frames handed over end
  just before its first byte, and what it holds has no newline and is within the limit.
* `FramingProofs!Refinement`: `Spec => Lines!Spec`. A round of the loop that finds no
  newline is a stutter of the line stream; the others are its deliveries, its refusal
  and its end.
* `ClaudeWorkerProofs!WorkerTypeCorrect`: `[]TypeOK`, for any finite set of callbacks.
* `ClaudeWorkerProofs!WorkerCountsResponses`: `[]ResponsesAccounted`, from `CountInv`:
  a turn has responses to come exactly while it lasts, and a request at the SDK keeps
  the lock, so that the turn cannot end under a steering message.
* `ClaudeWorkerProofs!WorkerAllowsWhatTheUserDid`: `[]AllowedByTheUser`. `CallbackInv`
  follows a callback's request through the pipe, the collection of a call and the
  task's table: it is in one of them at a time, so it is answered once, and an allowing
  frame on its way says what the first answer said.
* `ClaudeWorkerProofs!WorkerEndIsSeen` and `WorkerTurnIsRead`: `[]EndIsSeen` and
  `[]UnreadTurnWasSteered`. Both rest on `CallInv`, that there is one call at a time
  (its frame, its task in the worker, or its reply), on `EndInv`, that the end of a
  turn the task knows of, or is about to be told of, is being received, in the pipe or
  in the collection, and on `UnsteeredInv`, that an unsteered turn has one end, which
  comes after the reply that starts it.
* `TranscriptCacheProofs!CacheTypeCorrect`, `CacheHasNoSilentGap`, `CacheOneRequest`,
  `CacheShowsTheCopy`: the four safety invariants of `TranscriptCache`, for any agents,
  limits and bounds. None is inductive alone: the types need the attempts counted
  (`GaveUp`). `LinkInv` says that nothing
  is sent, streamed or kept but on a connection, where `initialized` comes first, so a
  change the broker does not stream is missed by nobody. `OneInv` finds each agent's
  request in one of three places at a time. `GapInv` says of the copy, and of every
  snapshot on its way, that the patches behind it lead to the broker's revision;
  `LeadsToTheChange`, `LeadsByThePatch` and `LeadsFromTail` carry it along the stream.
  `PatchesFollow` and `PaintInv` then tie the queue of patches and what is painted to
  the copy's revision, which is what `_render_conversation` compares.
* `TranscriptProofs!TrimmedPatchIsTheEdit` and `PatchEndsDiffer`: what
  `Transcript::splice` trims is what need not change, for every transcript and
  replacement: the trimmed patch leads to the same lines, and where it replaces lines
  its first and last ones differ.
* `TranscriptProofs!TranscriptTypeCorrect`, `LinesFollow`, `StreamsWereSteered`,
  `FinishedStay`: the three invariants of `Transcript` and its action property, for
  any texts, histories and bounds. `TranscriptInv` says that the lines are the
  messages' and every message's count is right, that an open stream is an
  assistant's and has an input behind it or is last and open by right of `turn` or
  `stray`, and that the revision is in bounds. No case of the proof rests on the state
  an event arrives in, since the code does not look at it.
  A message starts where the counts before it end, which is why a `Splice` there is
  the edit the method means. Lines and counts are a concatenation (`FlattenSeq`) and a
  sum (`FoldSeq`), both recursive: `NatSetInduction` proves induction over a set of
  natural numbers from the well-foundedness of <, and with it the functions these
  operators choose are shown to exist and to join (`Joins`, `Flatten` and `Sums`
  lemmas), and the sum, whose definition picks its elements in any order, not to depend
  on that order.
* `SequenceFacts` holds what these proofs need of queues: the elements of a tail, an
  append, a part, and when a queue is ordered by a relation.

Assumptions on constants beyond finite sets and bounds: the user's texts and the
texts of a reported history have at least one line, which `text_lines` gives them by
`split`.

Only model-checked are the nine liveness properties (`BrokerUnblocks`,
`QueuedPromptSettles`, `DeadProviderReported`, `CountsSettle`, `CatchesUp` twice,
`LinesArrive`, `CallbacksSettle`, `CallsReturn`), since fairness and ENABLED are out of
the prover's reach, and the four properties the findings violate. Every invariant and
action property of a passing run is stated by a theorem.
Induction over data is limited to sets, as above: the induction theorems of the
library take an operator, which no prover here can instantiate. So `Transcript` speaks
of the positions of messages with a role rather than of `SelectSeq`, which the prover
does not know.

## 5. Plan

Next, in this order:

1. `Registry`: the crash steps of an atomic save (`broker/registry.rs:161`) under
   `Fleet`'s saves, and two durable services that find the same stale socket
   (`broker/durable.rs:213`). `Fleet` takes a save for one step that does not fail.
2. `AgentSession` with `ClaudeWorker` in the place of its provider for Claude: the
   two meet today in what one assumes and the other is shown to do (`EndIsSeen`,
   `CallsReturn`).
3. Theorems: a step of `ClaudeWorker` is one `AgentSession` allows its task and
   provider; `Reconnect` implements the lossless stream below while `whole`; the lines of
   `Transcript` behind a revision are what `TranscriptCache` takes a version for.

Abstract specifications worth stating next: a lossless stream with a cursor, which
`Reconnect` implements while `whole`; a request that is open, then answered once,
which `AgentSession` implements.

## 6. Not modelled, and why

The other views and the editor integration render the model in one thread. The inline
Markdown of a line and `projection.rs` are conversions of data without state, and so
are the SDK's message encoding and `protocol.rs`. Socket ownership, service units,
installation and release are file-system operations. The workflow runner drives an
external engine through subprocesses. The provider schemas are data. The broker's
embedded mode (no durable service, one client for the life of the process) differs in
exiting with its client and in allowing one live agent; the durable mode is modelled.
Deletion looks at the locks of an external provider, whose own check is not ours to
model.
