----------------------------- MODULE FleetProofs -----------------------------
(***************************************************************************)
(* Theorems about Fleet, for any agents, sessions, tasks and places.       *)
(***************************************************************************)
EXTENDS Fleet, SequenceFacts, TLAPS

(* The states of an agent, by name.                                        *)
LEMMA StateNames ==
  /\ "Starting" \in States /\ "Idle" \in States /\ "Running" \in States
  /\ "Waiting" \in States /\ "Completed" \in States /\ "Failed" \in States
  /\ "Disconnected" \in States
BY DEF States

(* An empty record and an idle handler are well typed.                     *)
LEMMA BlankType ==
  /\ Blank \in AgentRecords /\ NoProvider \in TaskRecords
  /\ Idling \in Handlers /\ Idling.step = "none"
BY DEF Blank, AgentRecords, States, NoProvider, TaskRecords, Idling, Handlers,
       OrNone

(* What notify_state saves has the registry's shape, whatever the agents.  *)
LEMMA PersistType ==
  ASSUME agent' \in [Agents -> AgentRecords], Persist
  PROVE  registry' \in [Agents -> Entries]
<1>1. \A a \in Agents : Entry(a)' \in Entries
  BY DEF Entry, Entries, AgentRecords
<1>2. Unlisted \in Entries
  BY DEF Unlisted, Entries, OrNone
<1> QED
  BY <1>1, <1>2 DEF Persist, Image

(* A command is added to a channel only when there is room.                *)
LEMMA CommandType ==
  ASSUME TypeOK, NEW a \in Agents, HasRoom(a), NEW c \in Commands
  PROVE  LET next == [commands EXCEPT ![a] = Append(@, c)]
         IN  /\ next \in [Agents -> Seq(Commands)]
             /\ \A b \in Agents : Len(next[b]) <= MaxCommands
<1>1. commands[a] \in Seq(Commands)
  BY DEF TypeOK
<1>2. Append(commands[a], c) \in Seq(Commands)
      /\ Len(Append(commands[a], c)) <= MaxCommands
  <2>1. Len(commands[a]) \in Nat /\ MaxCommands \in Nat
    BY <1>1, LenType, FleetAssumption
  <2> QED
    BY <1>1, <2>1, AppendType DEF HasRoom
<1> QED
  BY <1>2 DEF TypeOK

(* A channel is emptied, or its first command taken.                       *)
LEMMA FewerCommandsType ==
  ASSUME TypeOK, NEW a \in Agents
  PROVE  /\ [commands EXCEPT ![a] = <<>>] \in [Agents -> Seq(Commands)]
         /\ \A b \in Agents : Len([commands EXCEPT ![a] = <<>>][b]) <= MaxCommands
         /\ commands[a] # <<>> =>
              /\ [commands EXCEPT ![a] = Tail(@)] \in [Agents -> Seq(Commands)]
              /\ \A b \in Agents :
                   Len([commands EXCEPT ![a] = Tail(@)][b]) <= MaxCommands
<1>1. commands[a] \in Seq(Commands) /\ MaxCommands \in Nat
  BY FleetAssumption DEF TypeOK
<1>2. <<>> \in Seq(Commands) /\ Len(<<>>) <= MaxCommands
  BY <1>1, EmptyType
<1>3. ASSUME commands[a] # <<>>
      PROVE  Tail(commands[a]) \in Seq(Commands)
             /\ Len(Tail(commands[a])) <= MaxCommands
  <2>1. Len(commands[a]) \in Nat /\ Len(commands[a]) <= MaxCommands
    BY <1>1, LenType DEF TypeOK
  <2> QED
    BY <1>1, <1>3, <2>1, TailType
<1> QED
  BY <1>2, <1>3 DEF TypeOK

(* An event of a task is one the broker understands.                       *)
LEMMA EmitType ==
  ASSUME TypeOK, NEW kind \in EventKinds, NEW a \in Agents,
         NEW s \in OrNone(Sessions), Emit(kind, a, s)
  PROVE  events' \in Seq(Events)
<1>1. [kind |-> kind, agent |-> a, session |-> s] \in Events
  BY DEF Events
<1> QED
  BY <1>1, AppendType DEF Emit, TypeOK

(* The event the broker takes.                                             *)
LEMMA TakeType ==
  ASSUME TypeOK, NEW kind, Take(kind)
  PROVE  /\ events' \in Seq(Events)
         /\ From \in Agents
         /\ Head(events).session \in OrNone(Sessions)
<1>1. events \in Seq(Events) /\ events # <<>>
  BY DEF TypeOK, Take
<1>2. Head(events) \in Events
  BY <1>1, TailType
<1> QED
  BY <1>1, <1>2, TailType DEF Take, From, Events

(* A client's request, and what launching and retiring an agent do, keep   *)
(* the types (start, resume, fork, archive, delete, prompt, handoff).      *)
LEMMA RequestType ==
  ASSUME TypeOK, ClientRequest
  PROVE  TypeOK'
<1> USE DEF OrNone
<1>1. ASSUME NEW a \in Agents, NEW launch \in {"start", "resume", "fork"},
             NEW s \in OrNone(Sessions), NEW p \in Places,
             NEW t \in OrNone(Tasks), Launch(a, launch, s, p, t)
      PROVE  /\ roster' \subseteq Agents
             /\ agent' \in [Agents -> AgentRecords]
             /\ task' \in [Agents -> TaskRecords]
             /\ commands' \in [Agents -> Seq(Commands)]
             /\ \A b \in Agents : Len(commands'[b]) <= MaxCommands
             /\ budget' \in 0..MaxWork
  <2>1. roster' \subseteq Agents /\ agent' \in [Agents -> AgentRecords]
    BY <1>1 DEF TypeOK, Launch, AgentRecords, States
  <2>2. task' \in [Agents -> TaskRecords]
    BY <1>1 DEF TypeOK, Launch, TaskRecords, NoProvider
  <2>3. commands' = [commands EXCEPT ![a] = <<>>]
    BY <1>1 DEF Launch
  <2>4. budget' \in 0..MaxWork
    BY <1>1, FleetAssumption DEF Launch, Work, TypeOK
  <2> QED
    BY <2>1, <2>2, <2>3, <2>4, FewerCommandsType
<1>2. ASSUME NEW o \in Openings
      PROVE  o[1] \in {"start", "resume", "fork"} /\ o[2] \in OrNone(Sessions)
  BY <1>2 DEF Openings
<1>3. ASSUME NEW a \in Agents, NEW o \in Openings, NEW p \in Places,
             LaunchExplicit(a, o, p)
      PROVE  TypeOK'
  <2>1. Launch(a, o[1], o[2], p, None) /\ Persist
    BY <1>3 DEF LaunchExplicit
  <2>2. UNCHANGED <<events, handler, lease, session>>
    BY <1>3 DEF LaunchExplicit
  <2> QED
    BY <1>1, <1>2, <2>1, <2>2, PersistType DEF TypeOK
<1>4. ASSUME NEW a \in Agents, NEW o \in Openings, NEW t \in Tasks,
             LaunchManaged(a, o, t)
      PROVE  TypeOK'
  <2>1. Launch(a, o[1], o[2], t, t) /\ Persist /\ t \in Places
    BY <1>4 DEF LaunchManaged, Places
  <2>2. /\ UNCHANGED <<events, handler, session>>
        /\ lease' \in [Tasks -> {"broker", "elsewhere"}]
    BY <1>4 DEF LaunchManaged, TypeOK
  <2> QED
    BY <1>1, <1>2, <2>1, <2>2, PersistType DEF TypeOK
<1>5. ASSUME NEW t \in Tasks,
             ClaimWithoutLaunch(t) \/ ClaimHandedBack(t) \/ Handoff(t)
      PROVE  TypeOK'
  BY <1>5 DEF TypeOK, ClaimWithoutLaunch, ClaimHandedBack, Handoff
<1>6. ASSUME NEW a \in Agents, Prompt(a)
      PROVE  TypeOK'
  <2>1. /\ UNCHANGED <<roster, task, events, handler, lease, session>>
        /\ budget' \in 0..MaxWork /\ Persist
    BY <1>6, FleetAssumption DEF Prompt, Work, TypeOK
  <2>3. agent' \in [Agents -> AgentRecords]
    <3>1. \A st \in States :
            [agent EXCEPT ![a].state = st] \in [Agents -> AgentRecords]
      BY DEF TypeOK, AgentRecords
    <3>2. "Running" \in States /\ "Disconnected" \in States
      BY DEF States
    <3>3. \/ agent' = [agent EXCEPT ![a].state = "Running"]
          \/ agent' = [agent EXCEPT ![a].state = "Disconnected"]
      BY <1>6 DEF Prompt, MarkRunning
    <3> QED
      BY <3>1, <3>2, <3>3
  <2>2. /\ commands' \in [Agents -> Seq(Commands)]
        /\ \A b \in Agents : Len(commands'[b]) <= MaxCommands
    <3>1. \/ HasRoom(a) /\ commands' = [commands EXCEPT ![a] = Append(@, "prompt")]
          \/ UNCHANGED commands
      BY <1>6 DEF Prompt
    <3>2. CASE HasRoom(a) /\ commands' = [commands EXCEPT ![a] = Append(@, "prompt")]
      BY <3>2, CommandType DEF Commands
    <3>3. CASE UNCHANGED commands
      BY <3>3 DEF TypeOK
    <3> QED
      BY <3>1, <3>2, <3>3
  <2>4. registry' \in [Agents -> Entries]
    BY <2>1, <2>3, PersistType
  <2> QED
    BY <2>1, <2>2, <2>3, <2>4 DEF TypeOK
<1>7. ASSUME NEW a \in Agents, ForkBegins(a) \/ ArchiveBegins(a)
      PROVE  TypeOK'
  <2>1. \A op \in {"fork", "archive"} :
          Retiring(op, a) \in Handlers /\ Retiring(op, a).step # "join"
    BY DEF Retiring, Idling, Handlers
  <2>2. handler' \in Handlers /\ handler'.step # "join"
    BY <1>7, <2>1 DEF ForkBegins, ArchiveBegins
  <2> QED
    BY <1>7, <2>2 DEF TypeOK, ForkBegins, ArchiveBegins
<1>8. ASSUME NEW a \in Agents, ArchiveSummary(a)
      PROVE  TypeOK'
  <2>1. roster' \subseteq Agents /\ agent' \in [Agents -> AgentRecords]
    BY <1>8 DEF TypeOK, ArchiveSummary, Remove, Blank, AgentRecords, States
  <2> QED
    BY <1>8, <2>1, PersistType DEF TypeOK, ArchiveSummary
<1>9. ASSUME NEW s \in Sessions, DeleteBegins(s)
      PROVE  TypeOK'
  <2>1. /\ Matching(s) \in SUBSET Agents
        /\ {a \in Matching(s) : agent[a].live} \in SUBSET Agents
        /\ {agent[a].managed : a \in Matching(s)} \ {None} \in SUBSET Tasks
    BY DEF TypeOK, Matching, AgentRecords
  <2>2. handler' \in Handlers /\ handler'.step # "join"
    BY <1>9, <2>1 DEF DeleteBegins, Onward, Idling, Handlers
  <2> QED
    BY <1>9, <2>2 DEF TypeOK, DeleteBegins
<1> QED
  BY <1>3, <1>4, <1>5, <1>6, <1>7, <1>8, <1>9 DEF ClientRequest

(* Every event of a task the broker handles keeps the types.               *)
LEMMA EventType ==
  ASSUME TypeOK, RuntimeEvent
  PROVE  TypeOK'
<1>1. ASSUME NEW kind, Take(kind), NEW record \in AgentRecords, Told(record)
      PROVE  agent' \in [Agents -> AgentRecords]
  BY <1>1, TakeType DEF TypeOK, Told
<1>2. ASSUME NEW kind, Take(kind), agent' \in [Agents -> AgentRecords],
             UNCHANGED <<roster, task, commands, handler, lease, session,
                         budget>>, Persist
      PROVE  TypeOK'
  <2>1. events' \in Seq(Events) /\ registry' \in [Agents -> Entries]
    BY <1>2, TakeType, PersistType
  <2> QED
    BY <1>2, <2>1 DEF TypeOK
<1>3. ASSUME NEW kind, Take(kind)
      PROVE  agent[From] \in AgentRecords
  BY <1>3, TakeType DEF TypeOK
<1>4. CASE OnStarted
  <2>1. /\ Take("started") /\ Persist
        /\ UNCHANGED <<task, commands, handler, lease, session, budget>>
    BY <1>4 DEF OnStarted
  <2>2. roster' \subseteq Agents
    BY <1>4 DEF OnStarted, TypeOK
  <2>3. agent' \in [Agents -> AgentRecords]
    <3>1. Blank \in AgentRecords
      BY BlankType
    <3>2. Head(events).session \in OrNone(Sessions)
      BY <2>1, TakeType
    <3>3. \A b \in Agents :
            [agent[b] EXCEPT !.session = Head(events).session, !.state = "Idle"]
              \in AgentRecords
      <4>1. \A s \in OrNone(Sessions), b \in Agents :
              [agent[b] EXCEPT !.session = s, !.state = "Idle"] \in AgentRecords
        BY StateNames DEF TypeOK, AgentRecords
      <4> QED
        BY <3>2, <4>1
    <3> QED
      BY <1>4, <3>1, <3>3 DEF OnStarted, TypeOK
  <2>4. events' \in Seq(Events) /\ registry' \in [Agents -> Entries]
    BY <2>1, <2>3, TakeType, PersistType
  <2> QED
    BY <2>1, <2>2, <2>3, <2>4 DEF TypeOK
<1>5. CASE OnRequestFailed
  <2>1. /\ Take("requestFailed") /\ Persist
        /\ UNCHANGED <<roster, task, handler, lease, session, budget>>
    BY <1>5 DEF OnRequestFailed
  <2>2. [agent[From] EXCEPT !.state = "Failed", !.turn = FALSE] \in AgentRecords
    BY <1>3, <2>1, StateNames DEF AgentRecords
  <2>3. agent' \in [Agents -> AgentRecords]
    BY <1>1, <1>5, <2>1, <2>2 DEF OnRequestFailed
  <2>4. /\ commands' \in [Agents -> Seq(Commands)]
        /\ \A b \in Agents : Len(commands'[b]) <= MaxCommands
    <3>1. \/ /\ HasRoom(From)
             /\ commands' = [commands EXCEPT ![From] = Append(@, "shutdown")]
          \/ UNCHANGED commands
      BY <1>5 DEF OnRequestFailed
    <3>2. CASE /\ HasRoom(From)
               /\ commands' = [commands EXCEPT ![From] = Append(@, "shutdown")]
      BY <2>1, <3>2, TakeType, CommandType DEF Commands
    <3>3. CASE UNCHANGED commands
      BY <3>3 DEF TypeOK
    <3> QED
      BY <3>1, <3>2, <3>3
  <2>5. events' \in Seq(Events) /\ registry' \in [Agents -> Entries]
    BY <2>1, <2>3, TakeType, PersistType
  <2> QED
    BY <2>1, <2>3, <2>4, <2>5 DEF TypeOK
<1>6. ASSUME NEW kind, NEW state \in States, NEW turn \in BOOLEAN,
             OnTurn(kind, state, turn)
      PROVE  TypeOK'
  <2>1. Take(kind)
    BY <1>6 DEF OnTurn
  <2>2. [agent[From] EXCEPT !.state = state, !.turn = turn] \in AgentRecords
    BY <1>3, <2>1 DEF AgentRecords
  <2> QED
    BY <1>1, <1>2, <1>6, <2>1, <2>2 DEF OnTurn
<1>7. CASE OnAsked
  <2>1. Take("asked")
    BY <1>7 DEF OnAsked
  <2>2. [agent[From] EXCEPT !.state = "Waiting", !.asks = @ + 1] \in AgentRecords
    <3>1. agent[From].asks + 1 \in Nat
      BY <1>3, <2>1 DEF AgentRecords
    <3>2. \A n \in Nat :
            [agent[From] EXCEPT !.state = "Waiting", !.asks = n] \in AgentRecords
      BY <1>3, <2>1, StateNames DEF AgentRecords
    <3> QED
      BY <3>1, <3>2
  <2> QED
    BY <1>1, <1>2, <1>7, <2>1, <2>2 DEF OnAsked
<1>8. CASE OnResolved
  <2>1. Take("resolved")
    BY <1>8 DEF OnResolved
  <2>2. \A n \in Nat : [agent[From] EXCEPT !.state = Restored(From, n), !.asks = n]
                       \in AgentRecords
    BY <1>3, <2>1 DEF AgentRecords, States, Restored
  <2>3. (IF agent[From].asks > 0 THEN agent[From].asks - 1 ELSE 0) \in Nat
    BY <1>3, <2>1 DEF AgentRecords
  <2> DEFINE left == IF agent[From].asks > 0 THEN agent[From].asks - 1 ELSE 0
  <2>4. Told([agent[From] EXCEPT !.state = Restored(From, left), !.asks = left])
    BY <1>8 DEF OnResolved
  <2> QED
    BY <1>1, <1>2, <1>8, <2>1, <2>2, <2>3, <2>4 DEF OnResolved
<1>9. CASE OnProviderFailed
  <2>1. Take("providerFailed")
    BY <1>9 DEF OnProviderFailed
  <2>2. [agent[From] EXCEPT !.state = "Disconnected", !.turn = FALSE, !.asks = 0]
          \in AgentRecords
    BY <1>3, <2>1, StateNames DEF AgentRecords
  <2> QED
    BY <1>1, <1>2, <1>9, <2>1, <2>2 DEF OnProviderFailed
<1>10. CASE OnStopped
  <2>1. Take("stopped")
    BY <1>10 DEF OnStopped
  <2>2. [agent[From] EXCEPT !.state = "Disconnected", !.turn = FALSE, !.live = FALSE]
          \in AgentRecords
    BY <1>3, <2>1, StateNames DEF AgentRecords
  <2> QED
    BY <1>1, <1>2, <1>10, <2>1, <2>2 DEF OnStopped
<1>11. {"Running", "Completed", "Failed"} \subseteq States
  BY DEF States
<1> QED
  BY <1>4, <1>5, <1>6, <1>7, <1>8, <1>9, <1>10, <1>11
  DEF RuntimeEvent, OnBegun, OnCompleted, OnFailed

(* What completes a request that awaits something keeps the types.         *)
LEMMA FinishType ==
  ASSUME TypeOK, FinishRequest
  PROVE  TypeOK'
<1>1. Blank \in AgentRecords /\ Idling \in Handlers /\ Idling.step = "none"
  BY BlankType
<1>2. \A a \in Agents : Retired(a) \in AgentRecords
  BY StateNames DEF TypeOK, Retired, AgentRecords
<1>3. ASSUME NEW a \in Agents, RetireSends(a)
      PROVE  TypeOK'
  <2>1. /\ commands' \in [Agents -> Seq(Commands)]
        /\ \A b \in Agents : Len(commands'[b]) <= MaxCommands
    <3>1. \/ UNCHANGED commands
          \/ HasRoom(a) /\ commands' = [commands EXCEPT ![a] = Append(@, "shutdown")]
      BY <1>3 DEF RetireSends
    <3>2. CASE HasRoom(a) /\ commands' = [commands EXCEPT ![a] = Append(@, "shutdown")]
      BY <3>2, CommandType DEF Commands
    <3>3. CASE UNCHANGED commands
      BY <3>3 DEF TypeOK
    <3> QED
      BY <3>1, <3>2, <3>3
  <2>2. agent' \in [Agents -> AgentRecords]
    <3>1. agent' = [agent EXCEPT ![a].live = FALSE]
      BY <1>3 DEF RetireSends
    <3> QED
      BY <3>1 DEF TypeOK, AgentRecords
  <2>3. handler' \in Handlers /\ handler'.agent \in Agents
    <3>1. handler' = [handler EXCEPT !.step = "join", !.agent = a,
                                     !.left = @ \ {a}]
      BY <1>3 DEF RetireSends
    <3>2. handler \in Handlers
      BY DEF TypeOK
    <3> QED
      BY <3>1, <3>2 DEF Handlers, OrNone
  <2> QED
    BY <1>3, <2>1, <2>2, <2>3 DEF RetireSends, TypeOK
<1>4. CASE RetireTimesOut
  <2>1. handler.agent \in Agents
    BY <1>4 DEF RetireTimesOut, TypeOK
  <2>2. commands' = [commands EXCEPT ![handler.agent] = <<>>]
    BY <1>4 DEF RetireTimesOut
  <2>3. /\ commands' \in [Agents -> Seq(Commands)]
        /\ \A b \in Agents : Len(commands'[b]) <= MaxCommands
    BY <2>1, <2>2, FewerCommandsType
  <2>4. task' \in [Agents -> TaskRecords]
    BY <1>4, BlankType DEF RetireTimesOut, TypeOK
  <2> QED
    BY <1>4, <2>3, <2>4 DEF RetireTimesOut, TypeOK
<1>5. CASE DeleteRetires
  <2>1. agent' \in [Agents -> AgentRecords]
    BY <1>2, <1>5 DEF DeleteRetires, Joined, TypeOK
  <2>2. handler' \in Handlers /\ handler'.step # "join"
    <3>1. handler' = Onward(handler) /\ handler \in Handlers
      BY <1>5 DEF DeleteRetires, TypeOK
    <3> QED
      BY <3>1 DEF Onward, Handlers, OrNone
  <2>3. registry' \in [Agents -> Entries]
    BY <1>5, <2>1, PersistType DEF DeleteRetires
  <2> QED
    BY <1>5, <2>1, <2>2, <2>3 DEF DeleteRetires, TypeOK
<1>6. CASE ArchiveEnds
  <2>1. roster' \subseteq Agents /\ agent' \in [Agents -> AgentRecords]
    BY <1>1, <1>6 DEF ArchiveEnds, Remove, TypeOK
  <2>2. registry' \in [Agents -> Entries]
    BY <1>6, <2>1, PersistType DEF ArchiveEnds
  <2> QED
    BY <1>1, <1>6, <2>1, <2>2 DEF ArchiveEnds, TypeOK
<1>7. ASSUME NEW b \in Agents, ForkLaunches(b)
      PROVE  TypeOK'
  <2>1. handler.agent \in Agents /\ agent[handler.agent] \in AgentRecords
    BY <1>7 DEF ForkLaunches, Joined, TypeOK
  <2>2. [Blank EXCEPT !.state = "Starting", !.live = TRUE,
                      !.place = agent[handler.agent].place,
                      !.managed = agent[handler.agent].managed] \in AgentRecords
    BY <1>1, <2>1 DEF AgentRecords, States
  <2>3. roster' \subseteq Agents /\ agent' \in [Agents -> AgentRecords]
    BY <1>2, <1>7, <2>1, <2>2 DEF ForkLaunches, TypeOK
  <2>4. task' \in [Agents -> TaskRecords]
    <3>1. [NoProvider EXCEPT !.phase = "starting", !.launch = "fork",
                             !.session = agent[handler.agent].session]
            \in TaskRecords
      BY <2>1 DEF NoProvider, TaskRecords, AgentRecords
    <3> QED
      BY <1>7, <3>1 DEF ForkLaunches, TypeOK
  <2>5. commands' = [commands EXCEPT ![b] = <<>>]
    BY <1>7 DEF ForkLaunches
  <2>6. /\ commands' \in [Agents -> Seq(Commands)]
        /\ \A c \in Agents : Len(commands'[c]) <= MaxCommands
    BY <2>5, FewerCommandsType
  <2>7. registry' \in [Agents -> Entries]
    BY <1>7, <2>3, PersistType DEF ForkLaunches
  <2>8. /\ handler' = Idling /\ UNCHANGED <<events, lease, session>>
        /\ budget' \in 0..MaxWork
    BY <1>7, FleetAssumption DEF ForkLaunches, Work, TypeOK
  <2> QED
    BY <1>1, <2>3, <2>4, <2>6, <2>7, <2>8 DEF TypeOK
<1>8. CASE ForkRefused
  <2>1. agent' \in [Agents -> AgentRecords]
    BY <1>2, <1>8 DEF ForkRefused, Joined, TypeOK
  <2>2. registry' \in [Agents -> Entries]
    BY <1>8, <2>1, PersistType DEF ForkRefused
  <2> QED
    BY <1>1, <1>8, <2>1, <2>2 DEF ForkRefused, TypeOK
<1>9. ASSUME NEW t \in Tasks, DeleteHandsOff(t)
      PROVE  TypeOK'
  <2>1. handler' \in Handlers /\ handler'.step # "join"
    BY <1>9 DEF DeleteHandsOff, TypeOK, Handlers
  <2> QED
    BY <1>9, <2>1 DEF DeleteHandsOff, TypeOK
<1>10. CASE DeleteRefused
  BY <1>1, <1>10 DEF DeleteRefused, TypeOK
<1>11. CASE DeleteChecks
  BY <1>11 DEF DeleteChecks, TypeOK, Handlers
<1>12. CASE DeleteErases
  <2>1. handler' \in Handlers /\ handler'.step # "join"
    BY <1>12 DEF DeleteErases, TypeOK, Handlers
  <2> QED
    BY <1>12, <2>1 DEF DeleteErases, TypeOK
<1>13. CASE DeleteForgets
  <2>1. roster' \subseteq Agents /\ agent' \in [Agents -> AgentRecords]
    BY <1>1, <1>13 DEF DeleteForgets, Remove, TypeOK
  <2>2. registry' \in [Agents -> Entries]
    BY <1>13, <2>1, PersistType DEF DeleteForgets
  <2> QED
    BY <1>1, <1>13, <2>1, <2>2 DEF DeleteForgets, TypeOK
<1> QED
  BY <1>3, <1>4, <1>5, <1>6, <1>7, <1>8, <1>9, <1>10, <1>11, <1>12, <1>13
  DEF FinishRequest

(* The provider tasks and their providers keep the types.                  *)
LEMMA TaskType ==
  ASSUME TypeOK, NEW a \in Agents, TaskStep(a) \/ ProviderStep(a)
  PROVE  TypeOK'
<1>1. task[a] \in TaskRecords
  BY DEF TypeOK
<1>2. \A k \in {"none", "starting", "open", "closing"}, r, e, q \in BOOLEAN :
        /\ [task EXCEPT ![a].phase = k, ![a].reading = r]
             \in [Agents -> TaskRecords]
        /\ [task EXCEPT ![a].phase = k, ![a].reading = r, ![a].ending = e]
             \in [Agents -> TaskRecords]
        /\ [task EXCEPT ![a].reading = r] \in [Agents -> TaskRecords]
        /\ [task EXCEPT ![a].asking = q] \in [Agents -> TaskRecords]
  <2> USE <1>1 DEF TypeOK, TaskRecords
  <2>1. \A k \in {"none", "starting", "open", "closing"}, r \in BOOLEAN :
          [task EXCEPT ![a].phase = k, ![a].reading = r] \in [Agents -> TaskRecords]
    OBVIOUS
  <2>2. \A k \in {"none", "starting", "open", "closing"}, r, e \in BOOLEAN :
          [task EXCEPT ![a].phase = k, ![a].reading = r, ![a].ending = e]
            \in [Agents -> TaskRecords]
    OBVIOUS
  <2>3. \A r \in BOOLEAN : [task EXCEPT ![a].reading = r] \in [Agents -> TaskRecords]
    OBVIOUS
  <2>4. \A q \in BOOLEAN : [task EXCEPT ![a].asking = q] \in [Agents -> TaskRecords]
    OBVIOUS
  <2> QED
    BY ONLY <2>1, <2>2, <2>3, <2>4
<1>3. None \in OrNone(Sessions)
  BY DEF OrNone
<1>4. \A kind \in EventKinds :
        Emit(kind, a, None) => events' \in Seq(Events)
  BY <1>3, EmitType
<1> USE DEF EventKinds
<1>5. ASSUME NEW s \in OrNone(Sessions), Opened(a, s)
      PROVE  task' \in [Agents -> TaskRecords] /\ events' \in Seq(Events)
  <2>1. task' = [task EXCEPT ![a].phase = "open", ![a].launch = "start",
                             ![a].session = s]
    BY <1>5 DEF Opened
  <2>2. task' \in [Agents -> TaskRecords]
    BY <1>1, <2>1 DEF TypeOK, TaskRecords
  <2> QED
    BY <1>5, <2>2, EmitType DEF Opened
<1>6. ASSUME NEW s \in Sessions, TaskOpensSession(a, s)
      PROVE  TypeOK'
  <2>1. session' \in [Sessions -> {"new", "saved", "erased"}]
    BY <1>6 DEF TaskOpensSession, TypeOK
  <2>2. s \in OrNone(Sessions)
    BY DEF OrNone
  <2> QED
    BY <1>5, <1>6, <2>1, <2>2 DEF TaskOpensSession, TypeOK
<1>7. CASE TaskResumesSession(a)
  <2>1. task[a].session \in OrNone(Sessions)
    BY <1>1 DEF TaskRecords
  <2> QED
    BY <1>5, <1>7, <2>1 DEF TaskResumesSession, TypeOK
<1>8. ASSUME NEW kind \in EventKinds, Close(a, kind)
      PROVE  TypeOK'
  BY <1>2, <1>4, <1>8 DEF Close, TypeOK
<1>9. CASE TaskStartFails(a) \/ ProviderFails(a)
  BY <1>8, <1>9 DEF TaskStartFails, ProviderFails
<1>10. CASE TaskStops(a)
  <2>1. commands' = [commands EXCEPT ![a] = <<>>]
    BY <1>10 DEF TaskStops
  <2>2. /\ commands' \in [Agents -> Seq(Commands)]
        /\ \A b \in Agents : Len(commands'[b]) <= MaxCommands
    BY <2>1, FewerCommandsType
  <2>3. task' \in [Agents -> TaskRecords]
    BY <1>10, BlankType DEF TaskStops, TypeOK
  <2> QED
    BY <1>4, <1>10, <2>2, <2>3 DEF TaskStops, TypeOK
<1>11. ASSUME NEW c \in Commands, NextCommand(a, c)
       PROVE  /\ commands' \in [Agents -> Seq(Commands)]
              /\ \A b \in Agents : Len(commands'[b]) <= MaxCommands
  <2>1. commands' = [commands EXCEPT ![a] = Tail(@)] /\ commands[a] # <<>>
    BY <1>11 DEF NextCommand
  <2> QED
    BY <2>1, FewerCommandsType
<1>12. "prompt" \in Commands /\ "shutdown" \in Commands
  BY DEF Commands
<1>13. CASE TaskPrompts(a)
  BY <1>2, <1>4, <1>11, <1>12, <1>13 DEF TaskPrompts, TypeOK
<1>14. CASE TaskPromptFails(a) \/ TaskRejectsPrompt(a)
  BY <1>4, <1>11, <1>12, <1>14 DEF TaskPromptFails, TaskRejectsPrompt, TypeOK
<1>15. CASE TaskShutsDown(a)
  BY <1>2, <1>11, <1>12, <1>15 DEF TaskShutsDown, TypeOK
<1>16. Work => budget' \in 0..MaxWork
  BY FleetAssumption DEF Work, TypeOK
<1>17. CASE TaskCallFails(a)
  BY <1>4, <1>16, <1>17 DEF TaskCallFails, TypeOK
<1>18. ASSUME NEW kind \in {"completed", "failed"}, TurnEnds(a, kind)
       PROVE  TypeOK'
  <2>1. task' \in [Agents -> TaskRecords]
    BY <1>1, <1>18 DEF TurnEnds, TypeOK, TaskRecords
  <2> QED
    BY <1>4, <1>18, <2>1 DEF TurnEnds, TypeOK
<1>19. CASE TurnCompletes(a) \/ TurnFails(a)
  BY <1>18, <1>19 DEF TurnCompletes, TurnFails
<1>20. CASE ProviderAsks(a)
  BY <1>2, <1>4, <1>16, <1>20 DEF ProviderAsks, TypeOK
<1>21. CASE AskResolved(a)
  BY <1>2, <1>4, <1>21 DEF AskResolved, TypeOK
<1>22. ASSUME NEW kind \in {"completed", "failed"}, TurnEndsAmid(a, kind)
       PROVE  TypeOK'
  <2>1. task' \in [Agents -> TaskRecords]
    BY <1>1, <1>22 DEF TurnEndsAmid, TypeOK, TaskRecords
  <2> QED
    BY <1>4, <1>16, <1>22, <2>1 DEF TurnEndsAmid, TypeOK
<1>23. ASSUME NEW kind \in {"asked", "completed", "failed"}, BatchGoesOn(a, kind)
       PROVE  TypeOK'
  <2>1. task' \in [Agents -> TaskRecords]
    BY <1>1, <1>23 DEF BatchGoesOn, TypeOK, TaskRecords
  <2> QED
    BY <1>4, <1>23, <2>1 DEF BatchGoesOn, TypeOK
<1> QED
  BY <1>6, <1>7, <1>9, <1>10, <1>13, <1>14, <1>15, <1>17, <1>19, <1>20, <1>21,
     <1>22, <1>23 DEF TaskStep, ProviderStep

(* What a restarted broker reads from the registry is well typed.          *)
LEMMA RestartType ==
  ASSUME TypeOK, Restart
  PROVE  TypeOK'
<1>1. roster' \subseteq Agents
  BY DEF Restart
<1>2. agent' \in [Agents -> AgentRecords]
  <2>1. \A a \in Agents : registry[a] \in Entries
    BY DEF TypeOK
  <2>2. \A e \in Entries :
          [Blank EXCEPT !.session = e.session, !.place = e.place,
                        !.managed = e.managed] \in AgentRecords
    BY BlankType DEF AgentRecords, Entries
  <2> QED
    BY <2>1, <2>2 DEF Restart
<1>3. task' \in [Agents -> TaskRecords]
  BY BlankType DEF Restart
<1>4. /\ commands' \in [Agents -> Seq(Commands)]
      /\ \A a \in Agents : Len(commands'[a]) <= MaxCommands
  <2>1. << >> \in Seq(Commands) /\ Len(<< >>) <= MaxCommands
    BY EmptyType, FleetAssumption
  <2> QED
    BY <2>1 DEF Restart
<1>5. events' \in Seq(Events)
  BY EmptyType DEF Restart
<1>6. lease' \in [Tasks -> {"broker", "elsewhere"}]
  BY DEF Restart
<1> QED
  BY <1>1, <1>2, <1>3, <1>4, <1>5, <1>6, BlankType DEF Restart, TypeOK

(* Every step of the fleet keeps the types.                                *)
LEMMA NextType == TypeOK /\ [Next]_vars => TypeOK'
<1> SUFFICES ASSUME TypeOK, [Next]_vars PROVE TypeOK'
  OBVIOUS
<1>1. CASE Next
  BY <1>1, RequestType, EventType, FinishType, TaskType, RestartType DEF Next
<1>2. CASE UNCHANGED vars
  BY <1>2 DEF vars, TypeOK
<1> QED
  BY <1>1, <1>2

(* A broker without agents is well typed (Broker::new).                    *)
LEMMA InitType ==
  ASSUME Init
  PROVE  TypeOK
<1>1. agent \in [Agents -> AgentRecords] /\ task \in [Agents -> TaskRecords]
  BY BlankType DEF Init
<1>2. /\ commands \in [Agents -> Seq(Commands)]
      /\ \A a \in Agents : Len(commands[a]) <= MaxCommands
      /\ events \in Seq(Events)
  BY EmptyType, FleetAssumption DEF Init
<1>3. registry \in [Agents -> Entries]
  BY DEF Init, Unlisted, Entries, OrNone
<1> QED
  BY <1>1, <1>2, <1>3, BlankType, FleetAssumption DEF Init, TypeOK

(* Every reachable state of the fleet is well typed: the broker's table,   *)
(* the channels and their capacity, the request in hand, the leases and    *)
(* the registry (embedded.rs, registry.rs).                                *)
THEOREM FleetTypeCorrect == Spec => []TypeOK
<1>1. Init => TypeOK
  BY InitType
<1> QED
  BY <1>1, NextType, PTL DEF Spec

-----------------------------------------------------------------------------
(* RuntimesAccounted is not inductive: a stopped event clears the handle   *)
(* of its agent, and forgetting a deleted session removes agents, so both  *)
(* must be known to come after the task's end.                             *)

(* A task that said it stopped is gone. *)
StoppedMeansGone ==
  \A i \in 1..Len(events) :
    events[i].kind = "stopped" => task[events[i].agent].phase = "none"

(* Which agents of a deleted session are known to have been retired.       *)
RetiredSoFar ==
  /\ Free => handler.step = "none"
  /\ handler.step \in {"handoff", "check", "erase", "forget"} =>
       \A a \in handler.matching : ~agent[a].live
  /\ handler.op = "delete" /\ handler.step \in {"send", "join"} =>
       \A a \in handler.matching \ handler.left : ~agent[a].live

FleetInv == TypeOK /\ RuntimesAccounted /\ StoppedMeansGone /\ RetiredSoFar

(* When no request is being finished, every task's handle is held.         *)
LEMMA HeldWhenFree ==
  ASSUME FleetInv, Free, NEW a \in Agents, task[a].phase # "none"
  PROVE  a \in roster /\ agent[a].live
BY DEF FleetInv, RuntimesAccounted, RetiredSoFar

(* Whose events wait in the channel.                                       *)
LEMMA EventAgents ==
  ASSUME TypeOK
  PROVE  /\ events \in Seq(Events)
         /\ \A i \in 1..Len(events) : events[i].agent \in Agents
<1>1. events \in Seq(Events)
  BY DEF TypeOK
<1>2. \A i \in 1..Len(events) : events[i] \in Events
  BY <1>1
<1> QED
  BY <1>1, <1>2 DEF Events

(* A step that adds no stopped event and revives no task keeps the events  *)
(* truthful.                                                               *)
LEMMA StillGone ==
  ASSUME FleetInv,
         \/ UNCHANGED events
         \/ events # <<>> /\ events' = Tail(events),
         \A a \in Agents : task[a].phase = "none" => task'[a].phase = "none"
  PROVE  StoppedMeansGone'
<1>1. events \in Seq(Events) /\ \A i \in 1..Len(events) : events[i].agent \in Agents
  BY EventAgents DEF FleetInv
<1>2. CASE UNCHANGED events
  BY <1>1, <1>2 DEF FleetInv, StoppedMeansGone
<1>3. CASE events # <<>> /\ events' = Tail(events)
  <2>1. /\ Len(events) \in Nat \ {0} /\ Len(events') = Len(events) - 1
        /\ \A i \in 1..Len(events') : events'[i] = events[i + 1]
    BY <1>1, <1>3, TailElements
  <2>2. \A i \in 1..Len(events') : i + 1 \in 1..Len(events)
    BY <2>1
  <2> QED
    BY <1>1, <2>1, <2>2 DEF FleetInv, StoppedMeansGone
<1> QED
  BY <1>2, <1>3

(* The same for a step of a task that emits an event. *)
LEMMA StillGoneEmit ==
  ASSUME FleetInv, NEW a \in Agents, NEW kind \in EventKinds,
         NEW s \in OrNone(Sessions), Emit(kind, a, s),
         \A b \in Agents : task[b].phase = "none" => task'[b].phase = "none",
         kind = "stopped" => task'[a].phase = "none"
  PROVE  StoppedMeansGone'
<1> DEFINE e == [kind |-> kind, agent |-> a, session |-> s]
<1>1. events \in Seq(Events) /\ \A i \in 1..Len(events) : events[i].agent \in Agents
  BY EventAgents DEF FleetInv
<1>2. e \in Events
  BY DEF Events
<1>3. /\ Len(events) \in Nat /\ Len(events') = Len(events) + 1
      /\ events'[Len(events) + 1] = e
      /\ \A i \in 1..Len(events) : events'[i] = events[i]
  BY <1>1, <1>2, AppendElements DEF Emit
<1>4. \A i \in 1..Len(events') : i = Len(events) + 1 \/ i \in 1..Len(events)
  BY <1>3
<1> QED
  BY <1>1, <1>3, <1>4 DEF FleetInv, StoppedMeansGone

(* Launching an agent under an unused identifier keeps every runtime       *)
(* accounted for (launch_agent draws a new identifier).                    *)
LEMMA LaunchAccounted ==
  ASSUME FleetInv, NEW a \in Agents, Unused(a), UNCHANGED events,
         roster' = roster \cup {a}, agent'[a].live,
         \A b \in Agents \ {a} : /\ agent'[b].live = agent[b].live
                                 /\ task'[b] = task[b],
         \A b \in Agents : task[b].phase # "none" => agent[b].live
  PROVE  RuntimesAccounted' /\ StoppedMeansGone'
<1>1. RuntimesAccounted'
  BY DEF FleetInv, RuntimesAccounted
<1>2. events \in Seq(Events) /\ \A i \in 1..Len(events) : events[i].agent \in Agents
  BY EventAgents DEF FleetInv
<1>3. StoppedMeansGone'
  BY <1>2 DEF FleetInv, StoppedMeansGone, Unused
<1> QED
  BY <1>1, <1>3

(* A client's request accounts for every runtime.                          *)
LEMMA RequestAccounted ==
  ASSUME FleetInv, ClientRequest
  PROVE  RuntimesAccounted' /\ StoppedMeansGone' /\ RetiredSoFar'
<1> USE DEF FleetInv
<1>1. Free
  BY DEF ClientRequest, LaunchExplicit, LaunchManaged, Claimable,
         ClaimWithoutLaunch, ClaimHandedBack, Handoff, Prompt, ForkBegins,
         ArchiveBegins, ArchiveSummary, DeleteBegins
<1>2. handler.step = "none"
  BY <1>1 DEF RetiredSoFar
<1>3. \A b \in Agents : task[b].phase # "none" => b \in roster /\ agent[b].live
  BY <1>1, HeldWhenFree
<1>4. ASSUME NEW a \in Agents, NEW launch, NEW s, NEW p, NEW t,
             Launch(a, launch, s, p, t), UNCHANGED <<events, handler>>
      PROVE  RuntimesAccounted' /\ StoppedMeansGone' /\ RetiredSoFar'
  <2>1. Unused(a) /\ roster' = roster \cup {a} /\ agent'[a].live
    BY <1>4 DEF Launch, TypeOK
  <2>2. \A b \in Agents \ {a} : agent'[b] = agent[b] /\ task'[b] = task[b]
    BY <1>4 DEF Launch, TypeOK
  <2>3. RetiredSoFar'
    BY <1>1, <1>2, <1>4 DEF RetiredSoFar, Free
  <2> QED
    BY <1>3, <1>4, <2>1, <2>2, <2>3, LaunchAccounted
<1>5. ASSUME NEW a \in Agents, NEW o, NEW p,
             LaunchExplicit(a, o, p) \/ LaunchManaged(a, o, p)
      PROVE  RuntimesAccounted' /\ StoppedMeansGone' /\ RetiredSoFar'
  BY <1>4, <1>5 DEF LaunchExplicit, LaunchManaged
<1>6. ASSUME NEW t,
             ClaimWithoutLaunch(t) \/ ClaimHandedBack(t) \/ Handoff(t)
      PROVE  RuntimesAccounted' /\ StoppedMeansGone' /\ RetiredSoFar'
  BY <1>6 DEF ClaimWithoutLaunch, ClaimHandedBack, Handoff, RuntimesAccounted,
              StoppedMeansGone, RetiredSoFar, Free
<1>7. ASSUME NEW a \in Agents, Prompt(a)
      PROVE  RuntimesAccounted' /\ StoppedMeansGone' /\ RetiredSoFar'
  <2>1. /\ UNCHANGED <<roster, task, events, handler>>
        /\ \A b \in Agents : agent'[b].live = agent[b].live
    BY <1>7 DEF Prompt, MarkRunning, TypeOK, AgentRecords
  <2> QED
    BY <1>1, <1>2, <2>1 DEF RuntimesAccounted, StoppedMeansGone, RetiredSoFar,
                            Free
<1>8. ASSUME NEW a \in Agents, ForkBegins(a) \/ ArchiveBegins(a)
      PROVE  RuntimesAccounted' /\ StoppedMeansGone' /\ RetiredSoFar'
  <2>1. /\ UNCHANGED <<roster, agent, task, events>>
        /\ handler'.op \in {"fork", "archive"} /\ handler'.step = "send"
    BY <1>8 DEF ForkBegins, ArchiveBegins, Retiring, Idling
  <2> QED
    BY <1>3, <2>1 DEF RuntimesAccounted, StoppedMeansGone, RetiredSoFar, Free
<1>9. ASSUME NEW a \in Agents, ArchiveSummary(a)
      PROVE  RuntimesAccounted' /\ StoppedMeansGone' /\ RetiredSoFar'
  <2>1. /\ UNCHANGED <<task, events, handler>>
        /\ roster' = roster \ {a} /\ ~agent[a].live
        /\ \A b \in Agents \ {a} : agent'[b] = agent[b]
    BY <1>9 DEF ArchiveSummary, Remove
  <2> QED
    BY <1>1, <1>2, <1>3, <2>1 DEF RuntimesAccounted, StoppedMeansGone,
                                  RetiredSoFar, Free
<1>10. ASSUME NEW s, DeleteBegins(s)
       PROVE  RuntimesAccounted' /\ StoppedMeansGone' /\ RetiredSoFar'
  <2>1. UNCHANGED <<roster, agent, task, events>>
    BY <1>10 DEF DeleteBegins
  <2>2. /\ handler'.op = "delete"
        /\ handler'.matching = Matching(s)
        /\ handler'.left = {a \in Matching(s) : agent[a].live}
        /\ handler'.step \in {"send", "handoff", "check"}
        /\ handler'.step # "send" => handler'.left = {}
    BY <1>10 DEF DeleteBegins, Onward, Idling
  <2> QED
    BY <1>3, <2>1, <2>2 DEF RuntimesAccounted, StoppedMeansGone, RetiredSoFar,
                            Free
<1> QED
  BY <1>5, <1>6, <1>7, <1>8, <1>9, <1>10 DEF ClientRequest

(* An event accounts for every runtime: only the one that says a task has  *)
(* stopped clears a handle, and only a superseded summary is removed.      *)
LEMMA EventAccounted ==
  ASSUME FleetInv, RuntimeEvent
  PROVE  RuntimesAccounted' /\ StoppedMeansGone' /\ RetiredSoFar'
<1> USE DEF FleetInv
<1>1. PICK kind : Take(kind)
  BY DEF RuntimeEvent, OnStarted, OnRequestFailed, OnBegun, OnCompleted,
         OnFailed, OnTurn, OnAsked, OnResolved, OnProviderFailed, OnStopped
<1>2. /\ Free /\ events # <<>> /\ events' = Tail(events)
      /\ From \in Agents /\ agent[From] \in AgentRecords
  BY <1>1, TakeType DEF Take, TypeOK
<1>3. UNCHANGED <<task, handler>>
  BY DEF RuntimeEvent, OnStarted, OnRequestFailed, OnBegun, OnCompleted,
         OnFailed, OnTurn, OnAsked, OnResolved, OnProviderFailed, OnStopped
<1>4. StoppedMeansGone'
  BY <1>2, <1>3, StillGone
<1>5. RetiredSoFar'
  BY <1>2, <1>3 DEF RetiredSoFar, Free
<1>6. \A b \in Agents : task[b].phase # "none" => b \in roster /\ agent[b].live
  BY <1>2, HeldWhenFree
<1>7. ASSUME NEW record, Told(record), roster' = roster,
             record.live = agent[From].live \/ task[From].phase = "none"
      PROVE  RuntimesAccounted'
  <2>1. \A b \in Agents : agent'[b].live = agent[b].live \/ task[b].phase = "none"
    BY <1>2, <1>7 DEF Told, TypeOK
  <2> QED
    BY <1>3, <1>6, <1>7, <2>1 DEF RuntimesAccounted
<1>8. CASE OnStarted
  <2> DEFINE gone == Superseded(From, Head(events).session)
  <2>1. roster' = roster \ gone
    BY <1>8 DEF OnStarted
  <2>2. \A b \in Agents : b \notin gone => agent'[b].live = agent[b].live
    BY <1>2, <1>8 DEF OnStarted, TypeOK, AgentRecords
  <2>3. \A b \in gone : ~agent[b].live
    BY DEF Superseded
  <2> HIDE DEF gone
  <2>4. \A b \in Agents : task[b].phase # "none" => b \notin gone
    BY <1>6, <2>3
  <2> QED
    BY <1>3, <1>4, <1>5, <1>6, <2>1, <2>2, <2>4 DEF RuntimesAccounted
<1>9. CASE OnRequestFailed
  <2> DEFINE record == [agent[From] EXCEPT !.state = "Failed", !.turn = FALSE]
  <2>1. Told(record) /\ roster' = roster
    BY <1>9 DEF OnRequestFailed
  <2>2. record.live = agent[From].live
    BY <1>2 DEF AgentRecords
  <2> QED
    BY <1>4, <1>5, <1>7, <2>1, <2>2
<1>10. ASSUME NEW k, NEW state, NEW turn, OnTurn(k, state, turn)
       PROVE  RuntimesAccounted'
  <2> DEFINE record == [agent[From] EXCEPT !.state = state, !.turn = turn]
  <2>1. Told(record) /\ roster' = roster
    BY <1>10 DEF OnTurn
  <2>2. record.live = agent[From].live
    BY <1>2 DEF AgentRecords
  <2> QED
    BY <1>4, <1>5, <1>7, <2>1, <2>2
<1>11. CASE OnAsked
  <2> DEFINE record == [agent[From] EXCEPT !.state = "Waiting", !.asks = @ + 1]
  <2>1. Told(record) /\ roster' = roster
    BY <1>11 DEF OnAsked
  <2>2. record.live = agent[From].live
    BY <1>2 DEF AgentRecords
  <2> QED
    BY <1>4, <1>5, <1>7, <2>1, <2>2
<1>12. CASE OnResolved
  <2> DEFINE left == IF agent[From].asks > 0 THEN agent[From].asks - 1 ELSE 0
             record == [agent[From] EXCEPT !.state = Restored(From, left),
                                           !.asks = left]
  <2>1. Told(record) /\ roster' = roster
    BY <1>12 DEF OnResolved
  <2>2. record.live = agent[From].live
    BY <1>2 DEF AgentRecords
  <2> QED
    BY <1>4, <1>5, <1>7, <2>1, <2>2
<1>13. CASE OnProviderFailed
  <2> DEFINE record == [agent[From] EXCEPT !.state = "Disconnected",
                                           !.turn = FALSE, !.asks = 0]
  <2>1. Told(record) /\ roster' = roster
    BY <1>13 DEF OnProviderFailed
  <2>2. record.live = agent[From].live
    BY <1>2 DEF AgentRecords
  <2> QED
    BY <1>4, <1>5, <1>7, <2>1, <2>2
<1>14. CASE OnStopped
  <2> DEFINE record == [agent[From] EXCEPT !.state = "Disconnected",
                                           !.turn = FALSE, !.live = FALSE]
  <2>1. Head(events).kind = "stopped" /\ Told(record) /\ roster' = roster
    BY <1>14 DEF OnStopped, Take
  <2>2. Len(events) \in Nat \ {0} /\ Head(events) = events[1]
    BY <1>2, TailElements DEF TypeOK
  <2>3. task[From].phase = "none"
    BY <2>1, <2>2 DEF StoppedMeansGone, From
  <2> HIDE DEF record
  <2> QED
    BY <1>4, <1>5, <1>7, <2>1, <2>3
<1> QED
  BY <1>4, <1>5, <1>8, <1>9, <1>10, <1>11, <1>12, <1>13, <1>14
     DEF RuntimeEvent, OnBegun, OnCompleted, OnFailed

(* Finishing a request accounts for every runtime: the agents an archive   *)
(* or a deletion removes have been retired, and awaited, before.           *)
LEMMA FinishAccounted ==
  ASSUME FleetInv, FinishRequest
  PROVE  RuntimesAccounted' /\ StoppedMeansGone' /\ RetiredSoFar'
<1> USE DEF FleetInv
<1>1. \A h : h = Idling => h.op = "none" /\ h.step = "none"
  BY DEF Idling
<1>2. Free => handler.step = "none"
  BY DEF RetiredSoFar
<1>3. ASSUME NEW a \in Agents, RetireSends(a)
      PROVE  RuntimesAccounted' /\ StoppedMeansGone' /\ RetiredSoFar'
  <2>1. /\ UNCHANGED <<roster, task, events>>
        /\ agent' = [agent EXCEPT ![a].live = FALSE]
        /\ handler' = [handler EXCEPT !.step = "join", !.agent = a,
                                      !.left = @ \ {a}]
        /\ handler.step = "send"
    BY <1>3 DEF RetireSends
  <2>2. /\ ~agent'[a].live
        /\ \A b \in Agents \ {a} : agent'[b] = agent[b]
        /\ handler'.step = "join" /\ handler'.agent = a
        /\ handler'.op = handler.op /\ handler'.matching = handler.matching
        /\ handler'.left = handler.left \ {a}
        /\ handler.matching \subseteq Agents
    BY <2>1 DEF TypeOK, AgentRecords, Handlers
  <2>3. RuntimesAccounted'
    BY <2>1, <2>2 DEF RuntimesAccounted
  <2>4. RetiredSoFar'
    BY <1>2, <2>1, <2>2 DEF RetiredSoFar, Free
  <2> QED
    BY <2>1, <2>3, <2>4 DEF StoppedMeansGone
<1>4. CASE RetireTimesOut
  <2>1. /\ UNCHANGED <<roster, agent, events, handler>>
        /\ task' = [task EXCEPT ![handler.agent] = NoProvider]
        /\ handler.step = "join"
    BY <1>4 DEF RetireTimesOut
  <2>2. \A b \in Agents : task'[b] = task[b] \/ task'[b].phase = "none"
    BY <2>1 DEF TypeOK, NoProvider
  <2>3. StoppedMeansGone'
    BY <2>1, <2>2, StillGone
  <2> QED
    BY <2>1, <2>2, <2>3 DEF RuntimesAccounted, RetiredSoFar, Free
<1>5. ASSUME handler.step = "join", task[handler.agent].phase = "none"
      PROVE  \A b \in Agents : task[b].phase # "none" =>
               b \in roster /\ agent[b].live
  BY <1>5 DEF RuntimesAccounted
<1>6. CASE DeleteRetires
  <2>1. /\ handler.op = "delete" /\ handler.step = "join"
        /\ task[handler.agent].phase = "none"
        /\ UNCHANGED <<roster, task, events>> /\ handler' = Onward(handler)
    BY <1>6 DEF DeleteRetires, Joined
  <2>2. \A b \in Agents : agent'[b].live = agent[b].live
    BY <1>6, <2>1 DEF DeleteRetires, Retired, TypeOK, AgentRecords
  <2>3. /\ handler'.op = "delete" /\ handler'.matching = handler.matching
        /\ handler'.left = handler.left
        /\ handler'.step \in {"send", "handoff", "check"}
        /\ handler'.step # "send" => handler.left = {}
        /\ handler.matching \subseteq Agents
    BY <2>1 DEF Onward, TypeOK, Handlers
  <2>4. RuntimesAccounted'
    BY <1>5, <2>1, <2>2 DEF RuntimesAccounted
  <2>5. RetiredSoFar'
    BY <2>1, <2>2, <2>3 DEF RetiredSoFar, Free
  <2> QED
    BY <2>1, <2>4, <2>5 DEF StoppedMeansGone
<1>7. CASE ArchiveEnds
  <2>1. /\ handler.step = "join" /\ task[handler.agent].phase = "none"
        /\ UNCHANGED <<task, events>> /\ handler' = Idling
        /\ roster' = roster \ {handler.agent}
        /\ \A b \in Agents \ {handler.agent} : agent'[b] = agent[b]
    BY <1>7 DEF ArchiveEnds, Joined, Remove
  <2>2. RuntimesAccounted'
    BY <1>5, <2>1 DEF RuntimesAccounted
  <2>3. RetiredSoFar'
    BY <1>1, <2>1 DEF RetiredSoFar, Free
  <2> QED
    BY <2>1, <2>2, <2>3 DEF StoppedMeansGone
<1>8. ASSUME NEW b \in Agents, ForkLaunches(b)
      PROVE  RuntimesAccounted' /\ StoppedMeansGone' /\ RetiredSoFar'
  <2>1. /\ handler.step = "join" /\ task[handler.agent].phase = "none"
        /\ Unused(b) /\ roster' = roster \cup {b} /\ handler' = Idling
        /\ UNCHANGED events
    BY <1>8 DEF ForkLaunches, Joined
  <2>2. agent'[b].live
    BY <1>8 DEF ForkLaunches, TypeOK, Blank
  <2>3. \A c \in Agents \ {b} : agent'[c].live = agent[c].live /\ task'[c] = task[c]
    BY <1>8 DEF ForkLaunches, TypeOK, Retired, AgentRecords
  <2>4. RetiredSoFar'
    BY <1>1, <2>1 DEF RetiredSoFar, Free
  <2> QED
    BY <1>5, <2>1, <2>2, <2>3, <2>4, LaunchAccounted
<1>9. CASE ForkRefused
  <2>1. /\ handler.step = "join" /\ task[handler.agent].phase = "none"
        /\ UNCHANGED <<roster, task, events>> /\ handler' = Idling
    BY <1>9 DEF ForkRefused, Joined
  <2>2. \A b \in Agents : agent'[b].live = agent[b].live
    BY <1>9, <2>1 DEF ForkRefused, Retired, TypeOK, AgentRecords
  <2>3. RuntimesAccounted'
    BY <1>5, <2>1, <2>2 DEF RuntimesAccounted
  <2>4. RetiredSoFar'
    BY <1>1, <2>1 DEF RetiredSoFar, Free
  <2> QED
    BY <2>1, <2>3, <2>4 DEF StoppedMeansGone
<1>10. ASSUME UNCHANGED <<roster, agent, task, events>>,
              handler.step \in {"handoff", "check", "erase"},
              handler'.matching = handler.matching,
              handler'.op = handler.op,
              handler'.step \in {"handoff", "check", "erase", "forget"}
       PROVE  RuntimesAccounted' /\ StoppedMeansGone' /\ RetiredSoFar'
  BY <1>2, <1>10 DEF RuntimesAccounted, StoppedMeansGone, RetiredSoFar, Free
<1>11. ASSUME NEW t, DeleteHandsOff(t)
       PROVE  RuntimesAccounted' /\ StoppedMeansGone' /\ RetiredSoFar'
  <2>1. /\ UNCHANGED <<roster, agent, task, events>> /\ handler.step = "handoff"
        /\ handler'.matching = handler.matching /\ handler'.op = handler.op
        /\ handler'.step \in {"handoff", "check"}
    BY <1>11 DEF DeleteHandsOff, TypeOK, Handlers
  <2> QED
    BY <1>10, <2>1
<1>12. CASE DeleteChecks \/ DeleteErases
  <2>1. /\ UNCHANGED <<roster, agent, task, events>>
        /\ handler.step \in {"check", "erase"}
        /\ handler'.matching = handler.matching /\ handler'.op = handler.op
        /\ handler'.step \in {"erase", "forget"}
    BY <1>12 DEF DeleteChecks, DeleteErases, TypeOK, Handlers
  <2> QED
    BY <1>10, <2>1
<1>13. CASE DeleteRefused
  <2>1. /\ UNCHANGED <<roster, agent, task, events>> /\ handler' = Idling
        /\ handler.step # "join"
    BY <1>13 DEF DeleteRefused
  <2> QED
    BY <1>1, <2>1 DEF RuntimesAccounted, StoppedMeansGone, RetiredSoFar, Free
<1>14. CASE DeleteForgets
  <2>1. /\ handler.step = "forget" /\ UNCHANGED <<task, events>>
        /\ roster' = roster \ handler.matching /\ handler' = Idling
        /\ \A b \in Agents \ handler.matching : agent'[b] = agent[b]
    BY <1>14 DEF DeleteForgets, Remove
  <2>2. \A b \in handler.matching : ~agent[b].live
    BY <2>1 DEF RetiredSoFar
  <2>3. RuntimesAccounted'
    BY <2>1, <2>2 DEF RuntimesAccounted
  <2>4. RetiredSoFar'
    BY <1>1, <2>1 DEF RetiredSoFar, Free
  <2> QED
    BY <2>1, <2>3, <2>4 DEF StoppedMeansGone
<1> QED
  BY <1>3, <1>4, <1>6, <1>7, <1>8, <1>9, <1>11, <1>12, <1>13, <1>14
  DEF FinishRequest

(* A task accounts for itself: it starts no other, and is gone when it     *)
(* says so.                                                                *)
LEMMA TaskAccounted ==
  ASSUME FleetInv, NEW a \in Agents, TaskStep(a) \/ ProviderStep(a)
  PROVE  RuntimesAccounted' /\ StoppedMeansGone' /\ RetiredSoFar'
<1> USE DEF FleetInv
<1>1. UNCHANGED <<roster, agent, handler>>
  BY DEF TaskStep, ProviderStep, TaskOpensSession, TaskResumesSession,
         TaskStartFails, TaskPrompts, TaskPromptFails, TaskCallFails,
         TaskShutsDown, TaskStops, AskResolved, ProviderFails, ProviderAsks,
         TurnEndsAmid, TurnCompletes, TurnFails, BatchGoesOn,
         TaskRejectsPrompt, Close, TurnEnds
<1>2. \A b \in Agents : task[b].phase = "none" => task'[b].phase = "none"
  <2>1. task[a] \in TaskRecords
    BY DEF TypeOK
  <2>2. /\ \A b \in Agents \ {a} : task'[b] = task[b]
        /\ task[a].phase = "none" => task'[a].phase = "none"
    <3> USE <2>1 DEF TypeOK, TaskRecords
    <3>1. CASE \/ TaskStartFails(a) \/ TaskStops(a) \/ TaskShutsDown(a)
               \/ ProviderFails(a)
      BY <3>1 DEF TaskStartFails, TaskStops, TaskShutsDown, NextCommand,
                  ProviderFails, Close, NoProvider
    <3>2. CASE \/ TaskPrompts(a) \/ TaskPromptFails(a) \/ TaskCallFails(a)
               \/ AskResolved(a) \/ ProviderAsks(a) \/ TaskRejectsPrompt(a)
      BY <3>2 DEF TaskPrompts, TaskPromptFails, TaskCallFails, AskResolved,
                  ProviderAsks, TaskRejectsPrompt
    <3>3. CASE \/ TurnCompletes(a) \/ TurnFails(a)
               \/ \E kind \in {"completed", "failed"} : TurnEndsAmid(a, kind)
               \/ \E kind \in {"asked", "completed", "failed"} : BatchGoesOn(a, kind)
      BY <3>3 DEF TurnEndsAmid, BatchGoesOn, TurnCompletes, TurnFails, TurnEnds
    <3>4. CASE TaskResumesSession(a) \/ \E s \in Sessions : TaskOpensSession(a, s)
      BY <3>4 DEF TaskResumesSession, TaskOpensSession, Opened
    <3> QED
      BY <3>1, <3>2, <3>3, <3>4 DEF TaskStep, ProviderStep
  <2> QED
    BY <2>2
<1>3. None \in OrNone(Sessions) /\ task[a].session \in OrNone(Sessions)
      /\ \A s \in Sessions : s \in OrNone(Sessions)
  BY DEF OrNone, TypeOK, TaskRecords
<1>4. \/ UNCHANGED events
      \/ \E kind \in EventKinds, s \in OrNone(Sessions) :
           /\ Emit(kind, a, s)
           /\ kind = "stopped" => task'[a].phase = "none"
  <2>1. CASE TaskStops(a)
    BY <1>3, <2>1 DEF TaskStops, TypeOK, NoProvider, EventKinds
  <2>2. CASE TaskShutsDown(a) \/ TaskRejectsPrompt(a)
    BY <1>3, <2>2 DEF TaskShutsDown, TaskRejectsPrompt, EventKinds
  <2>3. CASE TaskResumesSession(a) \/ \E s \in Sessions : TaskOpensSession(a, s)
    BY <1>3, <2>3 DEF TaskResumesSession, TaskOpensSession, Opened, EventKinds
  <2>4. CASE TaskStartFails(a) \/ ProviderFails(a)
    BY <1>3, <2>4 DEF TaskStartFails, ProviderFails, Close, EventKinds
  <2>5. CASE \/ TaskPrompts(a) \/ TaskPromptFails(a) \/ TaskCallFails(a)
             \/ AskResolved(a) \/ ProviderAsks(a)
    BY <1>3, <2>5 DEF TaskPrompts, TaskPromptFails, TaskCallFails, AskResolved,
                      ProviderAsks, EventKinds
  <2>6. CASE \/ TurnCompletes(a) \/ TurnFails(a)
             \/ \E kind \in {"completed", "failed"} : TurnEndsAmid(a, kind)
             \/ \E kind \in {"asked", "completed", "failed"} : BatchGoesOn(a, kind)
    BY <1>3, <2>6 DEF TurnEndsAmid, BatchGoesOn, TurnCompletes, TurnFails, TurnEnds,
                      EventKinds
  <2> QED
    BY <2>1, <2>2, <2>3, <2>4, <2>5, <2>6 DEF TaskStep, ProviderStep
<1>5. StoppedMeansGone'
  BY <1>2, <1>4, StillGone, StillGoneEmit
<1>6. RuntimesAccounted'
  BY <1>1, <1>2 DEF RuntimesAccounted
<1>7. RetiredSoFar'
  BY <1>1 DEF RetiredSoFar, Free
<1> QED
  BY <1>5, <1>6, <1>7

(* After a restart nothing runs.                                           *)
LEMMA RestartAccounted ==
  ASSUME Restart
  PROVE  RuntimesAccounted' /\ StoppedMeansGone' /\ RetiredSoFar'
<1>1. \A a \in Agents : task'[a].phase = "none"
  BY DEF Restart, NoProvider
<1>2. Len(events') = 0 /\ handler'.op = "none" /\ handler'.step = "none"
  BY EmptyType DEF Restart, Idling
<1> QED
  BY <1>1, <1>2 DEF RuntimesAccounted, StoppedMeansGone, RetiredSoFar, Free

(* Every step accounts for every runtime.                                  *)
LEMMA FleetInvariant ==
  ASSUME FleetInv, [Next]_vars
  PROVE  FleetInv'
<1>1. TypeOK'
  BY NextType DEF FleetInv
<1>2. CASE Next
  <2>1. CASE ClientRequest
    BY <1>1, <2>1, RequestAccounted DEF FleetInv
  <2>2. CASE RuntimeEvent
    BY <1>1, <2>2, EventAccounted DEF FleetInv
  <2>3. CASE FinishRequest
    BY <1>1, <2>3, FinishAccounted DEF FleetInv
  <2>4. CASE Restart
    BY <1>1, <2>4, RestartAccounted DEF FleetInv
  <2>5. CASE \E a \in Agents : TaskStep(a) \/ ProviderStep(a)
    BY <1>1, <2>5, TaskAccounted DEF FleetInv
  <2> QED
    BY <1>2, <2>1, <2>2, <2>3, <2>4, <2>5 DEF Next
<1>3. CASE UNCHANGED vars
  BY <1>1, <1>3 DEF vars, FleetInv, RuntimesAccounted, StoppedMeansGone,
                    RetiredSoFar, Free
<1> QED
  BY <1>2, <1>3

(* No provider task runs unseen, whatever is launched, forked, archived,   *)
(* deleted, superseded or restarted, and whenever events arrive            *)
(* (embedded.rs:1449, 1490, 984, 2017).                                    *)
THEOREM FleetAccountsForRuntimes == Spec => []RuntimesAccounted
<1>1. Init => FleetInv
  <2> SUFFICES ASSUME Init PROVE RuntimesAccounted /\ StoppedMeansGone /\ RetiredSoFar
    BY InitType DEF FleetInv
  <2>1. \A a \in Agents : task[a].phase = "none"
    BY DEF Init, NoProvider
  <2>2. Len(events) = 0 /\ handler.op = "none" /\ handler.step = "none"
    BY EmptyType DEF Init, Idling
  <2> QED
    BY <2>1, <2>2 DEF RuntimesAccounted, StoppedMeansGone, RetiredSoFar, Free
<1>2. FleetInv /\ [Next]_vars => FleetInv'
  BY FleetInvariant
<1>3. FleetInv => RuntimesAccounted
  BY DEF FleetInv
<1> QED
  BY <1>1, <1>2, <1>3, PTL DEF Spec

-----------------------------------------------------------------------------
(* What the registry keeps is current in the middle of a request too: a    *)
(* request that is refused part way has saved whatever it changed.         *)
Saved == registry = Image

(* persist writes the entries of all agents as they are now. *)
LEMMA SavedByPersist ==
  ASSUME Persist
  PROVE  Saved'
BY DEF Persist, Saved

(* The registry stays the image of agents that do not change. *)
LEMMA SavedUnchanged ==
  ASSUME Saved, UNCHANGED <<roster, agent, registry>>
  PROVE  Saved'
BY DEF Saved, Image, Entry

(* Of an agent's fields the registry keeps those no retirement touches.    *)
LEMMA SavedThroughRetiring ==
  ASSUME TypeOK, Saved, NEW a \in Agents, RetireSends(a)
  PROVE  Saved'
<1>1. roster' = roster /\ registry' = registry
  BY DEF RetireSends
<1>2. \A b \in Agents : /\ agent'[b].session = agent[b].session
                        /\ agent'[b].place = agent[b].place
                        /\ agent'[b].managed = agent[b].managed
  BY DEF RetireSends, TypeOK, AgentRecords
<1>3. \A b \in Agents : Entry(b)' = Entry(b)
  BY <1>2 DEF Entry
<1>4. Image' = Image
  BY <1>1, <1>3 DEF Image
<1> QED
  BY <1>1, <1>4 DEF Saved

(* A broker lists after a restart exactly what the last one saved.         *)
LEMMA SavedThroughRestart ==
  ASSUME TypeOK, Saved, Restart
  PROVE  Saved'
<1>1. registry' = registry /\ roster' = {a \in Agents : registry[a].listed}
  BY DEF Restart
<1>2. \A a \in Agents : /\ agent'[a].session = registry[a].session
                        /\ agent'[a].place = registry[a].place
                        /\ agent'[a].managed = registry[a].managed
  BY DEF Restart, Blank
<1>3. \A a \in Agents : registry[a] = IF a \in roster THEN Entry(a) ELSE Unlisted
  BY DEF Saved, Image
<1>4. \A a \in Agents : /\ registry[a].listed => registry[a] = Entry(a)
                        /\ ~registry[a].listed => registry[a] = Unlisted
  <2>1. \A a \in Agents : Entry(a).listed = TRUE /\ Unlisted.listed = FALSE
    BY DEF Entry, Unlisted
  <2> QED
    BY <1>3, <2>1
<1>5. ASSUME NEW a \in Agents, registry[a].listed
      PROVE  Entry(a)' = registry[a]
  <2>1. registry[a] = Entry(a)
    BY <1>4, <1>5
  <2>2. /\ registry[a].session = agent[a].session
        /\ registry[a].place = agent[a].place
        /\ registry[a].managed = agent[a].managed
    BY <2>1 DEF Entry
  <2> QED
    BY <1>2, <2>1, <2>2 DEF Entry
<1>6. \A a \in Agents :
        registry[a] = IF a \in roster' THEN Entry(a)' ELSE Unlisted
  BY <1>1, <1>4, <1>5
<1>7. registry = [a \in Agents |-> registry[a]]
  BY DEF TypeOK
<1>8. registry = [a \in Agents |-> IF a \in roster' THEN Entry(a)' ELSE Unlisted]
  BY <1>6, <1>7
<1> QED
  BY <1>1, <1>8 DEF Saved, Image

(* No step leaves behind a registry that differs from the agents. *)
LEMMA SavedByNext ==
  ASSUME TypeOK, Saved, [Next]_vars
  PROVE  Saved'
<1> USE DEF TaskStep, ProviderStep
<1>1. CASE ClientRequest
  <2>1. ASSUME NEW a \in Agents, NEW o, NEW p,
               \/ LaunchExplicit(a, o, p) \/ LaunchManaged(a, o, p)
               \/ Prompt(a) \/ ArchiveSummary(a)
        PROVE  Saved'
    BY <2>1, SavedByPersist
       DEF LaunchExplicit, LaunchManaged, Prompt, ArchiveSummary
  <2>2. ASSUME NEW t, NEW a, NEW s,
               \/ ClaimWithoutLaunch(t) \/ ClaimHandedBack(t) \/ Handoff(t)
               \/ ForkBegins(a) \/ ArchiveBegins(a) \/ DeleteBegins(s)
        PROVE  Saved'
    BY <2>2, SavedUnchanged
       DEF ClaimWithoutLaunch, ClaimHandedBack, Handoff, ForkBegins,
           ArchiveBegins, DeleteBegins
  <2> QED
    BY <1>1, <2>1, <2>2 DEF ClientRequest
<1>2. CASE RuntimeEvent
  BY <1>2, SavedByPersist
     DEF RuntimeEvent, OnStarted, OnRequestFailed, OnBegun, OnCompleted,
         OnFailed, OnTurn, OnAsked, OnResolved, OnProviderFailed, OnStopped
<1>3. CASE FinishRequest
  <2>1. ASSUME \/ \E b \in Agents : ForkLaunches(b)
               \/ DeleteRetires \/ ArchiveEnds \/ ForkRefused \/ DeleteForgets
        PROVE  Saved'
    BY <2>1, SavedByPersist
       DEF ForkLaunches, DeleteRetires, ArchiveEnds, ForkRefused,
           DeleteForgets
  <2>2. ASSUME \/ \E t \in Tasks : DeleteHandsOff(t)
               \/ RetireTimesOut \/ DeleteRefused \/ DeleteChecks
               \/ DeleteErases
        PROVE  Saved'
    BY <2>2, SavedUnchanged
       DEF DeleteHandsOff, RetireTimesOut, DeleteRefused, DeleteChecks,
           DeleteErases
  <2> QED
    BY <1>3, <2>1, <2>2, SavedThroughRetiring DEF FinishRequest
<1>4. ASSUME NEW a \in Agents, TaskStep(a) \/ ProviderStep(a)
      PROVE  Saved'
  <2>1. UNCHANGED <<roster, agent, registry>>
    BY <1>4
       DEF TaskOpensSession, TaskResumesSession, Opened, TaskStartFails,
           TaskPrompts, TaskPromptFails, TaskCallFails, TaskShutsDown,
           TaskStops, AskResolved, ProviderFails, Close, ProviderAsks,
           TurnEndsAmid, BatchGoesOn, TurnCompletes, TurnFails, TurnEnds,
           TaskRejectsPrompt
  <2> QED
    BY <2>1, SavedUnchanged
<1>5. CASE UNCHANGED vars
  BY <1>5, SavedUnchanged DEF vars
<1> QED
  BY <1>1, <1>2, <1>3, <1>4, <1>5, SavedThroughRestart DEF Next

(* A restart neither loses an agent nor brings one back: between requests  *)
(* the registry lists exactly the broker's agents, with their identity and *)
(* place (embedded.rs:2313, registry.rs:132).                              *)
THEOREM FleetRegistryCurrent == Spec => []RegistryCurrent
<1>1. Init => Saved
  BY DEF Init, Saved, Image
<1>2. TypeOK /\ TypeOK' /\ Saved /\ [Next]_vars => Saved'
  BY SavedByNext
<1>3. Saved => RegistryCurrent
  BY DEF Saved, RegistryCurrent
<1> QED
  BY <1>1, <1>2, <1>3, FleetTypeCorrect, PTL DEF Spec

-----------------------------------------------------------------------------
(* RetiresOnlyQuiet says nothing of how the broker's copy of a state comes *)
(* to follow the task; TaleInv does, for every agent that has not been     *)
(* told to stop and none of whose turns left something behind its end.     *)
(* There is one turn at a time: from the prompt in the channel, through    *)
(* the turn the task reads, to the event of its end.                       *)

(* The task is stopping, or has been told to, or one of its turns left     *)
(* something behind its end; of such a task nothing is said.               *)
Excused(a) ==
  \/ task[a].overlapped
  \/ task[a].phase \in {"none", "closing"}
  \/ \E i \in 1..Len(commands[a]) : commands[a][i] = "shutdown"

Dead(a) == agent[a].state \in {"Failed", "Disconnected"}

(* No turn is under way that the task knows of. *)
Resting(a) == commands[a] = <<>> /\ ~task[a].reading

(* The events on their way from a task are of these kinds. *)
Tells(a, kinds) ==
  \A i \in 1..Len(events) : events[i].agent = a => events[i].kind \in kinds

(* The events behind the n-th that its task sent are of these kinds. *)
TellsAfter(a, n, kinds) ==
  \A i \in 1..Len(events) :
    i > n /\ events[i].agent = a => events[i].kind \in kinds

(* The broker knows of the turn, or of its failure, or will have been told *)
(* by the first n events.                                                  *)
KnowsTurn(a, n) ==
  \/ agent[a].turn
  \/ Dead(a)
  \/ \E i \in 1..Len(events) :
       i <= n /\ events[i].agent = a /\ events[i].kind \in {"begun", "failed"}

AgentTale(a) ==
  /\ ~task[a].ending
  /\ commands[a] # <<>> =>
       /\ Len(commands[a]) = 1
       /\ ~task[a].reading /\ ~task[a].asking
       /\ agent[a].state = "Running"
       /\ Tells(a, {})
  /\ task[a].phase = "starting" => agent[a].state = "Starting"
  /\ agent[a].state \in Ready \/ task[a].phase = "starting" =>
       Resting(a) /\ ~task[a].asking /\ Tells(a, {})
  /\ Dead(a) => Resting(a) /\ Tells(a, {"resolved", "requestFailed"})
  /\ task[a].reading =>
       /\ Tells(a, {"begun", "asked", "resolved", "requestFailed"})
       /\ commands[a] = <<>>
       /\ agent[a].state \in {"Running", "Waiting"}
  /\ task[a].reading \/ task[a].asking => KnowsTurn(a, Len(events))

EventTale(a) ==
  \A i \in 1..Len(events) : events[i].agent = a =>
    /\ events[i].kind \in {"started", "completed", "providerFailed"} =>
         Resting(a) /\ ~task[a].asking /\ TellsAfter(a, i, {})
    /\ events[i].kind = "failed" =>
         Resting(a) /\ TellsAfter(a, i, {"resolved", "requestFailed"})
    /\ events[i].kind = "resolved" => KnowsTurn(a, i - 1)
    /\ events[i].kind # "stopped"

Tale(a) == ~Excused(a) => AgentTale(a) /\ EventTale(a)

(* Who is about to be retired was not at work when the request began. *)
ChosenQuiet ==
  handler.step \in {"send", "join"} =>
    \A a \in handler.left : agent[a].state \notin Active

TaleInv == FleetInv /\ (\A a \in Agents : Tale(a)) /\ ChosenQuiet

-----------------------------------------------------------------------------
(* What a tale says of an agent is what these say of it. *)
SameAgent(a) ==
  /\ task'[a].phase = task[a].phase
  /\ task'[a].reading = task[a].reading
  /\ task'[a].asking = task[a].asking
  /\ task'[a].ending = task[a].ending
  /\ task'[a].overlapped = task[a].overlapped
  /\ commands'[a] = commands[a]
  /\ agent'[a].state = agent[a].state
  /\ agent'[a].turn = agent[a].turn

(* Another agent's event, or none: the tale goes on as it was. *)
LEMMA TaleAppend ==
  ASSUME TypeOK, NEW a \in Agents, NEW e \in Events, SameAgent(a), Tale(a),
         events' = Append(events, e), e.agent # a
  PROVE  Tale(a)'
<1>1. /\ events \in Seq(Events) /\ Len(events) \in Nat
      /\ Len(events') = Len(events) + 1
      /\ events'[Len(events) + 1] = e
      /\ \A i \in 1..Len(events) : events'[i] = events[i]
  BY AppendElements DEF TypeOK
<1>2. \A i \in 1..Len(events') :
        events'[i].agent = a => i \in 1..Len(events) /\ events'[i] = events[i]
  BY <1>1
<1>3. \A i \in 1..Len(events) : i \in 1..Len(events') /\ events'[i] = events[i]
  BY <1>1
<1>4. \A kinds : Tells(a, kinds) => Tells(a, kinds)'
  BY <1>2 DEF Tells
<1>5. \A kinds : \A n \in Nat : TellsAfter(a, n, kinds) => TellsAfter(a, n, kinds)'
  BY <1>2 DEF TellsAfter
<1>6. \A n, m \in Nat : KnowsTurn(a, n) /\ n <= m => KnowsTurn(a, m)'
  BY <1>3 DEF KnowsTurn, Dead, SameAgent
<1>7. AgentTale(a) => AgentTale(a)'
  BY <1>1, <1>4, <1>6 DEF AgentTale, SameAgent, Resting, Dead
<1>8. EventTale(a) => EventTale(a)'
  BY <1>1, <1>2, <1>5, <1>6 DEF EventTale, SameAgent, Resting
<1> QED
  BY <1>7, <1>8 DEF Tale, Excused, SameAgent

(* The broker takes an event of another agent. *)
LEMMA TaleTail ==
  ASSUME TypeOK, NEW a \in Agents, SameAgent(a), Tale(a),
         events # <<>>, events' = Tail(events), Head(events).agent # a
  PROVE  Tale(a)'
<1>1. /\ events \in Seq(Events) /\ Len(events) \in Nat \ {0}
      /\ Len(events') = Len(events) - 1
      /\ Head(events) = events[1]
      /\ \A i \in 1..Len(events') : events'[i] = events[i + 1]
  BY TailElements DEF TypeOK
<1>2. \A i \in 1..Len(events') : i + 1 \in 1..Len(events) /\ events'[i] = events[i + 1]
  BY <1>1
<1>3. \A i \in 1..Len(events) : events[i].agent = a =>
        i - 1 \in 1..Len(events') /\ events'[i - 1] = events[i]
  <2> TAKE i \in 1..Len(events)
  <2> HAVE events[i].agent = a
  <2>1. i # 1
    BY <1>1
  <2>2. i - 1 \in 1..Len(events')
    BY <1>1, <2>1
  <2> QED
    BY <1>1, <2>2
<1>4. \A kinds : Tells(a, kinds) => Tells(a, kinds)'
  BY <1>2 DEF Tells
<1>5. \A kinds : \A n \in Nat : TellsAfter(a, n + 1, kinds) => TellsAfter(a, n, kinds)'
  BY <1>2 DEF TellsAfter
<1>6. \A n \in Nat : KnowsTurn(a, n + 1) => KnowsTurn(a, n)'
  BY <1>1, <1>3 DEF KnowsTurn, Dead, SameAgent
<1>7. AgentTale(a) => AgentTale(a)'
  <2>1. KnowsTurn(a, Len(events)) => KnowsTurn(a, Len(events))'
    <3>1. Len(events') \in Nat /\ Len(events) = Len(events') + 1
      BY <1>1
    <3> QED
      BY <1>6, <3>1
  <2> QED
    BY <1>4, <2>1 DEF AgentTale, SameAgent, Resting, Dead
<1>8. EventTale(a) => EventTale(a)'
  <2> SUFFICES ASSUME EventTale(a), NEW i \in 1..Len(events'), events'[i].agent = a
               PROVE  /\ events'[i].kind \in {"started", "completed", "providerFailed"} =>
                           (Resting(a) /\ ~task[a].asking /\ TellsAfter(a, i, {}))'
                      /\ events'[i].kind = "failed" =>
                           (Resting(a) /\ TellsAfter(a, i, {"resolved", "requestFailed"}))'
                      /\ events'[i].kind = "resolved" => KnowsTurn(a, i - 1)'
                      /\ events'[i].kind # "stopped"
    BY DEF EventTale
  <2>1. /\ i + 1 \in 1..Len(events) /\ events'[i] = events[i + 1]
        /\ i \in Nat /\ i - 1 \in Nat /\ (i + 1) - 1 = (i - 1) + 1
    BY <1>2
  <2>2. /\ events[i + 1].kind \in {"started", "completed", "providerFailed"} =>
             Resting(a) /\ ~task[a].asking /\ TellsAfter(a, i + 1, {})
        /\ events[i + 1].kind = "failed" =>
             Resting(a) /\ TellsAfter(a, i + 1, {"resolved", "requestFailed"})
        /\ events[i + 1].kind = "resolved" => KnowsTurn(a, (i - 1) + 1)
        /\ events[i + 1].kind # "stopped"
    BY <2>1 DEF EventTale
  <2>3. Resting(a) => Resting(a)'
    BY DEF Resting, SameAgent
  <2> QED
    BY <1>5, <1>6, <2>1, <2>2, <2>3 DEF SameAgent
<1> QED
  BY <1>7, <1>8 DEF Tale, Excused, SameAgent

(* No event comes or goes. *)
LEMMA TaleStill ==
  ASSUME NEW a \in Agents, SameAgent(a), Tale(a), UNCHANGED events
  PROVE  Tale(a)'
<1>1. AgentTale(a) => AgentTale(a)'
  BY DEF AgentTale, SameAgent, Resting, Dead, Tells, KnowsTurn
<1>2. EventTale(a) => EventTale(a)'
  BY DEF EventTale, SameAgent, Resting, Dead, TellsAfter, KnowsTurn
<1> QED
  BY <1>1, <1>2 DEF Tale, Excused, SameAgent

(* An agent's tale outlasts whatever happens to the events of others. *)
LEMMA TaleKept ==
  ASSUME TypeOK, NEW a \in Agents, SameAgent(a), Tale(a),
         \/ UNCHANGED events
         \/ events # <<>> /\ events' = Tail(events) /\ Head(events).agent # a
         \/ \E e \in Events : events' = Append(events, e) /\ e.agent # a
  PROVE  Tale(a)'
BY TaleAppend, TaleTail, TaleStill

-----------------------------------------------------------------------------
(* What an event of its own adds to an agent's tale. *)
LEMMA OwnSend ==
  ASSUME TypeOK, NEW a \in Agents, NEW e \in Events, e.agent = a,
         events' = Append(events, e), UNCHANGED agent
  PROVE  /\ \A kinds : Tells(a, kinds) /\ e.kind \in kinds => Tells(a, kinds)'
         /\ KnowsTurn(a, Len(events)) \/ e.kind \in {"begun", "failed"} =>
              KnowsTurn(a, Len(events))'
<1>1. /\ events \in Seq(Events) /\ Len(events) \in Nat
      /\ Len(events') = Len(events) + 1
      /\ events'[Len(events) + 1] = e
      /\ \A i \in 1..Len(events) : events'[i] = events[i]
  BY AppendElements DEF TypeOK
<1>2. \A i \in 1..Len(events') : i \in 1..Len(events) \/ i = Len(events) + 1
  BY <1>1
<1>3. \A kinds : Tells(a, kinds) /\ e.kind \in kinds => Tells(a, kinds)'
  BY <1>1, <1>2 DEF Tells
<1>4. KnowsTurn(a, Len(events)) => KnowsTurn(a, Len(events))'
  BY <1>1 DEF KnowsTurn, Dead
<1>5. e.kind \in {"begun", "failed"} => KnowsTurn(a, Len(events))'
  <2>1. Len(events') \in 1..Len(events') /\ events'[Len(events')] = e
        /\ Len(events') <= Len(events')
    BY <1>1
  <2> QED
    BY <2>1 DEF KnowsTurn
<1> QED
  BY <1>3, <1>4, <1>5

(* The events' tale goes on with one more when no turn has ended in it, or *)
(* a failed one is followed by nothing but what is left over from it.      *)
LEMMA OwnSendTale ==
  ASSUME TypeOK, NEW a \in Agents, NEW e \in Events, e.agent = a,
         events' = Append(events, e), UNCHANGED agent, EventTale(a),
         \A i \in 1..Len(events) : events[i].agent = a =>
           /\ events[i].kind \notin {"started", "completed", "providerFailed"}
           /\ events[i].kind = "failed" =>
                e.kind \in {"resolved", "requestFailed"} /\ Resting(a)',
         e.kind \in {"started", "completed", "providerFailed"} => Resting(a)' /\ ~task'[a].asking,
         e.kind = "failed" => Resting(a)',
         e.kind = "resolved" => KnowsTurn(a, Len(events)),
         e.kind # "stopped"
  PROVE  EventTale(a)'
<1>1. /\ events \in Seq(Events) /\ Len(events) \in Nat
      /\ Len(events') = Len(events) + 1
      /\ events'[Len(events) + 1] = e
      /\ \A i \in 1..Len(events) : events'[i] = events[i]
  BY AppendElements DEF TypeOK
<1>2. \A n \in Nat : KnowsTurn(a, n) => KnowsTurn(a, n)'
  BY <1>1 DEF KnowsTurn, Dead
<1> SUFFICES ASSUME NEW i \in 1..Len(events'), events'[i].agent = a
             PROVE  /\ events'[i].kind \in {"started", "completed", "providerFailed"} =>
                         (Resting(a) /\ ~task[a].asking /\ TellsAfter(a, i, {}))'
                    /\ events'[i].kind = "failed" =>
                         (Resting(a) /\ TellsAfter(a, i, {"resolved", "requestFailed"}))'
                    /\ events'[i].kind = "resolved" => KnowsTurn(a, i - 1)'
                    /\ events'[i].kind # "stopped"
  BY DEF EventTale
<1>3. CASE i \in 1..Len(events)
  <2>1. events'[i] = events[i] /\ i - 1 \in Nat
    BY <1>1, <1>3
  <2>2. TellsAfter(a, i, {"resolved", "requestFailed"}) /\ e.kind \in {"resolved", "requestFailed"}
        => TellsAfter(a, i, {"resolved", "requestFailed"})'
    <3>1. \A j \in 1..Len(events') : j \in 1..Len(events) \/ j = Len(events) + 1
      BY <1>1
    <3> QED
      BY <1>1, <3>1 DEF TellsAfter
  <2> QED
    BY <1>2, <1>3, <2>1, <2>2 DEF EventTale
<1>4. CASE i = Len(events) + 1
  <2>1. events'[i] = e /\ i - 1 = Len(events)
    BY <1>1, <1>4
  <2>2. \A kinds : TellsAfter(a, i, kinds)'
    <3>1. \A j \in 1..Len(events') : ~(j > i)
      BY <1>1, <1>4
    <3> QED
      BY <3>1 DEF TellsAfter
  <2> QED
    BY <1>1, <1>2, <2>1, <2>2
<1> QED
  BY <1>1, <1>3, <1>4

(* A task that is told to stop stays so until it is gone, and so does one  *)
(* whose turns overlapped.                                                 *)
LEMMA StillExcused ==
  ASSUME TypeOK, NEW a \in Agents, TaskStep(a) \/ ProviderStep(a), Excused(a)
  PROVE  Excused(a)'
<1>1. task[a] \in TaskRecords /\ commands[a] \in Seq(Commands)
  BY DEF TypeOK
<1>2. CASE TaskStops(a) \/ TaskStartFails(a) \/ ProviderFails(a) \/ TaskShutsDown(a)
  BY <1>2 DEF TaskStops, TaskStartFails, ProviderFails, TaskShutsDown, Close,
              NoProvider, Excused, TypeOK, TaskRecords
<1>3. CASE TaskPrompts(a) \/ TaskPromptFails(a) \/ TaskRejectsPrompt(a)
  <2>1. /\ commands[a] # <<>> /\ Head(commands[a]) = "prompt"
        /\ commands'[a] = Tail(commands[a])
        /\ task[a].phase = "open"
        /\ task'[a].overlapped = task[a].overlapped
    BY <1>3 DEF TaskPrompts, TaskPromptFails, TaskRejectsPrompt, NextCommand,
                TypeOK, TaskRecords
  <2>2. /\ Len(commands[a]) \in Nat \ {0}
        /\ Len(commands'[a]) = Len(commands[a]) - 1
        /\ Head(commands[a]) = commands[a][1]
        /\ \A i \in 1..Len(commands'[a]) : commands'[a][i] = commands[a][i + 1]
    BY <1>1, <2>1, TailElements
  <2>3. CASE task[a].overlapped
    BY <2>1, <2>3 DEF Excused
  <2>4. CASE ~task[a].overlapped
    <3>1. PICK i \in 1..Len(commands[a]) : commands[a][i] = "shutdown"
      BY <2>1, <2>4 DEF Excused
    <3>2. i # 1
      BY <2>1, <2>2, <3>1
    <3>3. i - 1 \in 1..Len(commands'[a]) /\ commands'[a][i - 1] = commands[a][i]
      BY <2>2, <3>2
    <3> QED
      BY <3>1, <3>3 DEF Excused
  <2> QED
    BY <2>3, <2>4
<1>4. CASE \/ TaskResumesSession(a) \/ \E s \in Sessions : TaskOpensSession(a, s)
  <2>1. /\ task'[a].overlapped = task[a].overlapped /\ task[a].phase = "starting"
        /\ UNCHANGED commands
    BY <1>1, <1>4 DEF TaskResumesSession, TaskOpensSession, Opened, TypeOK, TaskRecords
  <2> QED
    BY <2>1 DEF Excused
<1>5. CASE \/ TaskCallFails(a) \/ AskResolved(a) \/ ProviderAsks(a)
           \/ TurnCompletes(a) \/ TurnFails(a)
           \/ \E kind \in {"completed", "failed"} : TurnEndsAmid(a, kind)
           \/ \E kind \in {"asked", "completed", "failed"} : BatchGoesOn(a, kind)
  <2>1. /\ commands'[a] = commands[a] /\ task'[a].phase = task[a].phase
        /\ task[a].overlapped => task'[a].overlapped
    <3> USE <1>1 DEF TypeOK, TaskRecords
    <3>1. CASE TaskCallFails(a) \/ AskResolved(a) \/ ProviderAsks(a)
      BY <3>1 DEF TaskCallFails, AskResolved, ProviderAsks
    <3>2. CASE TurnCompletes(a) \/ TurnFails(a)
      BY <3>2 DEF TurnCompletes, TurnFails, TurnEnds
    <3>3. CASE \/ \E kind \in {"completed", "failed"} : TurnEndsAmid(a, kind)
               \/ \E kind \in {"asked", "completed", "failed"} : BatchGoesOn(a, kind)
      BY <3>3 DEF TurnEndsAmid, BatchGoesOn
    <3> QED
      BY <1>5, <3>1, <3>2, <3>3
  <2> QED
    BY <2>1 DEF Excused
<1> QED
  BY <1>2, <1>3, <1>4, <1>5 DEF TaskStep, ProviderStep

-----------------------------------------------------------------------------
(* Steps of the task and of its provider. *)

(* An event the task emits is an event of its agent. *)
LEMMA EventBuilt ==
  ASSUME NEW a \in Agents, NEW kind \in EventKinds, NEW s \in OrNone(Sessions),
         Emit(kind, a, s)
  PROVE  \E e \in Events : e.agent = a /\ e.kind = kind /\ events' = Append(events, e)
<1>1. [kind |-> kind, agent |-> a, session |-> s] \in Events
  BY DEF Events
<1> QED
  BY <1>1 DEF Emit

(* A turn begins, or is refused: nothing else was on its way.              *)
LEMMA PromptTale ==
  ASSUME TypeOK, NEW a \in Agents, Tale(a), ~Excused(a),
         TaskPrompts(a) \/ TaskPromptFails(a)
  PROVE  Tale(a)'
<1>1. /\ commands[a] \in Seq(Commands) /\ commands[a] # <<>>
      /\ commands'[a] = Tail(commands[a])
      /\ task[a].phase = "open" /\ task'[a].phase = "open"
      /\ task'[a].asking = task[a].asking
      /\ task'[a].ending = task[a].ending
      /\ UNCHANGED agent
  BY DEF TaskPrompts, TaskPromptFails, NextCommand, TypeOK, TaskRecords
<1>2. /\ Len(commands[a]) = 1 /\ ~task[a].reading /\ ~task[a].asking
      /\ agent[a].state = "Running" /\ Tells(a, {})
  BY <1>1 DEF Tale, AgentTale
<1>3. commands'[a] = <<>>
  <2>1. commands'[a] \in Seq(Commands) /\ Len(commands'[a]) = 0
    BY <1>1, <1>2, TailElements
  <2> QED
    BY <2>1
<1>4. PICK e \in Events : /\ e.agent = a /\ events' = Append(events, e)
                          /\ \/ e.kind = "begun" /\ task'[a].reading
                             \/ /\ e.kind \in {"requestFailed", "providerFailed"}
                                /\ ~task'[a].reading
  <2>1. /\ None \in OrNone(Sessions)
        /\ {"begun", "requestFailed", "providerFailed"} \subseteq EventKinds
    BY DEF OrNone, EventKinds
  <2>2. CASE TaskPrompts(a)
    BY <2>1, <2>2, EventBuilt DEF TaskPrompts, TypeOK, TaskRecords
  <2>3. CASE TaskPromptFails(a)
    BY <1>2, <2>1, <2>3, EventBuilt DEF TaskPromptFails
  <2> QED
    BY <2>2, <2>3
<1>5. /\ \A kinds : Tells(a, kinds) /\ e.kind \in kinds => Tells(a, kinds)'
      /\ e.kind = "begun" => KnowsTurn(a, Len(events))'
  BY <1>1, <1>4, OwnSend
<1>6. \A i \in 1..Len(events) : events[i].agent # a
  BY <1>2 DEF Tells
<1>7. task'[a].reading => Tells(a, {"begun", "asked", "resolved", "requestFailed"})'
  BY <1>2, <1>4, <1>5 DEF Tells
<1>8. EventTale(a)'
  BY <1>1, <1>2, <1>3, <1>4, <1>6, OwnSendTale DEF EventTale, Resting
<1>9. AgentTale(a)'
  BY <1>1, <1>2, <1>3, <1>4, <1>5, <1>7 DEF AgentTale, Resting, Dead, Ready, Tale
<1> QED
  BY <1>8, <1>9 DEF Tale

(* A session opens: the first thing a task says.                           *)
LEMMA OpenTale ==
  ASSUME TypeOK, NEW a \in Agents, Tale(a), ~Excused(a),
         TaskResumesSession(a) \/ \E s \in Sessions : TaskOpensSession(a, s)
  PROVE  Tale(a)'
<1>1. /\ UNCHANGED <<agent, commands>> /\ task[a].phase = "starting"
      /\ task'[a].phase = "open" /\ task'[a].reading = task[a].reading
      /\ task'[a].asking = task[a].asking
      /\ task'[a].ending = task[a].ending
  BY DEF TaskResumesSession, TaskOpensSession, Opened, TypeOK, TaskRecords
<1>2. /\ ~task[a].ending
      /\ agent[a].state = "Starting" /\ Resting(a) /\ ~task[a].asking /\ Tells(a, {})
  BY <1>1 DEF Tale, AgentTale
<1>3. PICK e \in Events : e.agent = a /\ e.kind = "started" /\ events' = Append(events, e)
  <2>1. task[a].session \in OrNone(Sessions) /\ \A s \in Sessions : s \in OrNone(Sessions)
    BY DEF OrNone, TypeOK, TaskRecords
  <2>2. "started" \in EventKinds
    BY DEF EventKinds
  <2> QED
    BY <2>1, <2>2, EventBuilt DEF TaskResumesSession, TaskOpensSession, Opened
<1>4. \A i \in 1..Len(events) : events[i].agent # a
  BY <1>2 DEF Tells
<1>5. Resting(a)' /\ ~task'[a].asking
  BY <1>1, <1>2 DEF Resting
<1>6. EventTale(a)'
  BY <1>1, <1>3, <1>4, <1>5, OwnSendTale DEF EventTale
<1>7. AgentTale(a)'
  BY <1>1, <1>2, <1>5 DEF AgentTale, Resting, Dead, Ready
<1> QED
  BY <1>6, <1>7 DEF Tale

(* What happens in a turn, and its end.                                    *)
LEMMA TurnTale ==
  ASSUME TypeOK, NEW a \in Agents, Tale(a), ~Excused(a),
         \/ ProviderAsks(a) \/ TurnCompletes(a) \/ TurnFails(a)
         \/ TaskCallFails(a) \/ AskResolved(a),
         ~task'[a].overlapped
  PROVE  Tale(a)'
<1>1. /\ UNCHANGED <<agent, commands>> /\ task'[a].phase = task[a].phase
      /\ task'[a].ending = task[a].ending
  BY DEF ProviderAsks, TurnCompletes, TurnFails, TaskCallFails, AskResolved,
         TurnEnds, TypeOK, TaskRecords
<1>2. AgentTale(a) /\ EventTale(a)
  BY DEF Tale
<1>3. PICK e \in Events :
        /\ e.agent = a /\ events' = Append(events, e)
        /\ \/ /\ e.kind = "asked" /\ task[a].reading
              /\ task'[a].reading /\ task'[a].asking
           \/ /\ e.kind = "completed" /\ task[a].reading
              /\ ~task'[a].reading /\ ~task'[a].asking
           \/ /\ e.kind = "failed" /\ task[a].reading
              /\ ~task'[a].reading
           \/ /\ e.kind = "requestFailed"
              /\ task[a].reading \/ task[a].asking
              /\ task'[a].reading = task[a].reading
              /\ task'[a].asking = task[a].asking
           \/ /\ e.kind = "resolved" /\ task[a].asking
              /\ task'[a].reading = task[a].reading
              /\ ~task'[a].asking
  <2>1. None \in OrNone(Sessions) /\ {"asked", "completed", "failed", "requestFailed", "resolved"} \subseteq EventKinds
    BY DEF OrNone, EventKinds
  <2>2. CASE ProviderAsks(a)
    <3>1. /\ task[a].reading /\ task'[a].reading /\ task'[a].asking
          /\ Emit("asked", a, None)
      BY <2>2 DEF ProviderAsks, TypeOK, TaskRecords
    <3>2. \E e \in Events : /\ e.agent = a /\ e.kind = "asked"
                            /\ events' = Append(events, e)
      BY <2>1, <3>1, EventBuilt
    <3> QED
      BY <3>1, <3>2
  <2>3. CASE TurnFails(a)
    BY <2>1, <2>3, EventBuilt DEF TurnFails, TurnEnds, TypeOK, TaskRecords
  <2>4. CASE TurnCompletes(a)
    BY <2>1, <2>4, EventBuilt DEF TurnCompletes, TurnEnds, TypeOK, TaskRecords
  <2>5. CASE TaskCallFails(a)
    BY <2>1, <2>5, EventBuilt DEF TaskCallFails, TypeOK, TaskRecords
  <2>6. CASE AskResolved(a)
    BY <2>1, <2>6, EventBuilt DEF AskResolved, TypeOK, TaskRecords
  <2> QED
    BY <2>2, <2>3, <2>4, <2>5, <2>6
<1>4. /\ \A kinds : Tells(a, kinds) /\ e.kind \in kinds => Tells(a, kinds)'
      /\ KnowsTurn(a, Len(events)) => KnowsTurn(a, Len(events))'
  BY <1>1, <1>3, OwnSend
<1>5. /\ KnowsTurn(a, Len(events))
      /\ commands[a] = <<>>
      /\ agent[a].state \notin Ready /\ task[a].phase # "starting"
  <2>1. task[a].reading \/ task[a].asking
    BY <1>3
  <2> QED
    BY <1>2, <2>1 DEF AgentTale, Resting
<1>6. EventTale(a)'
  <2>1. \A i \in 1..Len(events) : events[i].agent = a =>
          /\ events[i].kind \notin {"started", "completed", "providerFailed"}
          /\ events[i].kind = "failed" =>
               e.kind \in {"resolved", "requestFailed"} /\ Resting(a)'
    <3> SUFFICES ASSUME NEW i \in 1..Len(events), events[i].agent = a
                 PROVE  /\ events[i].kind \notin {"started", "completed", "providerFailed"}
                        /\ events[i].kind = "failed" =>
                             e.kind \in {"resolved", "requestFailed"} /\ Resting(a)'
      OBVIOUS
    <3>1. task[a].reading => events[i].kind \in {"begun", "asked", "resolved", "requestFailed"}
      BY <1>2 DEF AgentTale, Tells
    <3>2. events[i].kind \in {"started", "completed", "providerFailed"} => Resting(a) /\ ~task[a].asking
      BY <1>2 DEF EventTale
    <3>3. events[i].kind = "failed" => Resting(a)
      BY <1>2 DEF EventTale
    <3> QED
      BY <1>1, <1>3, <3>1, <3>2, <3>3 DEF Resting
  <2>2. e.kind \in {"completed", "failed"} => Resting(a)'
    BY <1>1, <1>3, <1>5 DEF Resting
  <2> QED
    BY <1>1, <1>2, <1>3, <1>5, <2>1, <2>2, OwnSendTale
<1>7. AgentTale(a)'
  <2>1. Dead(a) => Tells(a, {"resolved", "requestFailed"})' /\ Resting(a)'
    <3>1. Dead(a) => Resting(a) /\ Tells(a, {"resolved", "requestFailed"})
      BY <1>2 DEF AgentTale
    <3> QED
      BY <1>1, <1>3, <1>4, <3>1 DEF Resting
  <2>2. task'[a].reading =>
          /\ Tells(a, {"begun", "asked", "resolved", "requestFailed"})'
          /\ agent[a].state \in {"Running", "Waiting"}
    <3>1. task[a].reading =>
            /\ Tells(a, {"begun", "asked", "resolved", "requestFailed"})
            /\ agent[a].state \in {"Running", "Waiting"}
      BY <1>2 DEF AgentTale
    <3> QED
      BY <1>3, <1>4, <3>1
  <2>3. Dead(a)' = Dead(a)
    BY <1>1 DEF Dead
  <2>4. ~task'[a].ending
    BY <1>1, <1>2 DEF AgentTale
  <2> QED
    BY <1>1, <1>4, <1>5, <2>1, <2>2, <2>3, <2>4 DEF AgentTale
<1> QED
  BY <1>6, <1>7 DEF Tale

(* A step of a task or of its provider keeps every tale.                   *)
LEMMA TaskTale ==
  ASSUME TypeOK, NEW a \in Agents, TaskStep(a) \/ ProviderStep(a),
         \A b \in Agents : Tale(b), ChosenQuiet
  PROVE  (\A b \in Agents : Tale(b)') /\ ChosenQuiet'
<1>1. UNCHANGED <<agent, handler>>
  BY DEF TaskStep, ProviderStep, TaskOpensSession, TaskResumesSession,
         TaskStartFails, TaskPrompts, TaskPromptFails, TaskCallFails,
         TaskShutsDown, TaskStops, AskResolved, ProviderFails, ProviderAsks,
         TurnEndsAmid, TurnCompletes, TurnFails, BatchGoesOn,
         TaskRejectsPrompt, Close, TurnEnds
<1>2. ChosenQuiet'
  BY <1>1 DEF ChosenQuiet
<1>3. \A b \in Agents \ {a} : task'[b] = task[b] /\ commands'[b] = commands[b]
  <2>1. task \in [Agents -> TaskRecords] /\ commands \in [Agents -> Seq(Commands)]
    BY DEF TypeOK
  <2>2. CASE TaskStep(a)
    BY <2>1, <2>2 DEF TaskStep, TaskOpensSession, TaskResumesSession, Opened,
         TaskStartFails, TaskPrompts, TaskPromptFails, TaskCallFails,
         TaskShutsDown, TaskStops, AskResolved, TaskRejectsPrompt,
         BatchGoesOn, Close, NextCommand
  <2>3. CASE ProviderStep(a)
    BY <2>1, <2>3 DEF ProviderStep, ProviderFails, ProviderAsks,
         TurnEndsAmid, TurnCompletes, TurnFails, BatchGoesOn,
         TaskRejectsPrompt, Close, TurnEnds
  <2> QED
    BY <2>2, <2>3
<1>4. UNCHANGED events \/ \E e \in Events : events' = Append(events, e) /\ e.agent = a
  <2>1. None \in OrNone(Sessions) /\ task[a].session \in OrNone(Sessions)
        /\ \A s \in Sessions : s \in OrNone(Sessions)
    BY DEF OrNone, TypeOK, TaskRecords
  <2>2. UNCHANGED events \/ \E kind \in EventKinds, s \in OrNone(Sessions) : Emit(kind, a, s)
    <3>1. CASE TaskStep(a)
      BY <2>1, <3>1 DEF TaskStep, TaskOpensSession, TaskResumesSession, Opened,
           TaskStartFails, TaskPrompts, TaskPromptFails, TaskCallFails,
           TaskShutsDown, TaskStops, AskResolved, TaskRejectsPrompt,
           BatchGoesOn, Close, EventKinds
    <3>2. CASE ProviderStep(a)
      BY <2>1, <3>2 DEF ProviderStep, ProviderFails, ProviderAsks,
           TurnEndsAmid, TurnCompletes, TurnFails, Close, TurnEnds, EventKinds
    <3> QED
      BY <3>1, <3>2
  <2> QED
    BY <2>2, EventBuilt
<1>5. \A b \in Agents \ {a} : Tale(b)'
  <2> SUFFICES ASSUME NEW b \in Agents \ {a} PROVE Tale(b)'
    OBVIOUS
  <2>1. SameAgent(b)
    BY <1>1, <1>3 DEF SameAgent
  <2> QED
    BY <1>4, <2>1, TaleKept
<1>6. Tale(a)'
  <2>1. CASE Excused(a)
    BY <2>1, StillExcused DEF Tale
  <2>2. CASE Excused(a)'
    BY <2>2 DEF Tale
  <2>3. CASE ~Excused(a) /\ ~Excused(a)'
    <3>1. AgentTale(a) /\ ~task'[a].overlapped
      BY <2>3 DEF Tale, Excused
    <3>2. ~(\E kind \in {"asked", "completed", "failed"} : BatchGoesOn(a, kind))
      BY <3>1 DEF BatchGoesOn, AgentTale
    <3>3. ~(\E kind \in {"completed", "failed"} : TurnEndsAmid(a, kind))
      BY <3>1 DEF TurnEndsAmid, TypeOK, TaskRecords
    <3>4. ~TaskRejectsPrompt(a)
      BY <3>1 DEF TaskRejectsPrompt, NextCommand, AgentTale
    <3>5. ~(TaskStops(a) \/ TaskStartFails(a) \/ ProviderFails(a) \/ TaskShutsDown(a))
      BY <2>3 DEF TaskStops, TaskStartFails, ProviderFails, TaskShutsDown, Close,
                  NoProvider, Excused, TypeOK, TaskRecords
    <3> QED
      BY <2>3, <3>1, <3>2, <3>3, <3>4, <3>5, PromptTale, OpenTale, TurnTale
         DEF TaskStep, ProviderStep
  <2> QED
    BY <2>1, <2>2, <2>3
<1> QED
  BY <1>2, <1>5, <1>6

-----------------------------------------------------------------------------
(* Steps of the broker: what taking its own event leaves of a tale. *)
LEMMA OwnTake ==
  ASSUME TypeOK, NEW a \in Agents, events # <<>>, events' = Tail(events),
         Head(events).agent = a
  PROVE  /\ 1 \in 1..Len(events) /\ events[1] = Head(events)
         /\ \A kinds : Tells(a, kinds) => Tells(a, kinds)'
         /\ \A kinds : TellsAfter(a, 1, kinds) => Tells(a, kinds)'
<1>1. /\ events \in Seq(Events) /\ Len(events) \in Nat \ {0}
      /\ Len(events') = Len(events) - 1
      /\ Head(events) = events[1]
      /\ \A i \in 1..Len(events') : events'[i] = events[i + 1]
  BY TailElements DEF TypeOK
<1>2. \A i \in 1..Len(events') : i + 1 \in 1..Len(events) /\ i + 1 > 1
  BY <1>1
<1>3. \A kinds : Tells(a, kinds) => Tells(a, kinds)'
  BY <1>1, <1>2 DEF Tells
<1>4. \A kinds : TellsAfter(a, 1, kinds) => Tells(a, kinds)'
  BY <1>1, <1>2 DEF Tells, TellsAfter
<1> QED
  BY <1>1, <1>3, <1>4

(* The broker knows of a turn from its beginning until nothing more is to  *)
(* come of it.                                                             *)
StillKnows(a) ==
  agent[a].turn \/ Dead(a) \/ Head(events).kind \in {"begun", "failed"} =>
    (agent[a].turn \/ Dead(a))'

(* The broker takes an event of the agent itself: the rest of its tale     *)
(* still follows what the broker now knows of the turn.                    *)
LEMMA OwnTakeTale ==
  ASSUME TypeOK, NEW a \in Agents, events # <<>>, events' = Tail(events),
         Head(events).agent = a, EventTale(a), UNCHANGED <<task, commands>>,
         StillKnows(a) \/ TellsAfter(a, 1, {})
  PROVE  /\ EventTale(a)'
         /\ StillKnows(a) /\ KnowsTurn(a, Len(events)) => KnowsTurn(a, Len(events))'
<1>1. /\ events \in Seq(Events) /\ Len(events) \in Nat \ {0}
      /\ Len(events') \in Nat /\ Len(events') = Len(events) - 1
      /\ Head(events) = events[1]
      /\ \A i \in 1..Len(events') : events'[i] = events[i + 1]
  BY TailElements DEF TypeOK
<1>2. \A i \in 1..Len(events') : i + 1 \in 1..Len(events) /\ events'[i] = events[i + 1]
  BY <1>1
<1>3. ASSUME NEW n \in Nat, StillKnows(a), KnowsTurn(a, n + 1)
      PROVE  KnowsTurn(a, n)'
  <2>1. CASE agent[a].turn \/ Dead(a)
    BY <1>3, <2>1 DEF KnowsTurn, StillKnows
  <2>2. CASE \E i \in 1..Len(events) :
               /\ i <= n + 1 /\ events[i].agent = a
               /\ events[i].kind \in {"begun", "failed"}
    <3>1. PICK i \in 1..Len(events) :
               /\ i <= n + 1 /\ events[i].agent = a
               /\ events[i].kind \in {"begun", "failed"}
      BY <2>2
    <3>2. CASE i = 1
      BY <1>1, <1>3, <3>1, <3>2 DEF KnowsTurn, StillKnows
    <3>3. CASE i # 1
      <4>1. i - 1 \in 1..Len(events') /\ events'[i - 1] = events[i] /\ i - 1 <= n
        BY <1>1, <3>1, <3>3
      <4> QED
        BY <3>1, <4>1 DEF KnowsTurn
    <3> QED
      BY <3>2, <3>3
  <2> QED
    BY <1>3, <2>1, <2>2 DEF KnowsTurn
<1>4. StillKnows(a) /\ KnowsTurn(a, Len(events)) => KnowsTurn(a, Len(events))'
  <2>1. Len(events) = Len(events') + 1
    BY <1>1
  <2> QED
    BY <1>1, <1>3, <2>1
<1>5. \A kinds : \A n \in Nat : TellsAfter(a, n + 1, kinds) => TellsAfter(a, n, kinds)'
  BY <1>2 DEF TellsAfter
<1>6. EventTale(a)'
  <2> SUFFICES ASSUME NEW i \in 1..Len(events'), events'[i].agent = a
               PROVE  /\ events'[i].kind \in {"started", "completed", "providerFailed"} =>
                           (Resting(a) /\ ~task[a].asking /\ TellsAfter(a, i, {}))'
                      /\ events'[i].kind = "failed" =>
                           (Resting(a) /\ TellsAfter(a, i, {"resolved", "requestFailed"}))'
                      /\ events'[i].kind = "resolved" => KnowsTurn(a, i - 1)'
                      /\ events'[i].kind # "stopped"
    BY DEF EventTale
  <2>1. /\ i + 1 \in 1..Len(events) /\ events'[i] = events[i + 1] /\ i + 1 > 1
        /\ i \in Nat /\ i - 1 \in Nat /\ (i + 1) - 1 = (i - 1) + 1
    BY <1>2
  <2>2. /\ events[i + 1].kind \in {"started", "completed", "providerFailed"} =>
             Resting(a) /\ ~task[a].asking /\ TellsAfter(a, i + 1, {})
        /\ events[i + 1].kind = "failed" =>
             Resting(a) /\ TellsAfter(a, i + 1, {"resolved", "requestFailed"})
        /\ events[i + 1].kind = "resolved" => KnowsTurn(a, (i - 1) + 1)
        /\ events[i + 1].kind # "stopped"
    BY <2>1 DEF EventTale
  <2>3. Resting(a) => Resting(a)'
    BY DEF Resting
  <2>4. StillKnows(a)
    BY <2>1 DEF TellsAfter
  <2> QED
    BY <1>3, <1>5, <2>1, <2>2, <2>3, <2>4
<1> QED
  BY <1>4, <1>6

(* An event of a task that is not told to stop, of the kinds that change   *)
(* nothing but the broker's copy of the state.                             *)
LEMMA CopyTale ==
  ASSUME TypeOK, NEW a \in Agents, events # <<>>, events' = Tail(events),
         Head(events).agent = a, Tale(a), ~Excused(a),
         UNCHANGED <<task, commands>>, a \in roster,
         \/ OnStarted
         \/ Told([agent[a] EXCEPT !.state = "Running", !.turn = TRUE])
              /\ Head(events).kind = "begun"
         \/ Told([agent[a] EXCEPT !.state = "Completed", !.turn = FALSE])
              /\ Head(events).kind = "completed"
         \/ Told([agent[a] EXCEPT !.state = "Failed", !.turn = FALSE])
              /\ Head(events).kind = "failed"
         \/ OnAsked
         \/ OnResolved
  PROVE  Tale(a)'
<1>1. AgentTale(a) /\ EventTale(a) /\ agent[a] \in AgentRecords /\ From = a
  BY DEF Tale, TypeOK, From
<1>2. /\ 1 \in 1..Len(events) /\ events[1] = Head(events)
      /\ \A kinds : Tells(a, kinds) => Tells(a, kinds)'
      /\ \A kinds : TellsAfter(a, 1, kinds) => Tells(a, kinds)'
  BY OwnTake
<1>3. ~Tells(a, {}) /\ commands[a] = <<>> /\ task[a].phase # "starting"
      /\ agent[a].state \notin Ready
  BY <1>1, <1>2 DEF Tells, AgentTale
<1>4. /\ Resting(a)' = Resting(a) /\ commands'[a] = <<>>
      /\ task'[a].phase # "starting" /\ ~task'[a].ending
  BY <1>1, <1>3 DEF Resting, AgentTale
<1>5. CASE OnStarted
  <2>1. Head(events).kind = "started"
    BY <1>5 DEF OnStarted, Take
  <2>2. agent'[a].state = "Idle" /\ agent'[a].turn = agent[a].turn
    BY <1>1, <1>5 DEF OnStarted, Superseded, TypeOK, AgentRecords
  <2>3. Resting(a) /\ ~task[a].asking /\ TellsAfter(a, 1, {})
    BY <1>1, <1>2, <2>1 DEF EventTale
  <2>4. EventTale(a)'
    BY <1>1, <2>3, OwnTakeTale
  <2>5. AgentTale(a)'
    BY <1>2, <1>4, <2>2, <2>3 DEF AgentTale, Dead, Ready, Resting
  <2> QED
    BY <2>4, <2>5 DEF Tale
<1>6. CASE Told([agent[a] EXCEPT !.state = "Running", !.turn = TRUE])
           /\ Head(events).kind = "begun"
  <2>1. agent'[a].state = "Running" /\ agent'[a].turn
    BY <1>1, <1>6 DEF Told, TypeOK, AgentRecords
  <2>2. StillKnows(a)
    BY <2>1 DEF StillKnows
  <2>3. EventTale(a)'
    BY <1>1, <2>2, OwnTakeTale
  <2>4. AgentTale(a)'
    <3>1. task[a].reading =>
            Tells(a, {"begun", "asked", "resolved", "requestFailed"})'
      BY <1>1, <1>2 DEF AgentTale
    <3> QED
      BY <1>4, <2>1, <3>1 DEF AgentTale, Dead, Ready, KnowsTurn
  <2> QED
    BY <2>3, <2>4 DEF Tale
<1>7. CASE Told([agent[a] EXCEPT !.state = "Completed", !.turn = FALSE])
           /\ Head(events).kind = "completed"
  <2>1. agent'[a].state = "Completed"
    BY <1>1, <1>7 DEF Told, TypeOK, AgentRecords
  <2>2. Resting(a) /\ ~task[a].asking /\ TellsAfter(a, 1, {})
    BY <1>1, <1>2, <1>7 DEF EventTale
  <2>3. EventTale(a)'
    BY <1>1, <2>2, OwnTakeTale
  <2>4. AgentTale(a)'
    BY <1>2, <1>4, <2>1, <2>2 DEF AgentTale, Dead, Ready, Resting
  <2> QED
    BY <2>3, <2>4 DEF Tale
<1>8. CASE Told([agent[a] EXCEPT !.state = "Failed", !.turn = FALSE])
           /\ Head(events).kind = "failed"
  <2>1. agent'[a].state = "Failed"
    BY <1>1, <1>8 DEF Told, TypeOK, AgentRecords
  <2>2. Resting(a) /\ TellsAfter(a, 1, {"resolved", "requestFailed"})
    BY <1>1, <1>2, <1>8 DEF EventTale
  <2>3. StillKnows(a)
    BY <2>1 DEF StillKnows, Dead
  <2>4. EventTale(a)'
    BY <1>1, <2>3, OwnTakeTale
  <2>5. AgentTale(a)'
    BY <1>2, <1>4, <2>1, <2>2 DEF AgentTale, Dead, Ready, Resting, KnowsTurn
  <2> QED
    BY <2>4, <2>5 DEF Tale
<1>9. CASE OnAsked
  <2>1. Head(events).kind = "asked"
    BY <1>9 DEF OnAsked, Take
  <2>2. agent'[a].state = "Waiting" /\ agent'[a].turn = agent[a].turn
    BY <1>1, <1>9 DEF OnAsked, Told, TypeOK, AgentRecords
  <2>3. ~Dead(a)
    BY <1>1, <1>2, <2>1 DEF AgentTale, Tells
  <2>4. StillKnows(a)
    BY <2>1, <2>2, <2>3 DEF StillKnows
  <2>5. /\ EventTale(a)'
        /\ KnowsTurn(a, Len(events)) => KnowsTurn(a, Len(events))'
    BY <1>1, <2>4, OwnTakeTale
  <2>6. AgentTale(a)'
    <3>1. task[a].reading =>
            Tells(a, {"begun", "asked", "resolved", "requestFailed"})'
      BY <1>1, <1>2 DEF AgentTale
    <3>2. task[a].reading \/ task[a].asking => KnowsTurn(a, Len(events))'
      BY <1>1, <2>5 DEF AgentTale
    <3> QED
      BY <1>4, <2>2, <3>1, <3>2 DEF AgentTale, Dead, Ready
  <2> QED
    BY <2>5, <2>6 DEF Tale
<1>10. CASE OnResolved
  <2>1. Head(events).kind = "resolved"
    BY <1>10 DEF OnResolved, Take
  <2>2. agent[a].turn \/ Dead(a)
    <3>1. KnowsTurn(a, 1 - 1)
      BY <1>1, <1>2, <2>1 DEF EventTale
    <3> QED
      BY <3>1 DEF KnowsTurn
  <2>3. /\ agent'[a].turn = agent[a].turn
        /\ Dead(a) => agent'[a].state = agent[a].state
        /\ ~Dead(a) => agent'[a].state \in {"Running", "Waiting"}
    <3>1. PICK left : agent'[a] = [agent[a] EXCEPT !.state = Restored(a, left), !.asks = left]
      BY <1>1, <1>10 DEF OnResolved, Told, TypeOK
    <3>2. agent'[a].turn = agent[a].turn /\ agent'[a].state = Restored(a, left)
      BY <1>1, <3>1 DEF AgentRecords
    <3> QED
      BY <2>2, <3>2 DEF Restored, Dead
  <2>4. StillKnows(a) /\ Dead(a)' = Dead(a)
    BY <2>1, <2>2, <2>3 DEF StillKnows, Dead
  <2>5. /\ EventTale(a)'
        /\ KnowsTurn(a, Len(events)) => KnowsTurn(a, Len(events))'
    BY <1>1, <2>4, OwnTakeTale
  <2>6. AgentTale(a)'
    <3>1. task[a].reading =>
            Tells(a, {"begun", "asked", "resolved", "requestFailed"})'
      BY <1>1, <1>2 DEF AgentTale
    <3>2. task[a].reading \/ task[a].asking => KnowsTurn(a, Len(events))'
      BY <1>1, <2>5 DEF AgentTale
    <3>3. Dead(a) => Resting(a) /\ Tells(a, {"resolved", "requestFailed"})'
      BY <1>1, <1>2 DEF AgentTale
    <3>4. task[a].reading => ~Dead(a)
      BY <1>1 DEF AgentTale, Dead
    <3>5. agent'[a].state \notin Ready
      BY <1>3, <2>3 DEF Ready
    <3> QED
      BY <1>4, <2>3, <2>4, <3>1, <3>2, <3>3, <3>4, <3>5 DEF AgentTale
  <2> QED
    BY <2>5, <2>6 DEF Tale
<1> QED
  BY <1>5, <1>6, <1>7, <1>8, <1>9, <1>10

(* An event keeps every tale, the other agents' too; a failed request      *)
(* tells the task to stop, since an agent that may fail has an empty       *)
(* channel.                                                                *)
LEMMA EventKeepsTales ==
  ASSUME TaleInv, RuntimeEvent
  PROVE  (\A b \in Agents : Tale(b)') /\ ChosenQuiet'
<1> USE DEF TaleInv, FleetInv
<1>1. PICK kind : Take(kind)
  BY DEF RuntimeEvent, OnStarted, OnRequestFailed, OnBegun, OnCompleted,
         OnFailed, OnTurn, OnAsked, OnResolved, OnProviderFailed, OnStopped
<1>2. /\ Free /\ events # <<>> /\ events' = Tail(events)
      /\ From \in Agents /\ agent[From] \in AgentRecords
      /\ From = Head(events).agent
  BY <1>1, TakeType DEF Take, TypeOK, From
<1>3. UNCHANGED <<task, handler>>
  BY DEF RuntimeEvent, OnStarted, OnRequestFailed, OnBegun, OnCompleted,
         OnFailed, OnTurn, OnAsked, OnResolved, OnProviderFailed, OnStopped
<1>4. ChosenQuiet'
  BY <1>2, <1>3 DEF ChosenQuiet, RetiredSoFar
<1>5. \A b \in Agents : task[b].phase # "none" => b \in roster /\ agent[b].live
  BY <1>2, HeldWhenFree
<1>6. \A b \in Agents \ {From} : task[b].phase # "none" =>
        commands'[b] = commands[b] /\ agent'[b] = agent[b]
  <2>1. commands \in [Agents -> Seq(Commands)] /\ agent \in [Agents -> AgentRecords]
    BY DEF TypeOK
  <2>2. CASE OnStarted
    BY <1>5, <2>1, <2>2 DEF OnStarted, Superseded
  <2>3. CASE OnRequestFailed
    BY <1>2, <2>1, <2>3 DEF OnRequestFailed, Told
  <2>4. CASE OnBegun \/ OnCompleted \/ OnFailed
    BY <1>2, <2>1, <2>4 DEF OnBegun, OnCompleted, OnFailed, OnTurn, Told
  <2>5. CASE OnAsked \/ OnResolved \/ OnProviderFailed \/ OnStopped
    BY <1>2, <2>1, <2>5 DEF OnAsked, OnResolved, OnProviderFailed, OnStopped, Told
  <2> QED
    BY <2>2, <2>3, <2>4, <2>5 DEF RuntimeEvent
<1>7. ASSUME NEW b \in Agents \ {From} PROVE Tale(b)'
  <2>1. CASE task[b].phase = "none"
    BY <1>3, <2>1 DEF Tale, Excused
  <2>2. CASE task[b].phase # "none"
    <3>1. SameAgent(b)
      BY <1>3, <1>6, <2>2 DEF SameAgent
    <3> QED
      BY <1>2, <3>1, TaleKept
  <2> QED
    BY <2>1, <2>2
<1>8. ASSUME NEW a \in Agents, a = From PROVE Tale(a)'
  <2> USE <1>8
  <2>1. CASE task[a].phase = "none"
    BY <1>3, <2>1 DEF Tale, Excused
  <2>2. CASE task[a].phase # "none" /\ Excused(a)
    <3>1. commands'[a] = commands[a] \/
          (HasRoom(a) /\ commands'[a] = Append(commands[a], "shutdown"))
      BY <1>2 DEF RuntimeEvent, OnStarted, OnRequestFailed, OnBegun, OnCompleted,
           OnFailed, OnTurn, OnAsked, OnResolved, OnProviderFailed, OnStopped, TypeOK
    <3>2. CASE commands'[a] = commands[a]
      BY <1>3, <2>2, <3>2 DEF Tale, Excused
    <3>3. CASE commands'[a] = Append(commands[a], "shutdown")
      <4>1. commands[a] \in Seq(Commands) /\ "shutdown" \in Commands
        BY <1>2 DEF TypeOK, Commands
      <4>2. /\ Len(commands'[a]) = Len(commands[a]) + 1
            /\ Len(commands[a]) \in Nat
            /\ commands'[a][Len(commands[a]) + 1] = "shutdown"
        BY <3>3, <4>1, AppendElements
      <4>3. Len(commands[a]) + 1 \in 1..Len(commands'[a])
        BY <4>2
      <4>4. Excused(a)'
        BY <4>2, <4>3 DEF Excused
      <4> QED
        BY <4>4 DEF Tale
    <3> QED
      BY <3>1, <3>2, <3>3
  <2>3. CASE task[a].phase # "none" /\ ~Excused(a)
    <3>1. /\ AgentTale(a) /\ EventTale(a) /\ a \in roster
          /\ 1 \in 1..Len(events) /\ events[1] = Head(events)
      BY <1>2, <1>5, <2>3, OwnTake DEF Tale
    <3>2. CASE OnRequestFailed
      <4>1. commands[a] = <<>>
        BY <1>2, <3>1 DEF AgentTale, Tells
      <4>2. HasRoom(a)
        BY <4>1, FleetAssumption, EmptyType DEF HasRoom
      <4>3. commands'[a] = <<"shutdown">>
        <5>1. commands'[a] = Append(commands[a], "shutdown")
          BY <1>2, <2>3, <3>1, <3>2, <4>2 DEF OnRequestFailed, TypeOK
        <5> QED
          BY <4>1, <5>1
      <4>4. Excused(a)'
        BY <4>3 DEF Excused
      <4> QED
        BY <4>4 DEF Tale
    <3>3. CASE OnProviderFailed
      <4>1. /\ UNCHANGED <<task, commands>> /\ Head(events).kind = "providerFailed"
            /\ agent'[a].state = "Disconnected"
        BY <1>2, <1>3, <3>1, <3>3 DEF OnProviderFailed, Take, Told, TypeOK, AgentRecords
      <4>2. Resting(a) /\ ~task[a].asking /\ TellsAfter(a, 1, {})
        BY <1>2, <3>1, <4>1 DEF EventTale
      <4>3. EventTale(a)'
        BY <1>2, <3>1, <4>1, <4>2, OwnTakeTale
      <4>4. Tells(a, {})'
        BY <1>2, <4>2, OwnTake
      <4>5. ~Tells(a, {}) /\ task[a].phase # "starting"
        BY <1>2, <3>1 DEF Tells, AgentTale
      <4>6. \A kinds : Tells(a, kinds)'
        BY <4>4 DEF Tells
      <4>7. AgentTale(a)'
        BY <3>1, <4>1, <4>2, <4>5, <4>6 DEF AgentTale, Dead, Ready, Resting
      <4> QED
        BY <4>3, <4>7 DEF Tale
    <3>5. CASE OnStopped
      BY <1>2, <3>1, <3>5 DEF OnStopped, Take, EventTale
    <3>4. CASE OnStarted \/ OnBegun \/ OnCompleted \/ OnFailed \/ OnAsked \/ OnResolved
      <4>1. UNCHANGED commands
        BY <3>4 DEF OnStarted, OnBegun, OnCompleted, OnFailed, OnTurn, OnAsked, OnResolved
      <4> QED
        BY <1>2, <1>3, <2>3, <3>1, <3>4, <4>1, CopyTale
           DEF OnBegun, OnCompleted, OnFailed, OnTurn, Take
    <3> QED
      BY <3>2, <3>3, <3>4, <3>5 DEF RuntimeEvent
  <2> QED
    BY <2>1, <2>2, <2>3
<1> QED
  BY <1>4, <1>7, <1>8

-----------------------------------------------------------------------------
(* Steps of the broker for a client. *)

(* An agent that is launched has no tale yet. *)
LEMMA NewTale ==
  ASSUME NEW a \in Agents, Unused(a), UNCHANGED events,
         task'[a].phase = "starting", ~task'[a].reading, ~task'[a].asking,
         ~task'[a].ending,
         commands'[a] = <<>>, agent'[a].state = "Starting"
  PROVE  Tale(a)'
<1>1. \A kinds : Tells(a, kinds)'
  BY DEF Unused, Tells
<1>2. \A i \in 1..Len(events') : events'[i].agent # a
  BY DEF Unused
<1>3. AgentTale(a)'
  BY <1>1 DEF AgentTale, Resting, Dead, Ready
<1>4. EventTale(a)'
  BY <1>2 DEF EventTale
<1> QED
  BY <1>3, <1>4 DEF Tale

(* A prompt goes to a task that is at rest and has said all it had to.     *)
LEMMA PromptSentTale ==
  ASSUME TaleInv, NEW a \in Agents, Prompt(a)
  PROVE  Tale(a)'
<1> USE DEF TaleInv, FleetInv
<1>1. /\ agent[a].state \in Ready /\ UNCHANGED <<task, events>>
      /\ commands[a] \in Seq(Commands) /\ agent[a] \in AgentRecords
      /\ task[a].phase # "none" => /\ agent'[a].state = "Running"
                                   /\ agent'[a].turn = agent[a].turn
                                   /\ commands'[a] = Append(commands[a], "prompt")
  BY DEF Prompt, MarkRunning, TypeOK, AgentRecords
<1>2. CASE task[a].phase = "none"
  BY <1>1, <1>2 DEF Tale, Excused
<1>3. CASE task[a].phase # "none" /\ Excused(a)
  <2>1. "prompt" \in Commands
    BY DEF Commands
  <2>2. /\ Len(commands'[a]) = Len(commands[a]) + 1 /\ Len(commands[a]) \in Nat
        /\ \A i \in 1..Len(commands[a]) : commands'[a][i] = commands[a][i]
    BY <1>1, <1>3, <2>1, AppendElements
  <2>3. Excused(a)'
    BY <1>1, <1>3, <2>2 DEF Excused
  <2> QED
    BY <2>3 DEF Tale
<1>4. CASE task[a].phase # "none" /\ ~Excused(a)
  <2>1. /\ Resting(a) /\ ~task[a].asking /\ Tells(a, {}) /\ task[a].phase # "starting"
        /\ ~task[a].ending
    BY <1>1, <1>4 DEF Tale, AgentTale, Ready
  <2>2. commands'[a] = <<"prompt">>
    BY <1>1, <1>4, <2>1 DEF Resting
  <2>3. Len(commands'[a]) = 1
    BY <2>2
  <2>4. \A kinds : Tells(a, kinds)'
    BY <1>1, <2>1 DEF Tells
  <2>5. EventTale(a)'
    BY <1>1, <2>1 DEF EventTale, Tells
  <2>6. AgentTale(a)'
    BY <1>1, <1>4, <2>1, <2>3, <2>4 DEF AgentTale, Resting, Dead, Ready
  <2> QED
    BY <2>5, <2>6 DEF Tale
<1> QED
  BY <1>2, <1>3, <1>4

(* A client's request changes no event: it keeps every agent's tale. *)
LEMMA RequestKeepsTales ==
  ASSUME TaleInv, ClientRequest
  PROVE  (\A b \in Agents : Tale(b)') /\ ChosenQuiet'
<1> USE DEF TaleInv, FleetInv
<1>1. Free /\ UNCHANGED events
  BY DEF ClientRequest, LaunchExplicit, LaunchManaged, Claimable,
         ClaimWithoutLaunch, ClaimHandedBack, Handoff, Prompt, ForkBegins,
         ArchiveBegins, ArchiveSummary, DeleteBegins
<1>2. handler.step = "none"
  BY <1>1 DEF RetiredSoFar
<1>3. \A b \in Agents : task[b].phase # "none" => b \in roster /\ agent[b].live
  BY <1>1, HeldWhenFree
<1>4. ASSUME NEW a \in Agents, NEW launch, NEW s, NEW p, NEW t,
             Launch(a, launch, s, p, t), UNCHANGED handler
      PROVE  (\A b \in Agents : Tale(b)') /\ ChosenQuiet'
  <2>1. /\ Unused(a) /\ task'[a].phase = "starting" /\ ~task'[a].reading
        /\ ~task'[a].asking /\ ~task'[a].ending
        /\ commands'[a] = <<>> /\ agent'[a].state = "Starting"
    BY <1>4 DEF Launch, NoProvider, TypeOK
  <2>2. \A b \in Agents \ {a} : SameAgent(b)
    BY <1>4 DEF Launch, SameAgent, TypeOK
  <2>3. ChosenQuiet'
    BY <1>2, <1>4 DEF ChosenQuiet
  <2> QED
    BY <1>1, <2>1, <2>2, <2>3, NewTale, TaleKept
<1>5. ASSUME NEW a \in Agents, NEW o, NEW p,
             LaunchExplicit(a, o, p) \/ LaunchManaged(a, o, p)
      PROVE  (\A b \in Agents : Tale(b)') /\ ChosenQuiet'
  BY <1>4, <1>5 DEF LaunchExplicit, LaunchManaged
<1>6. ASSUME NEW t,
             ClaimWithoutLaunch(t) \/ ClaimHandedBack(t) \/ Handoff(t)
      PROVE  (\A b \in Agents : Tale(b)') /\ ChosenQuiet'
  <2>1. UNCHANGED <<agent, task, commands, events, handler>>
    BY <1>6 DEF ClaimWithoutLaunch, ClaimHandedBack, Handoff
  <2> QED
    BY <1>2, <2>1, TaleKept DEF SameAgent, ChosenQuiet
<1>7. ASSUME NEW a \in Agents, Prompt(a)
      PROVE  (\A b \in Agents : Tale(b)') /\ ChosenQuiet'
  <2>1. UNCHANGED handler /\ \A b \in Agents \ {a} : SameAgent(b)
    BY <1>7 DEF Prompt, MarkRunning, SameAgent, TypeOK
  <2>2. ChosenQuiet'
    BY <1>2, <2>1 DEF ChosenQuiet
  <2> QED
    BY <1>1, <1>7, <2>1, <2>2, PromptSentTale, TaleKept
<1>8. ASSUME NEW a \in Agents, ForkBegins(a) \/ ArchiveBegins(a)
      PROVE  (\A b \in Agents : Tale(b)') /\ ChosenQuiet'
  <2>1. UNCHANGED <<agent, task, commands, events>> /\ handler'.left = {a}
        /\ agent[a].state \notin Active
    BY <1>8 DEF ForkBegins, ArchiveBegins, Retiring, Idling, Busy, Ready, Active
  <2> QED
    BY <2>1, TaleKept DEF SameAgent, ChosenQuiet
<1>9. ASSUME NEW a \in Agents, ArchiveSummary(a)
      PROVE  (\A b \in Agents : Tale(b)') /\ ChosenQuiet'
  <2>1. /\ UNCHANGED <<task, commands, events, handler>> /\ task[a].phase = "none"
        /\ \A b \in Agents \ {a} : agent'[b] = agent[b]
    BY <1>3, <1>9 DEF ArchiveSummary, Remove
  <2>2. Tale(a)'
    BY <2>1 DEF Tale, Excused
  <2>3. \A b \in Agents \ {a} : SameAgent(b)
    BY <2>1 DEF SameAgent
  <2>4. ChosenQuiet'
    BY <1>2, <2>1 DEF ChosenQuiet
  <2> QED
    BY <2>1, <2>2, <2>3, <2>4, TaleKept
<1>10. ASSUME NEW s, DeleteBegins(s)
       PROVE  (\A b \in Agents : Tale(b)') /\ ChosenQuiet'
  <2>1. UNCHANGED <<agent, task, commands, events>>
    BY <1>10 DEF DeleteBegins
  <2>2. handler'.left \subseteq Matching(s) /\ \A a \in Matching(s) : ~Busy(a)
    BY <1>10 DEF DeleteBegins, Onward, Idling
  <2>3. ChosenQuiet'
    BY <2>1, <2>2 DEF ChosenQuiet, Busy
  <2> QED
    BY <2>1, <2>3, TaleKept DEF SameAgent
<1> QED
  BY <1>5, <1>6, <1>7, <1>8, <1>9, <1>10 DEF ClientRequest

(* Who is retired has been told to stop, or is gone.                       *)
LEMMA FinishKeepsTales ==
  ASSUME TaleInv, FinishRequest
  PROVE  (\A b \in Agents : Tale(b)') /\ ChosenQuiet'
<1> USE DEF TaleInv, FleetInv
<1>1. \A h : h = Idling => h.step = "none"
  BY DEF Idling
<1>2. UNCHANGED events
  BY DEF FinishRequest, RetireSends, ForkLaunches, RetireTimesOut, DeleteRetires,
         ArchiveEnds, ForkRefused, DeleteHandsOff, DeleteRefused, DeleteChecks,
         DeleteErases, DeleteForgets
<1>3. ASSUME NEW gone, \A b \in gone : task'[b].phase = "none" \/ Excused(b)',
             \A b \in Agents \ gone : SameAgent(b)
      PROVE  \A b \in Agents : Tale(b)'
  BY <1>2, <1>3, TaleKept DEF Tale, Excused
<1>4. ASSUME NEW a \in Agents, task'[a].phase = "none" \/ Excused(a)',
              \A b \in Agents \ {a} : SameAgent(b)
       PROVE  \A b \in Agents : Tale(b)'
  BY <1>2, <1>4, TaleKept DEF Tale, Excused
<1>5. handler.step = "join" => handler.agent \in Agents
  BY DEF TypeOK
<1>6. ASSUME NEW a \in Agents, RetireSends(a)
      PROVE  (\A b \in Agents : Tale(b)') /\ ChosenQuiet'
  <2>1. /\ UNCHANGED task /\ agent' = [agent EXCEPT ![a].live = FALSE]
        /\ handler' = [handler EXCEPT !.step = "join", !.agent = a,
                                      !.left = @ \ {a}]
        /\ handler.step = "send" /\ handler'.left \subseteq handler.left
        /\ \/ task[a].phase = "none"
           \/ commands'[a] = Append(commands[a], "shutdown")
        /\ \A b \in Agents \ {a} : commands'[b] = commands[b]
    BY <1>6 DEF RetireSends, TypeOK, Handlers
  <2>2. \A b \in Agents : agent'[b].state = agent[b].state /\ agent'[b].turn = agent[b].turn
    BY <2>1 DEF TypeOK, AgentRecords
  <2>3. Excused(a)'
    <3>1. CASE task[a].phase = "none"
      BY <2>1, <3>1 DEF Excused
    <3>2. CASE commands'[a] = Append(commands[a], "shutdown")
      <4>1. commands[a] \in Seq(Commands) /\ "shutdown" \in Commands
        BY DEF TypeOK, Commands
      <4>2. /\ Len(commands'[a]) = Len(commands[a]) + 1
            /\ Len(commands[a]) \in Nat
            /\ commands'[a][Len(commands[a]) + 1] = "shutdown"
        BY <3>2, <4>1, AppendElements
      <4>3. Len(commands[a]) + 1 \in 1..Len(commands'[a])
        BY <4>2
      <4> QED
        BY <4>2, <4>3 DEF Excused
    <3> QED
      BY <2>1, <3>1, <3>2
  <2>4. \A b \in Agents \ {a} : SameAgent(b)
    BY <2>1, <2>2 DEF SameAgent
  <2>5. ChosenQuiet'
    BY <2>1, <2>2 DEF ChosenQuiet, TypeOK, Handlers
  <2> QED
    BY <1>4, <2>3, <2>4, <2>5
<1>7. CASE RetireTimesOut
  <2> PICK a \in Agents : a = handler.agent
    BY <1>7, <1>5 DEF RetireTimesOut
  <2>1. /\ UNCHANGED <<agent, handler>> /\ task'[a].phase = "none"
        /\ \A b \in Agents \ {a} :
             task'[b] = task[b] /\ commands'[b] = commands[b]
    BY <1>7 DEF RetireTimesOut, TypeOK, NoProvider
  <2>2. \A b \in Agents \ {a} : SameAgent(b)
    BY <2>1 DEF SameAgent
  <2>3. task'[a].phase = "none"
    BY <2>1
  <2>4. ChosenQuiet'
    BY <2>1 DEF ChosenQuiet
  <2> QED
    BY <1>4, <2>2, <2>3, <2>4
<1>8. CASE DeleteRetires \/ ForkRefused
  <2> PICK a \in Agents : a = handler.agent
    BY <1>8, <1>5 DEF Joined, DeleteRetires, ForkRefused
  <2>1. /\ UNCHANGED <<task, commands>> /\ task[a].phase = "none"
        /\ agent' = [agent EXCEPT ![a] = Retired(a)]
        /\ handler.step = "join"
        /\ handler' = Idling \/ handler'.left = handler.left
    BY <1>8 DEF DeleteRetires, ForkRefused, Joined, Onward, TypeOK, Handlers
  <2>2. \A b \in Agents \ {a} : SameAgent(b)
    BY <2>1 DEF SameAgent, TypeOK
  <2>3. task'[a].phase = "none"
    BY <2>1
  <2>4. \A b \in Agents : agent'[b].state \in {agent[b].state, "Disconnected"}
    BY <2>1 DEF TypeOK, Retired, AgentRecords
  <2>5. ChosenQuiet'
    BY <1>1, <2>1, <2>4 DEF ChosenQuiet, Active, TypeOK, Handlers
  <2> QED
    BY <1>4, <2>2, <2>3, <2>5
<1>9. CASE ArchiveEnds
  <2> PICK a \in Agents : a = handler.agent
    BY <1>9, <1>5 DEF Joined, ArchiveEnds
  <2>1. /\ UNCHANGED <<task, commands>> /\ task[a].phase = "none"
        /\ \A b \in Agents \ {a} : agent'[b] = agent[b]
        /\ handler'.step = "none"
    BY <1>1, <1>9 DEF ArchiveEnds, Joined, Remove
  <2>2. \A b \in Agents \ {a} : SameAgent(b)
    BY <2>1 DEF SameAgent
  <2>3. task'[a].phase = "none"
    BY <2>1
  <2>4. ChosenQuiet'
    BY <2>1 DEF ChosenQuiet
  <2> QED
    BY <1>4, <2>2, <2>3, <2>4
<1>10. ASSUME NEW b \in Agents, ForkLaunches(b)
      PROVE  (\A c \in Agents : Tale(c)') /\ ChosenQuiet'
  <2> PICK a \in Agents : a = handler.agent
    BY <1>10, <1>5 DEF Joined, ForkLaunches
  <2>1. /\ Unused(b) /\ task[a].phase = "none" /\ handler'.step = "none"
        /\ agent[a] \in AgentRecords
    BY <1>1, <1>10 DEF ForkLaunches, Joined, TypeOK
  <2>2. /\ task'[b].phase = "starting" /\ ~task'[b].reading /\ ~task'[b].asking
        /\ ~task'[b].ending /\ commands'[b] = <<>> /\ agent'[b].state = "Starting"
    BY <1>10 DEF ForkLaunches, NoProvider, Blank, TypeOK
  <2>3. \A c \in Agents \ {b, a} : SameAgent(c)
    BY <1>10 DEF ForkLaunches, SameAgent, TypeOK
  <2>4. a # b => task'[a].phase = "none"
    BY <1>10, <2>1 DEF ForkLaunches, TypeOK
  <2>5. \A c \in Agents \ {b, a} : Tale(c)'
    BY <1>2, <2>3, TaleKept
  <2>6. Tale(b)'
    BY <1>2, <2>1, <2>2, NewTale
  <2>7. a # b => Tale(a)'
    BY <2>4 DEF Tale, Excused
  <2>8. ChosenQuiet'
    BY <2>1 DEF ChosenQuiet
  <2> QED
    BY <2>5, <2>6, <2>7, <2>8
<1>11. ASSUME UNCHANGED <<agent, task, commands>>, handler'.step \notin {"send", "join"}
      PROVE  (\A b \in Agents : Tale(b)') /\ ChosenQuiet'
  BY <1>2, <1>11, TaleKept DEF SameAgent, ChosenQuiet
<1>12. ASSUME NEW t, DeleteHandsOff(t)
       PROVE  (\A b \in Agents : Tale(b)') /\ ChosenQuiet'
  <2>1. UNCHANGED <<agent, task, commands>> /\ handler'.step \in {"handoff", "check"}
    BY <1>12 DEF DeleteHandsOff, TypeOK, Handlers
  <2> QED
    BY <1>11, <2>1
<1>13. CASE DeleteChecks \/ DeleteErases \/ DeleteRefused
  <2>1. /\ UNCHANGED <<agent, task, commands>>
        /\ handler'.step \in {"erase", "forget", "none"}
    BY <1>1, <1>13 DEF DeleteChecks, DeleteErases, DeleteRefused, TypeOK, Handlers
  <2> QED
    BY <1>11, <2>1
<1>14. CASE DeleteForgets
  <2> PICK gone : gone = handler.matching
    OBVIOUS
  <2>1. /\ handler.step = "forget" /\ UNCHANGED <<task, commands>>
        /\ handler'.step = "none" /\ gone \subseteq Agents
        /\ \A b \in Agents \ gone : agent'[b] = agent[b]
    BY <1>1, <1>14 DEF DeleteForgets, Remove, TypeOK, Handlers
  <2>2. \A b \in gone : task'[b].phase = "none"
    BY <2>1 DEF RetiredSoFar, RuntimesAccounted
  <2>3. \A b \in Agents \ gone : SameAgent(b)
    BY <2>1 DEF SameAgent
  <2>4. ChosenQuiet'
    BY <2>1 DEF ChosenQuiet
  <2> QED
    BY <1>3, <2>2, <2>3, <2>4
<1> QED
  BY <1>6, <1>7, <1>8, <1>9, <1>10, <1>12, <1>13, <1>14 DEF FinishRequest

(* Archiving, forking and deleting cut off no work of an agent that is     *)
(* neither failed nor disconnected and none of whose turns completed with  *)
(* a human request outstanding or ended amid a batch: what the broker      *)
(* knows of it when it decides is enough, for any agents, sessions and     *)
(* bounds and whatever its task does meanwhile (embedded.rs:1400, 1482,    *)
(* 895).                                                                   *)
THEOREM FleetRetiresOnlyQuiet == Spec => []RetiresOnlyQuiet
<1>1. Init => TaleInv
  <2> SUFFICES ASSUME Init PROVE TaleInv
    OBVIOUS
  <2>1. \A a \in Agents : task[a].phase = "none"
    BY DEF Init, NoProvider
  <2>2. Len(events) = 0 /\ handler.op = "none" /\ handler.step = "none"
    BY EmptyType DEF Init, Idling
  <2> QED
    BY <2>1, <2>2, InitType DEF TaleInv, FleetInv, RuntimesAccounted,
         StoppedMeansGone, RetiredSoFar, Free, Tale, Excused, ChosenQuiet
<1>2. TaleInv /\ [Next]_vars => TaleInv'
  <2> SUFFICES ASSUME TaleInv, [Next]_vars PROVE TaleInv'
    OBVIOUS
  <2>1. FleetInv'
    BY FleetInvariant DEF TaleInv
  <2>2. CASE Next
    <3>1. CASE ClientRequest
      BY <2>1, <3>1, RequestKeepsTales DEF TaleInv
    <3>2. CASE RuntimeEvent
      BY <2>1, <3>2, EventKeepsTales DEF TaleInv
    <3>3. CASE FinishRequest
      BY <2>1, <3>3, FinishKeepsTales DEF TaleInv
    <3>4. CASE Restart
      <4>1. (\A a \in Agents : task'[a].phase = "none") /\ handler'.step = "none"
        BY <3>4 DEF Restart, NoProvider, Idling
      <4> QED
        BY <2>1, <4>1 DEF TaleInv, Tale, Excused, ChosenQuiet
    <3>5. CASE \E a \in Agents : TaskStep(a) \/ ProviderStep(a)
      BY <2>1, <3>5, TaskTale DEF TaleInv, FleetInv
    <3> QED
      BY <2>2, <3>1, <3>2, <3>3, <3>4, <3>5 DEF Next
  <2>3. CASE UNCHANGED vars
    BY <2>1, <2>3, TaleKept DEF vars, TaleInv, FleetInv, SameAgent, ChosenQuiet
  <2> QED
    BY <2>2, <2>3
<1>3. TaleInv => RetiresOnlyQuiet
  <2> SUFFICES ASSUME TaleInv, handler.step = "send", NEW a \in handler.left,
                      CutsOff(a), ~task[a].overlapped
               PROVE  FALSE
    BY DEF RetiresOnlyQuiet
  <2>1. a \in Agents /\ agent[a].state \notin Active
    BY DEF TaleInv, FleetInv, TypeOK, Handlers, ChosenQuiet
  <2>2. AgentTale(a)
    BY <2>1 DEF TaleInv, Tale, Excused, CutsOff
  <2>3. commands[a] = <<>> /\ ~task[a].reading
    BY <2>1, <2>2 DEF AgentTale, Active
  <2> QED
    BY <2>3, EmptyType DEF CutsOff
<1> QED
  BY <1>1, <1>2, <1>3, PTL DEF Spec

=============================================================================
