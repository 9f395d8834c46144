---------------------------- MODULE TranscriptCache ----------------------------
(***************************************************************************)
(* How the editor keeps a copy of the broker's transcripts: snapshots it   *)
(* asks for (init.lua M.transcript), patches the broker streams            *)
(* (embedded.rs send_transcript_patch), the copy they make up (model.lua)  *)
(* and the lines painted from it (view.lua _render_conversation), across   *)
(* lost connections and restarted brokers.                                 *)
(*                                                                         *)
(* The lines of a transcript are abstracted to <<epoch, revision>>: the    *)
(* broker process that made them and how many changes they have seen.  A   *)
(* patch turns <<e, r - 1>> into <<e, r>> and anything else into Torn.     *)
(***************************************************************************)
EXTENDS ClientConnection, SequencesExt

CONSTANTS
  Agents,
  MaxPatches,   \* patches kept for the view, 64 in the code
  MaxRevision,  \* bound: changes of all transcripts in one broker process
  MaxEpochs,    \* bound: broker processes
  MaxDrops      \* bound: lost or refused connections

ASSUME CacheAssumption ==
  /\ MaxPatches \in Nat
  /\ MaxRevision \in Nat
  /\ MaxEpochs \in Nat \ {0}
  /\ MaxDrops \in Nat

VARIABLES
  epoch,     \* which broker process runs
  source,    \* [Agents -> revision]: the broker's transcripts
  ready,     \* is the broker's connection past initialized?
  requests,  \* what the client has written and the broker not yet handled
  messages,  \* what the broker has written and the client not yet read
  client,    \* the connection, see ClientConnection
  waiting,   \* ready_waiters: agents whose request waits for a connection
  asked,     \* runtime.transcript_requests
  cache,     \* [Agents -> copy]: Model.transcripts
  view,      \* what is selected, painted and shown
  drops      \* connections lost so far

brokerVars == <<epoch, source, ready>>
editorVars == <<client, waiting, asked, cache, view>>
vars == <<epoch, source, ready, requests, messages,
          client, waiting, asked, cache, view, drops>>

(***************************************************************************)
(* State                                                                   *)
(***************************************************************************)

Versions == (1 .. MaxEpochs) \X Nat
Torn == <<0, 0>>
Placeholder == <<0, 1>>

NoCopy == [status |-> "none", content |-> Torn, revision |-> 0, patches |-> <<>>]
StaleCopy == [NoCopy EXCEPT !.status = "stale"]
NoCopies == [a \in Agents |-> NoCopy]

NotPainted == [agent |-> "none", revision |-> 0, body |-> FALSE]

Initialized == [kind |-> "initialized", agent |-> "none"]
Ask(a) == [kind |-> "ask", agent |-> a]

Frames == {Initialized} \cup {Ask(a) : a \in Agents}

(* Patches and snapshots carry the version their lines lead to.            *)
Message(kind, a, version) == [kind |-> kind, agent |-> a, version |-> version]

Messages == [kind : {"patch", "snapshot"}, agent : Agents, version : Versions]

Init ==
  /\ epoch = 1
  /\ source = [a \in Agents |-> 0]
  /\ ready = FALSE
  /\ requests = <<>>
  /\ messages = <<>>
  /\ client = FreshClient
  /\ waiting = <<>>
  /\ asked = {}
  /\ cache = NoCopies
  /\ \E a \in Agents :
       view = [selected |-> a, painted |-> NotPainted, shown |-> Placeholder,
               dirty |-> TRUE]
  /\ drops = 0

(***************************************************************************)
(* The broker                                                              *)
(***************************************************************************)

MayChange == FoldFunction(+, 0, source) < MaxRevision

(* record_user_input, handle_provider_event, replace_transcript_history    *)
Change(a) ==
  /\ MayChange
  /\ source' = [source EXCEPT ![a] = @ + 1]
  /\ messages' = IF ready
                   THEN Append(messages, Message("patch", a, <<epoch, source[a] + 1>>))
                   ELSE messages
  /\ UNCHANGED <<epoch, ready, requests, editorVars, drops>>

(* One frame of the client: initialized, or agent/transcript.              *)
Answer ==
  /\ requests # <<>>
  /\ requests' = Tail(requests)
  /\ LET frame == Head(requests)
     IN  IF frame.kind = "initialized"
           THEN ready' = TRUE /\ UNCHANGED messages
           ELSE /\ messages' = Append(messages,
                     Message("snapshot", frame.agent, <<epoch, source[frame.agent]>>))
                /\ UNCHANGED ready
  /\ UNCHANGED <<epoch, source, editorVars, drops>>

(***************************************************************************)
(* The copy                                                                *)
(***************************************************************************)

(* A patch applied to lines it was not made from.                          *)
Applied(content, version) ==
  IF content = <<version[1], version[2] - 1>> THEN version ELSE Torn

(* A queue that is emptied one patch late.                                 *)
KeptOneMore(patches, version) ==
  IF Len(patches) <= MaxPatches THEN Append(patches, version) ELSE <<>>

Kept(patches, version) ==
  IF Len(patches) < MaxPatches THEN Append(patches, version) ELSE <<>>

Continues(copy, version) == copy.status = "cached" /\ version[2] = copy.revision + 1

(* apply_transcript_patch                                                  *)
ApplyPatch(a, version) ==
  /\ cache' = [cache EXCEPT ![a] =
       IF Continues(@, version)
         THEN [status |-> "cached", content |-> Applied(@.content, version),
               revision |-> version[2], patches |-> Kept(@.patches, version)]
         ELSE StaleCopy]
  /\ UNCHANGED asked

(* The callback of agent/transcript: set_transcript.                       *)
SetTranscript(a, version) ==
  /\ cache' = [cache EXCEPT ![a] =
       [status |-> "cached", content |-> version, revision |-> version[2],
        patches |-> <<>>]]
  /\ asked' = asked \ {a}

(* The client reads a message; both kinds schedule a render.               *)
Receive ==
  /\ messages # <<>>
  /\ messages' = Tail(messages)
  /\ LET m == Head(messages)
     IN  IF m.kind = "patch" THEN ApplyPatch(m.agent, m.version)
         ELSE SetTranscript(m.agent, m.version)
  /\ view' = [view EXCEPT !.dirty = TRUE]
  /\ UNCHANGED <<brokerVars, requests, client, waiting, drops>>

(***************************************************************************)
(* The connection                                                          *)
(***************************************************************************)

(* set_client_state for a state that a render follows.                     *)
Scheduling == view' = [view EXCEPT !.dirty = TRUE]

(* The calls sent fail without a word to who made them.                    *)
FailRequestsInSilence ==
  /\ UNCHANGED asked
  /\ waiting' = IF Lost(client).state = "failed" THEN <<>> ELSE waiting

(* The calls sent fail, which clears their flags; a request that still     *)
(* waits keeps its flag, also when the client gives up and drops it.       *)
FailRequests ==
  /\ asked' = asked \cap Range(waiting)
  /\ waiting' = IF Lost(client).state = "failed" THEN <<>> ELSE waiting

(* A lost connection after which the copies are kept.                      *)
LoseConnectionKeepingCopies ==
  /\ client' = Lost(client)
  /\ FailRequests
  /\ ready' = FALSE
  /\ requests' = <<>>
  /\ messages' = <<>>
  /\ UNCHANGED cache
  /\ Scheduling

(* _connection_lost with its _set_state("disconnected"), and the broker's  *)
(* ClientInput::Closed.                                                    *)
LoseConnection ==
  /\ client' = Lost(client)
  /\ FailRequests
  /\ ready' = FALSE
  /\ requests' = <<>>
  /\ messages' = <<>>
  /\ cache' = NoCopies
  /\ Scheduling

(* The pipe fails to connect, or what it was connected to goes away.       *)
ConnectionLost ==
  /\ client.pipe
  /\ drops < MaxDrops
  /\ drops' = drops + 1
  /\ LoseConnection
  /\ UNCHANGED <<epoch, source>>

(* Another broker process, its transcripts empty.                          *)
BrokerRestarts ==
  /\ epoch < MaxEpochs
  /\ epoch' = epoch + 1
  /\ source' = [a \in Agents |-> 0]
  /\ IF client.state \in {"negotiating", "connected"}
       THEN LoseConnection
       ELSE UNCHANGED <<ready, requests, messages, editorVars>>
  /\ UNCHANGED drops

(* connect's callback.  A render that was scheduled before it runs first:  *)
(* both go through the editor's one queue of callbacks.                    *)
Connects ==
  /\ client.pipe
  /\ client.state \in {"connecting", "reconnecting"}
  /\ ~view.dirty
  /\ client' = Negotiating(client)
  /\ Scheduling
  /\ UNCHANGED <<brokerVars, requests, messages, waiting, asked, cache, drops>>

(* initialize is answered: the client writes initialized and the requests  *)
(* that waited.                                                            *)
Negotiated ==
  /\ client.state = "negotiating"
  /\ client' = Ready(client)
  /\ requests' = <<Initialized>> \o [i \in DOMAIN waiting |-> Ask(waiting[i])]
  /\ waiting' = <<>>
  /\ Scheduling
  /\ UNCHANGED <<brokerVars, messages, asked, cache, drops>>

TimerFires ==
  /\ client.timer
  /\ client' = TimerFired(client)
  /\ view' = [view EXCEPT !.dirty = @ \/ client'.pipe]
  /\ UNCHANGED <<brokerVars, requests, messages, waiting, asked, cache, drops>>

(* Any ordinary action of the user while there is no connection.           *)
Start ==
  /\ client' = Started(client)
  /\ client' # client
  /\ Scheduling
  /\ UNCHANGED <<brokerVars, requests, messages, waiting, asked, cache, drops>>

(***************************************************************************)
(* The view                                                                *)
(***************************************************************************)

Select(a) ==
  /\ a # view.selected
  /\ view' = [view EXCEPT !.selected = a, !.dirty = TRUE]
  /\ UNCHANGED <<brokerVars, requests, messages, client, waiting, asked, cache, drops>>

(* M.transcript without its look at transcript_requests.                   *)
RequestTranscriptAgain(a) ==
  /\ asked' = asked \cup {a}
  /\ IF client.state = "connected"
       THEN /\ requests' = Append(requests, Ask(a))
            /\ UNCHANGED <<client, waiting>>
       ELSE /\ waiting' = Append(waiting, a)
            /\ client' = Started(client)
            /\ UNCHANGED requests

(* M.transcript, with_client                                               *)
RequestTranscript(a) ==
  IF a \in asked
    THEN UNCHANGED <<asked, requests, client, waiting>>
    ELSE /\ asked' = asked \cup {a}
         /\ IF client.state = "connected"
              THEN /\ requests' = Append(requests, Ask(a))
                   /\ UNCHANGED <<client, waiting>>
              ELSE /\ waiting' = Append(waiting, a)
                   /\ client' = Started(client)
                   /\ UNCHANGED requests

Usable(copy) == copy.status = "cached" /\ copy.revision > 0

(* A check that the patches reach the copy, not that they start at what is *)
(* painted.                                                                *)
ContinuousToTheEnd(painted, copy) ==
  IF copy.patches = <<>> THEN painted.revision = copy.revision
  ELSE Last(copy.patches)[2] = copy.revision

(* May the patches be painted onto what is there?                          *)
Continuous(painted, copy) ==
  IF copy.patches = <<>> THEN painted.revision = copy.revision
  ELSE /\ Head(copy.patches)[2] - 1 = painted.revision
       /\ Last(copy.patches)[2] = copy.revision

(* The patches put onto what is painted, each onto the lines before it.    *)
PaintedOver(shown, patches) ==
  LET before(i) == IF i = 1 THEN shown ELSE patches[i - 1]
  IN  IF patches = <<>> THEN shown
      ELSE IF \A i \in DOMAIN patches : Applied(before(i), patches[i]) = patches[i]
        THEN Last(patches)
        ELSE Torn

(* _render_conversation                                                    *)
Paint(a, copy) ==
  IF copy.status = "stale" /\ view.painted.agent = a
    THEN view' = [view EXCEPT !.dirty = client' # client]
    ELSE IF /\ view.painted.agent = a
            /\ view.painted.body
            /\ Usable(copy)
            /\ Continuous(view.painted, copy)
    THEN view' = [view EXCEPT !.painted.revision = copy.revision,
                              !.shown = PaintedOver(@, copy.patches),
                              !.dirty = FALSE]
    ELSE view' = [view EXCEPT
           !.painted = [agent |-> a, revision |-> copy.revision, body |-> Usable(copy)],
           !.shown = IF Usable(copy) THEN copy.content ELSE Placeholder,
           !.dirty = client' # client]

Render ==
  /\ view.dirty
  /\ LET a == view.selected
     IN  /\ IF cache[a].status = "cached"
              THEN UNCHANGED <<asked, requests, client, waiting>>
              ELSE RequestTranscript(a)
         /\ Paint(a, cache[a])
         /\ cache' = [cache EXCEPT ![a].patches = <<>>]
  /\ UNCHANGED <<brokerVars, messages, drops>>

(***************************************************************************)

Next ==
  \/ \E a \in Agents : Change(a) \/ Select(a)
  \/ Answer
  \/ Receive
  \/ ConnectionLost
  \/ BrokerRestarts
  \/ Connects
  \/ Negotiated
  \/ TimerFires
  \/ Start
  \/ Render

(* The broker serves its client, the editor runs its callbacks and its     *)
(* timer, a socket that accepts connects.  Users and providers owe nothing.*)
Fairness ==
  /\ WF_vars(Answer)
  /\ WF_vars(Receive)
  /\ WF_vars(Connects)
  /\ WF_vars(Negotiated)
  /\ WF_vars(TimerFires)
  /\ WF_vars(Render)

Spec == Init /\ [][Next]_vars /\ Fairness

(***************************************************************************)
(* Properties                                                              *)
(***************************************************************************)

Copies ==
  [status : {"none", "stale", "cached"}, content : Versions \cup {Torn},
   revision : Nat, patches : Seq(Versions)]

Views ==
  [selected : Agents,
   painted : [agent : Agents \cup {"none"}, revision : Nat, body : BOOLEAN],
   shown : Versions \cup {Torn, Placeholder}, dirty : BOOLEAN]

(* The parts are what client.lua, model.lua and view.lua declare, and the  *)
(* queue of patches keeps its limit (model.lua:454).                       *)
TypeOK ==
  /\ epoch \in 1 .. MaxEpochs
  /\ source \in [Agents -> Nat]
  /\ ready \in BOOLEAN
  /\ requests \in Seq(Frames)
  /\ messages \in Seq(Messages)
  /\ client \in Clients
  /\ waiting \in Seq(Agents)
  /\ asked \subseteq Agents
  /\ cache \in [Agents -> Copies]
  /\ \A a \in Agents : Len(cache[a].patches) <= MaxPatches
  /\ view \in Views
  /\ drops \in 0 .. MaxDrops

Patches(a) ==
  {i \in DOMAIN messages : messages[i].kind = "patch" /\ messages[i].agent = a}

(* The patches that follow place k lead from revision r to the broker's    *)
(* transcript: every change since r, once and in order.                    *)
Leads(a, k, r) ==
  /\ r <= source[a]
  /\ \A i \in Patches(a) : k < i =>
       messages[i].version[1] = epoch /\ messages[i].version[2] \in r + 1 .. source[a]
  /\ \A n \in r + 1 .. source[a] :
       \E i \in Patches(a) : k < i /\ messages[i].version[2] = n
  /\ \A i, j \in Patches(a) : k < i /\ i < j =>
       messages[i].version[2] < messages[j].version[2]

(* A copy that is not marked stale holds exactly the broker's lines at its *)
(* revision, and the patches on their way lead from there to the broker's  *)
(* transcript without a gap: a lost, skipped or repeated patch never goes  *)
(* unnoticed (apply_transcript_patch, set_transcript).                     *)
NoSilentGap ==
  \A a \in Agents :
    cache[a].status = "cached" =>
      /\ cache[a].content = <<epoch, cache[a].revision>>
      /\ Leads(a, 0, cache[a].revision)

(* What is painted is one version of the transcript, not a mixture of two, *)
(* and with nothing left to render it is the copy (the patches taken by    *)
(* take_transcript_patches continue what _render_conversation painted).    *)
ShownIsTheCopy ==
  /\ view.painted.body =>
       view.shown # Torn /\ view.shown[2] = view.painted.revision
  /\ ~view.dirty /\ Usable(cache[view.selected]) =>
       view.shown = cache[view.selected].content

(* Requests and answers for an agent that are under way.                   *)
InFlight(a) ==
  {<<"waits", i>> : i \in {j \in DOMAIN waiting : waiting[j] = a}}
    \cup {<<"sent", i>> : i \in {j \in DOMAIN requests : requests[j] = Ask(a)}}
    \cup {<<"answered", i>> : i \in {j \in DOMAIN messages :
            messages[j].kind = "snapshot" /\ messages[j].agent = a}}

(* init.lua:1099: one request per agent is in flight at a time, across     *)
(* lost connections, so no late snapshot can replace a newer copy.         *)
OneRequestInFlight ==
  \A a \in Agents :
    /\ \A x, y \in InFlight(a) : x = y
    /\ InFlight(a) # {} => a \in asked /\ cache[a].status # "cached"

Current(a) ==
  view.shown = IF source[a] = 0 THEN Placeholder ELSE <<epoch, source[a]>>

(* Unless the client has given up at some time, the conversation the user  *)
(* stays on is shown as the broker has it once the connection stays up     *)
(* (M.transcript and the patches after it).                                *)
CatchesUp ==
  \A a \in Agents :
    /\ [](client.state # "failed")
    /\ <>[](client.state = "connected" /\ view.selected = a)
    => <>[]Current(a)

(* docs/spec.md:966: "The client retries a durable local connection with   *)
(* capped exponential backoff": it is connected, or has used up its        *)
(* attempts, again and again (_schedule_reconnect).                        *)
ClientRetries == []<>(client.state \in {"stopped", "connected", "failed"})
=============================================================================
