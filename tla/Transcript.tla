------------------------------- MODULE Transcript -------------------------------
(***************************************************************************)
(* The broker's transcript of one agent (transcript.rs): the messages it   *)
(* has seen, the styled lines they are rendered to, and the patch each     *)
(* change yields.  Its callers are record_user_input, handle_provider_event *)
(* and replace_transcript_history (embedded.rs).                           *)
(*                                                                         *)
(* No provider event asks for a state of the agent: a batch that a call    *)
(* collected is published to its last event behind a turn's end, and the   *)
(* messages of a turn the broker gave up go on coming.                     *)
(*                                                                         *)
(* A text is a sequence of lines.  Of a line is kept how long it is and    *)
(* whether it starts with a fence run; a fence line of size 1 is bare.     *)
(***************************************************************************)
EXTENDS LinePatch, SequencesExt

Roles == {"user", "assistant", "system"}
Texts == Seq([mark : {"plain", "fence"}, size : Nat]) \ {<<>>}

CONSTANTS
  UserTexts,    \* texts the user may send
  Histories,    \* sequences of [role, text] a provider may report
  MaxRevision   \* bound: changes of the transcript

ASSUME TranscriptAssumption ==
  /\ \A text \in UserTexts : text \in Texts
  /\ \A history \in Histories : history \in Seq([role : Roles, text : Texts])
  /\ MaxRevision \in Nat

VARIABLES
  messages,  \* [role, text, streaming, count], oldest first
  lines,     \* the rendered lines
  revision,
  patch,     \* the patch of the last change
  state,     \* "ready" for a prompt, "running", "waiting" for the user, or
             \* "gone" (failed or disconnected)
  turn,      \* is there an active_turn_id?
  stray      \* history: the message that streams at the end began outside a
             \* turn, or its turn was given up without an end

agent == <<state, turn, stray>>
vars == <<messages, lines, revision, patch, agent>>

(***************************************************************************)
(* Rendering                                                               *)
(***************************************************************************)

TextLine(mark, size) == [mark |-> mark, size |-> size]
EmptyText == <<TextLine("plain", 0)>>

IsFence(line) == line.mark = "fence" /\ line.size > 0
IsBareFence(line) == line.mark = "fence" /\ line.size = 1

(* text.len(), newlines included                                           *)
TextLen(text) == FoldSeq(LAMBDA line, n : n + line.size, Len(text) - 1, text)

(* Line::styled: an empty line has no spans, whatever its style.           *)
Styled(line, style) ==
  [mark |-> IF line.size = 0 THEN "plain" ELSE line.mark,
   size |-> line.size,
   style |-> IF line.size = 0 THEN "none" ELSE style]

Blank == Styled(TextLine("plain", 0), "none")
LabelLine(role) == Styled(TextLine("label", 1), "label_" \o role)
Ellipsis == Styled(TextLine("dots", 1), "streaming")

(* Is a fence open after the first i lines of the text?                    *)
FenceOpen(text) ==
  LET open[i \in 0 .. Len(text)] ==
        IF i = 0 THEN FALSE
        ELSE IF open[i - 1] THEN ~IsBareFence(text[i])
        ELSE IsFence(text[i])
  IN  open

(* style_lines: a line's style depends on itself and on the open fence.    *)
StyledLines(text) ==
  LET open == FenceOpen(text)
  IN  [i \in DOMAIN text |->
         Styled(text[i],
           IF open[i - 1]
             THEN IF IsBareFence(text[i]) THEN "fence" ELSE "code"
             ELSE IF IsFence(text[i]) THEN "fence" ELSE "none")]

Render(m) ==
  IF m.role = "user"
    THEN [i \in DOMAIN m.text |-> Styled(m.text[i], "user")] \o <<Blank>>
    ELSE <<LabelLine(m.role), Blank>>
         \o (IF m.streaming /\ m.text = EmptyText THEN <<>> ELSE StyledLines(m.text))
         \o (IF m.streaming THEN <<Ellipsis>> ELSE <<>>)
         \o <<Blank>>

Message(role, text, streaming) ==
  LET m == [role |-> role, text |-> text, streaming |-> streaming]
  IN  [role |-> role, text |-> text, streaming |-> streaming,
       count |-> Len(Render(m))]

(***************************************************************************)
(* Changes                                                                 *)
(***************************************************************************)

Init ==
  /\ messages = <<>>
  /\ lines = <<>>
  /\ revision = 0
  /\ patch = [revision |-> 0, start |-> 0, end |-> 0, lines |-> <<>>]
  /\ state = "ready"
  /\ turn = FALSE
  /\ stray = FALSE

(* A patch numbered before the revision is counted up.                     *)
SpliceUnnumbered(start, end, new) ==
  LET old == SubSeq(lines, start + 1, end)
  IN  \E p, s \in 0 .. Len(new) :
        /\ CommonStart(old, new, p)
        /\ CommonEnd(old, new, p, s)
        /\ LET cut == Trimmed(start, end, new, p, s)
           IN  /\ lines' = Patched(lines, cut)
               /\ patch' = [revision |-> revision, start |-> cut.start,
                            end |-> cut.end, lines |-> cut.lines]
        /\ revision' = revision + 1

Splice(start, end, new) ==
  LET old == SubSeq(lines, start + 1, end)
  IN  \E p, s \in 0 .. Len(new) :
        /\ CommonStart(old, new, p)
        /\ CommonEnd(old, new, p, s)
        /\ LET cut == Trimmed(start, end, new, p, s)
           IN  /\ lines' = Patched(lines, cut)
               /\ patch' = [revision |-> revision + 1, start |-> cut.start,
                            end |-> cut.end, lines |-> cut.lines]
        /\ revision' = revision + 1

PushMessage(m) ==
  /\ messages' = Append(messages, m)
  /\ Splice(Len(lines), Len(lines), Render(m))

(* The position of a message, counted without the one before it.           *)
SetMessageTooEarly(index, m) ==
  LET start == FoldSeq(LAMBDA before, n : n + before.count, 0,
                       SubSeq(messages, 1, index - 2))
  IN  /\ messages' = [messages EXCEPT ![index] = m]
      /\ Splice(start, start + messages[index].count, Render(m))

(* A message replaced without its new line count.                          *)
SetMessageUncounted(index, m) ==
  LET start == FoldSeq(LAMBDA before, n : n + before.count, 0,
                       SubSeq(messages, 1, index - 1))
      count == messages[index].count
  IN  /\ messages' = [messages EXCEPT ![index] = [m EXCEPT !.count = count]]
      /\ Splice(start, start + count, Render(m))

SetMessage(index, m) ==
  LET start == FoldSeq(LAMBDA before, n : n + before.count, 0,
                       SubSeq(messages, 1, index - 1))
  IN  /\ messages' = [messages EXCEPT ![index] = m]
      /\ Splice(start, start + messages[index].count, Render(m))

(* streaming_assistant: only the last message can be the one streaming.    *)
IsStreaming ==
  /\ messages # <<>>
  /\ Last(messages).role = "assistant"
  /\ Last(messages).streaming

NoChange == UNCHANGED <<messages, lines, revision, patch>>

(* record_user_input after a prompt or a steering message was dispatched.  *)
Prompt(text) ==
  /\ state = "ready"
  /\ state' = "running"
  /\ stray' = FALSE
  /\ PushMessage(Message("user", text, FALSE))
  /\ UNCHANGED turn

Steer(text) ==
  /\ state = "running"
  /\ stray' = FALSE
  /\ PushMessage(Message("user", text, FALSE))
  /\ UNCHANGED <<state, turn>>

(* An input or an interrupt meets a closed command channel.                *)
ChannelClosed ==
  /\ state' = "gone"
  /\ NoChange
  /\ UNCHANGED <<turn, stray>>

(* turn.started                                                            *)
TurnStarted ==
  /\ state' = "running"
  /\ turn' = TRUE
  /\ NoChange
  /\ UNCHANGED stray

(* approval.requested, question.requested                                  *)
Asks ==
  /\ state' = "waiting"
  /\ NoChange
  /\ UNCHANGED <<turn, stray>>

(* approval.resolved, question.resolved: restore_waiting_state, which waits *)
(* on while another request is outstanding.                                *)
Resolves ==
  /\ state # "gone"
  /\ state' \in {"waiting", IF turn THEN "running" ELSE "ready"}
  /\ NoChange
  /\ UNCHANGED <<turn, stray>>

(* What a delta may do to a text: nothing, lengthen its last line, begin a *)
(* line.                                                                   *)
Extended(text) ==
  LET last == text[Len(text)]
  IN  {text, Append(text, TextLine("plain", 0))}
        \cup {ReplaceAt(text, Len(text), TextLine(mark, last.size + 1)) :
                mark \in IF last.size = 0 THEN {"plain", "fence"} ELSE {last.mark}}

(* message.delta                                                           *)
Delta ==
  /\ IF IsStreaming
       THEN /\ \E text \in Extended(Last(messages).text) :
                 IF text = Last(messages).text
                   THEN NoChange
                   ELSE SetMessage(Len(messages), Message("assistant", text, TRUE))
            /\ UNCHANGED stray
       ELSE /\ \E text \in Extended(EmptyText) :
                 PushMessage(Message("assistant", text, TRUE))
            /\ stray' = ~turn
  /\ UNCHANGED <<state, turn>>

(* message.completed; its text may be missing, equal, longer or shorter.   *)
FinalTexts(text) == Extended(text) \cup {EmptyText}

Completed ==
  /\ IF IsStreaming
       THEN LET sofar == Last(messages).text
            IN  \E text \in FinalTexts(sofar) :
                  SetMessage(Len(messages),
                    Message("assistant",
                            IF TextLen(text) >= TextLen(sofar) THEN text ELSE sofar,
                            FALSE))
       ELSE \/ NoChange
            \/ \E text \in FinalTexts(EmptyText) :
                 PushMessage(Message("assistant", text, FALSE))
  /\ stray' = FALSE
  /\ UNCHANGED <<state, turn>>

(* An end that leaves the last message as it is.                           *)
CloseNothing == NoChange

(* apply_event on a turn's end                                             *)
CloseStream ==
  IF IsStreaming
    THEN SetMessage(Len(messages), Message("assistant", Last(messages).text, FALSE))
    ELSE NoChange

(* turn.completed.  A queued prompt may go out at once, which the          *)
(* transcript is not told, or meet a full or closed command channel        *)
(* (dispatch_queued_prompt, handle_provider_failure).                      *)
TurnCompletes ==
  /\ CloseStream
  /\ turn' = FALSE
  /\ stray' = FALSE
  /\ state' \in {"ready", "running", "gone"}

(* turn.failed                                                             *)
TurnFails ==
  /\ CloseStream
  /\ turn' = FALSE
  /\ stray' = FALSE
  /\ state' = "gone"

(* handle_provider_failure, a call that fails the agent, the end of its    *)
(* task: no turn's end reaches the transcript.                             *)
ProviderLost ==
  /\ turn' = FALSE
  /\ stray' = (IsStreaming /\ (stray \/ turn))
  /\ state' = "gone"
  /\ NoChange

(* The answer of agent/history, which may come at any time.                *)
ReplaceHistory ==
  /\ \E history \in Histories :
       LET replaced == [i \in DOMAIN history |->
                          Message(history[i].role, history[i].text, FALSE)]
       IN  /\ messages' = replaced
           /\ Splice(0, Len(lines),
                FlattenSeq([i \in DOMAIN replaced |-> Render(replaced[i])]))
  /\ stray' = FALSE
  /\ UNCHANGED <<state, turn>>

Change ==
  \/ \E text \in UserTexts : Prompt(text) \/ Steer(text)
  \/ ChannelClosed
  \/ TurnStarted
  \/ Asks
  \/ Resolves
  \/ Delta
  \/ Completed
  \/ TurnCompletes
  \/ TurnFails
  \/ ProviderLost
  \/ ReplaceHistory

Next == revision < MaxRevision /\ Change

Spec == Init /\ [][Next]_vars

(***************************************************************************)
(* Properties                                                              *)
(***************************************************************************)

(* Messages and lines are what Transcript declares.                        *)
TypeOK ==
  /\ \A i \in DOMAIN messages :
       /\ messages[i].role \in Roles
       /\ messages[i].text \in Texts
       /\ messages[i].streaming \in BOOLEAN
       /\ messages[i].count \in Nat
  /\ \A i \in DOMAIN lines : lines[i].size \in Nat
  /\ revision \in 0 .. MaxRevision
  /\ patch.revision = revision
  /\ state \in {"ready", "running", "waiting", "gone"}
  /\ turn \in BOOLEAN
  /\ stray \in BOOLEAN

(* The lines, which only ever change by patches, are the rendering of the  *)
(* messages, and every message knows its share of them: an editor that     *)
(* applied the patches shows the conversation (splice, line_count).        *)
LinesAreTheMessages ==
  /\ lines = FlattenSeq([i \in DOMAIN messages |-> Render(messages[i])])
  /\ \A i \in DOMAIN messages : messages[i].count = Len(Render(messages[i]))

(* A message still shown as streaming is the last one, of a turn that is   *)
(* not over, or a user input came right behind it, which hides it from     *)
(* streaming_assistant.  What else can stay open is named: the last        *)
(* message, begun outside a turn (by a delta published behind the turn's   *)
(* end) or left by a turn the broker gave up without an end.               *)
OpenStreamsWereSteered ==
  \A i \in DOMAIN messages :
    messages[i].streaming =>
      IF i = Len(messages) THEN turn \/ stray
      ELSE messages[i + 1].role = "user"

(* Only a reported history touches the lines of a finished message:        *)
(* otherwise every line above the last message stays as it was painted.    *)
FinishedLinesStay ==
  [][\/ ReplaceHistory
     \/ \A i \in 1 .. Len(lines) - (IF IsStreaming THEN Last(messages).count ELSE 0) :
          i \in DOMAIN lines' /\ lines'[i] = lines[i]]_vars
=============================================================================
