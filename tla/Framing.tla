------------------------------- MODULE Framing -------------------------------
(***************************************************************************)
(* Newline framing of the broker's byte streams: read_bounded_line over a  *)
(* BufReader (framing.rs), called by the Claude worker and Codex clients   *)
(* (worker.rs, codex.rs) and by the reader of an editor's connection       *)
(* (embedded.rs read_client).                                              *)
(*                                                                         *)
(* Here every call is awaited to its end, as by read_client and by the     *)
(* clients' own requests; TaskReader adds the callers that drop a call.    *)
(*                                                                         *)
(* Bytes are positions, as in LineStream, which states what the callers    *)
(* rely on and which this module is shown to implement.                    *)
(***************************************************************************)
EXTENDS Integers, Sequences

CONSTANTS
  MaxBytes,    \* how many bytes the child writes at most
  Limit,       \* MAX_FRAME_BYTES: the longest payload of a line
  Capacity     \* bytes the BufReader holds (8 KiB in tokio)

ASSUME FramingAssumption ==
  /\ MaxBytes \in Nat
  /\ Limit \in Nat \ {0}
  /\ Capacity \in Nat \ {0}

VARIABLES
  written,   \* bytes the child has written
  newlines,  \* the positions of the newlines among them
  closed,    \* has the child closed its end?
  received,  \* the frames returned as Data, as pairs of positions
  outcome,   \* "open", "closed" or "too_large": what the calls returned last
  fetched,   \* bytes taken from the pipe by the BufReader
  consumed,  \* bytes taken from the BufReader by read_bounded_line
  first,     \* the first position of the frame the pending call holds
  calling    \* is a call pending?

vars == <<written, newlines, closed, received, outcome,
          fetched, consumed, first, calling>>

(* The line stream these frames make up.                                   *)
Lines == INSTANCE LineStream WITH
  length <- written, ends <- newlines, finished <- closed,
  delivered <- received, outcome <- outcome

(***************************************************************************)
(* State                                                                   *)
(***************************************************************************)

Init ==
  /\ written = 0
  /\ newlines = {}
  /\ closed = FALSE
  /\ received = <<>>
  /\ outcome = "open"
  /\ fetched = 0
  /\ consumed = 0
  /\ first = 1
  /\ calling = FALSE

(* fill_buf's slice                                                        *)
Available == consumed + 1 .. fetched

(* The last newline of the slice instead of the first.                     *)
LastNewlineAt(n) ==
  /\ n \in newlines \cap Available
  /\ newlines \cap (n + 1 .. fetched) = {}

(* position(|byte| *byte == b'\n'): the first newline of the slice         *)
NewlineAt(n) ==
  /\ n \in newlines \cap Available
  /\ newlines \cap (consumed + 1 .. n - 1) = {}

NoNewline == newlines \cap Available = {}

(* A payload that counts its newline.                                      *)
PayloadLenWithNewline(n) == n - first + 1

(* frame.len() + payload_bytes, where the payload ends before n            *)
PayloadLen(n) == n - first

(***************************************************************************)
(* The child                                                               *)
(***************************************************************************)

ChildWrites ==
  /\ ~closed
  /\ written < MaxBytes
  /\ written' = written + 1
  /\ newlines' \in {newlines, newlines \cup {written + 1}}
  /\ UNCHANGED <<closed, received, outcome, fetched, consumed, first, calling>>

ChildCloses ==
  /\ ~closed
  /\ closed' = TRUE
  /\ UNCHANGED <<written, newlines, received, outcome, fetched, consumed, first, calling>>

(***************************************************************************)
(* read_bounded_line                                                       *)
(***************************************************************************)

(* The call starts: let mut frame = Vec::new().                            *)
Call ==
  /\ outcome = "open"
  /\ ~calling
  /\ calling' = TRUE
  /\ first' = consumed + 1
  /\ UNCHANGED <<written, newlines, closed, received, outcome, fetched, consumed>>

(* A reader that waits until its buffer is full.                           *)
FillWhole ==
  /\ calling
  /\ consumed = fetched
  /\ fetched + Capacity <= written
  /\ fetched' = fetched + Capacity
  /\ UNCHANGED <<written, newlines, closed, received, outcome,
                 consumed, first, calling>>

(* fill_buf on an empty buffer reads what the pipe has, up to the buffer's *)
(* capacity; with an empty pipe the call stays pending.                    *)
Fill ==
  /\ calling
  /\ consumed = fetched
  /\ \E n \in 1 .. Capacity :
       /\ fetched + n <= written
       /\ fetched' = fetched + n
  /\ UNCHANGED <<written, newlines, closed, received, outcome,
                 consumed, first, calling>>

(* frame.len() + payload_bytes > max_payload_bytes                         *)
TooLarge ==
  /\ calling
  /\ consumed < fetched
  /\ \/ \E n \in newlines : NewlineAt(n) /\ PayloadLen(n) > Limit
     \/ NoNewline /\ PayloadLen(fetched + 1) > Limit
  /\ outcome' = "too_large"
  /\ calling' = FALSE
  /\ UNCHANGED <<written, newlines, closed, received, fetched, consumed, first>>

(* A frame started anew in every round of the loop.                        *)
TakeChunkAnew ==
  /\ calling
  /\ consumed < fetched
  /\ NoNewline
  /\ PayloadLen(fetched + 1) <= Limit
  /\ consumed' = fetched
  /\ first' = fetched + 1
  /\ UNCHANGED <<written, newlines, closed, received, outcome, fetched, calling>>

(* The buffer ends before the line does: keep it and go on.                *)
TakeChunk ==
  /\ calling
  /\ consumed < fetched
  /\ NoNewline
  /\ PayloadLen(fetched + 1) <= Limit
  /\ consumed' = fetched
  /\ UNCHANGED <<written, newlines, closed, received, outcome,
                 fetched, first, calling>>

TakeLine ==
  /\ calling
  /\ \E n \in newlines :
       /\ NewlineAt(n)
       /\ PayloadLen(n) <= Limit
       /\ consumed' = n
       /\ received' = Append(received, <<first, n>>)
  /\ calling' = FALSE
  /\ UNCHANGED <<written, newlines, closed, outcome, fetched, first>>

(* available.is_empty(): Closed, or what is left as a last frame.          *)
AtEnd ==
  /\ calling
  /\ closed
  /\ consumed = fetched
  /\ fetched = written
  /\ IF first > consumed
       THEN /\ outcome' = "closed"
            /\ UNCHANGED received
       ELSE /\ received' = Append(received, <<first, consumed>>)
            /\ UNCHANGED outcome
  /\ calling' = FALSE
  /\ UNCHANGED <<written, newlines, closed, fetched, consumed, first>>

ReaderStep == Call \/ Fill \/ TooLarge \/ TakeChunk \/ TakeLine \/ AtEnd

Next == ChildWrites \/ ChildCloses \/ ReaderStep

(* The reader is polled whenever it can make progress; the child owes      *)
(* nothing.                                                                *)
Spec == Init /\ [][Next]_vars /\ WF_vars(ReaderStep)

(***************************************************************************)
(* Properties                                                              *)
(***************************************************************************)

(* Positions are ordered: the adapter is behind the buffer, the buffer     *)
(* behind the child (fill_buf, consume and the local frame).               *)
TypeOK ==
  /\ written \in 0 .. MaxBytes
  /\ newlines \subseteq 1 .. written
  /\ closed \in BOOLEAN
  /\ received \in Seq((1 .. written) \X (1 .. written))
  /\ outcome \in {"open", "closed", "too_large"}
  /\ fetched \in 0 .. written
  /\ consumed \in 0 .. fetched
  /\ first \in 1 .. consumed + 1
  /\ calling \in BOOLEAN

(* No byte is lost, repeated or given to a second frame, and a frame is a  *)
(* whole line: the frames the callers parse (worker.rs read, codex.rs      *)
(* read, read_client) cover the consumed bytes without a gap.              *)
FramesAreWholeLines ==
  \A i \in DOMAIN received :
    /\ received[i][1] = IF i = 1 THEN 1 ELSE received[i - 1][2] + 1
    /\ \/ Lines!IsLine(received[i][1], received[i][2])
       \/ /\ closed
          /\ received[i][2] = written
          /\ newlines \cap (received[i][1] .. received[i][2]) = {}

(* The limit refuses a line exactly when its payload is longer, wherever   *)
(* the chunks of the buffer happen to end (framing.rs max_payload_bytes).  *)
RefusedOnlyWhenLong ==
  /\ outcome = "too_large" =>
       newlines \cap (Lines!NextByte .. Lines!NextByte + Limit) = {}
  /\ \A i \in DOMAIN received :
       LET payload == received[i][1] .. received[i][2]
       IN  received[i][2] - received[i][1] + 1
             <= Limit + (IF newlines \cap payload = {} THEN 0 ELSE 1)

(* Every line the child completes is handed over, unless the stream was    *)
(* refused: the reader neither stalls at a chunk's end nor waits for the   *)
(* next line (the loop of read_bounded_line).                              *)
LinesArrive ==
  \A n \in 1 .. MaxBytes :
    n \in newlines ~> (outcome # "open" \/ consumed >= n)

(* The chunked reader implements the line stream: whatever the chunks, its *)
(* callers see whole lines, in order (framing.rs tests its two calls).     *)
ImplementsLineStream == Lines!Spec
=============================================================================
