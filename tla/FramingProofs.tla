---------------------------- MODULE FramingProofs ----------------------------
(***************************************************************************)
(* For every limit, buffer size and amount of output: read_bounded_line    *)
(* implements the line stream.  What has to be known between two chunks is *)
(* where the frame under construction began and that no newline was        *)
(* consumed since (CallInv).                                               *)
(***************************************************************************)
EXTENDS Framing, SequenceFacts

(* The pending call holds exactly the bytes after the last frame, none of  *)
(* them a newline, and within the limit.                                   *)
CallInv ==
  calling =>
    /\ outcome = "open"
    /\ first = Lines!NextByte
    /\ newlines \cap (first .. consumed) = {}
    /\ consumed - first < Limit

(* Between two calls nothing is held.                                      *)
IdleInv ==
  ~calling /\ outcome = "open" => consumed + 1 = Lines!NextByte

(* A refused line keeps refusing: it is long already.                      *)
RefusedInv ==
  outcome = "too_large" =>
    /\ Lines!NextByte + Limit <= written
    /\ newlines \cap (Lines!NextByte .. Lines!NextByte + Limit) = {}

(* The payload of a frame fits the limit (the second half of               *)
(* RefusedOnlyWhenLong).                                                   *)
FrameFits(f) ==
  f[2] - f[1] + 1 <= Limit + (IF newlines \cap (f[1] .. f[2]) = {} THEN 0 ELSE 1)

FitsInv == \A i \in DOMAIN received : FrameFits(received[i])

IInv ==
  /\ TypeOK
  /\ CallInv
  /\ IdleInv
  /\ RefusedInv
  /\ FramesAreWholeLines
  /\ FitsInv

(***************************************************************************)
(* Frames                                                                  *)
(***************************************************************************)

(* The next byte is one past the last frame, and known as a number.        *)
LEMMA NextByteType ==
  ASSUME TypeOK
  PROVE  /\ Lines!NextByte \in 1 .. written + 1
         /\ \A i \in DOMAIN received :
              received[i][1] \in 1 .. written /\ received[i][2] \in 1 .. written
BY DEF TypeOK, Lines!NextByte

(* A frame appended is the last one, and the byte after it comes next.     *)
LEMMA AppendFrame ==
  ASSUME TypeOK, NEW a \in 1 .. written, NEW b \in 1 .. written,
         received' = Append(received, <<a, b>>)
  PROVE  /\ received' \in Seq((1 .. written) \X (1 .. written))
         /\ DOMAIN received' = DOMAIN received \cup {Len(received) + 1}
         /\ Len(received') = Len(received) + 1
         /\ \A i \in DOMAIN received : received'[i] = received[i]
         /\ received'[Len(received) + 1] = <<a, b>>
         /\ Lines!NextByte' = b + 1
<1>1. received \in Seq((1 .. written) \X (1 .. written)) /\ <<a, b>> \in (1 .. written) \X (1 .. written)
  BY DEF TypeOK
<1>2. /\ received' \in Seq((1 .. written) \X (1 .. written))
      /\ Len(received') = Len(received) + 1
      /\ \A i \in DOMAIN received : received'[i] = received[i]
      /\ received'[Len(received) + 1] = <<a, b>>
      /\ DOMAIN received' = 1 .. Len(received) + 1
      /\ DOMAIN received = 1 .. Len(received)
  BY <1>1
<1>3. DOMAIN received' = DOMAIN received \cup {Len(received) + 1}
  BY <1>1, <1>2
<1>4. received' # <<>>
  <2>1. Len(received) \in Nat /\ Len(<<>>) = 0
    BY <1>1
  <2>2. QED
    BY <1>2, <2>1
<1>5. QED
  BY <1>2, <1>3, <1>4 DEF Lines!NextByte

(* The new frame starts where the previous one ended.                      *)
LEMMA ChainedFrame ==
  ASSUME TypeOK, NEW a, a = Lines!NextByte
  PROVE  a = IF Len(received) + 1 = 1 THEN 1 ELSE received[Len(received)][2] + 1
BY DEF TypeOK, Lines!NextByte

(* Frames handed over stay whole lines while the child writes.             *)
LEMMA FramesStay ==
  ASSUME IInv, ~closed, written' = written + 1, received' = received,
         newlines' \in {newlines, newlines \cup {written + 1}}, closed' = closed
  PROVE  FramesAreWholeLines' /\ FitsInv'
<1>1. \A i \in DOMAIN received :
        newlines' \cap (received[i][1] .. received[i][2])
          = newlines \cap (received[i][1] .. received[i][2])
  BY NextByteType DEF IInv, TypeOK
<1>2. \A i \in DOMAIN received :
        newlines' \cap (received[i][1] .. received[i][2] - 1)
          = newlines \cap (received[i][1] .. received[i][2] - 1)
  BY NextByteType DEF IInv, TypeOK
<1>3. FitsInv'
  BY <1>1 DEF IInv, FitsInv, FrameFits
<1>4. FramesAreWholeLines'
  BY <1>1, <1>2 DEF IInv, FramesAreWholeLines, Lines!IsLine
<1>5. QED
  BY <1>3, <1>4

(* A whole line appended keeps the frames whole.                           *)
LEMMA FramesGrow ==
  ASSUME IInv, NEW b \in 1 .. written, NEW a \in 1 .. written,
         a = Lines!NextByte,
         received' = Append(received, <<a, b>>),
         UNCHANGED <<written, newlines, closed>>,
         \/ Lines!IsLine(a, b)
         \/ closed /\ b = written /\ newlines \cap (a .. b) = {},
         FrameFits(<<a, b>>)
  PROVE  FramesAreWholeLines' /\ FitsInv'
<1> USE AppendFrame, ChainedFrame DEF IInv
<1>1. FitsInv'
  BY DEF FitsInv, FrameFits
<1>2. ASSUME NEW i \in DOMAIN received'
      PROVE  /\ received'[i][1] = IF i = 1 THEN 1 ELSE received'[i - 1][2] + 1
             /\ \/ Lines!IsLine(received'[i][1], received'[i][2])
                \/ /\ closed
                   /\ received'[i][2] = written
                   /\ newlines \cap (received'[i][1] .. received'[i][2]) = {}
  <2>1. CASE i \in DOMAIN received
    <3>1. i # 1 => i - 1 \in DOMAIN received
      BY <2>1 DEF TypeOK
    <3>2. QED
      BY <2>1, <3>1 DEF FramesAreWholeLines
  <2>2. CASE i = Len(received) + 1
    <3>1. Len(received) # 0 => Len(received) \in DOMAIN received
      BY DEF TypeOK
    <3>2. Len(received) \in Nat
      BY DEF TypeOK
    <3>3. QED
      BY <2>2, <3>1, <3>2
  <2>3. QED
    BY <2>1, <2>2
<1>3. FramesAreWholeLines'
  BY <1>2 DEF FramesAreWholeLines, Lines!IsLine
<1>4. QED
  BY <1>1, <1>3

(***************************************************************************)
(* The invariant                                                           *)
(***************************************************************************)

(* Nothing is written, nothing is read. *)
LEMMA InitInv == Init => IInv
<1> SUFFICES ASSUME Init PROVE IInv
  OBVIOUS
<1>1. received \in Seq((1 .. written) \X (1 .. written)) /\ DOMAIN received = {}
  BY EmptyType DEF Init
<1>2. TypeOK
  <2>1. /\ written \in 0 .. MaxBytes /\ newlines \subseteq 1 .. written
        /\ fetched \in 0 .. written /\ consumed \in 0 .. fetched
        /\ first \in 1 .. consumed + 1
    BY FramingAssumption DEF FramingAssumption, Init
  <2>2. QED
    BY <1>1, <2>1 DEF Init, TypeOK
<1>3. CallInv /\ IdleInv /\ RefusedInv
  BY DEF Init, CallInv, IdleInv, RefusedInv, Lines!NextByte
<1>4. FramesAreWholeLines /\ FitsInv
  BY <1>1 DEF FramesAreWholeLines, FitsInv
<1>5. QED
  BY <1>2, <1>3, <1>4 DEF IInv

(* More bytes in the pipe, frames read before stay what they were. *)
LEMMA ChildWritesInv == IInv /\ ChildWrites => IInv'
<1> SUFFICES ASSUME IInv, ChildWrites PROVE IInv'
  OBVIOUS
<1> USE FramingAssumption DEF FramingAssumption
<1>1. TypeOK'
  <2>1. received' \in Seq((1 .. written') \X (1 .. written'))
    BY DEF IInv, TypeOK, ChildWrites
  <2>2. QED
    BY <2>1 DEF IInv, TypeOK, ChildWrites
<1>2. Lines!NextByte' = Lines!NextByte
  BY DEF ChildWrites, Lines!NextByte
<1>3. CallInv' /\ IdleInv'
  BY <1>2, NextByteType DEF IInv, TypeOK, CallInv, IdleInv, ChildWrites
<1>4. RefusedInv'
  BY <1>2, NextByteType DEF IInv, TypeOK, RefusedInv, ChildWrites
<1>5. FramesAreWholeLines' /\ FitsInv'
  BY FramesStay DEF ChildWrites
<1>6. QED
  BY <1>1, <1>3, <1>4, <1>5 DEF IInv

(* Steps that leave the stream and the frames alone.                       *)
LEMMA QuietStep ==
  ASSUME IInv, UNCHANGED <<written, newlines, received>>, closed => closed'
  PROVE  /\ Lines!NextByte' = Lines!NextByte
         /\ FramesAreWholeLines'
         /\ FitsInv'
BY DEF IInv, FramesAreWholeLines, FitsInv, FrameFits, Lines!IsLine, Lines!NextByte

(* The pipe closes; nothing that was read changes. *)
LEMMA ChildClosesInv == IInv /\ ChildCloses => IInv'
BY QuietStep DEF IInv, TypeOK, CallInv, IdleInv, RefusedInv, ChildCloses

(* read_frame is called with an empty line (line.clear). *)
LEMMA CallStepInv == IInv /\ Call => IInv'
BY FramingAssumption, QuietStep DEF FramingAssumption,
   IInv, TypeOK, CallInv, IdleInv, RefusedInv, Call

(* fill_buf fetches bytes and consumes none. *)
LEMMA FillInv == IInv /\ Fill => IInv'
BY QuietStep DEF IInv, TypeOK, CallInv, IdleInv, RefusedInv, Fill

(* A line above the limit is refused. *)
LEMMA TooLargeInv == IInv /\ TooLarge => IInv'
<1> SUFFICES ASSUME IInv, TooLarge PROVE IInv'
  OBVIOUS
<1> USE FramingAssumption DEF FramingAssumption
<1>1. TypeOK' /\ CallInv' /\ IdleInv'
  BY DEF IInv, TypeOK, CallInv, IdleInv, TooLarge
<1>2. Lines!NextByte' = Lines!NextByte /\ FramesAreWholeLines' /\ FitsInv'
  BY QuietStep DEF TooLarge
<1>3. first = Lines!NextByte /\ newlines \cap (first .. consumed) = {}
  BY DEF IInv, CallInv, TooLarge
<1>4. first + Limit <= written /\ newlines \cap (first .. first + Limit) = {}
  <2>1. CASE \E n \in newlines : NewlineAt(n) /\ PayloadLen(n) > Limit
    BY <1>3, <2>1 DEF IInv, TypeOK, NewlineAt, Available, PayloadLen
  <2>2. CASE NoNewline /\ PayloadLen(fetched + 1) > Limit
    BY <1>3, <2>2 DEF IInv, TypeOK, NoNewline, Available, PayloadLen
  <2>3. QED
    BY <2>1, <2>2 DEF TooLarge
<1>5. RefusedInv'
  BY <1>2, <1>3, <1>4 DEF RefusedInv, TooLarge
<1>6. QED
  BY <1>1, <1>2, <1>5 DEF IInv

(* A chunk without a newline is added to the line. *)
LEMMA TakeChunkInv == IInv /\ TakeChunk => IInv'
<1> SUFFICES ASSUME IInv, TakeChunk PROVE IInv'
  OBVIOUS
<1> USE FramingAssumption DEF FramingAssumption
<1>1. TypeOK' /\ IdleInv'
  BY DEF IInv, TypeOK, IdleInv, TakeChunk
<1>2. Lines!NextByte' = Lines!NextByte /\ FramesAreWholeLines' /\ FitsInv'
  BY QuietStep DEF TakeChunk
<1>3. CallInv' /\ RefusedInv'
  BY <1>2 DEF IInv, TypeOK, CallInv, RefusedInv, TakeChunk, NoNewline, Available,
              PayloadLen
<1>4. QED
  BY <1>1, <1>2, <1>3 DEF IInv

(* A line taken is a line of the stream, within the limit.                 *)
LEMMA LineTaken ==
  ASSUME IInv, calling, NEW n \in newlines, NewlineAt(n), PayloadLen(n) <= Limit
  PROVE  /\ first \in 1 .. written /\ n \in 1 .. written
         /\ first = Lines!NextByte
         /\ Lines!IsLine(first, n)
         /\ FrameFits(<<first, n>>)
<1>1. first = Lines!NextByte /\ newlines \cap (first .. consumed) = {}
  BY DEF IInv, CallInv
<1>2. first \in 1 .. written /\ n \in 1 .. written /\ first <= n
  BY DEF IInv, TypeOK, NewlineAt, Available
<1>3. newlines \cap (first .. n - 1) = {}
  BY <1>1, <1>2 DEF IInv, TypeOK, NewlineAt, Available
<1>4. n \in newlines \cap (first .. n)
  BY <1>2
<1>5. FrameFits(<<first, n>>)
  BY <1>2, <1>4, FramingAssumption DEF FramingAssumption, FrameFits, PayloadLen
<1>6. QED
  BY <1>1, <1>2, <1>3, <1>5 DEF Lines!IsLine

(* A newline within the limit ends the line: one more frame. *)
LEMMA TakeLineInv == IInv /\ TakeLine => IInv'
<1> SUFFICES ASSUME IInv, TakeLine PROVE IInv'
  OBVIOUS
<1>1. PICK n \in newlines :
        /\ NewlineAt(n)
        /\ PayloadLen(n) <= Limit
        /\ consumed' = n
        /\ received' = Append(received, <<first, n>>)
  BY DEF TakeLine
<1>2. /\ first \in 1 .. written /\ n \in 1 .. written
      /\ first = Lines!NextByte
      /\ Lines!IsLine(first, n)
      /\ FrameFits(<<first, n>>)
  BY <1>1, LineTaken DEF TakeLine
<1>3. /\ received' \in Seq((1 .. written) \X (1 .. written))
      /\ Lines!NextByte' = n + 1
  BY <1>1, <1>2, AppendFrame DEF IInv
<1>4. FramesAreWholeLines' /\ FitsInv'
  BY <1>1, <1>2, FramesGrow DEF TakeLine
<1>5. TypeOK'
  <2>1. n \in consumed + 1 .. fetched
    BY <1>1 DEF NewlineAt, Available
  <2>2. UNCHANGED <<written, newlines, closed, outcome, fetched, first>> /\ calling' = FALSE
    BY DEF TakeLine
  <2>3. consumed' \in 0 .. fetched' /\ first' \in 1 .. consumed' + 1
    BY <1>1, <2>1, <2>2 DEF IInv, TypeOK
  <2>4. QED
    BY <1>3, <2>2, <2>3 DEF IInv, TypeOK
<1>6. CallInv' /\ IdleInv' /\ RefusedInv'
  BY <1>1, <1>2, <1>3 DEF IInv, CallInv, IdleInv, RefusedInv, TakeLine
<1>7. QED
  BY <1>4, <1>5, <1>6 DEF IInv

(* What is left at the end of the stream.                                  *)
LEMMA RestTaken ==
  ASSUME IInv, calling, closed, consumed = fetched, fetched = written,
         first <= consumed
  PROVE  /\ first \in 1 .. written /\ consumed \in 1 .. written
         /\ first = Lines!NextByte
         /\ consumed = written /\ newlines \cap (first .. consumed) = {}
         /\ consumed - first < Limit
         /\ FrameFits(<<first, consumed>>)
<1>1. /\ first = Lines!NextByte
      /\ newlines \cap (first .. consumed) = {}
      /\ consumed - first < Limit
  BY DEF IInv, CallInv
<1>2. first \in 1 .. written /\ consumed \in 1 .. written
  BY DEF IInv, TypeOK
<1>3. FrameFits(<<first, consumed>>)
  BY <1>1, <1>2, FramingAssumption DEF FramingAssumption, FrameFits
<1>4. QED
  BY <1>1, <1>2, <1>3

(* The end of the pipe: what there is of a line is the last frame. *)
LEMMA AtEndInv == IInv /\ AtEnd => IInv'
<1> SUFFICES ASSUME IInv, AtEnd PROVE IInv'
  OBVIOUS
<1>1. CASE first > consumed
  <2>1. Lines!NextByte' = Lines!NextByte /\ FramesAreWholeLines' /\ FitsInv'
    BY <1>1, QuietStep DEF AtEnd
  <2>2. QED
    BY <1>1, <2>1 DEF IInv, TypeOK, CallInv, IdleInv, RefusedInv, AtEnd
<1>2. CASE ~(first > consumed)
  <2>1. first <= consumed
    BY <1>2 DEF IInv, TypeOK
  <2>2. /\ first \in 1 .. written /\ consumed \in 1 .. written
        /\ first = Lines!NextByte
        /\ consumed = written /\ newlines \cap (first .. consumed) = {}
        /\ FrameFits(<<first, consumed>>)
    BY <2>1, RestTaken DEF AtEnd
  <2>3. received' = Append(received, <<first, consumed>>)
    BY <1>2 DEF AtEnd
  <2>4. /\ received' \in Seq((1 .. written) \X (1 .. written))
        /\ Lines!NextByte' = consumed + 1
    BY <2>2, <2>3, AppendFrame DEF IInv
  <2>5. FramesAreWholeLines' /\ FitsInv'
    BY <2>2, <2>3, FramesGrow DEF AtEnd
  <2>6. TypeOK'
    BY <1>2, <2>4 DEF IInv, TypeOK, AtEnd
  <2>7. CallInv' /\ IdleInv' /\ RefusedInv'
    BY <1>2, <2>4 DEF IInv, CallInv, IdleInv, RefusedInv, AtEnd
  <2>8. QED
    BY <2>5, <2>6, <2>7 DEF IInv
<1>3. QED
  BY <1>1, <1>2

(* Every step keeps the invariant. *)
LEMMA NextInv == IInv /\ [Next]_vars => IInv'
<1> SUFFICES ASSUME IInv, [Next]_vars PROVE IInv'
  OBVIOUS
<1>1. CASE UNCHANGED vars
  BY <1>1 DEF vars, IInv, TypeOK, CallInv, IdleInv, RefusedInv,
              FramesAreWholeLines, FitsInv, FrameFits, Lines!NextByte, Lines!IsLine
<1>2. QED
  BY <1>1, ChildWritesInv, ChildClosesInv, CallStepInv, FillInv, TooLargeInv,
     TakeChunkInv, TakeLineInv, AtEndInv DEF Next, ReaderStep

(* The invariant holds of every behaviour. *)
LEMMA Invariance == Spec => []IInv
<1>1. Init => IInv
  BY InitInv
<1>2. QED
  BY <1>1, NextInv, PTL DEF Spec

(***************************************************************************)
(* Theorems                                                                *)
(***************************************************************************)

(* The reader's positions stay ordered (fill_buf, consume).                *)
THEOREM TypeCorrect == Spec => []TypeOK
<1>1. IInv => TypeOK
  BY DEF IInv
<1>2. QED
  BY <1>1, Invariance, PTL

(* No byte is lost, repeated or merged into another line by the chunked    *)
(* reading of framing.rs, as long as every call is awaited.                *)
THEOREM WholeLines == Spec => []FramesAreWholeLines
<1>1. IInv => FramesAreWholeLines
  BY DEF IInv
<1>2. QED
  BY <1>1, Invariance, PTL

(* max_payload_bytes refuses a line if and only if it is longer, wherever  *)
(* the chunks end.                                                         *)
THEOREM LimitIsExact == Spec => []RefusedOnlyWhenLong
<1>1. IInv => RefusedOnlyWhenLong
  BY DEF IInv, RefusedInv, FitsInv, FrameFits, RefusedOnlyWhenLong
<1>2. QED
  BY <1>1, Invariance, PTL

(***************************************************************************)
(* The refinement                                                          *)
(***************************************************************************)

(* Each step of the reader is a step of the line stream or leaves it alone *)
(* (a chunk taken, the buffer filled, a call begun).                       *)
LEMMA StepRefines == IInv /\ [Next]_vars => [Lines!Next]_(Lines!streamVars)
<1> SUFFICES ASSUME IInv, [Next]_vars PROVE [Lines!Next]_(Lines!streamVars)
  OBVIOUS
<1> USE DEF Lines!Next, Lines!streamVars
<1>1. CASE ChildWrites
  BY <1>1 DEF ChildWrites, Lines!Write
<1>2. CASE ChildCloses
  BY <1>2 DEF ChildCloses, Lines!Close
<1>3. CASE Call \/ Fill \/ TakeChunk \/ UNCHANGED vars
  BY <1>3 DEF Call, Fill, TakeChunk, vars
<1>4. CASE TooLarge
  <2>1. RefusedInv' /\ Lines!NextByte' = Lines!NextByte
    BY <1>4, TooLargeInv, QuietStep DEF IInv, TooLarge
  <2>2. outcome = "open"
    BY <1>4 DEF IInv, CallInv, TooLarge
  <2>3. QED
    BY <1>4, <2>1, <2>2 DEF TooLarge, RefusedInv, Lines!RefuseLong
<1>5. CASE TakeLine
  <2>1. PICK n \in newlines :
          /\ NewlineAt(n)
          /\ PayloadLen(n) <= Limit
          /\ received' = Append(received, <<first, n>>)
    BY <1>5 DEF TakeLine
  <2>2. first = Lines!NextByte /\ Lines!IsLine(first, n)
    BY <1>5, <2>1, LineTaken DEF TakeLine
  <2>3. outcome = "open"
    BY <1>5 DEF IInv, CallInv, TakeLine
  <2>4. QED
    BY <1>5, <2>1, <2>2, <2>3 DEF TakeLine, PayloadLen, Lines!DeliverLine
<1>6. CASE AtEnd
  <2>1. first = Lines!NextByte /\ outcome = "open"
    BY <1>6 DEF IInv, CallInv, AtEnd
  <2>2. CASE first > consumed
    <3>1. Lines!NextByte = written + 1
      BY <1>6, <2>1, <2>2 DEF IInv, TypeOK, AtEnd
    <3>2. QED
      BY <1>6, <2>1, <2>2, <3>1 DEF AtEnd, Lines!ReportEnd
  <2>3. CASE ~(first > consumed)
    <3>1. first <= consumed
      BY <2>3 DEF IInv, TypeOK
    <3>2. /\ consumed = written /\ newlines \cap (first .. written) = {}
          /\ written - first < Limit
      BY <1>6, <3>1, RestTaken DEF AtEnd
    <3>3. QED
      BY <1>6, <2>1, <2>3, <3>1, <3>2 DEF AtEnd, Lines!DeliverRest
  <2>4. QED
    BY <2>2, <2>3
<1>7. QED
  BY <1>1, <1>2, <1>3, <1>4, <1>5, <1>6 DEF Next, ReaderStep

(* The detailed reader implements the abstract line stream, for every      *)
(* limit, buffer size and amount of output (framing.rs).                   *)
THEOREM Refinement == Spec => ImplementsLineStream
<1>1. Init => Lines!Init
  BY DEF Init, Lines!Init
<1>2. QED
  BY <1>1, StepRefines, Invariance, PTL DEF Spec, ImplementsLineStream, Lines!Spec
=============================================================================
