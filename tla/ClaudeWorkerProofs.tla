-------------------------- MODULE ClaudeWorkerProofs --------------------------
(***************************************************************************)
(* For every set of callbacks and all bounds: the worker counts what the   *)
(* SDK owes it, no tool runs that the user did not allow, and the task     *)
(* and the worker agree about the turn except where the module says they   *)
(* may not.  Each of the four rests on an invariant of its own; the last   *)
(* two also on there being one call at a time (CallInv).                   *)
(***************************************************************************)
EXTENDS ClaudeWorker, SequenceFacts, FiniteSetTheorems

(* A turn has responses to come exactly while it lasts, a steering message *)
(* holds the lock only within a turn and a prompt only between two.        *)
CountInv ==
  /\ worker.turn = "none" <=> worker.responses = 0
  /\ sdk.alive /\ worker.atSdk =>
       (worker.request = "steer"  => worker.turn # "none") /\
       (worker.request = "prompt" => worker.turn = "none")

(* The places of a callback's request on its way to the task.              *)
AsksFor(q, c) == {i \in DOMAIN q : q[i] = AboutCallback("callback", c)}

Asked(q, c)    == AsksFor(q, c) # {}
OnceOnly(q, c) == \A i, j \in AsksFor(q, c) : i = j

ToldToAllow(c) == \E i \in DOMAIN toWorker : toWorker[i] = AboutCallback("allow", c)

(* A callback's request is in one place at a time and is answered once.    *)
CallbackInv ==
  \A c \in Callbacks :
    /\ OnceOnly(fromWorker, c) /\ OnceOnly(task.collected, c)
    /\ ~(Asked(fromWorker, c) /\ Asked(task.collected, c))
    /\ Asked(fromWorker, c) \/ Asked(task.collected, c) \/ asked[c] = "unasked" =>
         c \notin task.pending /\ verdict[c] = "none"
    /\ asked[c] = "unasked" => ~Asked(fromWorker, c) /\ ~Asked(task.collected, c)
    /\ c \in task.pending => verdict[c] = "none"
    /\ ToldToAllow(c) => verdict[c] = "allow"

IsCall(m)  == m.op \in Calls \cup {"shutdown"}
IsReply(m) == m.op \in {"ok", "error"}

NoReply(q) == \A i \in DOMAIN q : ~IsReply(q[i])
NoEnd(q)   == \A i \in DOMAIN q : ~Ends(q[i])

(* A call on its way to the worker, with the worker, or answered.          *)
CallWritten ==
  \A i \in DOMAIN toWorker : IsCall(toWorker[i]) =>
    /\ task.call = toWorker[i].op
    /\ worker.request = "none"
    /\ NoReply(fromWorker)
    /\ \A j \in DOMAIN toWorker : IsCall(toWorker[j]) => i = j

CallServed ==
  worker.request # "none" => task.call = worker.request /\ NoReply(fromWorker)

CallAnswered ==
  \A i \in DOMAIN fromWorker : IsReply(fromWorker[i]) =>
    /\ task.call # "none"
    /\ fromWorker[i].op = "error" => task.call # "shutdown"
    /\ \A j \in DOMAIN fromWorker : IsReply(fromWorker[j]) => i = j

(* The task knows what it has called for.                                  *)
CallMade ==
  /\ task.call = "shutdown" <=> task.pc = "closing"
  /\ task.call = "prompt" => ~task.active
  /\ task.call \in {"steer", "interrupt"} => task.active

(* One call at a time: its frame, its task in the worker or its reply.     *)
CallInv == CallMade /\ CallWritten /\ CallServed /\ CallAnswered

Receiving == worker.turn \in {"reading", "failing"}

(* The end of a turn the task knows of, or is about to be told of, is      *)
(* still to come.                                                          *)
EndInv ==
  /\ task.pc = "loop" /\ task.active =>
       Receiving \/ dropped \/ ~NoEnd(fromWorker) \/ ~NoEnd(task.collected)
  /\ \A i \in DOMAIN fromWorker :
       task.call = "prompt" /\ fromWorker[i].op = "ok" =>
         Receiving \/ \E j \in DOMAIN fromWorker : j > i /\ Ends(fromWorker[j])

(* The reply to an accepted prompt is on its way.                          *)
Accepted(i) == task.call = "prompt" /\ fromWorker[i].op = "ok"

(* Until a turn is steered it has one end, and the task reads that.        *)
UnsteeredInv ==
  ~steered /\ task.pc = "loop" =>
    /\ worker.responses <= 1
    /\ Receiving => /\ NoEnd(fromWorker) /\ NoEnd(task.collected)
                    /\ task.active \/ \E i \in DOMAIN fromWorker : Accepted(i)
    /\ \A i \in DOMAIN fromWorker : Ends(fromWorker[i]) =>
         /\ task.active \/ \E j \in DOMAIN fromWorker : j < i /\ Accepted(j)
         /\ \A j \in DOMAIN fromWorker : Ends(fromWorker[j]) => i = j
    /\ ~NoEnd(task.collected) => NoEnd(fromWorker) /\ task.active

(* What a call collected goes with its reply.                              *)
NothingCollected == task.call = "none" => task.collected = <<>>

IInv ==
  /\ TypeOK
  /\ CountInv
  /\ ResponsesAccounted
  /\ CallbackInv
  /\ AllowedByTheUser
  /\ CallInv
  /\ EndInv
  /\ UnsteeredInv
  /\ NothingCollected

(***************************************************************************)
(* Frames                                                                  *)
(***************************************************************************)

(* What either side writes is a frame of the protocol.                     *)
LEMMA FrameTypes ==
  /\ \A op \in Calls \cup {"shutdown"} : Frame(op) \in ToFrames /\ Frame(op).op = op
  /\ \A op \in {"ok", "error", "result", "failed"} :
       Frame(op) \in Replies \cup Inbound /\ Frame(op).op = op
  /\ \A c \in Callbacks : /\ AboutCallback("callback", c) \in Inbound
                          /\ AboutCallback("callback", c).op = "callback"
                          /\ AboutCallback("callback", c).callback = c
  /\ \A c \in Callbacks, op \in {"allow", "deny"} :
       AboutCallback(op, c) \in ToFrames /\ AboutCallback(op, c).op = op
BY DEF Frame, AboutCallback, Calls, ToFrames, Replies, Inbound

(* deny_all_worker_requests writes denials only.                           *)
LEMMA DenialsType ==
  ASSUME NEW S \in SUBSET Callbacks, NEW order \in Orders(S)
  PROVE  /\ Denials(order) \in Seq(ToFrames)
         /\ \A i \in DOMAIN Denials(order) : Denials(order)[i].op = "deny"
<1>1. Cardinality(S) \in Nat
  BY WorkerAssumption, FS_Subset, FS_CardinalityType
<1>2. order \in [1 .. Cardinality(S) -> S]
  BY DEF Orders
<1>3. \A i \in 1 .. Cardinality(S) : order[i] \in Callbacks
  BY <1>2
<1>4. Denials(order) = [i \in 1 .. Cardinality(S) |-> AboutCallback("deny", order[i])]
  BY <1>2 DEF Denials
<1>5. \A i \in 1 .. Cardinality(S) :
        /\ AboutCallback("deny", order[i]) \in ToFrames
        /\ AboutCallback("deny", order[i]).op = "deny"
  BY <1>3, FrameTypes
<1> QED
  BY <1>1, <1>4, <1>5

(* The commands that write denials write denials, then at most one call.   *)
LEMMA DenyAllWrites ==
  ASSUME TypeOK, NEW S \in SUBSET Callbacks, NEW order \in Orders(S)
  PROVE  /\ toWorker \o Denials(order) \in Seq(ToFrames)
         /\ \A i \in DOMAIN (toWorker \o Denials(order)) :
              \/ i \in DOMAIN toWorker /\ (toWorker \o Denials(order))[i] = toWorker[i]
              \/ (toWorker \o Denials(order))[i].op = "deny"
<1>1. toWorker \in Seq(ToFrames) /\ Denials(order) \in Seq(ToFrames)
  BY DenialsType DEF TypeOK
<1> DEFINE both == toWorker \o Denials(order)
<1>2. /\ both \in Seq(ToFrames) /\ Len(toWorker) \in Nat /\ Len(Denials(order)) \in Nat
      /\ Len(both) = Len(toWorker) + Len(Denials(order))
      /\ \A i \in 1 .. Len(toWorker) : both[i] = toWorker[i]
      /\ \A i \in 1 .. Len(Denials(order)) : both[Len(toWorker) + i] = Denials(order)[i]
  BY <1>1, ConcatElements
<1>3. ASSUME NEW i \in DOMAIN both
      PROVE  \/ i \in DOMAIN toWorker /\ both[i] = toWorker[i]
             \/ both[i].op = "deny"
  <2>1. i \in 1 .. Len(toWorker) + Len(Denials(order))
    BY <1>2
  <2>2. CASE i \in 1 .. Len(toWorker)
    BY <1>1, <1>2, <2>2
  <2>3. CASE i - Len(toWorker) \in 1 .. Len(Denials(order))
    <3>1. both[i] = Denials(order)[i - Len(toWorker)]
      BY <1>2, <2>1, <2>3
    <3> QED
      BY <1>1, <2>3, <3>1, DenialsType
  <2> QED
    BY <1>2, <2>1, <2>2, <2>3
<1> QED
  BY <1>2, <1>3

(***************************************************************************)
(* Types                                                                   *)
(***************************************************************************)

(* What the worker's standard output holds after one more frame.           *)
LEMMA AnswerTypes ==
  ASSUME TypeOK
  PROVE  /\ fromWorker \in Seq(Replies \cup Inbound)
         /\ \A op \in {"ok", "error", "result", "failed"} :
              Answer(op) => fromWorker' \in Seq(Replies \cup Inbound)
         /\ \A c \in Callbacks :
              Append(fromWorker, AboutCallback("callback", c)) \in Seq(Replies \cup Inbound)
<1>1. fromWorker \in Seq(Replies \cup Inbound)
  BY DEF TypeOK
<1>2. \A op \in {"ok", "error", "result", "failed"} : Frame(op) \in Replies \cup Inbound
  BY FrameTypes
<1>3. \A c \in Callbacks : AboutCallback("callback", c) \in Replies \cup Inbound
  BY FrameTypes
<1> QED
  BY <1>1, <1>2, <1>3, AppendType DEF Answer

(* The first frame of either pipe, and the frames after it.                *)
LEMMA HeadTypes ==
  ASSUME TypeOK
  PROVE  /\ fromWorker # <<>> =>
              /\ Head(fromWorker) \in Replies \cup Inbound
              /\ Tail(fromWorker) \in Seq(Replies \cup Inbound)
         /\ toWorker # <<>> =>
              Head(toWorker) \in ToFrames /\ Tail(toWorker) \in Seq(ToFrames)
<1>1. fromWorker \in Seq(Replies \cup Inbound) /\ toWorker \in Seq(ToFrames)
  BY DEF TypeOK
<1> QED
  BY <1>1, TailType

(* publish_worker_inbound adds callbacks and may end the turn.             *)
LEMMA PublishedType ==
  ASSUME NEW t \in TaskRecords, NEW q \in Seq(Replies \cup Inbound), NEW active \in BOOLEAN
  PROVE  /\ Published(t, q, active) \in TaskRecords
         /\ Published(t, q, active).pc = t.pc
         /\ Published(t, q, active).call = t.call
         /\ Published(t, q, active).collected = t.collected
         /\ Published(t, q, active).active = (active /\ NoEnd(q))
<1>1. {q[i].callback : i \in {j \in DOMAIN q : q[j].op = "callback"}} \subseteq Callbacks
  <2>1. \A i \in DOMAIN q : q[i] \in Replies \cup Inbound
    OBVIOUS
  <2>2. \A m \in Replies \cup Inbound : m.op = "callback" => m.callback \in Callbacks
    BY DEF Inbound, Replies
  <2> QED
    BY <2>1, <2>2
<1>2. (active /\ ~\E i \in DOMAIN q : Ends(q[i])) = (active /\ NoEnd(q))
  BY DEF NoEnd
<1> DEFINE new == {q[i].callback : i \in {j \in DOMAIN q : q[j].op = "callback"}}
           act == active /\ ~\E i \in DOMAIN q : Ends(q[i])
<1>3. act \in BOOLEAN
  OBVIOUS
<1>4. Published(t, q, active) = [t EXCEPT !.pending = @ \cup new, !.active = act]
  BY DEF Published
<1> HIDE DEF new, act
<1>5. new \subseteq Callbacks
  BY <1>1 DEF new
<1>6. /\ [t EXCEPT !.pending = @ \cup new, !.active = act] \in TaskRecords
      /\ [t EXCEPT !.pending = @ \cup new, !.active = act].pc = t.pc
      /\ [t EXCEPT !.pending = @ \cup new, !.active = act].call = t.call
      /\ [t EXCEPT !.pending = @ \cup new, !.active = act].collected = t.collected
      /\ [t EXCEPT !.pending = @ \cup new, !.active = act].active = act
  BY <1>3, <1>5 DEF TaskRecords
<1>7. act = (active /\ NoEnd(q))
  BY <1>2 DEF act
<1> QED
  BY <1>4, <1>6, <1>7

(* The first answer to a callback is remembered.                           *)
LEMMA FirstAnswerType ==
  ASSUME TypeOK, NEW S \in SUBSET Callbacks, NEW answer \in {"allow", "deny"}
  PROVE  /\ FirstAnswer(S, answer) \in [Callbacks -> {"none", "allow", "deny"}]
         /\ \A c \in Callbacks : FirstAnswer(S, answer)[c] =
                IF c \in S /\ verdict[c] = "none" THEN answer ELSE verdict[c]
BY DEF TypeOK, FirstAnswer

(* A client that is closed answers the callbacks that still wait.          *)
LEMMA CancelledType ==
  ASSUME TypeOK
  PROVE  /\ Cancelled \in [Callbacks -> {"unasked", "waiting", "allowed", "denied"}]
         /\ \A c \in Callbacks : /\ Cancelled[c] = "unasked" => asked[c] = "unasked"
                                 /\ Cancelled[c] = "allowed" => asked[c] = "allowed"
BY DEF TypeOK, Cancelled, Waiting

(* The commands run_claude takes keep the types.                           *)
LEMMA CommandType ==
  ASSUME TypeOK,
         \/ TaskPrompts \/ TaskSteers \/ TaskInterrupts \/ TaskShutsDown
         \/ \E c \in Callbacks, answer \in {"allow", "deny"} : TaskAnswers(c, answer)
         \/ \E S \in SUBSET Callbacks : TaskDenies(S)
  PROVE  TypeOK'
<1> USE DEF TypeOK
<1>1. task.pending \in SUBSET Callbacks /\ toWorker \in Seq(ToFrames)
  BY DEF TaskRecords
<1>2. \A op \in Calls \cup {"shutdown"} :
        /\ Append(toWorker, Frame(op)) \in Seq(ToFrames)
        /\ <<Frame(op)>> \in Seq(ToFrames)
  BY <1>1, FrameTypes, AppendType
<1>3. ASSUME NEW op \in {"prompt", "steer"}, StartCall(op), task' = [task EXCEPT !.call = op]
      PROVE  TypeOK'
  <2>1. task' \in TaskRecords
    BY <1>3 DEF TaskRecords, Calls
  <2>2. toWorker' \in Seq(ToFrames)
    BY <1>2, <1>3 DEF StartCall, Calls
  <2>3. calls' \in 0 .. MaxCalls
    BY <1>3, WorkerAssumption DEF StartCall
  <2> QED
    BY <1>3, <2>1, <2>2, <2>3 DEF StartCall, history
<1>4. CASE TaskInterrupts
  <2>1. PICK order \in Orders(task.pending) :
          toWorker' = toWorker \o Denials(order)
                        \o (IF task.active THEN <<Frame("interrupt")>> ELSE <<>>)
    BY <1>4 DEF TaskInterrupts
  <2>2. toWorker \o Denials(order) \in Seq(ToFrames)
    BY <1>1, DenyAllWrites
  <2>3. (IF task.active THEN <<Frame("interrupt")>> ELSE <<>>) \in Seq(ToFrames)
    BY <1>2, EmptyType DEF Calls
  <2>4. toWorker' \in Seq(ToFrames)
    BY <2>1, <2>2, <2>3, ConcatElements
  <2>5. task' \in TaskRecords
    BY <1>4 DEF TaskInterrupts, TaskRecords, Calls
  <2>6. verdict' \in [Callbacks -> {"none", "allow", "deny"}]
    BY <1>1, <1>4, FirstAnswerType DEF TaskInterrupts
  <2>7. calls' \in 0 .. MaxCalls
    BY <1>4, WorkerAssumption DEF TaskInterrupts
  <2> QED
    BY <1>4, <2>4, <2>5, <2>6, <2>7 DEF TaskInterrupts
<1>5. CASE TaskShutsDown
  <2>1. PICK order \in Orders(task.pending) :
          toWorker' = Append(toWorker \o Denials(order), Frame("shutdown"))
    BY <1>5 DEF TaskShutsDown
  <2>2. toWorker \o Denials(order) \in Seq(ToFrames)
    BY <1>1, DenyAllWrites
  <2>3. toWorker' \in Seq(ToFrames)
    BY <2>1, <2>2, FrameTypes, AppendType
  <2>4. task' \in TaskRecords
    BY <1>5 DEF TaskShutsDown, TaskRecords
  <2>5. verdict' \in [Callbacks -> {"none", "allow", "deny"}]
    BY <1>1, <1>5, FirstAnswerType DEF TaskShutsDown
  <2> QED
    BY <1>5, <2>3, <2>4, <2>5 DEF TaskShutsDown
<1>6. ASSUME NEW c \in Callbacks, NEW answer \in {"allow", "deny"}, TaskAnswers(c, answer)
      PROVE  TypeOK'
  <2>1. toWorker' \in Seq(ToFrames)
    BY <1>1, <1>6, FrameTypes, AppendType DEF TaskAnswers
  <2>2. task' \in TaskRecords
    BY <1>6 DEF TaskAnswers, TaskRecords
  <2>3. verdict' \in [Callbacks -> {"none", "allow", "deny"}]
    BY <1>6, FirstAnswerType DEF TaskAnswers
  <2> QED
    BY <1>6, <2>1, <2>2, <2>3 DEF TaskAnswers
<1>7. ASSUME NEW S \in SUBSET Callbacks, TaskDenies(S)
      PROVE  TypeOK'
  <2>1. toWorker' \in Seq(ToFrames)
    BY <1>7, DenyAllWrites DEF TaskDenies
  <2>2. task' \in TaskRecords
    BY <1>7 DEF TaskDenies, TaskRecords
  <2>3. verdict' \in [Callbacks -> {"none", "allow", "deny"}]
    BY <1>7, FirstAnswerType DEF TaskDenies
  <2> QED
    BY <1>7, <2>1, <2>2, <2>3 DEF TaskDenies
<1> QED
  BY <1>3, <1>4, <1>5, <1>6, <1>7 DEF TaskPrompts, TaskSteers

(* What run_claude reads and collects keeps the types.                     *)
LEMMA TaskStepType ==
  ASSUME TypeOK, TaskStep
  PROVE  TypeOK'
<1> USE DEF TypeOK
<1>1. fromWorker # <<>> =>
        /\ Head(fromWorker) \in Replies \cup Inbound
        /\ Tail(fromWorker) \in Seq(Replies \cup Inbound)
        /\ Head(fromWorker).op \notin {"ok", "error"} => Head(fromWorker) \in Inbound
  BY HeadTypes DEF Replies
<1>2. task.collected \in Seq(Inbound) /\ <<>> \in Seq(Inbound)
  BY EmptyType DEF TaskRecords
<1>3. CASE TaskCollects
  <2>1. Append(task.collected, Head(fromWorker)) \in Seq(Inbound)
    BY <1>1, <1>2, <1>3, AppendType DEF TaskCollects
  <2>2. task' \in TaskRecords
    BY <1>3, <2>1 DEF TaskCollects, TaskRecords
  <2> QED
    BY <1>1, <1>3, <2>2 DEF TaskCollects, history
<1>4. CASE CallSucceeds
  <2> DEFINE t == [task EXCEPT !.call = "none", !.collected = <<>>]
  <2>1. t \in TaskRecords /\ [t EXCEPT !.pc = "gone"] \in TaskRecords
    BY <1>2 DEF TaskRecords
  <2>2. (task.call = "prompt" \/ task.active) \in BOOLEAN
    BY DEF TaskRecords
  <2>5. task.collected \in Seq(Replies \cup Inbound)
    BY <1>2
  <2>3. Published(t, task.collected, task.call = "prompt" \/ task.active) \in TaskRecords
    BY <2>1, <2>2, <2>5, PublishedType
  <2>4. task' \in TaskRecords
    BY <1>4, <2>1, <2>3 DEF CallSucceeds
  <2> QED
    BY <1>1, <1>4, <2>4 DEF CallSucceeds, history
<1>5. CASE CallFails
  <2>1. task' \in TaskRecords
    BY <1>2, <1>5 DEF CallFails, TaskRecords
  <2>2. dropped' \in BOOLEAN
    BY <1>5 DEF CallFails
  <2> QED
    BY <1>1, <1>5, <2>1, <2>2 DEF CallFails
<1>6. CASE TaskReads
  <2>1. <<Head(fromWorker)>> \in Seq(Replies \cup Inbound)
    BY <1>1, <1>6, AppendType DEF TaskReads
  <2>2. task' \in TaskRecords
    BY <1>6, <2>1, PublishedType DEF TaskReads
  <2> QED
    BY <1>1, <1>6, <2>2 DEF TaskReads, history
<1> QED
  BY <1>3, <1>4, <1>5, <1>6 DEF TaskStep

(* The steps of the worker that serve a call keep the types.               *)
LEMMA RequestType ==
  ASSUME TypeOK,
         \/ WorkerAccepts \/ PromptStarts \/ ReopenFails \/ SteerStarts
         \/ InterruptStarts \/ RequestRefused \/ NothingToInterrupt
         \/ RequestDone \/ RequestRaises
  PROVE  TypeOK'
<1> USE DEF TypeOK
<1>1. worker.request # "none" => Counted(worker) \in WorkerRecords
  <2>1. worker.responses + 1 \in Nat /\ worker.request \in Calls \cup {"none"}
    BY DEF WorkerRecords
  <2>2. CASE worker.request = "prompt"
    BY <2>2 DEF Counted, WorkerRecords
  <2>3. CASE worker.request = "steer"
    BY <2>1, <2>3 DEF Counted, WorkerRecords
  <2>4. CASE worker.request = "interrupt"
    BY <2>4 DEF Counted, WorkerRecords
  <2> QED
    BY <2>1, <2>2, <2>3, <2>4 DEF Calls
<1>2. /\ FreshSdk \in SdkRecords /\ DeadSdk \in SdkRecords
      /\ \A s \in SdkRecords : SdkQueried(s) \in SdkRecords
  <2>1. FreshSdk \in SdkRecords /\ DeadSdk \in SdkRecords
    BY DEF FreshSdk, DeadSdk, SdkRecords
  <2>2. ASSUME NEW s \in SdkRecords PROVE SdkQueried(s) \in SdkRecords
    <3>1. s.unanswered + 1 \in Nat
      BY DEF SdkRecords
    <3> QED
      BY <3>1 DEF SdkQueried, SdkRecords
  <2> QED
    BY <2>1, <2>2
<1>3. CASE WorkerAccepts
  <2>1. worker' \in WorkerRecords /\ worker'.atSdk = worker.atSdk /\ worker'.request # "none"
    BY <1>3 DEF WorkerAccepts, WorkerRecords, Calls
  <2> QED
    BY <1>3, <2>1, HeadTypes DEF WorkerAccepts, history
<1>4. CASE PromptStarts
  <2>1. worker' \in WorkerRecords /\ worker'.request = "prompt"
    BY <1>4 DEF PromptStarts, MayStart, WorkerRecords
  <2>2. sdk' \in SdkRecords
    BY <1>2, <1>4 DEF PromptStarts
  <2> QED
    BY <1>4, <2>1, <2>2, CancelledType DEF PromptStarts, history
<1>5. CASE ReopenFails
  <2>1. worker' \in WorkerRecords /\ worker'.atSdk = FALSE
    BY <1>5 DEF ReopenFails, MayStart, WorkerRecords
  <2>2. faults' \in 0 .. MaxFaults
    BY <1>5, WorkerAssumption DEF ReopenFails
  <2> QED
    BY <1>2, <1>5, <2>1, <2>2, AnswerTypes, CancelledType DEF ReopenFails, history
<1>6. CASE SteerStarts
  <2>1. worker' \in WorkerRecords /\ worker'.request = "steer"
    BY <1>6 DEF SteerStarts, MayStart, WorkerRecords
  <2> QED
    BY <1>2, <1>6, <2>1 DEF SteerStarts, history
<1>7. CASE InterruptStarts
  <2>1. worker' \in WorkerRecords /\ worker'.request = "interrupt"
    BY <1>7 DEF InterruptStarts, MayStart, WorkerRecords
  <2>2. sdk' \in SdkRecords
    BY <1>7 DEF InterruptStarts, SdkRecords
  <2> QED
    BY <1>7, <2>1, <2>2 DEF InterruptStarts, history
<1>8. CASE RequestRefused \/ NothingToInterrupt
  <2>1. worker' \in WorkerRecords /\ worker'.atSdk = FALSE
    BY <1>8 DEF RequestRefused, NothingToInterrupt, MayStart, WorkerRecords
  <2> QED
    BY <1>8, <2>1, AnswerTypes DEF RequestRefused, NothingToInterrupt, history
<1>9. CASE RequestDone
  <2>1. Counted(worker) \in WorkerRecords
    BY <1>1, <1>9 DEF RequestDone
  <2>2. worker' \in WorkerRecords /\ worker'.atSdk = FALSE
    BY <1>9, <2>1 DEF RequestDone, WorkerRecords
  <2>3. steered' \in BOOLEAN
    BY <1>9 DEF RequestDone
  <2> QED
    BY <1>9, <2>2, <2>3, AnswerTypes DEF RequestDone
<1>10. CASE RequestRaises
  <2>1. worker' \in WorkerRecords /\ worker'.atSdk = FALSE
    BY <1>10 DEF RequestRaises, WorkerRecords
  <2> QED
    BY <1>10, <2>1, AnswerTypes DEF RequestRaises, history
<1> QED
  BY <1>3, <1>4, <1>5, <1>6, <1>7, <1>8, <1>9, <1>10

(* The turn tasks, the callbacks and the shutdown keep the types.          *)
LEMMA TurnType ==
  ASSUME TypeOK,
         \/ ResponseTaken \/ TurnFails \/ TurnFinished
         \/ AnswerAccepted \/ AnswerIgnored \/ WorkerShutsDown
         \/ ResultArrives \/ TurnRaises \/ SdkDies
         \/ \E c \in Callbacks : SdkAsks(c) \/ CallbackTimesOut(c)
  PROVE  TypeOK'
<1> USE DEF TypeOK
<1>1. ASSUME NEW c \in Callbacks, NEW outcome \in {"allowed", "denied"}, Settle(c, outcome)
      PROVE  /\ worker' \in WorkerRecords /\ worker'.atSdk = worker.atSdk
             /\ worker'.request = worker.request
             /\ asked' \in [Callbacks -> {"unasked", "waiting", "allowed", "denied"}]
  BY <1>1 DEF Settle, WorkerRecords
<1>2. CASE ResponseTaken
  <2>1. worker' \in WorkerRecords /\ worker'.atSdk = FALSE
    <3>1. worker.responses \in Nat
      BY DEF WorkerRecords
    <3>2. ~(worker.responses <= 1) => worker.responses - 1 \in Nat
      BY <3>1
    <3>3. TakesResponse(worker) \in WorkerRecords
      BY <3>2 DEF TakesResponse, WorkerRecords
    <3>4. TakesResponse(worker).atSdk = worker.atSdk
      BY DEF TakesResponse, WorkerRecords
    <3> QED
      BY <1>2, <3>3, <3>4 DEF ResponseTaken
  <2> QED
    BY <1>2, <2>1 DEF ResponseTaken, history
<1>3. CASE TurnFails
  <2>1. worker' \in WorkerRecords /\ worker'.atSdk = FALSE
    BY <1>3 DEF TurnFails, WorkerRecords
  <2>2. sdk' \in SdkRecords
    BY <1>3 DEF TurnFails, SdkRecords
  <2> QED
    BY <1>3, <2>1, <2>2, AnswerTypes DEF TurnFails, history
<1>4. CASE TurnFinished
  <2>1. /\ worker' \in WorkerRecords
        /\ worker'.atSdk = worker.atSdk /\ worker'.request = worker.request
    BY <1>4 DEF TurnFinished, WorkerRecords
  <2> QED
    BY <1>4, <2>1 DEF TurnFinished, history
<1>5. CASE AnswerAccepted
  <2>1. PICK c \in Callbacks, outcome \in {"allowed", "denied"} : Settle(c, outcome)
    BY <1>5 DEF AnswerAccepted
  <2> QED
    BY <1>1, <1>5, <2>1, HeadTypes DEF AnswerAccepted, history
<1>6. CASE AnswerIgnored
  BY <1>6, HeadTypes DEF AnswerIgnored, history
<1>7. CASE WorkerShutsDown
  <2>1. /\ worker' \in WorkerRecords
        /\ worker'.atSdk = worker.atSdk /\ worker'.request = worker.request
    BY <1>7 DEF WorkerShutsDown, WorkerRecords
  <2>2. DeadSdk \in SdkRecords
    BY DEF DeadSdk, FreshSdk, SdkRecords
  <2> QED
    BY <1>7, <2>1, <2>2, HeadTypes, AnswerTypes, CancelledType DEF WorkerShutsDown, history
<1>8. CASE ResultArrives
  <2>1. /\ worker' \in WorkerRecords
        /\ worker'.atSdk = worker.atSdk /\ worker'.request = worker.request
    BY <1>8 DEF ResultArrives, WorkerRecords
  <2>2. sdk' \in SdkRecords
    <3>1. sdk.unanswered - 1 \in Nat
      BY <1>8 DEF ResultArrives, SdkRecords
    <3> QED
      BY <1>8, <3>1 DEF ResultArrives, SdkRecords
  <2> QED
    BY <1>8, <2>1, <2>2, AnswerTypes DEF ResultArrives, history
<1>9. CASE TurnRaises
  <2>1. /\ worker' \in WorkerRecords
        /\ worker'.atSdk = worker.atSdk /\ worker'.request = worker.request
    BY <1>9 DEF TurnRaises, WorkerRecords
  <2>2. faults' \in 0 .. MaxFaults
    BY <1>9, WorkerAssumption DEF TurnRaises
  <2> QED
    BY <1>9, <2>1, <2>2 DEF TurnRaises, history
<1>10. CASE SdkDies
  <2>1. DeadSdk \in SdkRecords
    BY DEF DeadSdk, FreshSdk, SdkRecords
  <2>2. faults' \in 0 .. MaxFaults
    BY <1>10, WorkerAssumption DEF SdkDies
  <2> QED
    BY <1>10, <2>1, <2>2 DEF SdkDies, history
<1>11. ASSUME NEW c \in Callbacks, SdkAsks(c)
       PROVE  TypeOK'
  <2>1. /\ worker' \in WorkerRecords
        /\ worker'.atSdk = worker.atSdk /\ worker'.request = worker.request
    BY <1>11 DEF SdkAsks, WorkerRecords
  <2>2. asked' \in [Callbacks -> {"unasked", "waiting", "allowed", "denied"}]
    BY <1>11 DEF SdkAsks
  <2>3. fromWorker' \in Seq(Replies \cup Inbound)
    BY <1>11, AnswerTypes DEF SdkAsks
  <2> QED
    BY <1>11, <2>1, <2>2, <2>3 DEF SdkAsks, history
<1>12. ASSUME NEW c \in Callbacks, CallbackTimesOut(c)
       PROVE  TypeOK'
  BY <1>1, <1>12 DEF CallbackTimesOut, history
<1> QED
  BY <1>2, <1>3, <1>4, <1>5, <1>6, <1>7, <1>8, <1>9, <1>10, <1>11, <1>12

(* The first state is well typed.                                          *)
LEMMA InitType == Init => TypeOK
<1> SUFFICES ASSUME Init PROVE TypeOK
  OBVIOUS
<1>1. /\ <<>> \in Seq(Inbound) /\ <<>> \in Seq(ToFrames)
      /\ <<>> \in Seq(Replies \cup Inbound)
  BY EmptyType
<1>2. 0 \in 0 .. MaxCalls /\ 0 \in 0 .. MaxFaults
  BY WorkerAssumption
<1>3. task \in TaskRecords /\ worker \in WorkerRecords /\ sdk \in SdkRecords
  BY <1>1 DEF Init, TaskRecords, WorkerRecords, SdkRecords, FreshSdk
<1> QED
  BY <1>1, <1>2, <1>3 DEF Init, TypeOK

(* Every step keeps the types.                                             *)
LEMMA NextType == TypeOK /\ [Next]_vars => TypeOK'
<1>1. TypeOK /\ UNCHANGED vars => TypeOK'
  BY DEF vars, TypeOK
<1>2. TypeOK /\ Next => TypeOK'
  BY CommandType, TaskStepType, RequestType, TurnType DEF Next, WorkerStep
<1> QED
  BY <1>1, <1>2

(***************************************************************************)
(* Responses                                                               *)
(***************************************************************************)

(* The task leaves the worker's tables and the SDK alone.                  *)
LEMMA TaskLeavesWorker ==
  ASSUME \/ TaskPrompts \/ TaskSteers \/ TaskInterrupts \/ TaskShutsDown
         \/ \E c \in Callbacks, answer \in {"allow", "deny"} : TaskAnswers(c, answer)
         \/ \E S \in SUBSET Callbacks : TaskDenies(S)
         \/ TaskStep
  PROVE  UNCHANGED <<worker, sdk, asked>>
BY DEF TaskPrompts, TaskSteers, StartCall, TaskInterrupts, TaskShutsDown, TaskAnswers,
       TaskDenies, TaskStep, TaskCollects, CallSucceeds, CallFails, TaskReads

(* A turn is under way exactly while responses are to come.                *)
LEMMA ActiveTurnCounts ==
  ASSUME TypeOK, CountInv
  PROVE  /\ ActiveTurn <=> worker.turn # "none"
         /\ worker.turn = "none" <=> worker.responses = 0
         /\ worker.responses \in Nat /\ sdk.unanswered \in Nat /\ sdk.left \in Nat
BY DEF TypeOK, CountInv, ActiveTurn, WorkerRecords, SdkRecords

(* The steps that serve a call keep the account.                           *)
LEMMA RequestCounts ==
  ASSUME TypeOK, CountInv, ResponsesAccounted,
         \/ WorkerAccepts \/ PromptStarts \/ ReopenFails \/ SteerStarts
         \/ InterruptStarts \/ RequestRefused \/ NothingToInterrupt
         \/ RequestDone \/ RequestRaises
  PROVE  CountInv' /\ ResponsesAccounted'
<1> USE ActiveTurnCounts DEF CountInv, ResponsesAccounted
<1>1. worker \in WorkerRecords /\ sdk \in SdkRecords
  BY DEF TypeOK
<1>2. CASE WorkerAccepts
  <2>1. ~worker.atSdk
    BY <1>2 DEF WorkerAccepts, TypeOK
  <2>2. /\ worker'.turn = worker.turn /\ worker'.responses = worker.responses
        /\ ~worker'.atSdk /\ sdk' = sdk
    BY <1>1, <1>2, <2>1 DEF WorkerAccepts, WorkerRecords
  <2> QED
    BY <2>1, <2>2
<1>3. CASE PromptStarts
  <2>1. worker.turn = "none" /\ ~worker.atSdk /\ worker.request = "prompt"
    BY <1>3 DEF PromptStarts, MayStart
  <2>2. /\ worker'.turn = "none" /\ worker'.responses = 0
        /\ worker'.atSdk /\ worker'.request = "prompt"
    BY <1>1, <1>3, <2>1 DEF PromptStarts, WorkerRecords
  <2>3. \/ sdk.alive /\ sdk' = SdkQueried(sdk)
        \/ sdk' = SdkQueried(FreshSdk)
    BY <1>3 DEF PromptStarts
  <2>4. CASE sdk.alive /\ sdk' = SdkQueried(sdk)
    <3>1. sdk'.unanswered = sdk.unanswered + 1 /\ sdk'.left = sdk.left
      BY <1>1, <2>4 DEF SdkQueried, SdkRecords
    <3>2. 0 + sdk.left + 0 = sdk.unanswered + 0
      BY <2>1, <2>4
    <3> QED
      BY <2>2, <3>1, <3>2
  <2>5. CASE sdk' = SdkQueried(FreshSdk)
    <3>1. sdk'.unanswered = 1 /\ sdk'.left = 0
      BY <2>5 DEF SdkQueried, FreshSdk
    <3> QED
      BY <2>2, <3>1
  <2> QED
    BY <2>3, <2>4, <2>5
<1>4. CASE ReopenFails
  <2>1. worker'.turn = worker.turn /\ worker'.responses = worker.responses
    BY <1>1, <1>4 DEF ReopenFails, WorkerRecords
  <2>2. ~sdk'.alive
    BY <1>4 DEF ReopenFails, DeadSdk, FreshSdk
  <2> QED
    BY <2>1, <2>2
<1>5. CASE SteerStarts
  <2>1. /\ worker.turn \notin {"none", "waiting"} /\ ~worker.atSdk
        /\ worker.request = "steer" /\ sdk.alive
    BY <1>5 DEF SteerStarts, MayStart
  <2>2. /\ worker'.turn = worker.turn /\ worker'.responses = worker.responses
        /\ worker'.atSdk /\ worker'.request = "steer"
    BY <1>1, <1>5, <2>1 DEF SteerStarts, WorkerRecords
  <2>3. sdk'.unanswered = sdk.unanswered + 1 /\ sdk'.left = sdk.left
    BY <1>1, <1>5 DEF SteerStarts, SdkQueried, SdkRecords
  <2>4. worker.responses + sdk.left + 0 = sdk.unanswered + 0
    BY <2>1
  <2> QED
    BY <2>1, <2>2, <2>3, <2>4
<1>6. CASE InterruptStarts
  <2>1. ~worker.atSdk /\ worker.request = "interrupt" /\ sdk.alive
    BY <1>6 DEF InterruptStarts, MayStart
  <2>2. /\ worker'.turn = worker.turn /\ worker'.responses = worker.responses
        /\ worker'.atSdk /\ worker'.request = "interrupt"
    BY <1>1, <1>6, <2>1 DEF InterruptStarts, WorkerRecords
  <2>3. sdk'.unanswered = sdk.unanswered /\ sdk'.left = sdk.left
    BY <1>1, <1>6 DEF InterruptStarts, SdkRecords
  <2> QED
    BY <2>1, <2>2, <2>3
<1>7. CASE RequestRefused \/ NothingToInterrupt
  <2>1. ~worker.atSdk
    BY <1>7 DEF RequestRefused, NothingToInterrupt, MayStart
  <2>2. /\ worker'.turn = worker.turn /\ worker'.responses = worker.responses
        /\ ~worker'.atSdk /\ sdk' = sdk
    BY <1>1, <1>7, <2>1 DEF RequestRefused, NothingToInterrupt, WorkerRecords
  <2> QED
    BY <2>1, <2>2
<1>8. CASE RequestDone
  <2>1. /\ worker.atSdk /\ sdk.alive /\ sdk' = sdk
        /\ worker' = [Counted(worker) EXCEPT !.request = "none", !.atSdk = FALSE]
    BY <1>8 DEF RequestDone
  <2>2. worker.request \in Calls
    BY <1>1, <2>1 DEF TypeOK, WorkerRecords
  <2>3. CASE worker.request = "prompt"
    <3>1. worker'.turn = "reading" /\ worker'.responses = 1 /\ ~worker'.atSdk
      BY <1>1, <2>1, <2>3 DEF Counted, WorkerRecords
    <3>2. 0 + sdk.left + 1 = sdk.unanswered + 0
      BY <2>1, <2>3
    <3> QED
      BY <2>1, <3>1, <3>2
  <2>4. CASE worker.request = "steer"
    <3>1. /\ worker'.turn = worker.turn /\ worker'.responses = worker.responses + 1
          /\ ~worker'.atSdk
      BY <1>1, <2>1, <2>4 DEF Counted, WorkerRecords
    <3>2. worker.turn # "none"
      BY <2>1, <2>4
    <3>3. worker'.responses # 0
      BY <3>1
    <3>4. worker.responses + sdk.left + 1
            = sdk.unanswered + (IF worker.turn = "waiting" THEN 1 ELSE 0)
      BY <2>1, <2>4
    <3> QED
      BY <2>1, <3>1, <3>2, <3>3, <3>4
  <2>5. CASE worker.request = "interrupt"
    <3>1. /\ worker'.turn = worker.turn /\ worker'.responses = worker.responses
          /\ ~worker'.atSdk
      BY <1>1, <2>1, <2>5 DEF Counted, WorkerRecords
    <3> QED
      BY <2>1, <2>5, <3>1
  <2> QED
    BY <2>2, <2>3, <2>4, <2>5 DEF Calls
<1>9. CASE RequestRaises
  <2>1. /\ worker'.turn = worker.turn /\ worker'.responses = worker.responses
        /\ ~sdk'.alive
    BY <1>1, <1>9 DEF RequestRaises, WorkerRecords
  <2> QED
    BY <2>1
<1> QED
  BY <1>2, <1>3, <1>4, <1>5, <1>6, <1>7, <1>8, <1>9

(* So do the turn tasks, the callbacks and the shutdown.                   *)
LEMMA TurnCounts ==
  ASSUME TypeOK, CountInv, ResponsesAccounted,
         \/ ResponseTaken \/ TurnFails \/ TurnFinished
         \/ AnswerAccepted \/ AnswerIgnored \/ WorkerShutsDown
         \/ ResultArrives \/ TurnRaises \/ SdkDies
         \/ \E c \in Callbacks : SdkAsks(c) \/ CallbackTimesOut(c)
  PROVE  CountInv' /\ ResponsesAccounted'
<1> USE ActiveTurnCounts DEF CountInv, ResponsesAccounted
<1>1. worker \in WorkerRecords /\ sdk \in SdkRecords
  BY DEF TypeOK
<1>2. CASE ResponseTaken
  <2>1. worker.turn = "waiting" /\ ~worker.atSdk /\ worker.responses > 0 /\ sdk' = sdk
    BY <1>2 DEF ResponseTaken
  <2>2. worker' = TakesResponse(worker)
    BY <1>2 DEF ResponseTaken
  <2>3. /\ worker'.responses = worker.responses - 1
        /\ worker'.turn = (IF worker.responses = 1 THEN "none" ELSE "reading")
        /\ ~worker'.atSdk
    <3>1. CASE worker.responses <= 1
      <4>1. worker.responses = 1
        BY <2>1, <3>1
      <4> QED
        BY <1>1, <2>1, <2>2, <3>1, <4>1 DEF TakesResponse, WorkerRecords
    <3>2. CASE ~(worker.responses <= 1)
      <4>1. worker.responses # 1
        BY <3>2
      <4> QED
        BY <1>1, <2>1, <2>2, <3>2, <4>1 DEF TakesResponse, WorkerRecords
    <3> QED
      BY <3>1, <3>2
  <2>4. worker'.turn = "none" <=> worker'.responses = 0
    BY <2>1, <2>3
  <2> QED
    BY <2>1, <2>3, <2>4
<1>3. CASE TurnFails
  <2>1. /\ ~worker'.atSdk /\ worker'.turn = "none" /\ worker'.responses = 0
        /\ sdk'.unanswered = sdk.unanswered /\ sdk'.left = sdk.unanswered
    BY <1>1, <1>3 DEF TurnFails, WorkerRecords, SdkRecords
  <2> QED
    BY <2>1
<1>4. CASE TurnFinished
  <2>1. /\ worker'.turn = worker.turn /\ worker'.responses = worker.responses
        /\ worker'.atSdk = worker.atSdk /\ worker'.request = worker.request /\ sdk' = sdk
    BY <1>1, <1>4 DEF TurnFinished, WorkerRecords
  <2> QED
    BY <2>1
<1>5. ASSUME NEW c \in Callbacks, NEW outcome, Settle(c, outcome), sdk' = sdk
      PROVE  CountInv' /\ ResponsesAccounted'
  <2>1. /\ worker'.turn = worker.turn /\ worker'.responses = worker.responses
        /\ worker'.atSdk = worker.atSdk /\ worker'.request = worker.request
    BY <1>1, <1>5 DEF Settle, WorkerRecords
  <2> QED
    BY <1>5, <2>1
<1>6. CASE AnswerAccepted
  BY <1>5, <1>6 DEF AnswerAccepted
<1>7. CASE AnswerIgnored
  BY <1>7 DEF AnswerIgnored
<1>8. CASE WorkerShutsDown
  <2>1. worker'.turn = "none" /\ worker'.responses = 0 /\ ~sdk'.alive
    BY <1>1, <1>8 DEF WorkerShutsDown, WorkerRecords, DeadSdk, FreshSdk
  <2> QED
    BY <2>1
<1>9. CASE ResultArrives
  <2>1. /\ worker.turn = "reading" /\ worker'.turn = "waiting"
        /\ worker'.responses = worker.responses
        /\ worker'.atSdk = worker.atSdk /\ worker'.request = worker.request
    BY <1>1, <1>9 DEF ResultArrives, WorkerRecords
  <2>2. /\ sdk.alive /\ sdk'.alive = sdk.alive /\ sdk'.left = sdk.left
        /\ sdk'.unanswered = sdk.unanswered - 1
    BY <1>1, <1>9 DEF ResultArrives, SdkRecords
  <2> QED
    BY <2>1, <2>2
<1>10. CASE TurnRaises
  <2>1. /\ worker.turn = "reading" /\ worker'.turn = "failing"
        /\ worker'.responses = worker.responses /\ sdk' = sdk
        /\ worker'.atSdk = worker.atSdk /\ worker'.request = worker.request
    BY <1>1, <1>10 DEF TurnRaises, WorkerRecords
  <2> QED
    BY <2>1
<1>11. CASE SdkDies
  <2>1. worker' = worker /\ ~sdk'.alive
    BY <1>11 DEF SdkDies, DeadSdk, FreshSdk
  <2> QED
    BY <2>1
<1>12. ASSUME NEW c \in Callbacks, SdkAsks(c)
       PROVE  CountInv' /\ ResponsesAccounted'
  <2>1. /\ worker'.turn = worker.turn /\ worker'.responses = worker.responses
        /\ worker'.atSdk = worker.atSdk /\ worker'.request = worker.request /\ sdk' = sdk
    BY <1>1, <1>12 DEF SdkAsks, WorkerRecords
  <2> QED
    BY <2>1
<1>13. ASSUME NEW c \in Callbacks, CallbackTimesOut(c)
       PROVE  CountInv' /\ ResponsesAccounted'
  BY <1>5, <1>13 DEF CallbackTimesOut
<1> QED
  BY <1>2, <1>3, <1>4, <1>6, <1>7, <1>8, <1>9, <1>10, <1>11, <1>12, <1>13

(* No step loses the account.                                              *)
LEMMA NextCounts ==
  TypeOK /\ CountInv /\ ResponsesAccounted /\ [Next]_vars => CountInv' /\ ResponsesAccounted'
<1>1. ASSUME CountInv, ResponsesAccounted, UNCHANGED <<worker, sdk>>
      PROVE  CountInv' /\ ResponsesAccounted'
  BY <1>1 DEF CountInv, ResponsesAccounted
<1> QED
  BY <1>1, TaskLeavesWorker, RequestCounts, TurnCounts DEF Next, WorkerStep, vars

(***************************************************************************)
(* Callbacks                                                               *)
(***************************************************************************)

(* A queue asks for a callback as often as the frames put on it do.        *)
LEMMA AppendAsks ==
  ASSUME NEW S, NEW q \in Seq(S), NEW m \in S, NEW c
  PROVE  /\ Asked(Append(q, m), c) <=> Asked(q, c) \/ m = AboutCallback("callback", c)
         /\ OnceOnly(q, c) /\ ~(Asked(q, c) /\ m = AboutCallback("callback", c)) =>
              OnceOnly(Append(q, m), c)
<1> DEFINE r == Append(q, m)
           n == Len(q)
<1>1. /\ n \in Nat /\ DOMAIN q = 1 .. n /\ DOMAIN r = 1 .. n + 1
      /\ r[n + 1] = m /\ \A i \in 1 .. n : r[i] = q[i]
  OBVIOUS
<1> HIDE DEF r, n
<1>2. \A i : i \in AsksFor(r, c) <=>
               i \in AsksFor(q, c) \/ (i = n + 1 /\ m = AboutCallback("callback", c))
  BY <1>1 DEF AsksFor
<1>3. Asked(r, c) <=> Asked(q, c) \/ m = AboutCallback("callback", c)
  BY <1>2 DEF Asked
<1>4. OnceOnly(q, c) /\ ~(Asked(q, c) /\ m = AboutCallback("callback", c)) => OnceOnly(r, c)
  BY <1>2 DEF Asked, OnceOnly
<1> QED
  BY <1>3, <1>4 DEF r

(* Without its first frame a queue asks for a callback no more often.      *)
LEMMA TailAsks ==
  ASSUME NEW S, NEW q \in Seq(S), q # <<>>, NEW c
  PROVE  /\ Asked(Tail(q), c) => Asked(q, c)
         /\ Head(q) = AboutCallback("callback", c) => Asked(q, c)
         /\ Asked(q, c) => Asked(Tail(q), c) \/ Head(q) = AboutCallback("callback", c)
         /\ OnceOnly(q, c) => OnceOnly(Tail(q), c)
         /\ OnceOnly(q, c) /\ Head(q) = AboutCallback("callback", c) => ~Asked(Tail(q), c)
<1> DEFINE r == Tail(q)
           n == Len(q)
<1>1. /\ n \in Nat /\ n > 0 /\ DOMAIN q = 1 .. n /\ DOMAIN r = 1 .. n - 1
      /\ q[1] = Head(q) /\ \A i \in 1 .. n - 1 : r[i] = q[i + 1]
  OBVIOUS
<1> HIDE DEF r, n
<1>2. \A i \in AsksFor(r, c) : i \in Int /\ i > 0 /\ i + 1 \in AsksFor(q, c)
  BY <1>1 DEF AsksFor
<1>3. \A i \in AsksFor(q, c) :
        (i = 1 /\ Head(q) = AboutCallback("callback", c)) \/ i - 1 \in AsksFor(r, c)
  BY <1>1 DEF AsksFor
<1>4. Head(q) = AboutCallback("callback", c) => 1 \in AsksFor(q, c)
  BY <1>1 DEF AsksFor
<1>5. Asked(r, c) => Asked(q, c)
  BY <1>2 DEF Asked
<1>6. Asked(q, c) => Asked(r, c) \/ Head(q) = AboutCallback("callback", c)
  BY <1>3 DEF Asked
<1>7. OnceOnly(q, c) => OnceOnly(r, c)
  <2> SUFFICES ASSUME OnceOnly(q, c), NEW i \in AsksFor(r, c), NEW j \in AsksFor(r, c)
               PROVE  i = j
    BY DEF OnceOnly
  <2>1. i + 1 = j + 1
    BY <1>2 DEF OnceOnly
  <2> QED
    BY <1>2, <2>1
<1>8. OnceOnly(q, c) /\ Head(q) = AboutCallback("callback", c) => ~Asked(r, c)
  <2> SUFFICES ASSUME OnceOnly(q, c), 1 \in AsksFor(q, c), NEW i \in AsksFor(r, c)
               PROVE  FALSE
    BY <1>4 DEF Asked
  <2>1. i + 1 = 1
    BY <1>2 DEF OnceOnly
  <2> QED
    BY <1>2, <2>1
<1> QED
  BY <1>4, <1>5, <1>6, <1>7, <1>8 DEF r, Asked

(* What the commands other than an answer write: denials, then at most one *)
(* call, which the task then awaits.                                       *)
LEMMA CommandWrites ==
  ASSUME TypeOK,
         \/ TaskPrompts \/ TaskSteers \/ TaskInterrupts \/ TaskShutsDown
         \/ \E S \in SUBSET Callbacks : TaskDenies(S)
  PROVE  \A i \in DOMAIN toWorker' :
           \/ i \in DOMAIN toWorker /\ toWorker'[i] = toWorker[i]
           \/ toWorker'[i].op = "deny"
           \/ /\ i = Len(toWorker') /\ toWorker'[i] = Frame(task'.call)
              /\ task'.call \in Calls \cup {"shutdown"}
<1>1. toWorker \in Seq(ToFrames) /\ task \in TaskRecords /\ task.pending \in SUBSET Callbacks
  BY DEF TypeOK, TaskRecords
<1>2. ASSUME NEW q \in Seq(ToFrames), NEW op \in Calls \cup {"shutdown"}
      PROVE  /\ Len(Append(q, Frame(op))) \in Nat
             /\ \A i \in DOMAIN Append(q, Frame(op)) :
                  \/ i \in DOMAIN q /\ Append(q, Frame(op))[i] = q[i]
                  \/ i = Len(Append(q, Frame(op))) /\ Append(q, Frame(op))[i] = Frame(op)
  <2>1. Frame(op) \in ToFrames
    BY FrameTypes
  <2> QED
    BY <1>2, <2>1
<1>3. ASSUME NEW op \in {"prompt", "steer"}, StartCall(op), task' = [task EXCEPT !.call = op]
      PROVE  \A i \in DOMAIN toWorker' :
               \/ i \in DOMAIN toWorker /\ toWorker'[i] = toWorker[i]
               \/ i = Len(toWorker') /\ toWorker'[i] = Frame(task'.call)
                    /\ task'.call \in Calls \cup {"shutdown"}
  <2>1. task'.call = op /\ op \in Calls \cup {"shutdown"}
    BY <1>1, <1>3 DEF TaskRecords, Calls
  <2> QED
    BY <1>1, <1>2, <1>3, <2>1 DEF StartCall
<1>4. CASE TaskInterrupts
  <2>1. PICK order \in Orders(task.pending) :
          toWorker' = toWorker \o Denials(order)
                        \o (IF task.active THEN <<Frame("interrupt")>> ELSE <<>>)
    BY <1>4 DEF TaskInterrupts
  <2> DEFINE q == toWorker \o Denials(order)
  <2>2. q \in Seq(ToFrames)
    BY <1>1, DenyAllWrites
  <2>3. \A i \in DOMAIN q : (i \in DOMAIN toWorker /\ q[i] = toWorker[i]) \/ q[i].op = "deny"
    BY <1>1, DenyAllWrites
  <2> HIDE DEF q
  <2>4. CASE task.active
    <3>1. task'.call = "interrupt"
      BY <1>1, <1>4, <2>4 DEF TaskInterrupts, TaskRecords
    <3>2. toWorker' = Append(q, Frame("interrupt"))
      BY <2>1, <2>2, <2>4 DEF q
    <3> QED
      BY <1>2, <2>2, <2>3, <3>1, <3>2 DEF Calls
  <2>5. CASE ~task.active
    <3>1. toWorker' = q
      BY <2>1, <2>2, <2>5 DEF q
    <3> QED
      BY <2>3, <3>1
  <2> QED
    BY <2>4, <2>5
<1>5. CASE TaskShutsDown
  <2>1. PICK order \in Orders(task.pending) :
          toWorker' = Append(toWorker \o Denials(order), Frame("shutdown"))
    BY <1>5 DEF TaskShutsDown
  <2> DEFINE q == toWorker \o Denials(order)
  <2>2. q \in Seq(ToFrames)
    BY <1>1, DenyAllWrites
  <2>3. \A i \in DOMAIN q : (i \in DOMAIN toWorker /\ q[i] = toWorker[i]) \/ q[i].op = "deny"
    BY <1>1, DenyAllWrites
  <2>4. task'.call = "shutdown" /\ toWorker' = Append(q, Frame("shutdown"))
    BY <1>1, <1>5, <2>1 DEF TaskShutsDown, TaskRecords
  <2> HIDE DEF q
  <2> QED
    BY <1>2, <2>2, <2>3, <2>4
<1>6. ASSUME NEW S \in SUBSET Callbacks, TaskDenies(S)
      PROVE  \A i \in DOMAIN toWorker' :
               \/ i \in DOMAIN toWorker /\ toWorker'[i] = toWorker[i]
               \/ toWorker'[i].op = "deny"
  BY <1>6, DenyAllWrites DEF TaskDenies
<1> QED
  BY <1>3, <1>4, <1>5, <1>6 DEF TaskPrompts, TaskSteers

(* A command leaves alone what was published and only shrinks what waits;  *)
(* what it takes from there, it answers.                                   *)
LEMMA CommandAnswers ==
  ASSUME TypeOK,
         \/ TaskPrompts \/ TaskSteers \/ TaskInterrupts \/ TaskShutsDown
         \/ \E c \in Callbacks, answer \in {"allow", "deny"} : TaskAnswers(c, answer)
         \/ \E S \in SUBSET Callbacks : TaskDenies(S)
  PROVE  /\ fromWorker' = fromWorker /\ asked' = asked
         /\ task'.collected = task.collected
         /\ \A c \in Callbacks :
              /\ c \in task'.pending => c \in task.pending /\ verdict'[c] = verdict[c]
              /\ c \notin task.pending => verdict'[c] = verdict[c]
              /\ verdict[c] # "none" => verdict'[c] = verdict[c]
<1>1. task \in TaskRecords /\ task.pending \in SUBSET Callbacks
  BY DEF TypeOK, TaskRecords
<1>2. CASE TaskPrompts \/ TaskSteers
  BY <1>1, <1>2 DEF TaskPrompts, TaskSteers, StartCall, TaskRecords, history
<1>3. ASSUME NEW S \in SUBSET Callbacks, NEW answer \in {"allow", "deny"},
             S \subseteq task.pending,
             verdict' = FirstAnswer(S, answer), task'.pending = task.pending \ S,
             fromWorker' = fromWorker, asked' = asked,
             task'.collected = task.collected
      PROVE  /\ fromWorker' = fromWorker /\ asked' = asked
             /\ task'.collected = task.collected
             /\ \A c \in Callbacks :
                  /\ c \in task'.pending => c \in task.pending /\ verdict'[c] = verdict[c]
                  /\ c \notin task.pending => verdict'[c] = verdict[c]
                  /\ verdict[c] # "none" => verdict'[c] = verdict[c]
  BY <1>3, FirstAnswerType
<1>4. CASE TaskInterrupts \/ TaskShutsDown
  <2>1. task'.pending = {} /\ task'.collected = task.collected
    BY <1>1, <1>4 DEF TaskInterrupts, TaskShutsDown, TaskRecords
  <2> QED
    BY <1>1, <1>3, <1>4, <2>1 DEF TaskInterrupts, TaskShutsDown
<1>5. ASSUME NEW c \in Callbacks, NEW answer \in {"allow", "deny"}, TaskAnswers(c, answer)
      PROVE  /\ verdict' = FirstAnswer({c}, answer) /\ task'.pending = task.pending \ {c}
             /\ task'.collected = task.collected
             /\ fromWorker' = fromWorker /\ asked' = asked /\ {c} \subseteq task.pending
  BY <1>1, <1>5 DEF TaskAnswers, TaskRecords
<1>6. ASSUME NEW S \in SUBSET Callbacks, TaskDenies(S)
      PROVE  /\ verdict' = FirstAnswer(S, "deny") /\ task'.pending = task.pending \ S
             /\ task'.collected = task.collected
             /\ fromWorker' = fromWorker /\ asked' = asked /\ S \subseteq task.pending
  BY <1>1, <1>6 DEF TaskDenies, TaskRecords
<1>7. ASSUME NEW c \in Callbacks, NEW answer \in {"allow", "deny"}, TaskAnswers(c, answer)
      PROVE  /\ fromWorker' = fromWorker /\ asked' = asked
             /\ task'.collected = task.collected
             /\ \A d \in Callbacks :
                  /\ d \in task'.pending => d \in task.pending /\ verdict'[d] = verdict[d]
                  /\ d \notin task.pending => verdict'[d] = verdict[d]
                  /\ verdict[d] # "none" => verdict'[d] = verdict[d]
  <2>1. {c} \in SUBSET Callbacks
    OBVIOUS
  <2> QED
    BY <1>3, <1>5, <1>7, <2>1
<1>8. ASSUME NEW S \in SUBSET Callbacks, TaskDenies(S)
      PROVE  /\ fromWorker' = fromWorker /\ asked' = asked
             /\ task'.collected = task.collected
             /\ \A d \in Callbacks :
                  /\ d \in task'.pending => d \in task.pending /\ verdict'[d] = verdict[d]
                  /\ d \notin task.pending => verdict'[d] = verdict[d]
                  /\ verdict[d] # "none" => verdict'[d] = verdict[d]
  BY <1>3, <1>6, <1>8
<1> QED
  BY <1>2, <1>4, <1>7, <1>8

(* Only an allowing answer tells the worker to allow.                      *)
LEMMA CommandAllows ==
  ASSUME TypeOK, CallbackInv,
         \/ TaskPrompts \/ TaskSteers \/ TaskInterrupts \/ TaskShutsDown
         \/ \E c \in Callbacks, answer \in {"allow", "deny"} : TaskAnswers(c, answer)
         \/ \E S \in SUBSET Callbacks : TaskDenies(S),
         NEW d \in Callbacks, ToldToAllow(d)'
  PROVE  verdict'[d] = "allow"
<1>1. PICK i \in DOMAIN toWorker' : toWorker'[i] = AboutCallback("allow", d)
  BY DEF ToldToAllow
<1>2. i \in DOMAIN toWorker /\ toWorker'[i] = toWorker[i] => verdict'[d] = "allow"
  <2> SUFFICES ASSUME i \in DOMAIN toWorker, toWorker'[i] = toWorker[i]
               PROVE  verdict'[d] = "allow"
    OBVIOUS
  <2>1. verdict[d] = "allow"
    BY <1>1 DEF ToldToAllow, CallbackInv
  <2> QED
    BY <2>1, CommandAnswers
<1>3. CASE \/ TaskPrompts \/ TaskSteers \/ TaskInterrupts \/ TaskShutsDown
           \/ \E S \in SUBSET Callbacks : TaskDenies(S)
  <2>1. \A op \in Calls \cup {"shutdown"} : AboutCallback("allow", d) # Frame(op)
    BY DEF AboutCallback, Frame, Calls
  <2>2. AboutCallback("allow", d).op # "deny"
    BY DEF AboutCallback
  <2> QED
    BY <1>1, <1>2, <1>3, <2>1, <2>2, CommandWrites
<1>4. ASSUME NEW c \in Callbacks, NEW answer \in {"allow", "deny"}, TaskAnswers(c, answer)
      PROVE  verdict'[d] = "allow"
  <2>1. /\ toWorker \in Seq(ToFrames) /\ AboutCallback(answer, c) \in ToFrames
        /\ toWorker' = Append(toWorker, AboutCallback(answer, c))
    BY <1>4, FrameTypes DEF TypeOK, TaskAnswers
  <2>2. \/ i \in DOMAIN toWorker /\ toWorker'[i] = toWorker[i]
        \/ toWorker'[i] = AboutCallback(answer, c)
    BY <1>1, <2>1
  <2>3. CASE toWorker'[i] = AboutCallback(answer, c)
    <3>1. answer = "allow" /\ c = d
      BY <1>1, <2>3 DEF AboutCallback
    <3>2. verdict[d] = "none" /\ verdict' = FirstAnswer({d}, "allow")
      BY <1>4, <3>1 DEF CallbackInv, TaskAnswers
    <3> QED
      BY <3>2, FirstAnswerType
  <2> QED
    BY <1>2, <2>2, <2>3
<1> QED
  BY <1>3, <1>4

(* A command keeps the account of the callbacks.                           *)
LEMMA CommandCallbacks ==
  ASSUME TypeOK, CallbackInv,
         \/ TaskPrompts \/ TaskSteers \/ TaskInterrupts \/ TaskShutsDown
         \/ \E c \in Callbacks, answer \in {"allow", "deny"} : TaskAnswers(c, answer)
         \/ \E S \in SUBSET Callbacks : TaskDenies(S)
  PROVE  CallbackInv'
<1> SUFFICES ASSUME NEW c \in Callbacks
             PROVE  /\ OnceOnly(fromWorker', c) /\ OnceOnly(task'.collected, c)
                    /\ ~(Asked(fromWorker', c) /\ Asked(task'.collected, c))
                    /\ \/ Asked(fromWorker', c) \/ Asked(task'.collected, c)
                       \/ asked'[c] = "unasked"
                       => c \notin task'.pending /\ verdict'[c] = "none"
                    /\ asked'[c] = "unasked" =>
                         ~Asked(fromWorker', c) /\ ~Asked(task'.collected, c)
                    /\ c \in task'.pending => verdict'[c] = "none"
                    /\ ToldToAllow(c)' => verdict'[c] = "allow"
  BY DEF CallbackInv, Asked, OnceOnly, AsksFor
<1> QED
  BY CommandAnswers, CommandAllows DEF CallbackInv

(* What is left of a queue the worker's standard input was is told no more *)
(* to allow.                                                               *)
LEMMA TailAllows ==
  ASSUME TypeOK, toWorker # <<>>, toWorker' = Tail(toWorker), NEW c
  PROVE  /\ ToldToAllow(c)' => ToldToAllow(c)
         /\ Head(toWorker) = AboutCallback("allow", c) => ToldToAllow(c)
<1>1. /\ toWorker \in Seq(ToFrames) /\ Len(toWorker) \in Nat \ {0}
      /\ Len(Tail(toWorker)) = Len(toWorker) - 1 /\ Tail(toWorker) \in Seq(ToFrames)
      /\ Head(toWorker) = toWorker[1]
      /\ \A i \in 1..Len(Tail(toWorker)) : Tail(toWorker)[i] = toWorker[i + 1]
  BY TailElements DEF TypeOK
<1>2. ASSUME NEW i \in DOMAIN toWorker' PROVE i + 1 \in DOMAIN toWorker /\ toWorker'[i] = toWorker[i + 1]
  BY <1>1
<1>3. 1 \in DOMAIN toWorker
  BY <1>1
<1> QED
  BY <1>1, <1>2, <1>3 DEF ToldToAllow

(* The callbacks publish_worker_inbound adds are those asked for.          *)
LEMMA PublishedPending ==
  ASSUME NEW t \in TaskRecords, NEW q \in Seq(Replies \cup Inbound), NEW active \in BOOLEAN,
         NEW c \in Callbacks
  PROVE  c \in Published(t, q, active).pending <=> c \in t.pending \/ Asked(q, c)
<1>1. \A m \in Replies \cup Inbound :
        m.op = "callback" /\ m.callback = c <=> m = AboutCallback("callback", c)
  BY DEF Replies, Inbound, AboutCallback
<1>2. \A i \in DOMAIN q : q[i] \in Replies \cup Inbound
  OBVIOUS
<1> DEFINE new == {q[i].callback : i \in {j \in DOMAIN q : q[j].op = "callback"}}
           act == active /\ ~\E i \in DOMAIN q : Ends(q[i])
<1>3. c \in new <=> Asked(q, c)
  BY <1>1, <1>2 DEF Asked, AsksFor
<1>4. Published(t, q, active) = [t EXCEPT !.pending = @ \cup new, !.active = act]
  BY DEF Published
<1> HIDE DEF new, act
<1>5. [t EXCEPT !.pending = @ \cup new, !.active = act].pending = t.pending \cup new
  BY DEF TaskRecords
<1> QED
  BY <1>3, <1>4, <1>5

(* What the task reads changes who waits for an answer, not the answers.   *)
LEMMA TaskStepCallbacks ==
  ASSUME TypeOK, CallbackInv, TaskStep
  PROVE  CallbackInv'
<1>1. /\ fromWorker \in Seq(Replies \cup Inbound) /\ fromWorker # <<>>
      /\ Head(fromWorker) \in Replies \cup Inbound
      /\ fromWorker' = Tail(fromWorker)
      /\ UNCHANGED <<toWorker, asked, verdict>>
      /\ task \in TaskRecords /\ task.collected \in Seq(Inbound)
      /\ task.collected \in Seq(Replies \cup Inbound)
  <2>1. /\ fromWorker # <<>> /\ fromWorker' = Tail(fromWorker)
        /\ UNCHANGED <<toWorker, asked, verdict>>
    BY DEF TaskStep, TaskCollects, CallSucceeds, CallFails, TaskReads, history
  <2>2. task \in TaskRecords /\ task.collected \in Seq(Inbound)
    BY DEF TypeOK, TaskRecords
  <2>3. task.collected \in Seq(Replies \cup Inbound)
    BY <2>2
  <2>4. fromWorker \in Seq(Replies \cup Inbound)
    BY DEF TypeOK
  <2> QED
    BY <2>1, <2>2, <2>3, <2>4, HeadTypes
<1>2. <<>> \in Seq(Inbound) /\ \A c : ~Asked(<<>>, c) /\ OnceOnly(<<>>, c)
  BY EmptyType DEF Asked, OnceOnly, AsksFor
<1>3. \A c : ToldToAllow(c)' <=> ToldToAllow(c)
  BY <1>1 DEF ToldToAllow
<1> SUFFICES ASSUME NEW c \in Callbacks
             PROVE  /\ OnceOnly(fromWorker', c) /\ OnceOnly(task'.collected, c)
                    /\ ~(Asked(fromWorker', c) /\ Asked(task'.collected, c))
                    /\ \/ Asked(fromWorker', c) \/ Asked(task'.collected, c)
                       \/ asked'[c] = "unasked"
                       => c \notin task'.pending /\ verdict'[c] = "none"
                    /\ asked'[c] = "unasked" =>
                         ~Asked(fromWorker', c) /\ ~Asked(task'.collected, c)
                    /\ c \in task'.pending => verdict'[c] = "none"
                    /\ ToldToAllow(c)' => verdict'[c] = "allow"
  BY DEF CallbackInv, Asked, OnceOnly, AsksFor
<1>4. /\ Asked(fromWorker', c) => Asked(fromWorker, c)
      /\ Head(fromWorker) = AboutCallback("callback", c) =>
           Asked(fromWorker, c) /\ ~Asked(fromWorker', c)
      /\ OnceOnly(fromWorker', c)
  BY <1>1, TailAsks DEF CallbackInv
<1>5. CASE TaskCollects
  <2>1. Head(fromWorker) \in Inbound
    BY <1>1, <1>5 DEF TaskCollects, Replies
  <2>2. /\ task'.collected = Append(task.collected, Head(fromWorker))
        /\ task'.pending = task.pending
    BY <1>1, <1>5 DEF TaskCollects, TaskRecords
  <2>3. /\ Asked(task'.collected, c) <=>
             Asked(task.collected, c) \/ Head(fromWorker) = AboutCallback("callback", c)
        /\ OnceOnly(task.collected, c)
             /\ ~(Asked(task.collected, c) /\ Head(fromWorker) = AboutCallback("callback", c)) =>
             OnceOnly(task'.collected, c)
    BY <1>1, <2>1, <2>2, AppendAsks
  <2> QED
    BY <1>1, <1>3, <1>4, <2>2, <2>3 DEF CallbackInv
<1>6. CASE CallSucceeds
  <2> DEFINE t == [task EXCEPT !.call = "none", !.collected = <<>>]
  <2>1. /\ t \in TaskRecords /\ t.pending = task.pending /\ t.collected = <<>>
        /\ [t EXCEPT !.pc = "gone"].pending = task.pending
        /\ [t EXCEPT !.pc = "gone"].collected = <<>>
    BY <1>1, <1>2 DEF TaskRecords
  <2>2. (task.call = "prompt" \/ task.active) \in BOOLEAN
    BY <1>1 DEF TaskRecords
  <2>3. \/ task' = [t EXCEPT !.pc = "gone"]
        \/ task' = Published(t, task.collected, task.call = "prompt" \/ task.active)
    BY <1>6 DEF CallSucceeds
  <2> HIDE DEF t
  <2>4. /\ task'.collected = <<>>
        /\ c \in task'.pending => c \in task.pending \/ Asked(task.collected, c)
    <3>1. CASE task' = [t EXCEPT !.pc = "gone"]
      BY <2>1, <3>1
    <3> DEFINE still == task.call = "prompt" \/ task.active
    <3>2. still \in BOOLEAN
      BY <2>2
    <3> HIDE DEF still
    <3>3. /\ Published(t, task.collected, still).collected = t.collected
          /\ c \in Published(t, task.collected, still).pending <=>
               c \in t.pending \/ Asked(task.collected, c)
      BY <1>1, <2>1, <3>2, PublishedType, PublishedPending
    <3>4. CASE task' = Published(t, task.collected, still)
      BY <2>1, <3>3, <3>4
    <3> QED
      BY <2>3, <3>1, <3>4 DEF still
  <2> QED
    BY <1>1, <1>2, <1>3, <1>4, <2>4 DEF CallbackInv
<1>7. CASE CallFails
  <2>1. task'.collected = <<>> /\ task'.pending = task.pending
    BY <1>1, <1>7 DEF CallFails, TaskRecords
  <2> QED
    BY <1>1, <1>2, <1>3, <1>4, <2>1 DEF CallbackInv
<1>8. CASE TaskReads
  <2>1. <<Head(fromWorker)>> \in Seq(Replies \cup Inbound)
    BY <1>1, AppendType
  <2>2. /\ task'.collected = task.collected
        /\ c \in task'.pending => c \in task.pending \/ Asked(<<Head(fromWorker)>>, c)
    BY <1>1, <1>8, <2>1, PublishedType, PublishedPending DEF TaskReads
  <2>3. Asked(<<Head(fromWorker)>>, c) => Head(fromWorker) = AboutCallback("callback", c)
    BY DEF Asked, AsksFor
  <2> QED
    BY <1>1, <1>3, <1>4, <2>2, <2>3 DEF CallbackInv
<1> QED
  BY <1>5, <1>6, <1>7, <1>8 DEF TaskStep

(* A step of the worker or of the SDK, other than a callback's request,    *)
(* takes a frame at most and adds one at most, about no callback.          *)
WorkerSteps ==
  \/ WorkerStep \/ ResultArrives \/ TurnRaises \/ SdkDies
  \/ \E c \in Callbacks : CallbackTimesOut(c)

(* A step of the worker reads at most one frame and sends at most one. *)
LEMMA WorkerFrames ==
  ASSUME TypeOK, WorkerSteps
  PROVE  /\ UNCHANGED <<task, verdict>>
         /\ toWorker' = toWorker \/ (toWorker # <<>> /\ toWorker' = Tail(toWorker))
         /\ \/ fromWorker' = fromWorker
            \/ \E op \in {"ok", "error", "result", "failed"} :
                 fromWorker' = Append(fromWorker, Frame(op))
<1>1. CASE AnswerAccepted \/ \E c \in Callbacks : CallbackTimesOut(c)
  BY <1>1 DEF AnswerAccepted, CallbackTimesOut, history
<1>2. CASE PromptStarts \/ SteerStarts \/ InterruptStarts \/ WorkerAccepts
           \/ ResponseTaken \/ TurnFinished \/ AnswerIgnored \/ TurnRaises \/ SdkDies
  BY <1>2 DEF PromptStarts, SteerStarts, InterruptStarts, WorkerAccepts,
     ResponseTaken, TurnFinished, AnswerIgnored, TurnRaises, SdkDies, history
<1>3. CASE ReopenFails \/ RequestRefused \/ RequestRaises
  <2>1. fromWorker' = Append(fromWorker, Frame("error")) /\ UNCHANGED <<task, verdict, toWorker>>
    BY <1>3 DEF Answer, ReopenFails, RequestRefused, RequestRaises, history
  <2> QED
    BY <2>1
<1>4. CASE NothingToInterrupt \/ RequestDone
  <2>1. fromWorker' = Append(fromWorker, Frame("ok")) /\ UNCHANGED <<task, verdict, toWorker>>
    BY <1>4 DEF Answer, NothingToInterrupt, RequestDone, history
  <2> QED
    BY <2>1
<1>5. CASE WorkerShutsDown
  <2>1. /\ fromWorker' = Append(fromWorker, Frame("ok")) /\ UNCHANGED <<task, verdict>>
        /\ toWorker # <<>> /\ toWorker' = Tail(toWorker)
    BY <1>5 DEF Answer, WorkerShutsDown, history
  <2> QED
    BY <2>1
<1>6. CASE TurnFails
  <2>1. fromWorker' = Append(fromWorker, Frame("failed")) /\ UNCHANGED <<task, verdict, toWorker>>
    BY <1>6 DEF Answer, TurnFails, history
  <2> QED
    BY <2>1
<1>7. CASE ResultArrives
  <2>1. fromWorker' = Append(fromWorker, Frame("result")) /\ UNCHANGED <<task, verdict, toWorker>>
    BY <1>7 DEF Answer, ResultArrives, history
  <2> QED
    BY <2>1
<1> QED
  BY <1>1, <1>2, <1>3, <1>4, <1>5, <1>6, <1>7 DEF WorkerSteps, WorkerStep

(* It answers a callback with a permission only when it is told to, and    *)
(* forgets of none that it was asked.                                      *)
LEMMA WorkerAnswers ==
  ASSUME TypeOK, WorkerSteps, NEW d \in Callbacks
  PROVE  /\ asked'[d] = "unasked" => asked[d] = "unasked"
         /\ asked'[d] = "allowed" =>
              \/ asked[d] = "allowed"
              \/ toWorker # <<>> /\ Head(toWorker) = AboutCallback("allow", d)
<1>1. ASSUME NEW c \in Callbacks, NEW outcome \in {"allowed", "denied"}, Settle(c, outcome)
      PROVE  /\ asked'[d] = "unasked" => asked[d] = "unasked"
             /\ asked'[d] = "allowed" => asked[d] = "allowed" \/ (d = c /\ outcome = "allowed")
  <2>1. asked' = [asked EXCEPT ![c] = outcome]
    BY <1>1 DEF Settle
  <2>2. asked \in [Callbacks -> {"unasked", "waiting", "allowed", "denied"}]
    BY DEF TypeOK
  <2> QED
    BY <2>1, <2>2
<1>2. CASE AnswerAccepted
  <2>1. PICK c \in Callbacks :
          /\ Answers(c, Head(toWorker))
          /\ Settle(c, IF Head(toWorker).op = "allow" THEN "allowed" ELSE "denied")
    BY <1>2 DEF AnswerAccepted
  <2>2. toWorker # <<>> /\ Head(toWorker) \in ToFrames
    BY <1>2, HeadTypes DEF AnswerAccepted
  <2>3. Head(toWorker).op = "allow" => Head(toWorker) = AboutCallback("allow", c)
    BY <2>1, <2>2 DEF Answers, ToFrames, AboutCallback, Calls
  <2>4. CASE Head(toWorker).op = "allow"
    BY <1>1, <2>1, <2>2, <2>3, <2>4
  <2>5. CASE Head(toWorker).op # "allow"
    BY <1>1, <2>1, <2>5
  <2> QED
    BY <2>4, <2>5
<1>3. CASE \E c \in Callbacks : CallbackTimesOut(c)
  BY <1>1, <1>3 DEF CallbackTimesOut
<1>4. CASE PromptStarts \/ ReopenFails \/ WorkerShutsDown
  <2>1. asked' = asked \/ asked' = Cancelled
    BY <1>4 DEF PromptStarts, ReopenFails, WorkerShutsDown
  <2> QED
    BY <2>1, CancelledType
<1>5. CASE WorkerAccepts \/ SteerStarts \/ InterruptStarts \/ RequestRefused
           \/ NothingToInterrupt \/ RequestDone \/ RequestRaises
  BY <1>5 DEF WorkerAccepts, SteerStarts, InterruptStarts, RequestRefused,
     NothingToInterrupt, RequestDone, RequestRaises
<1>6. CASE ResponseTaken \/ TurnFails \/ TurnFinished \/ AnswerIgnored
           \/ ResultArrives \/ TurnRaises \/ SdkDies
  BY <1>6 DEF ResponseTaken, TurnFails, TurnFinished, AnswerIgnored,
     ResultArrives, TurnRaises, SdkDies
<1> QED
  BY <1>2, <1>3, <1>4, <1>5, <1>6 DEF WorkerSteps, WorkerStep

(* Such a step keeps the account of the callbacks.                         *)
LEMMA WorkerCallbacks ==
  ASSUME TypeOK, CallbackInv, AllowedByTheUser, WorkerSteps
  PROVE  CallbackInv' /\ AllowedByTheUser'
<1>1. /\ fromWorker \in Seq(Replies \cup Inbound)
      /\ \A op \in {"ok", "error", "result", "failed"} : Frame(op) \in Replies \cup Inbound
  BY FrameTypes DEF TypeOK
<1>2. \A c, op : op # "callback" => Frame(op) # AboutCallback("callback", c)
  BY DEF Frame, AboutCallback
<1>3. ASSUME NEW c \in Callbacks
      PROVE  /\ Asked(fromWorker', c) <=> Asked(fromWorker, c)
             /\ OnceOnly(fromWorker, c) => OnceOnly(fromWorker', c)
  <2>1. CASE fromWorker' = fromWorker
    BY <2>1
  <2>2. ASSUME NEW op \in {"ok", "error", "result", "failed"},
               fromWorker' = Append(fromWorker, Frame(op))
        PROVE  /\ Asked(fromWorker', c) <=> Asked(fromWorker, c)
               /\ OnceOnly(fromWorker, c) => OnceOnly(fromWorker', c)
    <3>1. Frame(op) \in Replies \cup Inbound /\ Frame(op) # AboutCallback("callback", c)
      BY <1>1, <1>2
    <3> QED
      BY <1>1, <2>2, <3>1, AppendAsks
  <2> QED
    BY <2>1, <2>2, WorkerFrames
<1>4. ASSUME NEW c \in Callbacks
      PROVE  ToldToAllow(c)' => ToldToAllow(c)
  <2>1. CASE toWorker' = toWorker
    BY <2>1 DEF ToldToAllow
  <2> QED
    BY <2>1, TailAllows, WorkerFrames
<1>5. CallbackInv'
  <2> SUFFICES ASSUME NEW c \in Callbacks
               PROVE  /\ OnceOnly(fromWorker', c) /\ OnceOnly(task'.collected, c)
                      /\ ~(Asked(fromWorker', c) /\ Asked(task'.collected, c))
                      /\ \/ Asked(fromWorker', c) \/ Asked(task'.collected, c)
                         \/ asked'[c] = "unasked"
                         => c \notin task'.pending /\ verdict'[c] = "none"
                      /\ asked'[c] = "unasked" =>
                           ~Asked(fromWorker', c) /\ ~Asked(task'.collected, c)
                      /\ c \in task'.pending => verdict'[c] = "none"
                      /\ ToldToAllow(c)' => verdict'[c] = "allow"
    BY DEF CallbackInv, Asked, OnceOnly, AsksFor
  <2> QED
    BY <1>3, <1>4, WorkerFrames, WorkerAnswers DEF CallbackInv
<1>6. ASSUME NEW c \in Callbacks, asked'[c] = "allowed"
      PROVE  verdict'[c] = "allow"
  <2>1. toWorker # <<>> /\ Head(toWorker) = AboutCallback("allow", c) => ToldToAllow(c)
    <3>1. toWorker # <<>> => 1 \in DOMAIN toWorker /\ toWorker[1] = Head(toWorker)
      BY DEF TypeOK
    <3> QED
      BY <3>1 DEF ToldToAllow
  <2> QED
    BY <1>6, <2>1, WorkerFrames, WorkerAnswers DEF CallbackInv, AllowedByTheUser
<1> QED
  BY <1>5, <1>6 DEF AllowedByTheUser

(* A new request is for a callback nobody has heard of.                    *)
LEMMA AskCallbacks ==
  ASSUME TypeOK, CallbackInv, AllowedByTheUser, NEW d \in Callbacks, SdkAsks(d)
  PROVE  CallbackInv' /\ AllowedByTheUser'
<1>1. /\ fromWorker \in Seq(Replies \cup Inbound)
      /\ AboutCallback("callback", d) \in Replies \cup Inbound
      /\ fromWorker' = Append(fromWorker, AboutCallback("callback", d))
      /\ UNCHANGED <<task, toWorker, verdict>>
      /\ asked[d] = "unasked"
      /\ \A c \in Callbacks : asked'[c] = IF c = d THEN "waiting" ELSE asked[c]
  BY FrameTypes DEF TypeOK, SdkAsks, history
<1>2. \A c : AboutCallback("callback", d) = AboutCallback("callback", c) <=> c = d
  BY DEF AboutCallback
<1>3. ASSUME NEW c \in Callbacks
      PROVE  /\ Asked(fromWorker', c) <=> Asked(fromWorker, c) \/ c = d
             /\ OnceOnly(fromWorker', c)
             /\ ToldToAllow(c)' <=> ToldToAllow(c)
  <2>1. Asked(fromWorker', c) <=> Asked(fromWorker, c) \/ c = d
    BY <1>1, <1>2, AppendAsks
  <2>2. ~(Asked(fromWorker, c) /\ c = d) /\ OnceOnly(fromWorker, c)
    BY <1>1 DEF CallbackInv
  <2>3. OnceOnly(fromWorker', c)
    BY <1>1, <1>2, <2>2, AppendAsks
  <2>4. ToldToAllow(c)' <=> ToldToAllow(c)
    BY <1>1 DEF ToldToAllow
  <2> QED
    BY <2>1, <2>3, <2>4
<1>4. CallbackInv'
  <2> SUFFICES ASSUME NEW c \in Callbacks
               PROVE  /\ OnceOnly(fromWorker', c) /\ OnceOnly(task'.collected, c)
                      /\ ~(Asked(fromWorker', c) /\ Asked(task'.collected, c))
                      /\ \/ Asked(fromWorker', c) \/ Asked(task'.collected, c)
                         \/ asked'[c] = "unasked"
                         => c \notin task'.pending /\ verdict'[c] = "none"
                      /\ asked'[c] = "unasked" =>
                           ~Asked(fromWorker', c) /\ ~Asked(task'.collected, c)
                      /\ c \in task'.pending => verdict'[c] = "none"
                      /\ ToldToAllow(c)' => verdict'[c] = "allow"
    BY DEF CallbackInv, Asked, OnceOnly, AsksFor
  <2> QED
    BY <1>1, <1>3 DEF CallbackInv
<1>5. AllowedByTheUser'
  BY <1>1 DEF AllowedByTheUser
<1> QED
  BY <1>4, <1>5

(* Every step keeps the account of the callbacks.                          *)
LEMMA NextCallbacks ==
  TypeOK /\ CallbackInv /\ AllowedByTheUser /\ [Next]_vars => CallbackInv' /\ AllowedByTheUser'
<1> SUFFICES ASSUME TypeOK, CallbackInv, AllowedByTheUser, [Next]_vars
             PROVE  CallbackInv' /\ AllowedByTheUser'
  OBVIOUS
<1>1. ASSUME \/ TaskPrompts \/ TaskSteers \/ TaskInterrupts \/ TaskShutsDown
             \/ \E c \in Callbacks, answer \in {"allow", "deny"} : TaskAnswers(c, answer)
             \/ \E S \in SUBSET Callbacks : TaskDenies(S)
      PROVE  CallbackInv' /\ AllowedByTheUser'
  BY <1>1, CommandAnswers, CommandCallbacks DEF AllowedByTheUser
<1>2. ASSUME TaskStep
      PROVE  CallbackInv' /\ AllowedByTheUser'
  <2>1. UNCHANGED <<asked, verdict>>
    BY <1>2 DEF TaskStep, TaskCollects, CallSucceeds, CallFails, TaskReads, history
  <2> QED
    BY <1>2, <2>1, TaskStepCallbacks DEF AllowedByTheUser
<1>3. ASSUME UNCHANGED vars
      PROVE  CallbackInv' /\ AllowedByTheUser'
  BY <1>3 DEF vars, CallbackInv, AllowedByTheUser, Asked, OnceOnly, AsksFor, ToldToAllow
<1> QED
  BY <1>1, <1>2, <1>3, WorkerCallbacks, AskCallbacks DEF Next, WorkerSteps

(***************************************************************************)
(* Calls                                                                   *)
(***************************************************************************)

(* A queue with one more frame.                                            *)
LEMMA AppendFrames ==
  ASSUME NEW S, NEW q \in Seq(S), NEW m \in S
  PROVE  /\ Len(q) \in Nat /\ DOMAIN q = 1 .. Len(q)
         /\ DOMAIN Append(q, m) = 1 .. Len(q) + 1
         /\ Append(q, m)[Len(q) + 1] = m
         /\ \A i \in DOMAIN q : i # Len(q) + 1 /\ Append(q, m)[i] = q[i]
         /\ \A i \in DOMAIN Append(q, m) :
              \/ i \in DOMAIN q /\ Append(q, m)[i] = q[i]
              \/ i = Len(q) + 1 /\ Append(q, m)[i] = m
OBVIOUS

(* A queue without its first frame.                                        *)
LEMMA TailFrames ==
  ASSUME NEW S, NEW q \in Seq(S), q # <<>>
  PROVE  /\ 1 \in DOMAIN q /\ q[1] = Head(q)
         /\ \A i \in DOMAIN Tail(q) :
              i \in Int /\ i > 0 /\ i + 1 \in DOMAIN q /\ Tail(q)[i] = q[i + 1]
         /\ \A i \in DOMAIN q :
              i \in Int /\ (i = 1 \/ (i - 1 \in DOMAIN Tail(q) /\ Tail(q)[i - 1] = q[i]))
OBVIOUS

(* While the task awaits nothing there is no call anywhere.                *)
LEMMA NoCall ==
  ASSUME TypeOK, CallInv, task.call = "none"
  PROVE  /\ worker.request = "none" /\ NoReply(fromWorker)
         /\ \A i \in DOMAIN toWorker : ~IsCall(toWorker[i])
BY DEF CallInv, CallWritten, CallServed, CallAnswered, NoReply, IsCall, Calls, TypeOK,
   WorkerRecords

(* What the commands do to the task's account of its call.                 *)
LEMMA CommandCalls ==
  ASSUME TypeOK,
         \/ TaskPrompts \/ TaskSteers \/ TaskInterrupts \/ TaskShutsDown
         \/ \E c \in Callbacks, answer \in {"allow", "deny"} : TaskAnswers(c, answer)
         \/ \E S \in SUBSET Callbacks : TaskDenies(S)
  PROVE  /\ task.pc = "loop" /\ task.call = "none"
         /\ task'.active = task.active /\ task'.collected = task.collected
         /\ CallMade'
         /\ task'.pc \in {"loop", "closing"}
         /\ UNCHANGED <<fromWorker, worker, steered, dropped>>
<1>1. task \in TaskRecords
  BY DEF TypeOK
<1>2. CASE TaskPrompts
  BY <1>1, <1>2 DEF TaskPrompts, StartCall, Selecting, CallMade, TaskRecords, history
<1>3. CASE TaskSteers
  BY <1>1, <1>3 DEF TaskSteers, StartCall, Selecting, CallMade, TaskRecords, history
<1>4. CASE TaskInterrupts
  BY <1>1, <1>4 DEF TaskInterrupts, Selecting, CallMade, TaskRecords
<1>5. CASE TaskShutsDown
  BY <1>1, <1>5 DEF TaskShutsDown, Selecting, CallMade, TaskRecords
<1>6. ASSUME NEW c \in Callbacks, NEW answer \in {"allow", "deny"}, TaskAnswers(c, answer)
      PROVE  /\ task.pc = "loop" /\ task.call = "none"
             /\ task'.active = task.active /\ task'.collected = task.collected
             /\ CallMade'
             /\ task'.pc \in {"loop", "closing"}
             /\ UNCHANGED <<fromWorker, worker, steered, dropped>>
  BY <1>1, <1>6 DEF TaskAnswers, Selecting, CallMade, TaskRecords
<1>7. ASSUME NEW S \in SUBSET Callbacks, TaskDenies(S)
      PROVE  /\ task.pc = "loop" /\ task.call = "none"
             /\ task'.active = task.active /\ task'.collected = task.collected
             /\ CallMade'
             /\ task'.pc \in {"loop", "closing"}
             /\ UNCHANGED <<fromWorker, worker, steered, dropped>>
  BY <1>1, <1>7 DEF TaskDenies, Selecting, CallMade, TaskRecords
<1> QED
  BY <1>2, <1>3, <1>4, <1>5, <1>6, <1>7

(* A command writes a call only when there is none.                        *)
LEMMA CommandOneCall ==
  ASSUME TypeOK, CallInv,
         \/ TaskPrompts \/ TaskSteers \/ TaskInterrupts \/ TaskShutsDown
         \/ \E c \in Callbacks, answer \in {"allow", "deny"} : TaskAnswers(c, answer)
         \/ \E S \in SUBSET Callbacks : TaskDenies(S)
  PROVE  CallInv'
<1>1. /\ worker.request = "none" /\ NoReply(fromWorker)
      /\ \A i \in DOMAIN toWorker : ~IsCall(toWorker[i])
  BY CommandCalls, NoCall
<1>2. \A i \in DOMAIN toWorker' : IsCall(toWorker'[i]) =>
        i = Len(toWorker') /\ toWorker'[i].op = task'.call
  <2>1. ASSUME NEW c \in Callbacks, NEW answer \in {"allow", "deny"}, TaskAnswers(c, answer)
        PROVE  \A i \in DOMAIN toWorker' : ~IsCall(toWorker'[i])
    <3>1. /\ toWorker \in Seq(ToFrames) /\ AboutCallback(answer, c) \in ToFrames
          /\ toWorker' = Append(toWorker, AboutCallback(answer, c))
      BY <2>1, FrameTypes DEF TypeOK, TaskAnswers
    <3>2. ~IsCall(AboutCallback(answer, c))
      BY DEF IsCall, AboutCallback, Calls
    <3> QED
      BY <1>1, <3>1, <3>2, AppendFrames
  <2>2. ASSUME \/ TaskPrompts \/ TaskSteers \/ TaskInterrupts \/ TaskShutsDown
               \/ \E S \in SUBSET Callbacks : TaskDenies(S),
               NEW i \in DOMAIN toWorker', IsCall(toWorker'[i])
        PROVE  i = Len(toWorker') /\ toWorker'[i].op = task'.call
    <3>1. toWorker'[i].op # "deny"
      BY <2>2 DEF IsCall, Calls
    <3>2. i \in DOMAIN toWorker => toWorker'[i] # toWorker[i]
      BY <1>1, <2>2
    <3>3. i = Len(toWorker') /\ toWorker'[i] = Frame(task'.call)
      BY <2>2, <3>1, <3>2, CommandWrites
    <3> QED
      BY <3>3 DEF Frame
  <2> QED
    BY <2>1, <2>2
<1>3. CallWritten'
  BY <1>1, <1>2, CommandCalls DEF CallWritten, NoReply
<1>4. CallServed'
  BY <1>1, CommandCalls DEF CallServed
<1>5. CallAnswered'
  BY <1>1, CommandCalls DEF CallAnswered, NoReply
<1> QED
  BY <1>3, <1>4, <1>5, CommandCalls DEF CallInv

(* What the task reads, it no longer awaits.                               *)
LEMMA TaskStepOneCall ==
  ASSUME TypeOK, CallInv, TaskStep
  PROVE  CallInv'
<1>1. /\ fromWorker \in Seq(Replies \cup Inbound) /\ fromWorker # <<>>
      /\ fromWorker' = Tail(fromWorker) /\ task \in TaskRecords
  BY DEF TypeOK, TaskStep, TaskCollects, CallSucceeds, CallFails, TaskReads
<1>2. UNCHANGED <<toWorker, worker>>
  BY DEF TaskStep, TaskCollects, CallSucceeds, CallFails, TaskReads
<1>3. /\ 1 \in DOMAIN fromWorker /\ fromWorker[1] = Head(fromWorker)
      /\ \A i \in DOMAIN fromWorker' :
           i \in Int /\ i > 0 /\ i + 1 \in DOMAIN fromWorker /\ fromWorker'[i] = fromWorker[i + 1]
  BY <1>1, TailFrames
<1>4. NoReply(fromWorker) => NoReply(fromWorker')
  BY <1>3 DEF NoReply
<1>5. ASSUME task'.call = task.call, CallMade'
      PROVE  CallInv'
  <2>1. CallWritten' /\ CallServed'
    BY <1>2, <1>4, <1>5 DEF CallInv, CallWritten, CallServed, NoReply
  <2>2. CallAnswered'
    <3> SUFFICES ASSUME NEW i \in DOMAIN fromWorker', IsReply(fromWorker'[i])
                 PROVE  /\ task'.call # "none"
                        /\ fromWorker'[i].op = "error" => task'.call # "shutdown"
                        /\ \A j \in DOMAIN fromWorker' : IsReply(fromWorker'[j]) => i = j
      BY DEF CallAnswered, IsReply
    <3>1. i + 1 \in DOMAIN fromWorker /\ fromWorker'[i] = fromWorker[i + 1]
      BY <1>3
    <3>2. \A j \in DOMAIN fromWorker' : IsReply(fromWorker'[j]) => i + 1 = j + 1
      BY <1>3, <3>1 DEF CallInv, CallAnswered
    <3>3. \A j \in DOMAIN fromWorker' : IsReply(fromWorker'[j]) => i = j
      BY <1>3, <3>2
    <3> QED
      BY <1>5, <3>1, <3>3 DEF CallInv, CallAnswered
  <2> QED
    BY <1>5, <2>1, <2>2 DEF CallInv
<1>6. CASE TaskCollects
  <2>1. task'.call = task.call /\ task'.pc = task.pc /\ task'.active = task.active
    BY <1>1, <1>6 DEF TaskCollects, TaskRecords
  <2> QED
    BY <1>5, <2>1 DEF CallInv, CallMade
<1>7. CASE TaskReads
  <2>1. <<Head(fromWorker)>> \in Seq(Replies \cup Inbound)
    BY <1>1, HeadTypes, AppendType
  <2>2. task'.call = task.call /\ task'.pc = task.pc
    BY <1>1, <1>7, <2>1, PublishedType DEF TaskReads
  <2> QED
    BY <1>5, <1>7, <2>2 DEF CallInv, CallMade, TaskReads, Selecting
<1>8. CASE CallSucceeds \/ CallFails
  <2>1. IsReply(fromWorker[1])
    BY <1>3, <1>8 DEF CallSucceeds, CallFails, IsReply
  <2>2. NoReply(fromWorker')
    <3> SUFFICES ASSUME NEW i \in DOMAIN fromWorker', IsReply(fromWorker'[i])
                 PROVE  FALSE
      BY DEF NoReply
    <3>1. i + 1 = 1
      BY <1>3, <2>1 DEF CallInv, CallAnswered
    <3> QED
      BY <1>3, <3>1
  <2>3. /\ worker.request = "none"
        /\ \A i \in DOMAIN toWorker : ~IsCall(toWorker[i])
    BY <1>3, <2>1 DEF CallInv, CallWritten, CallServed, NoReply
  <2>4. task'.call = "none" /\ task'.pc # "closing"
    <3>1. CASE CallFails
      <4>1. task.call # "shutdown"
        BY <1>3, <2>1, <3>1 DEF CallInv, CallAnswered, CallFails
      <4> QED
        BY <1>1, <3>1, <4>1 DEF CallFails, CallInv, CallMade, TaskRecords
    <3>2. CASE CallSucceeds
      <4> DEFINE t == [task EXCEPT !.call = "none", !.collected = <<>>]
                 still == task.call = "prompt" \/ task.active
      <4>1. /\ t \in TaskRecords /\ t.call = "none" /\ t.pc = task.pc
            /\ [t EXCEPT !.pc = "gone"].pc = "gone" /\ [t EXCEPT !.pc = "gone"].call = "none"
        BY <1>1, EmptyType DEF TaskRecords
      <4>2. still \in BOOLEAN
        BY <1>1 DEF TaskRecords
      <4>3. task.collected \in Seq(Replies \cup Inbound)
        <5>1. task.collected \in Seq(Inbound)
          BY <1>1 DEF TaskRecords
        <5> QED
          BY <5>1
      <4>4. task' = IF task.call = "shutdown" THEN [t EXCEPT !.pc = "gone"]
                                              ELSE Published(t, task.collected, still)
        BY <3>2 DEF CallSucceeds
      <4> HIDE DEF t, still
      <4>5. CASE task.call = "shutdown"
        BY <4>1, <4>4, <4>5
      <4>6. CASE task.call # "shutdown"
        BY <4>1, <4>2, <4>3, <4>4, <4>6, PublishedType DEF CallInv, CallMade
      <4> QED
        BY <4>5, <4>6
    <3> QED
      BY <1>8, <3>1, <3>2
  <2>5. CallMade'
    BY <2>4 DEF CallMade
  <2>6. CallWritten' /\ CallServed' /\ CallAnswered'
    BY <1>2, <2>2, <2>3 DEF CallWritten, CallServed, CallAnswered, NoReply
  <2> QED
    BY <2>5, <2>6 DEF CallInv
<1> QED
  BY <1>6, <1>7, <1>8 DEF TaskStep

(* The steps that answer a call: the worker forgets it.                    *)
AnswersCall ==
  \/ ReopenFails \/ RequestRefused \/ NothingToInterrupt \/ RequestDone \/ RequestRaises

(* Each way a call is answered ends the call with one frame, ok or error. *)
LEMMA AnswersCallEffect ==
  ASSUME TypeOK, AnswersCall
  PROVE  /\ worker.request \in Calls /\ worker'.request = "none"
         /\ \/ fromWorker' = Append(fromWorker, Frame("ok"))
            \/ fromWorker' = Append(fromWorker, Frame("error"))
         /\ UNCHANGED <<task, toWorker>>
<1>1. worker \in WorkerRecords /\ (worker.atSdk => worker.request # "none")
  BY DEF TypeOK
<1>2. CASE ReopenFails
  BY <1>1, <1>2 DEF ReopenFails, MayStart, Answer, Calls, WorkerRecords
<1>3. CASE RequestRefused
  <2>1. worker.request \in Calls
    BY <1>3 DEF RequestRefused, MayStart, Calls
  <2> QED
    BY <1>1, <1>3, <2>1 DEF RequestRefused, Answer, WorkerRecords
<1>4. CASE NothingToInterrupt
  BY <1>1, <1>4 DEF NothingToInterrupt, MayStart, Answer, Calls, WorkerRecords
<1>5. CASE RequestDone
  <2>1. worker.request \in Calls
    BY <1>1, <1>5 DEF RequestDone, WorkerRecords
  <2>2. Counted(worker) \in WorkerRecords
    <3>1. worker.responses + 1 \in Nat
      BY <1>1 DEF WorkerRecords
    <3>2. CASE worker.request = "prompt"
      BY <1>1, <3>2 DEF Counted, WorkerRecords
    <3>3. CASE worker.request = "steer"
      BY <1>1, <3>1, <3>3 DEF Counted, WorkerRecords
    <3>4. CASE worker.request = "interrupt"
      BY <1>1, <3>4 DEF Counted, WorkerRecords
    <3> QED
      BY <2>1, <3>2, <3>3, <3>4 DEF Calls
  <2>3. worker'.request = "none"
    BY <1>5, <2>2 DEF RequestDone, WorkerRecords
  <2> QED
    BY <1>5, <2>1, <2>3 DEF RequestDone, Answer
<1>6. CASE RequestRaises
  BY <1>1, <1>6 DEF RequestRaises, Answer, WorkerRecords
<1> QED
  BY <1>2, <1>3, <1>4, <1>5, <1>6 DEF AnswersCall

(* The steps that concern no call: they take no call and add no reply.     *)
ConcernsNoCall ==
  \/ PromptStarts \/ SteerStarts \/ InterruptStarts
  \/ ResponseTaken \/ TurnFails \/ TurnFinished
  \/ AnswerAccepted \/ AnswerIgnored
  \/ ResultArrives \/ TurnRaises \/ SdkDies
  \/ \E c \in Callbacks : SdkAsks(c) \/ CallbackTimesOut(c)

(* The steps that concern no call neither read a call nor answer one. *)
LEMMA ConcernsNoCallEffect ==
  ASSUME TypeOK, ConcernsNoCall
  PROVE  /\ worker'.request = worker.request
         /\ \/ toWorker' = toWorker
            \/ /\ toWorker # <<>> /\ toWorker' = Tail(toWorker)
               /\ ~IsCall(Head(toWorker))
         /\ \/ fromWorker' = fromWorker
            \/ \E m \in Inbound : fromWorker' = Append(fromWorker, m)
         /\ UNCHANGED <<task, steered, dropped>>
<1>1. worker \in WorkerRecords
  BY DEF TypeOK
<1>2. CASE PromptStarts \/ SteerStarts \/ InterruptStarts
  <2>1. worker'.request = worker.request
    BY <1>1, <1>2 DEF PromptStarts, SteerStarts, InterruptStarts, WorkerRecords
  <2>2. UNCHANGED <<task, toWorker, fromWorker, steered, dropped>>
    BY <1>2 DEF PromptStarts, SteerStarts, InterruptStarts, history
  <2> QED
    BY <2>1, <2>2
<1>3. CASE ResponseTaken
  <2>1. worker'.request = worker.request
    BY <1>1, <1>3 DEF ResponseTaken, TakesResponse, WorkerRecords
  <2>2. UNCHANGED <<task, toWorker, fromWorker, steered, dropped>>
    BY <1>3 DEF ResponseTaken, history
  <2> QED
    BY <2>1, <2>2
<1>4. CASE TurnFinished \/ TurnRaises
  <2>1. worker'.request = worker.request
    BY <1>1, <1>4 DEF TurnFinished, TurnRaises, WorkerRecords
  <2>2. UNCHANGED <<task, toWorker, fromWorker, steered, dropped>>
    BY <1>4 DEF TurnFinished, TurnRaises, history
  <2> QED
    BY <2>1, <2>2
<1>5. CASE TurnFails
  <2>1. worker'.request = worker.request
    BY <1>1, <1>5 DEF TurnFails, WorkerRecords
  <2>2. /\ UNCHANGED <<task, toWorker, steered, dropped>>
        /\ fromWorker' = Append(fromWorker, Frame("failed"))
    BY <1>5 DEF TurnFails, Answer, history
  <2>3. Frame("failed") \in Inbound
    BY DEF Frame, Inbound
  <2> QED
    BY <2>1, <2>2, <2>3
<1>6. CASE ResultArrives
  <2>1. worker'.request = worker.request
    BY <1>1, <1>6 DEF ResultArrives, WorkerRecords
  <2>2. /\ UNCHANGED <<task, toWorker, steered, dropped>>
        /\ fromWorker' = Append(fromWorker, Frame("result"))
    BY <1>6 DEF ResultArrives, Answer, history
  <2>3. Frame("result") \in Inbound
    BY DEF Frame, Inbound
  <2> QED
    BY <2>1, <2>2, <2>3
<1>7. CASE AnswerAccepted \/ AnswerIgnored
  <2>1. worker'.request = worker.request
    BY <1>1, <1>7 DEF AnswerAccepted, AnswerIgnored, Settle, WorkerRecords
  <2>2. /\ UNCHANGED <<task, fromWorker, steered, dropped>>
        /\ toWorker # <<>> /\ toWorker' = Tail(toWorker) /\ IsAnswer(Head(toWorker))
    BY <1>7 DEF AnswerAccepted, AnswerIgnored, history
  <2>3. ~IsCall(Head(toWorker))
    BY <2>2 DEF IsAnswer, IsCall, Calls
  <2> QED
    BY <2>1, <2>2, <2>3
<1>8. CASE SdkDies
  BY <1>8 DEF SdkDies, history
<1>9. ASSUME NEW c \in Callbacks, SdkAsks(c)
      PROVE  /\ worker'.request = worker.request
             /\ UNCHANGED <<task, toWorker, steered, dropped>>
             /\ \E m \in Inbound : fromWorker' = Append(fromWorker, m)
  <2>1. worker'.request = worker.request
    BY <1>1, <1>9 DEF SdkAsks, WorkerRecords
  <2>2. /\ UNCHANGED <<task, toWorker, steered, dropped>>
        /\ fromWorker' = Append(fromWorker, AboutCallback("callback", c))
    BY <1>9 DEF SdkAsks, history
  <2>3. AboutCallback("callback", c) \in Inbound
    BY FrameTypes
  <2> QED
    BY <2>1, <2>2, <2>3
<1>10. ASSUME NEW c \in Callbacks, CallbackTimesOut(c)
       PROVE  /\ worker'.request = worker.request
              /\ UNCHANGED <<task, toWorker, fromWorker, steered, dropped>>
  <2>1. worker'.request = worker.request
    BY <1>1, <1>10 DEF CallbackTimesOut, Settle, WorkerRecords
  <2> QED
    BY <1>10, <2>1 DEF CallbackTimesOut, history
<1> QED
  BY <1>2, <1>3, <1>4, <1>5, <1>6, <1>7, <1>8, <1>9, <1>10 DEF ConcernsNoCall

(* A reply ends a call; it is the only one on its way.                     *)
LEMMA ReplyAppended ==
  ASSUME TypeOK, NoReply(fromWorker), NEW op \in {"ok", "error"},
         fromWorker' = Append(fromWorker, Frame(op))
  PROVE  \A i \in DOMAIN fromWorker' : IsReply(fromWorker'[i]) =>
           i = Len(fromWorker) + 1 /\ fromWorker'[i].op = op
<1>1. fromWorker \in Seq(Replies \cup Inbound) /\ Frame(op) \in Replies \cup Inbound
  BY FrameTypes DEF TypeOK
<1>2. Frame(op).op = op
  BY DEF Frame
<1> QED
  BY <1>1, <1>2, AppendFrames DEF NoReply

(* The worker serves the one call there is and answers it once.            *)
LEMMA WorkerOneCall ==
  ASSUME TypeOK, CallInv,
         ConcernsNoCall \/ AnswersCall \/ WorkerAccepts \/ WorkerShutsDown
  PROVE  CallInv'
<1> DEFINE tailed == toWorker # <<>> /\ toWorker' = Tail(toWorker)
<1>1. tailed =>
        /\ 1 \in DOMAIN toWorker /\ toWorker[1] = Head(toWorker)
        /\ \A i \in DOMAIN toWorker' :
             i \in Int /\ i > 0 /\ i + 1 \in DOMAIN toWorker /\ toWorker'[i] = toWorker[i + 1]
  BY TailFrames DEF TypeOK
<1>2. ASSUME tailed, IsCall(Head(toWorker))
      PROVE  \A i \in DOMAIN toWorker' : ~IsCall(toWorker'[i])
  <2> SUFFICES ASSUME NEW i \in DOMAIN toWorker', IsCall(toWorker'[i])
               PROVE  FALSE
    OBVIOUS
  <2>1. i + 1 \in DOMAIN toWorker /\ IsCall(toWorker[i + 1]) /\ IsCall(toWorker[1])
    BY <1>1, <1>2
  <2>2. i + 1 = 1
    BY <1>1, <1>2, <2>1 DEF CallInv, CallWritten
  <2> QED
    BY <1>1, <1>2, <2>2
<1>3. CASE ConcernsNoCall
  <2>1. /\ NoReply(fromWorker) => NoReply(fromWorker')
        /\ \A i \in DOMAIN fromWorker' : IsReply(fromWorker'[i]) =>
             i \in DOMAIN fromWorker /\ fromWorker'[i] = fromWorker[i]
    <3>1. CASE fromWorker' = fromWorker
      BY <3>1
    <3>2. ASSUME NEW m \in Inbound, fromWorker' = Append(fromWorker, m)
          PROVE  /\ NoReply(fromWorker) => NoReply(fromWorker')
                 /\ \A i \in DOMAIN fromWorker' : IsReply(fromWorker'[i]) =>
                      i \in DOMAIN fromWorker /\ fromWorker'[i] = fromWorker[i]
      <4>1. ~IsReply(m) /\ m \in Replies \cup Inbound
        BY DEF IsReply, Inbound
      <4>2. fromWorker \in Seq(Replies \cup Inbound)
        BY DEF TypeOK
      <4> QED
        BY <3>2, <4>1, <4>2, AppendFrames DEF NoReply
    <3> QED
      BY <1>3, <3>1, <3>2, ConcernsNoCallEffect
  <2>2. UNCHANGED task /\ worker'.request = worker.request
    BY <1>3, ConcernsNoCallEffect
  <2>3. CallWritten'
    <3>1. CASE toWorker' = toWorker
      BY <2>1, <2>2, <3>1 DEF CallInv, CallWritten, NoReply
    <3>2. CASE tailed
      <4> SUFFICES ASSUME NEW i \in DOMAIN toWorker', IsCall(toWorker'[i])
                   PROVE  /\ task'.call = toWorker'[i].op
                          /\ worker'.request = "none"
                          /\ NoReply(fromWorker')
                          /\ \A j \in DOMAIN toWorker' : IsCall(toWorker'[j]) => i = j
        BY DEF CallWritten, NoReply
      <4>1. i + 1 \in DOMAIN toWorker /\ toWorker'[i] = toWorker[i + 1] /\ i \in Int
        BY <1>1, <3>2
      <4>2. \A j \in DOMAIN toWorker' : IsCall(toWorker'[j]) => i + 1 = j + 1
        BY <1>1, <3>2, <4>1 DEF CallInv, CallWritten
      <4>3. \A j \in DOMAIN toWorker' : IsCall(toWorker'[j]) => i = j
        BY <1>1, <3>2, <4>1, <4>2
      <4> QED
        BY <2>1, <2>2, <4>1, <4>3 DEF CallInv, CallWritten
    <3> QED
      BY <1>3, <3>1, <3>2, ConcernsNoCallEffect
  <2>4. CallServed' /\ CallAnswered' /\ CallMade'
    BY <2>1, <2>2 DEF CallInv, CallServed, CallAnswered, CallMade, NoReply
  <2> QED
    BY <2>3, <2>4 DEF CallInv
<1>4. CASE AnswersCall
  <2>1. /\ task.call = worker.request /\ NoReply(fromWorker) /\ worker.request \in Calls
        /\ worker.request # "none"
    BY <1>4, AnswersCallEffect DEF CallInv, CallServed, Calls
  <2>2. \A i \in DOMAIN toWorker : ~IsCall(toWorker[i])
    BY <2>1 DEF CallInv, CallWritten
  <2>3. \A i \in DOMAIN fromWorker' : IsReply(fromWorker'[i]) => i = Len(fromWorker) + 1
    BY <1>4, <2>1, AnswersCallEffect, ReplyAppended
  <2>4. UNCHANGED <<task, toWorker>> /\ worker'.request = "none"
    BY <1>4, AnswersCallEffect
  <2>5. task.call # "none" /\ task.call # "shutdown"
    BY <2>1 DEF Calls
  <2>6. CallAnswered'
    BY <2>3, <2>4, <2>5 DEF CallAnswered
  <2> QED
    BY <2>2, <2>4, <2>6 DEF CallInv, CallWritten, CallServed, CallMade
<1>5. CASE WorkerAccepts
  <2>1. /\ tailed /\ Head(toWorker).op \in Calls /\ UNCHANGED <<task, fromWorker>>
        /\ worker' = [worker EXCEPT !.request = Head(toWorker).op]
    BY <1>5 DEF WorkerAccepts
  <2>2. worker'.request = Head(toWorker).op
    BY <2>1 DEF TypeOK, WorkerRecords
  <2>3. IsCall(Head(toWorker))
    BY <2>1 DEF IsCall
  <2>4. task.call = Head(toWorker).op /\ NoReply(fromWorker)
    BY <1>1, <2>1, <2>3 DEF CallInv, CallWritten
  <2> QED
    BY <1>2, <2>1, <2>2, <2>3, <2>4 DEF CallInv, CallWritten, CallServed, CallAnswered,
       CallMade, NoReply
<1>6. CASE WorkerShutsDown
  <2>1. /\ tailed /\ Head(toWorker).op = "shutdown" /\ UNCHANGED task
        /\ fromWorker' = Append(fromWorker, Frame("ok"))
    BY <1>6 DEF WorkerShutsDown, Answer
  <2>2. worker'.request = worker.request
    BY <1>6 DEF WorkerShutsDown, TypeOK, WorkerRecords
  <2>3. IsCall(Head(toWorker))
    BY <2>1 DEF IsCall
  <2>4. task.call = "shutdown" /\ NoReply(fromWorker) /\ worker.request = "none"
    BY <1>1, <2>1, <2>3 DEF CallInv, CallWritten
  <2>5. \A i \in DOMAIN fromWorker' : IsReply(fromWorker'[i]) =>
          i = Len(fromWorker) + 1 /\ fromWorker'[i].op = "ok"
    BY <2>1, <2>4, ReplyAppended
  <2>6. CallAnswered'
    BY <2>1, <2>4, <2>5 DEF CallAnswered
  <2> QED
    BY <1>2, <2>1, <2>2, <2>3, <2>4, <2>6 DEF CallInv, CallWritten, CallServed, CallMade
<1> QED
  BY <1>3, <1>4, <1>5, <1>6

(* There is one call at a time.                                            *)
LEMMA NextOneCall == TypeOK /\ CallInv /\ [Next]_vars => CallInv'
<1>1. CallInv /\ UNCHANGED vars => CallInv'
  BY DEF vars, CallInv, CallWritten, CallServed, CallAnswered, CallMade, NoReply
<1>2. TypeOK /\ CallInv /\ Next => CallInv'
  BY CommandOneCall, TaskStepOneCall, WorkerOneCall
     DEF Next, WorkerStep, ConcernsNoCall, AnswersCall
<1> QED
  BY <1>1, <1>2

(***************************************************************************)
(* The ends of turns                                                       *)
(***************************************************************************)

(* What the task's own steps do to what it believes of the turn.           *)
LEMMA TaskStepEffect ==
  ASSUME TypeOK, CallInv, TaskStep
  PROVE  /\ fromWorker' = Tail(fromWorker)
         /\ 1 \in DOMAIN fromWorker /\ fromWorker[1] = Head(fromWorker)
         /\ UNCHANGED <<worker, steered>>
         /\ dropped => dropped'
         /\ TaskCollects =>
              /\ task' = [task EXCEPT !.collected = Append(@, fromWorker[1])]
              /\ ~IsReply(fromWorker[1]) /\ fromWorker[1] \in Inbound
         /\ TaskReads =>
              /\ task.call = "none" /\ task'.call = "none"
              /\ task.pc = "loop" /\ task'.pc = "loop"
              /\ task'.collected = task.collected
              /\ task.active /\ task'.active = ~Ends(fromWorker[1])
         /\ CallFails =>
              /\ task.call # "none" /\ task'.call = "none" /\ fromWorker[1].op = "error"
              /\ task'.pc = task.pc /\ task'.active = task.active
              /\ task'.collected = <<>>
              /\ dropped' = (dropped \/ (task.active /\ ~NoEnd(task.collected)))
         /\ CallSucceeds =>
              /\ task.call # "none" /\ task'.call = "none" /\ fromWorker[1].op = "ok"
              /\ task'.pc = "loop" =>
                   /\ task.pc = "loop" /\ task.call \in Calls
                   /\ task'.active = ((task.call = "prompt" \/ task.active)
                                        /\ NoEnd(task.collected))
              /\ task'.collected = <<>>
<1>1. /\ fromWorker \in Seq(Replies \cup Inbound) /\ fromWorker # <<>>
      /\ fromWorker' = Tail(fromWorker) /\ task \in TaskRecords
  BY DEF TypeOK, TaskStep, TaskCollects, CallSucceeds, CallFails, TaskReads
<1>2. 1 \in DOMAIN fromWorker /\ fromWorker[1] = Head(fromWorker)
  BY <1>1, TailFrames
<1>3. UNCHANGED <<worker, steered>> /\ (dropped => dropped')
  <2>1. CASE TaskCollects \/ TaskReads \/ CallSucceeds
    <3>1. worker' = worker /\ steered' = steered /\ dropped' = dropped
      BY <2>1 DEF TaskCollects, TaskReads, CallSucceeds, history
    <3> QED
      BY <3>1
  <2>2. CASE CallFails
    BY <2>2 DEF CallFails
  <2> QED
    BY <2>1, <2>2 DEF TaskStep
<1>4. ASSUME TaskCollects
      PROVE  /\ task' = [task EXCEPT !.collected = Append(@, fromWorker[1])]
             /\ ~IsReply(fromWorker[1]) /\ fromWorker[1] \in Inbound
  <2>1. ~IsReply(fromWorker[1]) /\ fromWorker[1] \in Inbound
    BY <1>1, <1>2, <1>4, HeadTypes DEF TaskCollects, IsReply, Replies
  <2> QED
    BY <1>2, <1>4, <2>1 DEF TaskCollects
<1>5. ASSUME TaskReads
      PROVE  /\ task.call = "none" /\ task'.call = "none"
             /\ task.pc = "loop" /\ task'.pc = "loop"
             /\ task'.collected = task.collected
             /\ task.active /\ task'.active = ~Ends(fromWorker[1])
  <2>1. <<Head(fromWorker)>> \in Seq(Replies \cup Inbound)
    BY <1>1, HeadTypes, AppendType
  <2>2. NoEnd(<<Head(fromWorker)>>) <=> ~Ends(Head(fromWorker))
    BY DEF NoEnd
  <2> DEFINE t == Published(task, <<Head(fromWorker)>>, TRUE)
  <2>3. /\ t.call = task.call /\ t.pc = task.pc /\ t.collected = task.collected
        /\ t.active = (TRUE /\ NoEnd(<<Head(fromWorker)>>))
    BY <1>1, <2>1, PublishedType
  <2>4. task' = t /\ task.call = "none" /\ task.pc = "loop" /\ task.active
    BY <1>5 DEF TaskReads, Selecting
  <2>5. t.active = ~Ends(fromWorker[1])
    BY <1>2, <2>2, <2>3
  <2> HIDE DEF t
  <2> QED
    BY <2>3, <2>4, <2>5
<1>6. ASSUME CallFails
      PROVE  /\ task.call # "none" /\ task'.call = "none" /\ fromWorker[1].op = "error"
             /\ task'.pc = task.pc /\ task'.active = task.active
             /\ task'.collected = <<>>
             /\ dropped' = (dropped \/ (task.active /\ ~NoEnd(task.collected)))
  <2>1. fromWorker[1].op = "error"
    BY <1>2, <1>6 DEF CallFails
  <2>2. task.call # "none"
    BY <1>2, <2>1 DEF CallInv, CallAnswered, IsReply
  <2>3. /\ task'.call = "none" /\ task'.pc = task.pc /\ task'.active = task.active
        /\ task'.collected = <<>>
    BY <1>1, <1>6 DEF CallFails, TaskRecords
  <2>4. dropped' = (dropped \/ (task.active /\ ~NoEnd(task.collected)))
    BY <1>6 DEF CallFails, NoEnd
  <2> QED
    BY <2>1, <2>2, <2>3, <2>4
<1>7. ASSUME CallSucceeds
      PROVE  /\ task.call # "none" /\ task'.call = "none" /\ fromWorker[1].op = "ok"
             /\ task'.pc = "loop" =>
                  /\ task.pc = "loop" /\ task.call \in Calls
                  /\ task'.active = ((task.call = "prompt" \/ task.active)
                                       /\ NoEnd(task.collected))
             /\ task'.collected = <<>>
  <2> DEFINE t == [task EXCEPT !.call = "none", !.collected = <<>>]
             still == task.call = "prompt" \/ task.active
             p == Published(t, task.collected, still)
  <2>1. /\ t \in TaskRecords /\ t.call = "none" /\ t.pc = task.pc /\ t.collected = <<>>
        /\ [t EXCEPT !.pc = "gone"].pc = "gone" /\ [t EXCEPT !.pc = "gone"].call = "none"
        /\ [t EXCEPT !.pc = "gone"].collected = <<>>
    BY <1>1, EmptyType DEF TaskRecords
  <2>2. still \in BOOLEAN
    BY <1>1 DEF TaskRecords
  <2>3. task.collected \in Seq(Replies \cup Inbound)
    <3>1. task.collected \in Seq(Inbound)
      BY <1>1 DEF TaskRecords
    <3> QED
      BY <3>1
  <2>4. task' = IF task.call = "shutdown" THEN [t EXCEPT !.pc = "gone"] ELSE p
    BY <1>7 DEF CallSucceeds
  <2>5. fromWorker[1].op = "ok" /\ task.call # "none"
    BY <1>2, <1>7 DEF CallSucceeds
  <2>6. task.call # "shutdown" => task.call \in Calls
    BY <1>1, <2>5 DEF TaskRecords, Calls
  <2> HIDE DEF t, still, p
  <2>7. /\ p.call = "none" /\ p.pc = task.pc /\ p.collected = <<>>
        /\ p.active = (still /\ NoEnd(task.collected))
    BY <2>1, <2>2, <2>3, PublishedType DEF p
  <2>8. CASE task.call = "shutdown"
    BY <2>1, <2>4, <2>5, <2>8
  <2>9. CASE task.call # "shutdown"
    <3>1. task' = p
      BY <2>4, <2>9
    <3>2. task'.active = ((task.call = "prompt" \/ task.active) /\ NoEnd(task.collected))
      BY <2>7, <3>1 DEF still
    <3> QED
      BY <2>5, <2>6, <2>7, <2>9, <3>1, <3>2
  <2> QED
    BY <2>8, <2>9
<1> QED
  BY <1>1, <1>2, <1>3, <1>4, <1>5, <1>6, <1>7

(* Ends stay in a queue whose first frame is taken, unless it is one.      *)
LEMMA TailEnds ==
  ASSUME TypeOK, fromWorker # <<>>, fromWorker' = Tail(fromWorker)
  PROVE  /\ NoEnd(fromWorker) => NoEnd(fromWorker')
         /\ ~NoEnd(fromWorker) => Ends(fromWorker[1]) \/ ~NoEnd(fromWorker')
         /\ \A i \in DOMAIN fromWorker' :
              i \in Int /\ i > 0 /\ i + 1 \in DOMAIN fromWorker /\ fromWorker'[i] = fromWorker[i + 1]
         /\ \A i \in DOMAIN fromWorker :
              /\ i \in Int
              /\ i = 1 \/ (i - 1 \in DOMAIN fromWorker' /\ fromWorker'[i - 1] = fromWorker[i])
<1>1. fromWorker \in Seq(Replies \cup Inbound)
  BY DEF TypeOK
<1>2. /\ \A i \in DOMAIN fromWorker' :
           i \in Int /\ i > 0 /\ i + 1 \in DOMAIN fromWorker /\ fromWorker'[i] = fromWorker[i + 1]
      /\ \A i \in DOMAIN fromWorker :
           /\ i \in Int
           /\ i = 1 \/ (i - 1 \in DOMAIN fromWorker' /\ fromWorker'[i - 1] = fromWorker[i])
  BY <1>1, TailFrames
<1>3. NoEnd(fromWorker) => NoEnd(fromWorker')
  BY <1>2 DEF NoEnd
<1>4. ~NoEnd(fromWorker) => Ends(fromWorker[1]) \/ ~NoEnd(fromWorker')
  BY <1>2 DEF NoEnd
<1> QED
  BY <1>2, <1>3, <1>4

(* What the task collects, it keeps, the ends of turns among it.           *)
LEMMA CollectedEnds ==
  ASSUME TypeOK, NEW m \in Inbound, task' = [task EXCEPT !.collected = Append(@, m)]
  PROVE  /\ NoEnd(task'.collected) <=> NoEnd(task.collected) /\ ~Ends(m)
         /\ task'.pc = task.pc /\ task'.active = task.active /\ task'.call = task.call
<1>1. task \in TaskRecords /\ task.collected \in Seq(Inbound)
  BY DEF TypeOK, TaskRecords
<1>2. /\ task'.collected = Append(task.collected, m)
      /\ task'.pc = task.pc /\ task'.active = task.active /\ task'.call = task.call
  BY <1>1 DEF TaskRecords
<1>3. NoEnd(Append(task.collected, m)) <=> NoEnd(task.collected) /\ ~Ends(m)
  BY <1>1, AppendFrames DEF NoEnd
<1> QED
  BY <1>2, <1>3

(* A command changes nothing of a turn, and none has been accepted.        *)
LEMMA CommandEnds ==
  ASSUME TypeOK, CallInv, EndInv, UnsteeredInv,
         \/ TaskPrompts \/ TaskSteers \/ TaskInterrupts \/ TaskShutsDown
         \/ \E c \in Callbacks, answer \in {"allow", "deny"} : TaskAnswers(c, answer)
         \/ \E S \in SUBSET Callbacks : TaskDenies(S)
  PROVE  EndInv' /\ UnsteeredInv'
<1>1. /\ task.pc = "loop" /\ task.call = "none"
      /\ task'.active = task.active /\ task'.collected = task.collected
      /\ UNCHANGED <<fromWorker, worker, steered, dropped>>
      /\ NoReply(fromWorker)
  BY CommandCalls, NoCall
<1>2. \A i \in DOMAIN fromWorker : fromWorker[i].op # "ok"
  BY <1>1 DEF NoReply, IsReply
<1>3. EndInv'
  BY <1>1, <1>2 DEF EndInv, Receiving, NoEnd
<1>4. \A i \in DOMAIN fromWorker : ~Accepted(i)
  BY <1>2 DEF Accepted
<1>5. UnsteeredInv'
  BY <1>1, <1>4 DEF UnsteeredInv, Receiving, NoEnd
<1> QED
  BY <1>3, <1>5

(* What the task reads, it accounts for.                                   *)
LEMMA TaskStepEnds ==
  ASSUME TypeOK, CallInv, EndInv, TaskStep
  PROVE  EndInv'
<1>1. /\ fromWorker # <<>> /\ fromWorker' = Tail(fromWorker)
      /\ Receiving' <=> Receiving
      /\ dropped => dropped'
  BY TaskStepEffect DEF TypeOK, Receiving
<1>2. /\ ~NoEnd(fromWorker) => Ends(fromWorker[1]) \/ ~NoEnd(fromWorker')
      /\ \A i \in DOMAIN fromWorker' :
           i \in Int /\ i > 0 /\ i + 1 \in DOMAIN fromWorker /\ fromWorker'[i] = fromWorker[i + 1]
      /\ \A i \in DOMAIN fromWorker :
           /\ i \in Int
           /\ i = 1 \/ (i - 1 \in DOMAIN fromWorker' /\ fromWorker'[i - 1] = fromWorker[i])
  BY <1>1, TailEnds
<1>3. CASE TaskCollects
  <2>1. /\ task' = [task EXCEPT !.collected = Append(@, fromWorker[1])]
        /\ fromWorker[1] \in Inbound
    BY <1>3, TaskStepEffect
  <2>2. /\ NoEnd(task'.collected) <=> NoEnd(task.collected) /\ ~Ends(fromWorker[1])
        /\ task'.pc = task.pc /\ task'.active = task.active /\ task'.call = task.call
    BY <2>1, CollectedEnds
  <2>3. task'.pc = "loop" /\ task'.active =>
          Receiving' \/ dropped' \/ ~NoEnd(fromWorker') \/ ~NoEnd(task'.collected)
    BY <1>1, <1>2, <2>2 DEF EndInv
  <2>4. ASSUME NEW i \in DOMAIN fromWorker', task'.call = "prompt", fromWorker'[i].op = "ok",
               ~Receiving'
        PROVE  \E j \in DOMAIN fromWorker' : j > i /\ Ends(fromWorker'[j])
    <3>1. i + 1 \in DOMAIN fromWorker /\ fromWorker[i + 1].op = "ok"
      BY <1>2, <2>4
    <3>2. PICK j \in DOMAIN fromWorker : j > i + 1 /\ Ends(fromWorker[j])
      BY <1>1, <2>2, <2>4, <3>1 DEF EndInv
    <3>3. j - 1 \in DOMAIN fromWorker' /\ fromWorker'[j - 1] = fromWorker[j] /\ j - 1 > i
      BY <1>2, <3>2
    <3> QED
      BY <3>2, <3>3
  <2> QED
    BY <2>3, <2>4 DEF EndInv, Receiving, NoEnd
<1>4. CASE ~TaskCollects
  <2>1. task'.call = "none"
    BY <1>4, TaskStepEffect DEF TaskStep
  <2> SUFFICES ASSUME task'.pc = "loop", task'.active, ~Receiving', ~dropped'
               PROVE  ~NoEnd(fromWorker') \/ ~NoEnd(task'.collected)
    BY <2>1 DEF EndInv, Receiving, NoEnd
  <2>2. CASE TaskReads
    <3>1. /\ task.pc = "loop" /\ task.active /\ ~Ends(fromWorker[1])
          /\ task'.collected = task.collected
      BY <2>2, TaskStepEffect
    <3> QED
      BY <1>1, <1>2, <3>1 DEF EndInv
  <2>3. CASE CallFails
    <3>1. /\ task.pc = "loop" /\ task.active /\ fromWorker[1].op = "error"
          /\ ~dropped /\ NoEnd(task.collected)
      BY <2>3, TaskStepEffect
    <3>2. ~Ends(fromWorker[1])
      BY <3>1 DEF Ends
    <3> QED
      BY <1>1, <1>2, <3>1, <3>2 DEF EndInv
  <2>4. CASE CallSucceeds
    <3>1. /\ task.pc = "loop" /\ fromWorker[1].op = "ok" /\ 1 \in DOMAIN fromWorker
          /\ task.call = "prompt" \/ task.active
          /\ NoEnd(task.collected)
      BY <2>4, TaskStepEffect
    <3>2. ~Ends(fromWorker[1])
      BY <3>1 DEF Ends
    <3>3. CASE task.active
      BY <1>1, <1>2, <3>1, <3>2, <3>3 DEF EndInv
    <3>4. CASE task.call = "prompt"
      <4>1. \E j \in DOMAIN fromWorker : Ends(fromWorker[j])
        BY <1>1, <3>1, <3>4 DEF EndInv
      <4>2. ~NoEnd(fromWorker)
        BY <4>1 DEF NoEnd
      <4> QED
        BY <1>2, <3>2, <4>2
    <3> QED
      BY <3>1, <3>3, <3>4
  <2> QED
    BY <1>4, <2>2, <2>3, <2>4 DEF TaskStep
<1> QED
  BY <1>3, <1>4

(* Without steering, the one end of a turn is read by a task that waits    *)
(* for it.                                                                 *)
LEMMA TaskStepUnsteered ==
  ASSUME TypeOK, CallInv, UnsteeredInv, TaskStep
  PROVE  UnsteeredInv'
<1> SUFFICES ASSUME ~steered', task'.pc = "loop"
             PROVE  UnsteeredInv'
  BY DEF UnsteeredInv
<1>1. /\ fromWorker # <<>> /\ fromWorker' = Tail(fromWorker)
      /\ 1 \in DOMAIN fromWorker
      /\ worker' = worker /\ ~steered /\ (Receiving' <=> Receiving)
  BY TaskStepEffect DEF TypeOK, Receiving
<1>2. /\ NoEnd(fromWorker) => NoEnd(fromWorker')
      /\ \A i \in DOMAIN fromWorker' :
           i \in Int /\ i > 0 /\ i + 1 \in DOMAIN fromWorker /\ fromWorker'[i] = fromWorker[i + 1]
      /\ \A i \in DOMAIN fromWorker :
           /\ i \in Int
           /\ i = 1 \/ (i - 1 \in DOMAIN fromWorker' /\ fromWorker'[i - 1] = fromWorker[i])
  BY <1>1, TailEnds
<1>3. task.pc = "loop"
  <2>1. CASE TaskCollects
    <3>1. /\ task' = [task EXCEPT !.collected = Append(@, fromWorker[1])]
          /\ fromWorker[1] \in Inbound
      BY <2>1, TaskStepEffect
    <3> QED
      BY <3>1, CollectedEnds
  <2> QED
    BY <2>1, TaskStepEffect DEF TaskStep
<1>4. /\ worker.responses <= 1
      /\ Receiving => /\ NoEnd(fromWorker) /\ NoEnd(task.collected)
                      /\ task.active \/ \E i \in DOMAIN fromWorker : Accepted(i)
      /\ \A i \in DOMAIN fromWorker : Ends(fromWorker[i]) =>
           /\ task.active \/ \E j \in DOMAIN fromWorker : j < i /\ Accepted(j)
           /\ \A j \in DOMAIN fromWorker : Ends(fromWorker[j]) => i = j
      /\ ~NoEnd(task.collected) => NoEnd(fromWorker) /\ task.active
  BY <1>1, <1>3 DEF UnsteeredInv
<1>5. \A i, j \in DOMAIN fromWorker' : Ends(fromWorker'[i]) /\ Ends(fromWorker'[j]) => i = j
  <2> SUFFICES ASSUME NEW i \in DOMAIN fromWorker', NEW j \in DOMAIN fromWorker',
                      Ends(fromWorker'[i]), Ends(fromWorker'[j])
               PROVE  i = j
    OBVIOUS
  <2>1. i + 1 = j + 1
    BY <1>2, <1>4
  <2> QED
    BY <1>2, <2>1
<1>6. Ends(fromWorker[1]) => NoEnd(fromWorker')
  <2> SUFFICES ASSUME Ends(fromWorker[1]), NEW i \in DOMAIN fromWorker', Ends(fromWorker'[i])
               PROVE  FALSE
    BY DEF NoEnd
  <2>1. i + 1 = 1
    BY <1>1, <1>2, <1>4
  <2> QED
    BY <1>2, <2>1
<1>7. /\ NoEnd(task.collected) \in BOOLEAN /\ NoEnd(fromWorker) \in BOOLEAN
      /\ NoEnd(<<>>)
  BY DEF NoEnd
<1>8. ASSUME task'.active, NoEnd(task'.collected), Receiving => NoEnd(fromWorker')
      PROVE  UnsteeredInv'
  BY <1>1, <1>4, <1>5, <1>8 DEF UnsteeredInv, NoEnd
<1>9. CASE TaskCollects
  <2>1. /\ task' = [task EXCEPT !.collected = Append(@, fromWorker[1])]
        /\ ~IsReply(fromWorker[1]) /\ fromWorker[1] \in Inbound
    BY <1>9, TaskStepEffect
  <2>2. /\ NoEnd(task'.collected) <=> NoEnd(task.collected) /\ ~Ends(fromWorker[1])
        /\ task'.active = task.active /\ task'.call = task.call
    BY <2>1, CollectedEnds
  <2>3. ~Accepted(1)
    BY <2>1 DEF Accepted, IsReply
  <2>4. ASSUME NEW j \in DOMAIN fromWorker, Accepted(j)
        PROVE  j - 1 \in DOMAIN fromWorker' /\ Accepted(j - 1)' /\ j \in Int
    <3>1. j # 1
      BY <2>3, <2>4
    <3> QED
      BY <1>2, <2>2, <2>4, <3>1 DEF Accepted
  <2>5. CASE Ends(fromWorker[1])
    <3>1. task.active
      <4>1. \A j \in DOMAIN fromWorker : ~(j < 1)
        BY <1>1, <1>2 DEF TypeOK
      <4> QED
        BY <1>1, <1>4, <2>5, <4>1
    <3>2. ~Receiving
      BY <1>1, <1>4, <2>5 DEF NoEnd
    <3>3. NoEnd(fromWorker')
      BY <1>6, <2>5
    <3> QED
      BY <1>1, <1>4, <2>2, <3>1, <3>2, <3>3 DEF UnsteeredInv, NoEnd
  <2>6. CASE ~Ends(fromWorker[1])
    <3>1. NoEnd(task'.collected) <=> NoEnd(task.collected)
      BY <2>2, <2>6
    <3>2. Receiving' => /\ NoEnd(fromWorker') /\ NoEnd(task'.collected)
                        /\ task'.active \/ \E i \in DOMAIN fromWorker' : Accepted(i)'
      BY <1>1, <1>2, <1>4, <2>2, <2>4, <3>1
    <3>3. ASSUME NEW i \in DOMAIN fromWorker', Ends(fromWorker'[i]), ~task'.active
          PROVE  \E j \in DOMAIN fromWorker' : j < i /\ Accepted(j)'
      <4>1. PICK j \in DOMAIN fromWorker : j < i + 1 /\ Accepted(j)
        BY <1>2, <1>4, <2>2, <3>3
      <4>2. j - 1 \in DOMAIN fromWorker' /\ Accepted(j - 1)' /\ j - 1 < i
        BY <1>2, <2>4, <3>3, <4>1
      <4> QED
        BY <4>2
    <3>4. ~NoEnd(task'.collected) => NoEnd(fromWorker') /\ task'.active
      BY <1>2, <1>4, <2>2, <3>1
    <3> QED
      BY <1>1, <1>4, <1>5, <3>2, <3>3, <3>4 DEF UnsteeredInv, NoEnd, Accepted
  <2> QED
    BY <2>5, <2>6
<1>10. CASE TaskReads
  <2>1. /\ task'.collected = task.collected /\ task.call = "none"
        /\ task.active /\ task'.active = ~Ends(fromWorker[1])
    BY <1>10, TaskStepEffect
  <2>2. CASE Ends(fromWorker[1])
    <3>1. ~Receiving /\ NoEnd(task.collected) /\ NoEnd(fromWorker')
      BY <1>1, <1>4, <1>6, <2>2 DEF NoEnd
    <3> QED
      BY <1>1, <1>4, <2>1, <3>1 DEF UnsteeredInv, NoEnd
  <2>3. CASE ~Ends(fromWorker[1])
    BY <1>1, <1>2, <1>4, <1>5, <2>1, <2>3 DEF UnsteeredInv, NoEnd
  <2> QED
    BY <2>2, <2>3
<1>11. CASE CallFails
  <2>1. /\ task'.collected = <<>> /\ task'.active = task.active
        /\ fromWorker[1].op = "error"
    BY <1>11, TaskStepEffect
  <2>2. \A i \in DOMAIN fromWorker : ~Accepted(i)
    <3> SUFFICES ASSUME NEW i \in DOMAIN fromWorker, fromWorker[i].op = "ok"
                 PROVE  FALSE
      BY DEF Accepted
    <3>1. IsReply(fromWorker[1]) /\ IsReply(fromWorker[i])
      BY <2>1 DEF IsReply
    <3>2. i = 1
      BY <1>1, <3>1 DEF CallInv, CallAnswered
    <3> QED
      BY <2>1, <3>2
  <2>3. CASE task.active
    BY <1>2, <1>4, <1>7, <1>8, <2>1, <2>3
  <2>4. CASE ~task.active
    <3>1. ~Receiving /\ NoEnd(fromWorker)
      BY <1>4, <2>2, <2>4 DEF NoEnd
    <3> QED
      BY <1>1, <1>2, <1>4, <1>7, <2>1, <3>1 DEF UnsteeredInv, NoEnd
  <2> QED
    BY <2>3, <2>4
<1>12. CASE CallSucceeds
  <2>1. /\ task'.collected = <<>> /\ task.call \in Calls
        /\ task'.active = ((task.call = "prompt" \/ task.active) /\ NoEnd(task.collected))
    BY <1>12, TaskStepEffect
  <2>2. task.call = "prompt" => ~task.active
    BY DEF CallInv, CallMade
  <2>3. task.call # "prompt" => task.active
    BY <2>1 DEF CallInv, CallMade, Calls
  <2>4. CASE NoEnd(task.collected)
    BY <1>2, <1>4, <1>7, <1>8, <2>1, <2>3, <2>4
  <2>5. CASE ~NoEnd(task.collected)
    <3>1. ~Receiving /\ NoEnd(fromWorker)
      BY <1>4, <2>5
    <3> QED
      BY <1>1, <1>2, <1>4, <1>7, <2>1, <3>1 DEF UnsteeredInv, NoEnd
  <2> QED
    BY <2>4, <2>5
<1> QED
  BY <1>9, <1>10, <1>11, <1>12 DEF TaskStep

(* The steps of the worker and the SDK that neither begin nor end a turn,  *)
(* take no response and send no end.                                       *)
LeavesTurn ==
  \/ WorkerAccepts \/ PromptStarts \/ ReopenFails \/ SteerStarts \/ InterruptStarts
  \/ RequestRefused \/ NothingToInterrupt \/ RequestRaises
  \/ TurnFinished \/ TurnRaises \/ AnswerAccepted \/ AnswerIgnored \/ SdkDies
  \/ \E c \in Callbacks : SdkAsks(c) \/ CallbackTimesOut(c)

(* A step that leaves the turn to the others sends no frame that would     *)
(* end it and starts no response.                                          *)
LEMMA LeavesTurnEffect ==
  ASSUME TypeOK, CallInv, LeavesTurn
  PROVE  /\ UNCHANGED <<task, steered, dropped>>
         /\ Receiving' <=> Receiving
         /\ worker.responses <= 1 => worker'.responses <= 1
         /\ \/ fromWorker' = fromWorker
            \/ \E m \in Replies \cup Inbound :
                 /\ fromWorker' = Append(fromWorker, m)
                 /\ ~Ends(m)
                 /\ m.op = "ok" => task.call = "interrupt"
<1>1. worker \in WorkerRecords
  BY DEF TypeOK
<1>2. CASE WorkerAccepts \/ PromptStarts \/ SteerStarts \/ InterruptStarts
  <2>1. worker'.turn = worker.turn /\ worker'.responses = worker.responses
    BY <1>1, <1>2 DEF WorkerAccepts, PromptStarts, SteerStarts, InterruptStarts, WorkerRecords
  <2>2. UNCHANGED <<task, fromWorker, steered, dropped>>
    BY <1>2 DEF WorkerAccepts, PromptStarts, SteerStarts, InterruptStarts, history
  <2> QED
    BY <2>1, <2>2 DEF Receiving
<1>3. CASE ReopenFails \/ RequestRefused \/ RequestRaises
  <2>1. worker'.turn = worker.turn /\ worker'.responses = worker.responses
    BY <1>1, <1>3 DEF ReopenFails, RequestRefused, RequestRaises, WorkerRecords
  <2>2. UNCHANGED <<task, steered, dropped>> /\ fromWorker' = Append(fromWorker, Frame("error"))
    BY <1>3 DEF ReopenFails, RequestRefused, RequestRaises, Answer, history
  <2>3. /\ Frame("error") \in Replies \cup Inbound /\ ~Ends(Frame("error"))
        /\ Frame("error").op # "ok"
    BY DEF Frame, Replies, Ends
  <2> QED
    BY <2>1, <2>2, <2>3 DEF Receiving
<1>4. CASE NothingToInterrupt
  <2>1. worker'.turn = worker.turn /\ worker'.responses = worker.responses
    BY <1>1, <1>4 DEF NothingToInterrupt, WorkerRecords
  <2>2. UNCHANGED <<task, steered, dropped>> /\ fromWorker' = Append(fromWorker, Frame("ok"))
    BY <1>4 DEF NothingToInterrupt, Answer, history
  <2>3. Frame("ok") \in Replies \cup Inbound /\ ~Ends(Frame("ok"))
    BY DEF Frame, Replies, Ends
  <2>4. task.call = "interrupt"
    BY <1>4 DEF NothingToInterrupt, MayStart, CallInv, CallServed
  <2> QED
    BY <2>1, <2>2, <2>3, <2>4 DEF Receiving
<1>5. CASE TurnFinished
  <2>1. /\ worker'.turn = worker.turn
        /\ worker'.responses = worker.responses \/ worker'.responses = 0
    BY <1>1, <1>5 DEF TurnFinished, WorkerRecords
  <2>2. UNCHANGED <<task, fromWorker, steered, dropped>>
    BY <1>5 DEF TurnFinished, history
  <2> QED
    BY <2>1, <2>2 DEF Receiving
<1>6. CASE TurnRaises
  <2>1. /\ worker.turn = "reading" /\ worker'.turn = "failing"
        /\ worker'.responses = worker.responses
    BY <1>1, <1>6 DEF TurnRaises, WorkerRecords
  <2>2. UNCHANGED <<task, fromWorker, steered, dropped>>
    BY <1>6 DEF TurnRaises, history
  <2> QED
    BY <2>1, <2>2 DEF Receiving
<1>7. ASSUME NEW c \in Callbacks, NEW outcome, Settle(c, outcome)
      PROVE  worker'.turn = worker.turn /\ worker'.responses = worker.responses
  BY <1>1, <1>7 DEF Settle, WorkerRecords
<1>8. CASE AnswerAccepted \/ AnswerIgnored \/ \E c \in Callbacks : CallbackTimesOut(c)
  <2>1. worker'.turn = worker.turn /\ worker'.responses = worker.responses
    BY <1>7, <1>8 DEF AnswerAccepted, AnswerIgnored, CallbackTimesOut
  <2>2. UNCHANGED <<task, fromWorker, steered, dropped>>
    BY <1>8 DEF AnswerAccepted, AnswerIgnored, CallbackTimesOut, history
  <2> QED
    BY <2>1, <2>2 DEF Receiving
<1>9. CASE SdkDies
  BY <1>9 DEF SdkDies, history, Receiving
<1>10. ASSUME NEW c \in Callbacks, SdkAsks(c)
       PROVE  /\ UNCHANGED <<task, steered, dropped>>
              /\ Receiving' <=> Receiving
              /\ worker'.responses = worker.responses
              /\ fromWorker' = Append(fromWorker, AboutCallback("callback", c))
  <2>1. worker'.turn = worker.turn /\ worker'.responses = worker.responses
    BY <1>1, <1>10 DEF SdkAsks, WorkerRecords
  <2> QED
    BY <1>10, <2>1 DEF SdkAsks, history, Receiving
<1>11. \A c \in Callbacks :
         /\ AboutCallback("callback", c) \in Replies \cup Inbound
         /\ ~Ends(AboutCallback("callback", c)) /\ AboutCallback("callback", c).op # "ok"
  BY DEF AboutCallback, Inbound, Ends
<1> QED
  BY <1>2, <1>3, <1>4, <1>5, <1>6, <1>8, <1>9, <1>10, <1>11 DEF LeavesTurn

(* They change nothing of what is to come.                                 *)
LEMMA LeavesTurnEnds ==
  ASSUME TypeOK, CallInv, EndInv, UnsteeredInv, LeavesTurn
  PROVE  EndInv' /\ UnsteeredInv'
<1>1. /\ UNCHANGED <<task, steered, dropped>>
      /\ Receiving' <=> Receiving
      /\ worker.responses <= 1 => worker'.responses <= 1
  BY LeavesTurnEffect
<1>2. CASE fromWorker' = fromWorker
  BY <1>1, <1>2 DEF EndInv, UnsteeredInv, NoEnd, Accepted
<1>3. ASSUME NEW m \in Replies \cup Inbound, fromWorker' = Append(fromWorker, m), ~Ends(m),
             m.op = "ok" => task.call = "interrupt"
      PROVE  EndInv' /\ UnsteeredInv'
  <2>1. /\ \A i \in DOMAIN fromWorker :
             /\ i \in Int /\ i \in DOMAIN fromWorker' /\ fromWorker'[i] = fromWorker[i]
        /\ \A i \in DOMAIN fromWorker' :
             \/ i \in DOMAIN fromWorker /\ fromWorker'[i] = fromWorker[i]
             \/ fromWorker'[i] = m
    BY <1>3, AppendFrames DEF TypeOK
  <2>2. NoEnd(fromWorker') <=> NoEnd(fromWorker)
    BY <1>3, <2>1 DEF NoEnd
  <2>3. ASSUME NEW i \in DOMAIN fromWorker, Accepted(i)
        PROVE  i \in DOMAIN fromWorker' /\ Accepted(i)'
    BY <1>1, <2>1, <2>3 DEF Accepted
  <2>4. EndInv'
    <3>1. task'.pc = "loop" /\ task'.active =>
            Receiving' \/ dropped' \/ ~NoEnd(fromWorker') \/ ~NoEnd(task'.collected)
      BY <1>1, <2>2 DEF EndInv
    <3>2. ASSUME NEW i \in DOMAIN fromWorker', task'.call = "prompt", fromWorker'[i].op = "ok"
          PROVE  Receiving' \/ \E j \in DOMAIN fromWorker' : j > i /\ Ends(fromWorker'[j])
      <4>1. i \in DOMAIN fromWorker /\ fromWorker'[i] = fromWorker[i]
        BY <1>1, <1>3, <2>1, <3>2
      <4>2. Receiving \/ \E j \in DOMAIN fromWorker : j > i /\ Ends(fromWorker[j])
        BY <1>1, <3>2, <4>1 DEF EndInv
      <4> QED
        BY <1>1, <2>1, <4>2
    <3> QED
      BY <3>1, <3>2 DEF EndInv, Receiving, NoEnd
  <2>5. UnsteeredInv'
    <3> SUFFICES ASSUME ~steered, task.pc = "loop"
                 PROVE  /\ worker'.responses <= 1
                        /\ Receiving' =>
                             /\ NoEnd(fromWorker') /\ NoEnd(task'.collected)
                             /\ task'.active \/ \E i \in DOMAIN fromWorker' : Accepted(i)'
                        /\ \A i \in DOMAIN fromWorker' : Ends(fromWorker'[i]) =>
                             /\ task'.active \/ \E j \in DOMAIN fromWorker' : j < i /\ Accepted(j)'
                             /\ \A j \in DOMAIN fromWorker' : Ends(fromWorker'[j]) => i = j
                        /\ ~NoEnd(task'.collected) => NoEnd(fromWorker') /\ task'.active
      BY <1>1 DEF UnsteeredInv, Receiving, NoEnd, Accepted
    <3>1. worker'.responses <= 1
      BY <1>1 DEF UnsteeredInv
    <3>2. Receiving' => /\ NoEnd(fromWorker') /\ NoEnd(task'.collected)
                        /\ task'.active \/ \E i \in DOMAIN fromWorker' : Accepted(i)'
      BY <1>1, <2>2, <2>3 DEF UnsteeredInv
    <3>3. ASSUME NEW i \in DOMAIN fromWorker', Ends(fromWorker'[i])
          PROVE  /\ task'.active \/ \E j \in DOMAIN fromWorker' : j < i /\ Accepted(j)'
                 /\ \A j \in DOMAIN fromWorker' : Ends(fromWorker'[j]) => i = j
      <4>1. i \in DOMAIN fromWorker /\ Ends(fromWorker[i])
        BY <1>3, <2>1, <3>3
      <4>2. task.active \/ \E j \in DOMAIN fromWorker : j < i /\ Accepted(j)
        BY <4>1 DEF UnsteeredInv
      <4>3. \A j \in DOMAIN fromWorker : Ends(fromWorker[j]) => i = j
        BY <4>1 DEF UnsteeredInv
      <4>4. \A j \in DOMAIN fromWorker' : Ends(fromWorker'[j]) => i = j
        BY <1>3, <2>1, <4>3
      <4> QED
        BY <1>1, <2>3, <4>2, <4>4
    <3>4. ~NoEnd(task'.collected) => NoEnd(fromWorker') /\ task'.active
      BY <1>1, <2>2 DEF UnsteeredInv
    <3> QED
      BY <3>1, <3>2, <3>3, <3>4
  <2> QED
    BY <2>4, <2>5
<1> QED
  BY <1>2, <1>3, LeavesTurnEffect

(* A result or a failure is sent when the turn was received.               *)
LEMMA EndSent ==
  ASSUME TypeOK, EndInv, UnsteeredInv, ResultArrives \/ TurnFails
  PROVE  EndInv' /\ UnsteeredInv'
<1>1. worker \in WorkerRecords /\ fromWorker \in Seq(Replies \cup Inbound)
  BY DEF TypeOK
<1>2. PICK m \in Inbound : Ends(m) /\ fromWorker' = Append(fromWorker, m)
  <2>1. /\ Frame("result") \in Inbound /\ Ends(Frame("result"))
        /\ Frame("failed") \in Inbound /\ Ends(Frame("failed"))
    BY DEF Frame, Inbound, Ends
  <2>2. fromWorker' = Append(fromWorker, Frame("result"))
          \/ fromWorker' = Append(fromWorker, Frame("failed"))
    BY DEF ResultArrives, TurnFails, Answer
  <2> QED
    BY <2>1, <2>2
<1>3. /\ UNCHANGED <<task, steered, dropped>>
      /\ Receiving /\ ~Receiving'
      /\ worker.responses <= 1 => worker'.responses <= 1
  <2>1. CASE ResultArrives
    <3>1. /\ worker.turn = "reading" /\ worker'.turn = "waiting"
          /\ worker'.responses = worker.responses
      BY <1>1, <2>1 DEF ResultArrives, WorkerRecords
    <3> QED
      BY <2>1, <3>1 DEF ResultArrives, Receiving, history
  <2>2. CASE TurnFails
    <3>1. worker.turn = "failing" /\ worker'.turn = "none" /\ worker'.responses = 0
      BY <1>1, <2>2 DEF TurnFails, WorkerRecords
    <3> QED
      BY <2>2, <3>1 DEF TurnFails, Receiving, history
  <2> QED
    BY <2>1, <2>2
<1>4. /\ Len(fromWorker) \in Nat
      /\ \A i \in DOMAIN fromWorker :
           /\ i \in 1 .. Len(fromWorker) /\ i \in DOMAIN fromWorker'
           /\ fromWorker'[i] = fromWorker[i]
      /\ Len(fromWorker) + 1 \in DOMAIN fromWorker'
      /\ fromWorker'[Len(fromWorker) + 1] = m
      /\ \A i \in DOMAIN fromWorker' : i \in DOMAIN fromWorker \/ i = Len(fromWorker) + 1
  BY <1>1, <1>2, AppendFrames
<1>5. ~NoEnd(fromWorker')
  BY <1>2, <1>4 DEF NoEnd
<1>6. EndInv'
  <2>1. ASSUME NEW i \in DOMAIN fromWorker', fromWorker'[i].op = "ok"
        PROVE  \E j \in DOMAIN fromWorker' : j > i /\ Ends(fromWorker'[j])
    <3>1. i # Len(fromWorker) + 1
      BY <1>2, <1>4, <2>1 DEF Ends
    <3>2. i \in 1 .. Len(fromWorker) /\ Len(fromWorker) + 1 > i
      BY <1>4, <2>1, <3>1
    <3> QED
      BY <1>2, <1>4, <3>2
  <2> QED
    BY <1>5, <2>1 DEF EndInv
<1>7. UnsteeredInv'
  <2> SUFFICES ASSUME ~steered, task.pc = "loop"
               PROVE  /\ worker'.responses <= 1
                      /\ \A i \in DOMAIN fromWorker' : Ends(fromWorker'[i]) =>
                           /\ task'.active \/ \E j \in DOMAIN fromWorker' : j < i /\ Accepted(j)'
                           /\ \A j \in DOMAIN fromWorker' : Ends(fromWorker'[j]) => i = j
                      /\ NoEnd(task'.collected)
    BY <1>3 DEF UnsteeredInv, Receiving, NoEnd, Accepted
  <2>1. /\ NoEnd(fromWorker) /\ NoEnd(task.collected) /\ worker.responses <= 1
        /\ task.active \/ \E i \in DOMAIN fromWorker : Accepted(i)
    BY <1>3 DEF UnsteeredInv
  <2>2. \A i \in DOMAIN fromWorker' : Ends(fromWorker'[i]) => i = Len(fromWorker) + 1
    BY <1>4, <2>1 DEF NoEnd
  <2>3. task'.active \/ \E j \in DOMAIN fromWorker' : j < Len(fromWorker) + 1 /\ Accepted(j)'
    <3>1. ASSUME NEW i \in DOMAIN fromWorker, Accepted(i)
          PROVE  i \in DOMAIN fromWorker' /\ i < Len(fromWorker) + 1 /\ Accepted(i)'
      BY <1>3, <1>4, <3>1 DEF Accepted
    <3> QED
      BY <1>3, <2>1, <3>1
  <2> QED
    BY <1>3, <2>1, <2>2, <2>3
<1> QED
  BY <1>6, <1>7

(* A turn begins with a prompt that is accepted; the first response that   *)
(* is taken is the last one of a turn nobody steered.                      *)
LEMMA TurnBegins ==
  ASSUME TypeOK, CallInv, EndInv, UnsteeredInv, RequestDone
  PROVE  EndInv' /\ UnsteeredInv'
<1>1. worker \in WorkerRecords /\ fromWorker \in Seq(Replies \cup Inbound)
  BY DEF TypeOK
<1>2. /\ worker.request \in Calls /\ worker.request # "none"
      /\ task.call = worker.request /\ NoReply(fromWorker)
  BY <1>1 DEF RequestDone, CallInv, CallServed, TypeOK, WorkerRecords
<1>3. /\ UNCHANGED <<task, dropped>>
      /\ fromWorker' = Append(fromWorker, Frame("ok"))
      /\ steered' = (steered \/ worker.request = "steer")
      /\ worker' = [Counted(worker) EXCEPT !.request = "none", !.atSdk = FALSE]
  BY DEF RequestDone, Answer
<1>4. /\ Frame("ok") \in Replies \cup Inbound /\ ~Ends(Frame("ok")) /\ Frame("ok").op = "ok"
  BY DEF Frame, Replies, Ends
<1>5. /\ Len(fromWorker) \in Nat
      /\ \A i \in DOMAIN fromWorker :
           i \in DOMAIN fromWorker' /\ fromWorker'[i] = fromWorker[i]
      /\ Len(fromWorker) + 1 \in DOMAIN fromWorker'
      /\ fromWorker'[Len(fromWorker) + 1] = Frame("ok")
      /\ \A i \in DOMAIN fromWorker' : i \in DOMAIN fromWorker \/ i = Len(fromWorker) + 1
  BY <1>1, <1>3, <1>4, AppendFrames
<1>6. NoEnd(fromWorker') <=> NoEnd(fromWorker)
  BY <1>4, <1>5 DEF NoEnd
<1>7. \A i \in DOMAIN fromWorker : ~Accepted(i)
  BY <1>2 DEF Accepted, NoReply, IsReply
<1>8. CASE worker.request = "prompt"
  <2>1. worker'.turn = "reading" /\ worker'.responses = 1
    BY <1>1, <1>3, <1>8 DEF Counted, WorkerRecords
  <2>2. Receiving' /\ ~task.active /\ task.call = "prompt"
    BY <1>2, <1>8, <2>1 DEF Receiving, CallInv, CallMade
  <2>3. EndInv'
    BY <1>3, <2>2 DEF EndInv
  <2>4. ASSUME ~steered, task.pc = "loop"
        PROVE  NoEnd(fromWorker) /\ NoEnd(task.collected)
    <3>1. NoEnd(task.collected)
      BY <2>2, <2>4 DEF UnsteeredInv
    <3>2. \A i \in DOMAIN fromWorker : ~Ends(fromWorker[i])
      BY <1>7, <2>2, <2>4 DEF UnsteeredInv
    <3> QED
      BY <3>1, <3>2 DEF NoEnd
  <2>5. \E i \in DOMAIN fromWorker' : Accepted(i)'
    BY <1>3, <1>4, <1>5, <2>2 DEF Accepted
  <2>6. UnsteeredInv'
    <3> SUFFICES ASSUME ~steered, task.pc = "loop"
                 PROVE  /\ worker'.responses <= 1
                        /\ NoEnd(fromWorker') /\ NoEnd(task'.collected)
                        /\ \E i \in DOMAIN fromWorker' : Accepted(i)'
      BY <1>3, <1>8 DEF UnsteeredInv, NoEnd, Accepted
    <3> QED
      BY <1>3, <1>5, <1>6, <2>1, <2>4, <2>5
  <2> QED
    BY <2>3, <2>6
<1>9. CASE worker.request \in {"steer", "interrupt"}
  <2>1. worker'.turn = worker.turn /\ (worker.request = "interrupt" =>
                                         worker'.responses = worker.responses)
    <3>1. worker.responses + 1 \in Nat
      BY <1>1 DEF WorkerRecords
    <3>2. CASE worker.request = "steer"
      BY <1>1, <1>3, <3>1, <3>2 DEF Counted, WorkerRecords
    <3>3. CASE worker.request = "interrupt"
      BY <1>1, <1>3, <3>3 DEF Counted, WorkerRecords
    <3> QED
      BY <1>9, <3>2, <3>3
  <2>2. /\ Receiving' <=> Receiving
        /\ task.call # "prompt" /\ task.active
    BY <1>2, <1>9, <2>1 DEF Receiving, CallInv, CallMade
  <2>3. EndInv'
    BY <1>3, <1>6, <2>2 DEF EndInv
  <2>4. UnsteeredInv'
    <3> SUFFICES ASSUME ~steered', task'.pc = "loop"
                 PROVE  /\ worker'.responses <= 1
                        /\ Receiving' => NoEnd(fromWorker') /\ NoEnd(task'.collected)
                        /\ task'.active
                        /\ \A i, j \in DOMAIN fromWorker' :
                             Ends(fromWorker'[i]) /\ Ends(fromWorker'[j]) => i = j
                        /\ ~NoEnd(task'.collected) => NoEnd(fromWorker')
      BY DEF UnsteeredInv
    <3>1. ~steered /\ task.pc = "loop" /\ worker.request = "interrupt"
      BY <1>3, <1>9
    <3>2. \A i, j \in DOMAIN fromWorker :
            Ends(fromWorker[i]) /\ Ends(fromWorker[j]) => i = j
      BY <3>1 DEF UnsteeredInv
    <3>3. \A i, j \in DOMAIN fromWorker' :
            Ends(fromWorker'[i]) /\ Ends(fromWorker'[j]) => i = j
      BY <1>4, <1>5, <3>2
    <3> QED
      BY <1>3, <1>6, <2>1, <2>2, <3>1, <3>3 DEF UnsteeredInv
  <2> QED
    BY <2>3, <2>4
<1> QED
  BY <1>2, <1>8, <1>9 DEF Calls

(* A turn's end read by the worker, or the worker's shutdown, leaves no    *)
(* response to a turn nobody steered unread.                               *)
LEMMA TurnEnds ==
  ASSUME TypeOK, CallInv, EndInv, UnsteeredInv, ResponseTaken \/ WorkerShutsDown
  PROVE  EndInv' /\ UnsteeredInv'
<1>1. worker \in WorkerRecords
  BY DEF TypeOK
<1>2. CASE ResponseTaken
  <2>1. ~Receiving /\ UNCHANGED <<task, fromWorker, steered, dropped>>
    BY <1>2 DEF ResponseTaken, Receiving, history
  <2>2. worker.responses <= 1 => worker'.turn = "none" /\ worker'.responses = 0
    BY <1>1, <1>2 DEF ResponseTaken, TakesResponse, WorkerRecords
  <2>3. EndInv'
    BY <2>1 DEF EndInv, NoEnd
  <2>4. UnsteeredInv'
    <3> SUFFICES ASSUME ~steered, task.pc = "loop"
                 PROVE  UnsteeredInv'
      BY <2>1 DEF UnsteeredInv
    <3>1. ~Receiving' /\ worker'.responses <= 1
      BY <2>2 DEF UnsteeredInv, Receiving
    <3> QED
      BY <2>1, <3>1 DEF UnsteeredInv, NoEnd, Accepted
  <2> QED
    BY <2>3, <2>4
<1>3. CASE WorkerShutsDown
  <2>1. toWorker # <<>> /\ Head(toWorker).op = "shutdown" /\ UNCHANGED task
    BY <1>3 DEF WorkerShutsDown
  <2>2. 1 \in DOMAIN toWorker /\ toWorker[1] = Head(toWorker)
    BY <2>1, TailFrames DEF TypeOK
  <2>3. task.call = "shutdown" /\ task.pc = "closing"
    BY <2>1, <2>2 DEF CallInv, CallWritten, CallMade, IsCall
  <2> QED
    BY <2>1, <2>3 DEF EndInv, UnsteeredInv
<1> QED
  BY <1>2, <1>3

(* Every step keeps the account of the ends.                               *)
LEMMA NextEnds ==
  TypeOK /\ CallInv /\ EndInv /\ UnsteeredInv /\ [Next]_vars => EndInv' /\ UnsteeredInv'
<1>1. EndInv /\ UnsteeredInv /\ UNCHANGED vars => EndInv' /\ UnsteeredInv'
  BY DEF vars, EndInv, UnsteeredInv, Receiving, NoEnd, Accepted
<1>2. TypeOK /\ CallInv /\ EndInv /\ UnsteeredInv /\ Next => EndInv' /\ UnsteeredInv'
  BY CommandEnds, TaskStepEnds, TaskStepUnsteered, LeavesTurnEnds, EndSent, TurnBegins, TurnEnds
     DEF Next, WorkerStep, LeavesTurn
<1> QED
  BY <1>1, <1>2

(* Only a call collects, and its reply empties the collection.             *)
LEMMA NextCollected ==
  TypeOK /\ CallInv /\ NothingCollected /\ [Next]_vars => NothingCollected'
<1> SUFFICES ASSUME TypeOK, CallInv, NothingCollected, [Next]_vars
             PROVE  NothingCollected'
  OBVIOUS
<1>1. CASE UNCHANGED task
  BY <1>1 DEF NothingCollected
<1>2. CASE \/ TaskPrompts \/ TaskSteers \/ TaskInterrupts \/ TaskShutsDown
           \/ \E c \in Callbacks, answer \in {"allow", "deny"} : TaskAnswers(c, answer)
           \/ \E S \in SUBSET Callbacks : TaskDenies(S)
  BY <1>2, CommandCalls DEF NothingCollected
<1>3. CASE TaskStep
  <2>1. CASE TaskCollects
    <3>1. task'.call = task.call /\ task.call # "none"
      BY <2>1 DEF TaskCollects, TypeOK, TaskRecords
    <3> QED
      BY <3>1 DEF NothingCollected
  <2>2. CASE TaskReads \/ CallSucceeds \/ CallFails
    BY <1>3, <2>2, TaskStepEffect DEF NothingCollected
  <2> QED
    BY <1>3, <2>1, <2>2 DEF TaskStep
<1>4. WorkerStep \/ ResultArrives \/ TurnRaises \/ SdkDies => UNCHANGED task
  BY DEF WorkerStep, WorkerAccepts, PromptStarts, ReopenFails, SteerStarts, InterruptStarts,
         RequestRefused, NothingToInterrupt, RequestDone, RequestRaises, ResponseTaken,
         TurnFails, TurnFinished, AnswerAccepted, AnswerIgnored, WorkerShutsDown,
         ResultArrives, TurnRaises, SdkDies
<1>5. ASSUME NEW c \in Callbacks, SdkAsks(c) \/ CallbackTimesOut(c)
      PROVE  UNCHANGED task
  BY <1>5 DEF SdkAsks, CallbackTimesOut
<1> QED
  BY <1>1, <1>2, <1>3, <1>4, <1>5 DEF Next, vars

(***************************************************************************)
(* Theorems                                                                *)
(***************************************************************************)

(* The invariant holds before anything is asked of the worker.             *)
LEMMA InitInv == Init => IInv
<1> SUFFICES ASSUME Init PROVE IInv
  OBVIOUS
<1>1. TypeOK
  BY InitType
<1>2. /\ DOMAIN fromWorker = {} /\ DOMAIN toWorker = {} /\ DOMAIN task.collected = {}
      /\ task.pc = "loop" /\ task.active = FALSE /\ task.pending = {} /\ task.call = "none"
      /\ worker.request = "none" /\ worker.turn = "none" /\ worker.responses = 0
      /\ worker.atSdk = FALSE /\ sdk.left = 0 /\ sdk.unanswered = 0
      /\ task.collected = <<>>
  BY DEF Init, FreshSdk
<1>3. \A c \in Callbacks : asked[c] = "unasked" /\ verdict[c] = "none"
  BY DEF Init
<1>4. CountInv /\ ResponsesAccounted
  BY <1>2 DEF CountInv, ResponsesAccounted
<1>5. CallbackInv /\ AllowedByTheUser
  BY <1>2, <1>3
     DEF CallbackInv, AllowedByTheUser, OnceOnly, Asked, AsksFor, ToldToAllow
<1>6. CallInv /\ NothingCollected
  BY <1>2 DEF CallInv, CallMade, CallWritten, CallServed, CallAnswered, NothingCollected
<1>7. EndInv /\ UnsteeredInv
  BY <1>2 DEF EndInv, UnsteeredInv, Receiving, NoEnd
<1> QED
  BY <1>1, <1>4, <1>5, <1>6, <1>7 DEF IInv

(* Every step keeps it.                                                    *)
LEMMA NextInv == IInv /\ [Next]_vars => IInv'
BY NextType, NextCounts, NextCallbacks, NextOneCall, NextEnds, NextCollected DEF IInv

(* The inductive invariant of the worker and its task.                     *)
LEMMA Invariance == Spec => []IInv
BY InitInv, NextInv, PTL DEF Spec

(* The records run_claude and Worker keep have their types, and a request  *)
(* at the SDK is one the worker holds, however many callbacks there are.   *)
THEOREM WorkerTypeCorrect == Spec => []TypeOK
<1>1. IInv => TypeOK
  BY DEF IInv
<1> QED
  BY <1>1, Invariance, PTL

(* _pending_responses is what the SDK owes this turn, through steering     *)
(* messages, failed turns and reopened sessions (_prompt, _steer,          *)
(* _receive_turn).                                                         *)
THEOREM WorkerCountsResponses == Spec => []ResponsesAccounted
<1>1. IInv => ResponsesAccounted
  BY DEF IInv
<1> QED
  BY <1>1, Invariance, PTL

(* No tool runs that the task's first answer to its callback did not       *)
(* allow, whichever deadline passes first (_accept_response).              *)
THEOREM WorkerAllowsWhatTheUserDid == Spec => []AllowedByTheUser
<1>1. IInv => AllowedByTheUser
  BY DEF IInv
<1> QED
  BY <1>1, Invariance, PTL

(* A task that believes a turn is active will read its end, unless a       *)
(* failed call lost it (publish_worker_inbound and its callers).           *)
THEOREM WorkerEndIsSeen == Spec => []EndIsSeen
<1>1. IInv => EndIsSeen
  <2> SUFFICES ASSUME IInv, Selecting, task.active
               PROVE  EndOnItsWay \/ dropped
    BY DEF EndIsSeen
  <2>1. NoEnd(task.collected)
    BY DEF IInv, NothingCollected, Selecting, NoEnd
  <2>2. Receiving \/ dropped \/ ~NoEnd(fromWorker)
    BY <2>1 DEF IInv, EndInv, Selecting
  <2> QED
    BY <2>2 DEF EndOnItsWay, Receiving, NoEnd
<1> QED
  BY <1>1, Invariance, PTL

(* Until a session is steered, the turn the worker receives is one the     *)
(* task reads (next_inbound's guard).                                      *)
THEOREM WorkerTurnIsRead == Spec => []UnreadTurnWasSteered
<1>1. IInv => UnreadTurnWasSteered
  <2> SUFFICES ASSUME IInv, Selecting, Receiving, ~steered
               PROVE  task.active
    BY DEF UnreadTurnWasSteered, Receiving
  <2>1. task.active \/ \E i \in DOMAIN fromWorker : Accepted(i)
    BY DEF IInv, UnsteeredInv, Selecting
  <2>2. \A i \in DOMAIN fromWorker : ~Accepted(i)
    BY DEF Accepted, Selecting
  <2> QED
    BY <2>1, <2>2
<1> QED
  BY <1>1, Invariance, PTL

===============================================================================
