------------------------------- MODULE Replay -------------------------------
(***************************************************************************)
(* The bounded replay window of the broker (replay.rs).  A buffer is a     *)
(* record [next_sequence, events]: events holds the newest events in the   *)
(* order they were pushed, each stamped with its sequence number.          *)
(***************************************************************************)
EXTENDS Integers, Sequences

CONSTANT
  Capacity  \* how many events the window retains

ASSUME CapacityAssumption == Capacity \in Nat \ {0}

(* ReplayBuffer::new: nothing pushed, the first event will be number 1. *)
EmptyBuffer == [next_sequence |-> 1, events |-> <<>>]

(* The newest sequence number ever pushed, 0 when there is none. *)
Latest(buffer) == buffer.next_sequence - 1

(* The oldest sequence number the window still holds. *)
Oldest(buffer) == buffer.events[1].sequence

(* ReplayBuffer::push: stamp the event, append it, evict the oldest event  *)
(* when the window is over its capacity.                                   *)
PushedEvents(buffer, event) ==
  LET appended == Append(buffer.events, event)
  IN  IF Len(appended) > Capacity THEN Tail(appended) ELSE appended

Push(buffer, event) ==
  [next_sequence |-> buffer.next_sequence + 1,
   events |-> PushedEvents(buffer,
                [event EXCEPT !.sequence = buffer.next_sequence])]

(* One event that has left the window is forgiven. *)
ResyncRequiredTooLate(buffer, after) ==
  /\ buffer.events # <<>>
  /\ after + 2 < Oldest(buffer)

(* replay_after answers ResyncRequired: the event after the cursor has     *)
(* left the window.  A buffer with no events never asks for a resync.      *)
ResyncRequired(buffer, after) ==
  /\ buffer.events # <<>>
  /\ after + 1 < Oldest(buffer)

(* replay_after's Events: the retained events numbered after the cursor.   *)
(* The numbers have no hole (Window), so what the filter keeps is the end  *)
(* of the buffer (EventsAfterContinue in ReconnectProofs).              *)
EventsAfter(buffer, after) ==
  IF buffer.events = <<>> THEN <<>>
  ELSE SubSeq(buffer.events,
              IF after < Oldest(buffer) THEN 1 ELSE after - Oldest(buffer) + 2,
              Len(buffer.events))

(* The shape of every buffer push can build: at most Capacity events,      *)
(* numbered without a hole, ending at the newest number handed out.        *)
Window(buffer) ==
  /\ Len(buffer.events) =< Capacity
  /\ Len(buffer.events) =< Latest(buffer)
  /\ Latest(buffer) > 0 => buffer.events # <<>>
  /\ \A i \in 1..Len(buffer.events) :
       buffer.events[i].sequence = Latest(buffer) - Len(buffer.events) + i

=============================================================================
