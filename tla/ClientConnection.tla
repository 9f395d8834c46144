--------------------------- MODULE ClientConnection ---------------------------
(***************************************************************************)
(* The connection of the editor's durable client (client.lua), as a record *)
(* of its state name, whether it has a pipe, whether the reconnect timer   *)
(* runs, and the count of attempts.                                        *)
(*                                                                         *)
(* "reconnecting" is the state both while the timer runs and while the     *)
(* pipe it then opened connects.                                           *)
(***************************************************************************)
EXTENDS Integers

CONSTANT MaxAttempts  \* reconnect.max_attempts, 8 by default

ASSUME ConnectionAssumption == MaxAttempts \in Nat

ClientStates == {"stopped", "connecting", "negotiating", "connected",
                 "reconnecting", "disconnected", "failed"}

Clients == [state : ClientStates, pipe : BOOLEAN, timer : BOOLEAN,
            attempt : 0 .. MaxAttempts + 2]

FreshClient == [state |-> "stopped", pipe |-> FALSE, timer |-> FALSE, attempt |-> 0]

(* _connect_pipe                                                           *)
Opening(c, reconnecting) ==
  [c EXCEPT !.pipe = TRUE,
            !.state = IF reconnecting THEN "reconnecting" ELSE "connecting"]

(* The pipe connects: _begin_initialize.                                   *)
Negotiating(c) == [c EXCEPT !.state = "negotiating"]

(* The response to initialize.                                             *)
Ready(c) == [c EXCEPT !.state = "connected", !.attempt = 0]

(* _schedule_reconnect                                                     *)
Scheduled(c) ==
  IF c.timer THEN c
  ELSE [c EXCEPT !.attempt = @ + 1,
                 !.timer = c.attempt < MaxAttempts,
                 !.state = IF c.attempt < MaxAttempts THEN "reconnecting" ELSE "failed"]

(* _connection_lost, when no call of the client reacts to it.              *)
LostOnce(c) == Scheduled([c EXCEPT !.pipe = FALSE, !.state = "disconnected"])

(* _connection_lost.  A pending initialize fails first, and its callback   *)
(* calls _connection_lost itself, inside the call.                         *)
Lost(c) == IF c.state = "negotiating" THEN LostOnce(LostOnce(c)) ELSE LostOnce(c)

(* The states in which start only waits for what is under way.             *)
UnderWay(c) == c.state \in {"connecting", "negotiating", "reconnecting"}

(* start                                                                   *)
Started(c) ==
  IF UnderWay(c) \/ c.state = "connected" THEN c
  ELSE Opening([c EXCEPT !.attempt = 0], FALSE)

(* The deferred function of _schedule_reconnect.                           *)
TimerFired(c) ==
  IF c.state = "reconnecting" THEN Opening([c EXCEPT !.timer = FALSE], TRUE)
  ELSE [c EXCEPT !.timer = FALSE]
=============================================================================
