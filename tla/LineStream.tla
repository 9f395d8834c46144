------------------------------ MODULE LineStream ------------------------------
(***************************************************************************)
(* What a protocol adapter promises of a byte stream: the child's lines    *)
(* arrive whole, in order, none skipped, until the stream ends or a line   *)
(* is longer than the limit.                                               *)
(*                                                                         *)
(* Bytes are known by their position, 1, 2, 3, ...; of a byte only whether *)
(* it ends a line matters.  A frame is the pair of its first and its last  *)
(* position, the newline included.                                         *)
(***************************************************************************)
EXTENDS Integers, Sequences

CONSTANTS
  MaxBytes,  \* how many bytes the child writes at most
  Limit      \* the longest payload of a line, its newline not counted

VARIABLES
  length,     \* how many bytes the child has written
  ends,       \* the positions of the newlines among them
  finished,   \* has the child closed its end?
  delivered,  \* the frames handed to the adapter, in order
  outcome     \* "open", or how the stream ended for the adapter

streamVars == <<length, ends, finished, delivered, outcome>>

(* The first byte not handed over yet.                                     *)
NextByte == IF delivered = <<>> THEN 1 ELSE delivered[Len(delivered)][2] + 1

IsLine(first, last) ==
  /\ last \in ends
  /\ first <= last
  /\ ends \cap (first .. last - 1) = {}

Init ==
  /\ length = 0
  /\ ends = {}
  /\ finished = FALSE
  /\ delivered = <<>>
  /\ outcome = "open"

Write ==
  /\ ~finished
  /\ length < MaxBytes
  /\ length' = length + 1
  /\ ends' \in {ends, ends \cup {length + 1}}
  /\ UNCHANGED <<finished, delivered, outcome>>

Close ==
  /\ ~finished
  /\ finished' = TRUE
  /\ UNCHANGED <<length, ends, delivered, outcome>>

DeliverLine ==
  /\ outcome = "open"
  /\ \E last \in ends :
       /\ IsLine(NextByte, last)
       /\ last - NextByte <= Limit
       /\ delivered' = Append(delivered, <<NextByte, last>>)
  /\ UNCHANGED <<length, ends, finished, outcome>>

(* What is left when the child closes without a final newline.             *)
DeliverRest ==
  /\ outcome = "open"
  /\ finished
  /\ NextByte <= length
  /\ ends \cap (NextByte .. length) = {}
  /\ length - NextByte < Limit
  /\ delivered' = Append(delivered, <<NextByte, length>>)
  /\ UNCHANGED <<length, ends, finished, outcome>>

RefuseLong ==
  /\ outcome = "open"
  /\ NextByte + Limit <= length
  /\ ends \cap (NextByte .. NextByte + Limit) = {}
  /\ outcome' = "too_large"
  /\ UNCHANGED <<length, ends, finished, delivered>>

ReportEnd ==
  /\ outcome = "open"
  /\ finished
  /\ NextByte = length + 1
  /\ outcome' = "closed"
  /\ UNCHANGED <<length, ends, finished, delivered>>

Next == Write \/ Close \/ DeliverLine \/ DeliverRest \/ RefuseLong \/ ReportEnd

Spec == Init /\ [][Next]_streamVars
=============================================================================
