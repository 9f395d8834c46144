------------------------------ MODULE MCFleet ------------------------------
(* Small instances of Fleet. *)
EXTENDS Fleet, TLC

(* No definition of Fleet singles out an agent or a session. *)
Symmetry == Permutations(Agents) \cup Permutations(Sessions)

=============================================================================
