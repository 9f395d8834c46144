---------------------------- MODULE MCReconnect -----------------------------
(* Small instances of Reconnect. *)
EXTENDS Reconnect, TLC

(* Approvals are interchangeable. *)
ApprovalSymmetry == Permutations(Approvals)

=============================================================================
