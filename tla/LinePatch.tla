------------------------------- MODULE LinePatch -------------------------------
(***************************************************************************)
(* Line-range patches of a transcript: how the broker cuts one             *)
(* (transcript.rs splice) and how a copy is brought up to date with it     *)
(* (transcript.rs splice for the broker's own lines, model.lua             *)
(* apply_transcript_patch for the editor's).                               *)
(*                                                                         *)
(* Line positions are counted from 0, as in the code: a patch replaces the *)
(* lines start, ..., end - 1.                                              *)
(***************************************************************************)
EXTENDS Integers, Sequences

(* How many lines old and new have in common at their start: zip and       *)
(* take_while(before == after).                                            *)
CommonStart(old, new, p) ==
  /\ p <= Len(old)
  /\ p <= Len(new)
  /\ \A i \in 1 .. p : old[i] = new[i]
  /\ p < Len(old) /\ p < Len(new) => old[p + 1] # new[p + 1]

(* And at their end, among what is left after the first p lines.           *)
CommonEnd(old, new, p, s) ==
  /\ s <= Len(old) - p
  /\ s <= Len(new) - p
  /\ \A i \in 0 .. s - 1 : old[Len(old) - i] = new[Len(new) - i]
  /\ s < Len(old) - p /\ s < Len(new) - p => old[Len(old) - s] # new[Len(new) - s]

(* Lines start .. end - 1 become new; p and s of them need no change.      *)
Trimmed(start, end, new, p, s) ==
  [start |-> start + p, end |-> end - s, lines |-> SubSeq(new, p + 1, Len(new) - s)]

(* The lines a patch leads to.                                             *)
Patched(lines, patch) ==
  SubSeq(lines, 1, patch.start) \o patch.lines
    \o SubSeq(lines, patch.end + 1, Len(lines))
=============================================================================
