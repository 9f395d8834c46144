------------------------------ MODULE TaskReader ------------------------------
(***************************************************************************)
(* The provider tasks' use of the framing.  run_codex and run_claude       *)
(* (runtime.rs) read the next event in a branch of tokio::select!, next to *)
(* the agent's commands and the callbacks' deadlines, and drop the pending *)
(* call whenever another branch completes first.  The partial line is a    *)
(* local of the dropped call; the bytes it consumed are gone from the      *)
(* BufReader.                                                              *)
(***************************************************************************)
EXTENDS Framing

(* A command or a deadline completes while the call waits for the pipe     *)
(* (fill_buf pending, so the buffer is empty); the next round of the loop  *)
(* calls again.                                                            *)
Cancel ==
  /\ calling
  /\ consumed = fetched
  /\ calling' = FALSE
  /\ UNCHANGED <<written, newlines, closed, received, outcome,
                 fetched, consumed, first>>

TaskNext == Next \/ Cancel

TaskSpec == Init /\ [][TaskNext]_vars /\ WF_vars(ReaderStep)

(* What the task hands on is lossless: docs/spec.md says it of the         *)
(* worker's stream.  A line read in two polls, with a command in between,  *)
(* loses its head.                                                         *)
TaskFramesAreWhole == FramesAreWholeLines
=============================================================================
