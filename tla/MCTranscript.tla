----------------------------- MODULE MCTranscript -----------------------------
(***************************************************************************)
(* User texts of one and of two lines; a history that is empty, and one    *)
(* with a system message and a fence left open.                            *)
(***************************************************************************)
EXTENDS Transcript

MCUserTexts == {<<TextLine("plain", 1)>>,
                <<TextLine("plain", 1), TextLine("plain", 0)>>}

MCHistories ==
  {<<>>,
   <<[role |-> "user", text |-> <<TextLine("plain", 1)>>],
     [role |-> "system", text |-> <<TextLine("plain", 1)>>],
     [role |-> "assistant",
      text |-> <<TextLine("fence", 1), TextLine("plain", 1), TextLine("plain", 1)>>]>>}
=============================================================================
