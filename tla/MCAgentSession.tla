--------------------------- MODULE MCAgentSession ---------------------------
(* Small instances of AgentSession: which client requests each run enables.  *)
EXTENDS AgentSession

(* Prompts sent and queued, interrupts, and the client's answers. *)
TurnRequests == {"Prompt", "Queue", "Interrupt", "Approval"}

(* Calls made while a turn runs, during which messages are collected. *)
CallRequests == {"Prompt", "Steer", "History", "Question"}

(* Requests whose effects must settle without an answer from the client. *)
UnansweredRequests == {"Prompt", "Queue", "Interrupt"}

PromptAndHistory == {"Prompt", "History"}

PromptAndSteer == {"Prompt", "Steer"}

=============================================================================
