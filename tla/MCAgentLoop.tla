------------------------------ MODULE MCAgentLoop ------------------------------
(***************************************************************************)
(* Instances of AgentLoop.  The requests are of the kinds the code         *)
(* constructs:                                                             *)
(*   prompt    PromptStepRequest: newTurn                                  *)
(*   goal      the continuation of a goal: newTurn                         *)
(*   steer     the notification of a finished task: mergeable,             *)
(*             agent-scoped, activeOrNewTurn                               *)
(*   nudge     SteerStepRequest with its default admission, activeTurnOnly *)
(*   reminder  ContinuationStepRequest with the defaults: activeOrNextTurn,*)
(*             no turnSeed                                                 *)
(***************************************************************************)
EXTENDS AgentLoop, TLC

CONSTANTS prompt, goal, steer, nudge, reminder, w1

MCMergeable  == Requests \cap {steer, nudge}
MCTurnScoped == Requests \cap {prompt, goal, reminder}
MCSeeded     == Requests \cap {prompt, goal, steer, nudge}

AdmissionOfKind ==
    prompt :> "newTurn" @@ goal :> "newTurn" @@ steer :> "activeOrNewTurn" @@
    nudge :> "activeTurnOnly" @@ reminder :> "activeOrNextTurn"

MCAdmission == [r \in Requests |-> AdmissionOfKind[r]]
================================================================================
