------------------------------- MODULE Session -------------------------------
(***************************************************************************)
(* A session: the prompt queue and the turns of the main agent, a second   *)
(* agent with turns of its own, and the interaction kernel they share,     *)
(* where tools park approvals, questions and user tools until somebody     *)
(* answers (interactionService.ts).                                        *)
(*                                                                         *)
(* Simplifications.  The second agent runs one turn at a time, numbered    *)
(* from 0 like the main agent's (each agent has its own TurnModel), and is *)
(* not aborted or restarted on its own.  Every request belongs to a turn   *)
(* and has an identifier of its own; an answer is any response but a       *)
(* cancellation.  The list of recently resolved requests is left out: it   *)
(* answers a query and changes nothing.                                    *)
(***************************************************************************)
EXTENDS PromptQueue

CONSTANTS
    Calls,        \* the tool calls that ask somebody
    MaxSubTurns   \* bound on the turns of the second agent

VARIABLES
    subTurn,      \* the second agent's active turn, or NoTurn
    subNext,      \* its next identifier
    request,      \* what each call asked: its agent, its turn and its kind
    answer,       \* what the call waits for or has received
    parked        \* the keys of the kernel's pending map

kernelVars == <<request, answer, parked>>
subVars == <<subTurn, subNext>>
vars == <<queueVars, subVars, kernelVars>>

Agents == {"main", "sub"}
\* A user tool's request is treated like a question's.
Kinds == {"approval", "question"}

TurnOf(agent) == IF agent = "main" THEN active ELSE subTurn

Waiting(agent) == {c \in Calls : answer[c] = "waiting" /\ request[c].agent = agent}

\* Mutant: the entries are deleted and their promises forgotten.
CancelPendingUnresolved(id) ==
    /\ parked' = {c \in parked : request[c].turn # id}
    /\ UNCHANGED <<answer, request>>

\* cancelPendingForTurn: every parked request that names this turn
CancelPendingForTurn(id) ==
    LET ended == {c \in parked : request[c].turn = id}
    IN /\ parked' = parked \ ended
       /\ answer' = [c \in Calls |-> IF c \in ended /\ answer[c] = "waiting"
                                     THEN "cancelled" ELSE answer[c]]
       /\ UNCHANGED request

\* Mutant: an approval is awaited without the signal.
AbortCallsButApprovals(cs, req, ans, park) ==
    /\ parked' = park \ {c \in cs : req[c].kind # "approval"}
    /\ answer' = [c \in Calls |-> IF c \in cs /\ req[c].kind # "approval" THEN "aborted" ELSE ans[c]]

\* The abort listeners of the calls cs: each caller gives up; a question
\* responds to its own request, an approval stays in the kernel.
AbortCalls(cs, req, ans, park) ==
    /\ parked' = park \ {c \in cs : req[c].kind # "approval"}
    /\ answer' = [c \in Calls |-> IF c \in cs THEN "aborted" ELSE ans[c]]

\* request: park, and the caller's look at its signal
Ask(c, agent, kind) ==
    LET req == [request EXCEPT ![c] = [agent |-> agent, turn |-> TurnOf(agent), kind |-> kind]]
        gone == IF agent = "main" /\ aborted THEN {c} ELSE {}
    IN /\ answer[c] = "unasked"
       /\ TurnOf(agent) # NoTurn
       /\ request' = req
       /\ AbortCalls(gone, req, [answer EXCEPT ![c] = "waiting"], parked \cup {c})
       /\ UNCHANGED <<queueVars, subVars>>

\* respond
Respond(c) ==
    /\ c \in parked
    /\ parked' = parked \ {c}
    /\ answer' = [answer EXCEPT ![c] = IF @ = "waiting" THEN "answered" ELSE @]
    /\ UNCHANGED <<request, queueVars, subVars>>

\* Mutant: nobody listens to 'turn.ended'.
MainTurnEndsUnheard ==
    /\ Waiting("main") = {}
    /\ EndTurn
    /\ UNCHANGED <<subVars, kernelVars>>

\* The main agent's turn ends when no call of it waits; 'turn.ended' is
\* published before the next turn starts and the prompt is settled.
MainTurnEnds ==
    /\ Waiting("main") = {}
    /\ EndTurn
    /\ CancelPendingForTurn(active)
    /\ UNCHANGED subVars

MainTurnAborts ==
    /\ AbortActive
    /\ AbortCalls(Waiting("main"), request, answer, parked)
    /\ UNCHANGED <<request, subVars>>

SubStarts ==
    /\ subTurn = NoTurn
    /\ subNext < MaxSubTurns
    /\ subTurn' = subNext
    /\ subNext' = subNext + 1
    /\ UNCHANGED <<queueVars, kernelVars>>

SubEnds ==
    /\ subTurn # NoTurn
    /\ Waiting("sub") = {}
    /\ subTurn' = NoTurn
    /\ CancelPendingForTurn(subTurn)
    /\ UNCHANGED <<queueVars, subNext>>

\* The kernel's map and its promises are never restored.
SessionRestarts(n) ==
    /\ Restart(n)
    /\ subTurn' = NoTurn
    /\ parked' = {}
    /\ answer' = [c \in Calls |-> IF answer[c] = "waiting" THEN "lost" ELSE answer[c]]
    /\ UNCHANGED <<subNext, request>>

QueueOnly ==
    /\ \/ \E p \in Prompts : Enqueue(p) \/ Steer(p) \/ AbortPending(p)
       \/ HookReturns
       \/ \E id \in queued : AbortQueued(id)
       \/ OtherTurn
       \/ BeginCompaction
       \/ CancelCompaction
       \/ EndCompaction
    /\ UNCHANGED <<subVars, kernelVars>>

SessionInit ==
    /\ QueueInit
    /\ subTurn = NoTurn /\ subNext = 0
    /\ request = [c \in Calls |-> None]
    /\ answer = [c \in Calls |-> "unasked"]
    /\ parked = {}

SessionNext ==
    \/ QueueOnly
    \/ MainTurnAborts
    \/ MainTurnEnds
    \/ \E c \in Calls : Respond(c) \/ \E a \in Agents, k \in Kinds : Ask(c, a, k)
    \/ SubStarts
    \/ SubEnds
    \/ \E n \in 1..Len(log) : SessionRestarts(n)

SafetySpec == SessionInit /\ [][SessionNext]_vars

(***************************************************************************)
(* Hooks return, compactions end, and a turn in which nobody is asked      *)
(* ends; the user owes no answer.                                          *)
(***************************************************************************)
Fairness ==
    /\ WF_vars(HookReturns /\ UNCHANGED <<subVars, kernelVars>>)
    /\ WF_vars(EndCompaction /\ UNCHANGED <<subVars, kernelVars>>)
    /\ WF_vars(MainTurnEnds)
    /\ WF_vars(SubEnds)

Spec == SafetySpec /\ Fairness
-----------------------------------------------------------------------------
(***************************************************************************)
(* Every step of a session is a step of the clock of turn identifiers, or  *)
(* leaves it alone (promptService.ts, loopService.ts:245, 451), so what    *)
(* TurnClockProofs shows of every clock holds of a session.                *)
(***************************************************************************)
ImplementsTurnClock == ClockSpec

(***************************************************************************)
(* A call that waits can be answered: its request is still in the map,     *)
(* whatever was answered, cancelled or aborted around it                   *)
(* (interactionService.ts:94, 121, 160).                                   *)
(***************************************************************************)
NoRequestIsForgotten == \A c \in Calls : answer[c] = "waiting" => c \in parked

(***************************************************************************)
(* No request outlives its turn in the kernel, where a client would show   *)
(* it and an answer would reach nobody: those an aborted turn leaves are   *)
(* removed when it ends (agentLifecycleService.ts:107).                    *)
(***************************************************************************)
EndedTurnHasNoPending == \A c \in parked : TurnOf(request[c].agent) = request[c].turn

(***************************************************************************)
(* Only the end of its own turn cancels a call ("cancelPendingForTurn      *)
(* clears pending interactions whose turn has ended",                      *)
(* test/session/interaction/interaction.test.ts:170).                      *)
(***************************************************************************)
CancelsOnlyEndedTurns ==
    \A c \in Calls : answer[c] = "cancelled" => TurnOf(request[c].agent) # request[c].turn

(***************************************************************************)
(* Every prompt that was enqueued is settled or lost in a restart, unless  *)
(* a call waits for the user without end: the queue restarts itself after  *)
(* every turn, hook, failure and compaction (promptService.ts:207, 239).   *)
(***************************************************************************)
PromptsSettle ==
    ([]<>(Waiting("main") = {})) =>
        \A p \in Prompts : state[p] \in {"pending", "running", "steered"}
                              ~> state[p] \in {"settled", "lost"}

(***************************************************************************)
(* An aborted turn ends although nobody answers: the abort reaches every   *)
(* caller that waits (toolApprovalService.ts:138, questionService.ts:34,   *)
(* userToolService.ts:143).                                                *)
(***************************************************************************)
AbortedTurnsEnd == aborted ~> ~aborted
=============================================================================
