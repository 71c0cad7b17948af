------------------------------- MODULE TurnQueue -------------------------------
(***************************************************************************)
(* What the agent loop promises about turns, whatever happens to the step  *)
(* requests inside them: turns are numbered in the order they are created, *)
(* run one at a time in that order, end once, and every turn that was      *)
(* created ends (the contract of Turn in                                   *)
(* packages/agent-core/src/agent/loop/loop.ts).                            *)
(***************************************************************************)
EXTENDS Integers

CONSTANT MaxTurns      \* bound: the number of turns ever created

TurnIds == 0..(MaxTurns - 1)

VARIABLE state         \* [TurnIds -> the state of the turn, "none" before it exists]

EndState == {"completed", "failed", "cancelled"}

Open(t) == state[t] \in {"queued", "running"}

Init == state = [t \in TurnIds |-> "none"]

\* What one turn may do in one step of the loop: be created, and start at once
\* when the loop is idle; start; end; be cancelled while it waits.
Moves ==
    {<<"none", "queued">>, <<"none", "running">>, <<"queued", "running">>,
     <<"queued", "cancelled">>} \cup ({"running"} \X EndState)

\* A turn is created after all the turns with a smaller identifier.
CreatedInOrder(t) ==
    state[t] = "none" /\ state'[t] # "none" =>
        \A u \in 0..(t - 1) : state[u] # "none"

\* A turn starts when no other runs and no older one waits.
StartsInOrder(t) ==
    state[t] # "running" /\ state'[t] = "running" =>
        \A u \in TurnIds \ {t} :
            /\ state'[u] # "running"
            /\ state'[u] = "queued" => t < u

Next ==
    \A t \in TurnIds :
        /\ state'[t] # state[t] => <<state[t], state'[t]>> \in Moves
        /\ CreatedInOrder(t)
        /\ StartsInOrder(t)

SafetySpec == Init /\ [][Next]_state

EveryTurnEnds == \A t \in TurnIds : Open(t) ~> state[t] \in EndState

Spec == SafetySpec /\ EveryTurnEnds
================================================================================
