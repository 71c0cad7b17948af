----------------------------- MODULE CallOrder -----------------------------
(* What the scheduler of tool calls promises: a call starts once every         *)
(* conflicting call before it has finished, and only then.                     *)
EXTENDS Naturals

CONSTANTS Calls, Conflicts

VARIABLES waiting, started, finished

vars == <<waiting, started, finished>>

(* The calls before i, in provider order, that i may not overlap. *)
Before(i) == {j \in Calls : j < i /\ <<i, j>> \in Conflicts}

Init == waiting = {} /\ started = {} /\ finished = {}

(* Calls may arrive, a call may finish, and those that nothing holds back start. *)
Step(arrived, ended, starting) ==
    /\ arrived \subseteq Calls \ (waiting \cup started \cup finished)
    /\ ended \subseteq started
    /\ starting \subseteq waiting \cup arrived
    /\ finished' = finished \cup ended
    /\ \A i \in starting : Before(i) \subseteq finished'
    /\ waiting' = (waiting \cup arrived) \ starting
    /\ started' = (started \ ended) \cup starting

Next == \E arrived, ended, starting \in SUBSET Calls : Step(arrived, ended, starting)

Spec == Init /\ [][Next]_vars
=============================================================================
