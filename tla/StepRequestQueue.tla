--------------------------- MODULE StepRequestQueue ---------------------------
(***************************************************************************)
(* The queue of step requests a turn owns                                  *)
(* (packages/agent-core/src/agent/loop/stepRequestQueue.ts), as pure       *)
(* operators on sequences.  A batch is one driver, the first request that  *)
(* is not mergeable (the first request when all are), and every mergeable  *)
(* request, folded into the driver's step.  The other requests stay queued.*)
(*                                                                         *)
(* Keep is written without recursion so that proofs can be made about the  *)
(* modules that use it.                                                    *)
(***************************************************************************)
EXTENDS Integers, Sequences, FiniteSets

Items(q) == {q[i] : i \in DOMAIN q}

\* The positions, among the first m of q, whose item is in S.
Kept(q, S, m) == {i \in 1..m : q[i] \in S}

\* The subsequence of the items of q that are in S.
Keep(q, S) ==
    [k \in 1..Cardinality(Kept(q, S, Len(q))) |->
        q[CHOOSE i \in 1..Len(q) : q[i] \in S /\ Cardinality(Kept(q, S, i)) = k]]

\* StepRequestQueue.hasPendingRequests: some item is not aborted.
HasPendingRequests(q, aborted) == ~(Items(q) \subseteq aborted)

\* The driver of the next batch of a queue without aborted requests.
Driver(q, mergeable) ==
    IF Items(q) \subseteq mergeable
    THEN Head(q)
    ELSE Head(Keep(q, Items(q) \ mergeable))

Merged(q, mergeable) == Keep(q, mergeable \ {Driver(q, mergeable)})

Rest(q, mergeable) == Keep(q, Items(q) \ (mergeable \cup {Driver(q, mergeable)}))

\* StepRequestQueue.takeNextBatch: aborted requests are discarded first.
TakeNextBatch(q, mergeable, aborted) ==
    LET live == Keep(q, Items(q) \ aborted)
    IN  [driver |-> Driver(live, mergeable),
         merged |-> Merged(live, mergeable),
         rest   |-> Rest(live, mergeable)]
===============================================================================
