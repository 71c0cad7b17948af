------------------------------- MODULE AgentLoop -------------------------------
(***************************************************************************)
(* The agent loop of agent-core                                            *)
(* (packages/agent-core/src/agent/loop/loopService.ts): step requests are  *)
(* admitted into turns, turns run one at a time, and each turn drains its  *)
(* own queue of step requests one batch per LLM step.                      *)
(*                                                                         *)
(* JavaScript runs to completion, so an action is the code between two     *)
(* awaits of one call chain, with everything that chain calls: enqueue on  *)
(* an idle loop creates the turn, starts it and materializes its first     *)
(* batch in one step.  The loop of the running turn is suspended at one of *)
(* four points (run.phase):                                                *)
(*    "request"   in the step itself: onWillBeginStep, the LLM request and *)
(*                the tool calls, up to finishStep                         *)
(*    "after"     in the onDidFinishStep hooks                             *)
(*    "recover"   in a registered error handler                            *)
(*    "returned"  run() has returned, runTurn has not been resumed yet     *)
(*                                                                         *)
(* Simplifications.  A request is a model value with the attributes below. *)
(* Telemetry, traces, streamed text and the events on the bus are left out.*)
(* A promise settles in the step that resolves it.  releaseQuiescence      *)
(* admits the held requests in a loop that never awaits: `releasing` holds *)
(* the requests of that loop still to be admitted, and no other action is  *)
(* enabled until it is empty.                                              *)
(***************************************************************************)
EXTENDS StepRequestQueue

CONSTANTS
    Requests,     \* the step requests the callers ever enqueue
    Mergeable,    \* ... folded into another request's step (StepRequest.mergeable)
    TurnScoped,   \* ... aborted when the run of their turn ends (StepRequest.turnScoped)
    Admission,    \* [Requests -> AdmissionKind] (StepRequest.admission)
    Seeded,       \* ... that have a turnSeed, hence may start a turn
    NoRequest,
    MaxSteps,     \* loop_control.max_steps_per_turn
    MaxTurns,     \* bound: turn identifiers that can be reserved
    MaxLeases,    \* bound: quiescence leases held at a time
    Waiters       \* the callers of settled()

AdmissionKind == {"newTurn", "activeOrNewTurn", "activeOrNextTurn", "activeTurnOnly"}

ASSUME RequestsAssumption ==
    /\ Mergeable \subseteq Requests
    /\ TurnScoped \subseteq Requests
    /\ Seeded \subseteq Requests
    /\ Admission \in [Requests -> AdmissionKind]
    /\ NoRequest \notin Requests

ASSUME BoundsAssumption ==
    /\ MaxSteps \in Nat \ {0}
    /\ MaxTurns \in Nat
    /\ MaxLeases \in Nat

TurnIds == 0..(MaxTurns - 1)
NoTurn  == -1

VARIABLES
    req,           \* per request: its state, its assignment promise, its step
    turn,          \* per turn id: the TurnJob
    nextTurnId,    \* the next identifier reserveTurnId returns
    pendingTurns,  \* the turns waiting to run, oldest first
    active,        \* activeTurnJob
    run,           \* the LoopRuntime of the active turn
    standalone,    \* standaloneStepQueue
    held,          \* heldAdmissions
    releasing,     \* the held admissions releaseQuiescence has yet to admit
    quiescence,    \* quiescenceDepth
    waiters,       \* settleWaiters
    disposing,
    context        \* the requests whose messages were appended, in order

vars == <<req, turn, nextTurnId, pendingTurns, active, run, standalone, held,
          releasing, quiescence, waiters, disposing, context>>

--------------------------------------------------------------------------------
RequestState == {"new", "pending", "materialized", "aborted"}
PromiseState == {"none", "pending", "resolved", "rejected"}
StepState    == {"none", "queued", "running", "completed", "cancelled"}
StepResult   == {"none", "pending", "completed", "cancelled"}
TurnState    == {"none", "queued", "running", "completed", "failed", "cancelled"}
EndState     == {"completed", "failed", "cancelled"}
Phase        == {"none", "request", "after", "recover", "returned"}

RequestRecord ==
    [state : RequestState, assigned : PromiseState, turn : TurnIds \cup {NoTurn},
     step : StepState, stopped : BOOLEAN, result : StepResult]

TurnRecord ==
    [state : TurnState, request : Requests \cup {NoRequest}, queue : Seq(Requests),
     aborted : BOOLEAN, ready : PromiseState]

RunRecord ==
    [phase : Phase, driver : Requests \cup {NoRequest}, steps : 0..MaxSteps,
     filtered : BOOLEAN, result : EndState \cup {"none"}]

Idle == [phase |-> "none", driver |-> NoRequest, steps |-> 0,
         filtered |-> FALSE, result |-> "none"]

Init ==
    /\ req = [r \in Requests |->
                [state |-> "new", assigned |-> "none", turn |-> NoTurn,
                 step |-> "none", stopped |-> FALSE, result |-> "none"]]
    /\ turn = [t \in TurnIds |->
                [state |-> "none", request |-> NoRequest, queue |-> << >>,
                 aborted |-> FALSE, ready |-> "none"]]
    /\ nextTurnId = 0
    /\ pendingTurns = << >>
    /\ active = NoTurn
    /\ run = Idle
    /\ standalone = << >>
    /\ held = << >>
    /\ releasing = << >>
    /\ quiescence = 0
    /\ waiters = {}
    /\ disposing = FALSE
    /\ context = << >>

--------------------------------------------------------------------------------
(* Operations on one request record and on the table of requests.          *)

Aborted(rq) == {r \in Requests : rq[r].state = "aborted"}

\* StepRequest.abort: only a pending request can be aborted.
Abort(q) == IF q.state = "pending" THEN [q EXCEPT !.state = "aborted"] ELSE q

\* rejectAssignment: a promise settles once.
RejectAssignment(q) ==
    IF q.assigned = "pending" THEN [q EXCEPT !.assigned = "rejected"] ELSE q

\* Mutant of StopStep: a step that is already final is cancelled again.
StopStepAgain(q) ==
    IF q.step = "none" THEN q
    ELSE [Abort(q) EXCEPT !.step = "cancelled", !.stopped = TRUE, !.result = "cancelled"]

\* cancelStep: a step in a final state is left alone; the result promise keeps
\* the value it was first resolved with.
StopStep(q) ==
    IF q.step \in {"queued", "running"}
    THEN [Abort(q) EXCEPT !.step = "cancelled", !.stopped = TRUE,
                          !.result = IF @ = "pending" THEN "cancelled" ELSE @]
    ELSE q

\* assignStep of a request that has no step yet: the step is queued and the
\* assignment resolved.
Assign(q, t) ==
    [q EXCEPT !.assigned = "resolved", !.turn = t,
              !.step = "queued", !.stopped = FALSE, !.result = "pending"]

\* Mutant of MaybeSettle: the active turn is forgotten.
MaybeSettleWhileActive(act, pending, hl) ==
    waiters' = IF pending = << >> /\ hl = << >> THEN {} ELSE waiters

\* Mutant of MaybeSettle: it is called before the active turn is cleared.
MaybeSettleTooEarly(act, pending, hl) ==
    waiters' = IF active = NoTurn /\ pending = << >> /\ hl = << >> THEN {} ELSE waiters

\* maybeSettle, on the loop state it is called in.
MaybeSettle(act, pending, hl) ==
    waiters' = IF act = NoTurn /\ pending = << >> /\ hl = << >> THEN {} ELSE waiters

--------------------------------------------------------------------------------
(* The run loop of a turn t, from the tables rq and tr the caller has      *)
(* updated so far; n is the number of steps begun.                         *)

\* run() returns: its finally block aborts the turn-scoped requests left in the
\* queue and discards the aborted ones.
RunReturns(rq, tr, t, n, result) ==
    LET rq1 == [r \in Requests |->
                  IF r \in Items(tr[t].queue) \cap TurnScoped THEN Abort(rq[r]) ELSE rq[r]]
    IN  /\ req' = rq1
        /\ turn' = [tr EXCEPT ![t].queue = Keep(@, Requests \ Aborted(rq1))]
        /\ run' = [phase |-> "returned", driver |-> NoRequest, steps |-> n,
                   filtered |-> FALSE, result |-> result]
        /\ context' = context

\* Mutant of TakeStep: requests are materialized whatever their state, so a retry
\* appends its message again.
TakeStepAppendsAgain(rq, tr, t, n) ==
    \E batch \in {TakeNextBatch(tr[t].queue, Mergeable, Aborted(rq))} :
    LET items == <<batch.driver>> \o batch.merged
    IN  /\ req' = [r \in Requests |->
                     IF r \in Items(items) THEN [rq[r] EXCEPT !.state = "materialized"] ELSE rq[r]]
        /\ turn' = [tr EXCEPT ![t].queue = batch.rest]
        /\ run' = [phase |-> "request", driver |-> batch.driver, steps |-> n + 1,
                   filtered |-> FALSE, result |-> "none"]
        /\ context' = context \o items

\* The rest of beginLoopStep once the turn may take a step: the batch leaves the
\* queue, the driver's step runs under a fresh signal, and every request of the
\* batch still pending is materialized, driver first.  (\E over a singleton makes
\* TLC compute the batch once.)
TakeStep(rq, tr, t, n) ==
    \E batch \in {TakeNextBatch(tr[t].queue, Mergeable, Aborted(rq))} :
    LET items == <<batch.driver>> \o batch.merged
        fresh == {r \in Items(items) : rq[r].state = "pending"}
        rq1   == [rq EXCEPT ![batch.driver].step = "running",
                            ![batch.driver].stopped = FALSE]
    IN  /\ req' = [r \in Requests |->
                     IF r \in fresh THEN [rq1[r] EXCEPT !.state = "materialized"] ELSE rq1[r]]
        /\ turn' = [tr EXCEPT ![t].queue = batch.rest]
        /\ run' = [phase |-> "request", driver |-> batch.driver, steps |-> n + 1,
                   filtered |-> FALSE, result |-> "none"]
        /\ context' = context \o Keep(items, fresh)

\* Mutant of BeginLoopStep: one step too many.
BeginLoopStepOffByOne(rq, tr, t, n) ==
    IF tr[t].aborted
    THEN RunReturns(rq, tr, t, n, "cancelled")
    ELSE IF ~HasPendingRequests(tr[t].queue, Aborted(rq))
    THEN RunReturns(rq, tr, t, n, "completed")
    ELSE IF n > MaxSteps
    THEN RunReturns(rq, tr, t, n, "failed")
    ELSE TakeStep(rq, tr, t, n)

\* Mutant of BeginLoopStep: the turn's signal is not looked at.
BeginLoopStepIgnoresAbort(rq, tr, t, n) ==
    IF ~HasPendingRequests(tr[t].queue, Aborted(rq))
    THEN RunReturns(rq, tr, t, n, "completed")
    ELSE IF n >= MaxSteps
    THEN RunReturns(rq, tr, t, n, "failed")
    ELSE TakeStep(rq, tr, t, n)

\* beginLoopStep, with the handling of the errors it throws itself: no registered
\* handler matches the abort of the turn or the step limit.
BeginLoopStep(rq, tr, t, n) ==
    IF tr[t].aborted
    THEN RunReturns(rq, tr, t, n, "cancelled")
    ELSE IF ~HasPendingRequests(tr[t].queue, Aborted(rq))
    THEN RunReturns(rq, tr, t, n, "completed")
    ELSE IF n >= MaxSteps
    THEN RunReturns(rq, tr, t, n, "failed")
    ELSE TakeStep(rq, tr, t, n)

\* handleLoopCancellation, once its condition holds: a step cancelled on its own
\* lets the turn continue, anything else ends the turn.
HandleLoopCancellation ==
    IF ~turn[active].aborted /\ req[run.driver].step = "cancelled"
    THEN BeginLoopStep(req, turn, active, run.steps)
    ELSE RunReturns(req, turn, active, run.steps, "cancelled")

\* The signal of the step in progress: the turn's or the step's own.
SignalAborted == turn[active].aborted \/ req[run.driver].stopped

--------------------------------------------------------------------------------
(* Starting turns.                                                         *)

\* Mutant of StartTurn: the newest of the pending turns is started.
StartTurnNewest(rq, tr, pending) ==
    LET t   == pending[Len(pending)]
        tr1 == [tr EXCEPT ![t].state = "running"]
    IN  /\ pendingTurns' = SubSeq(pending, 1, Len(pending) - 1)
        /\ active' = t
        /\ BeginLoopStep(rq, tr1, t, 0)

\* startTurn of the first of `pending`.  prepareTurnConfig may throw, which ends
\* the turn before run() is entered.
StartTurn(rq, tr, pending) ==
    LET t   == Head(pending)
        tr1 == [tr EXCEPT ![t].state = "running"]
    IN  /\ pendingTurns' = Tail(pending)
        /\ active' = t
        /\ \/ BeginLoopStep(rq, tr1, t, 0)
           \/ /\ req' = rq
              /\ turn' = tr1
              /\ run' = [Idle EXCEPT !.phase = "returned", !.result = "failed"]
              /\ context' = context

\* pumpTurns, on the turns, the active turn and the quiescence depth its caller
\* has established.
PumpTurns(rq, tr, pending, act, depth) ==
    IF disposing \/ depth > 0 \/ act # NoTurn \/ pending = << >>
    THEN /\ req' = rq
         /\ turn' = tr
         /\ pendingTurns' = pending
         /\ active' = act
         /\ run' = IF act = NoTurn THEN Idle ELSE run
         /\ context' = context
         /\ IF disposing \/ depth > 0 \/ act # NoTurn
            THEN UNCHANGED waiters
            ELSE MaybeSettle(act, pending, held)
    ELSE /\ StartTurn(rq, tr, pending)
         /\ UNCHANGED waiters

\* Mutant of CreateAndQueueTurn: the standalone requests are drained and lost.
CreateAndQueueTurnLosesStandalone(rq, r, depth) ==
    LET t   == nextTurnId
        job == [state |-> "queued", request |-> r, queue |-> <<r>>,
                aborted |-> FALSE, ready |-> "pending"]
    IN  /\ t < MaxTurns
        /\ nextTurnId' = t + 1
        /\ standalone' = << >>
        /\ PumpTurns([rq EXCEPT ![r] = Assign(@, t)], [turn EXCEPT ![t] = job],
                     Append(pendingTurns, t), active, depth)

\* createAndQueueTurn: the turn gets the request and the standalone requests that
\* are not aborted, joins the pending turns, and the loop is pumped.
CreateAndQueueTurn(rq, r, depth) ==
    \E moved \in {Keep(standalone, Requests \ Aborted(rq))} :
    LET t     == nextTurnId
        steps == {r} \cup Items(moved)
        rq1   == [x \in Requests |-> IF x \in steps THEN Assign(rq[x], t) ELSE rq[x]]
        job   == [state |-> "queued", request |-> r, queue |-> <<r>> \o moved,
                  aborted |-> FALSE, ready |-> "pending"]
    IN  /\ t < MaxTurns
        /\ nextTurnId' = t + 1
        /\ standalone' = << >>
        /\ PumpTurns(rq1, [turn EXCEPT ![t] = job], Append(pendingTurns, t), active, depth)

\* The admissions that throw: the assignment is rejected.
CannotAdmit(r) ==
    \/ Admission[r] = "activeTurnOnly" /\ active = NoTurn
    \/ /\ r \notin Seeded
       /\ Admission[r] = "newTurn" \/ (Admission[r] = "activeOrNewTurn" /\ active = NoTurn)

\* admit, for a request that can be admitted.
AdmitNewTurn(rq, r) ==
    /\ Admission[r] = "newTurn" \/ (Admission[r] = "activeOrNewTurn" /\ active = NoTurn)
    /\ r \in Seeded
    /\ CreateAndQueueTurn(rq, r, 0)

AdmitStandalone(rq, r) ==
    /\ Admission[r] = "activeOrNextTurn" /\ active = NoTurn
    /\ standalone' = Append(standalone, r)
    /\ req' = rq
    /\ UNCHANGED <<turn, nextTurnId, pendingTurns, active, run, context>>

AdmitActive(rq, r) ==
    /\ Admission[r] # "newTurn" /\ active # NoTurn
    /\ req' = [rq EXCEPT ![r] = Assign(rq[r], active)]
    /\ turn' = [turn EXCEPT ![active].queue = Append(@, r)]
    /\ UNCHANGED <<nextTurnId, pendingTurns, active, run, standalone, context>>

--------------------------------------------------------------------------------
(* The operations callers invoke.                                          *)

\* The request object as enqueue records it.
Sent(r) == [req EXCEPT ![r].state = "pending", ![r].assigned = "pending"]

CanEnqueue(r) == releasing = << >> /\ ~disposing /\ req[r].state = "new"

\* Mutant of EnqueueNow: quiescence is not looked at.
EnqueueNowUnderLease(r) ==
    /\ CanEnqueue(r)
    /\ \/ AdmitNewTurn(Sent(r), r)
       \/ AdmitStandalone(Sent(r), r) /\ UNCHANGED waiters
       \/ AdmitActive(Sent(r), r) /\ UNCHANGED waiters
    /\ UNCHANGED <<held, releasing, quiescence, disposing>>

\* enqueue of a request that is admitted at once.
EnqueueNow(r) ==
    /\ CanEnqueue(r) /\ quiescence = 0
    /\ \/ AdmitNewTurn(Sent(r), r)
       \/ AdmitStandalone(Sent(r), r) /\ UNCHANGED waiters
       \/ AdmitActive(Sent(r), r) /\ UNCHANGED waiters
    /\ UNCHANGED <<held, releasing, quiescence, disposing>>

\* enqueue that throws: the caller gets no receipt.
EnqueueThrows(r) ==
    /\ CanEnqueue(r) /\ quiescence = 0
    /\ CannotAdmit(r)
    /\ req' = [Sent(r) EXCEPT ![r].assigned = "rejected"]
    /\ UNCHANGED <<turn, nextTurnId, pendingTurns, active, run, standalone, held,
                   releasing, quiescence, waiters, disposing, context>>

\* enqueue while a quiescence lease is held.
EnqueueHeld(r) ==
    /\ CanEnqueue(r) /\ quiescence > 0
    /\ req' = Sent(r)
    /\ held' = Append(held, r)
    /\ UNCHANGED <<turn, nextTurnId, pendingTurns, active, run, standalone,
                   releasing, quiescence, waiters, disposing, context>>

\* hasPendingRequests: the requests still to be worked on, anywhere in the loop.
LoopHasPendingRequests ==
    \/ active # NoTurn /\ HasPendingRequests(turn[active].queue, Aborted(req))
    \/ HasPendingRequests(standalone, Aborted(req))
    \/ pendingTurns # << >>
    \/ ~(Items(held) \subseteq Aborted(req))

\* tryAcquireQuiescence, when it grants the lease.
AcquireQuiescence ==
    /\ releasing = << >> /\ ~disposing
    /\ active = NoTurn /\ ~LoopHasPendingRequests
    /\ quiescence < MaxLeases
    /\ quiescence' = quiescence + 1
    /\ UNCHANGED <<req, turn, nextTurnId, pendingTurns, active, run, standalone, held,
                   releasing, waiters, disposing, context>>

\* Mutant of ReleaseQuiescence: the held admissions stay held.
ReleaseQuiescenceOnly ==
    /\ releasing = << >> /\ quiescence > 0
    /\ quiescence' = quiescence - 1
    /\ UNCHANGED <<req, turn, nextTurnId, pendingTurns, active, run, standalone, held,
                   releasing, waiters, disposing, context>>

\* releaseQuiescence, up to its loop over the held admissions.
ReleaseQuiescence ==
    /\ releasing = << >> /\ quiescence > 0
    /\ quiescence' = quiescence - 1
    /\ IF quiescence = 1 /\ ~disposing
       THEN /\ PumpTurns(req, turn, pendingTurns, active, 0)
            /\ releasing' = held
            /\ held' = << >>
       ELSE UNCHANGED <<req, turn, pendingTurns, active, run, waiters, context, held, releasing>>
    /\ UNCHANGED <<nextTurnId, standalone, disposing>>

\* One iteration of that loop, which skips an aborted request and turns an
\* admission that throws into a rejection; pumpTurns follows the last one, and
\* finds no turn to start because admit has pumped already.
AdmitReleased ==
    /\ releasing # << >>
    /\ LET r == Head(releasing)
           settle == Tail(releasing) = << >> /\ active' = NoTurn /\ pendingTurns' = << >>
       IN  \/ /\ req[r].state # "aborted"
              /\ AdmitNewTurn(req, r)
           \/ /\ req[r].state # "aborted"
              /\ AdmitStandalone(req, r) \/ AdmitActive(req, r)
              /\ waiters' = IF settle THEN {} ELSE waiters
           \/ /\ req[r].state = "aborted" \/ CannotAdmit(r)
              /\ req' = IF req[r].state = "aborted" THEN req
                        ELSE [req EXCEPT ![r] = RejectAssignment(Abort(@))]
              /\ UNCHANGED <<turn, nextTurnId, pendingTurns, active, run, standalone, context>>
              /\ waiters' = IF settle THEN {} ELSE waiters
    /\ releasing' = Tail(releasing)
    /\ UNCHANGED <<held, quiescence, disposing>>

\* cancel of the active turn: only the signal is set; the run loop notices.
CancelActiveTurn ==
    /\ releasing = << >>
    /\ active # NoTurn /\ ~turn[active].aborted
    /\ turn' = [turn EXCEPT ![active].aborted = TRUE]
    /\ UNCHANGED <<req, nextTurnId, pendingTurns, active, run, standalone, held,
                   releasing, quiescence, waiters, disposing, context>>

\* The turn table after the turns of ts are cancelled before they started.
CancelledBeforeStart(tr, ts) ==
    [t \in TurnIds |->
        IF t \in ts
        THEN [tr[t] EXCEPT !.state = "cancelled", !.aborted = TRUE, !.ready = "rejected"]
        ELSE tr[t]]

\* cancel of a queued turn, which ends it on the spot.
CancelQueuedTurn(t) ==
    /\ releasing = << >>
    /\ t \in Items(pendingTurns)
    /\ pendingTurns' = Keep(pendingTurns, TurnIds \ {t})
    /\ req' = [r \in Requests |-> IF req[r].turn = t THEN StopStep(req[r]) ELSE req[r]]
    /\ turn' = CancelledBeforeStart(turn, {t})
    /\ MaybeSettle(active, pendingTurns', held)
    /\ UNCHANGED <<nextTurnId, active, run, standalone, held, releasing, quiescence,
                   disposing, context>>

\* Step.cancel, and the abort of a receipt whose request has a step.
CancelStep(r) ==
    /\ releasing = << >>
    /\ req[r].step \in {"queued", "running"}
    /\ req' = [req EXCEPT ![r] = StopStep(@)]
    /\ UNCHANGED <<turn, nextTurnId, pendingTurns, active, run, standalone, held,
                   releasing, quiescence, waiters, disposing, context>>

\* The abort of a receipt whose request is held or waits for the next turn.
\* (A receipt of a queued turn's own request cancels that turn.)
AbortRequest(r) ==
    /\ releasing = << >>
    /\ req[r].assigned = "pending" /\ req[r].state = "pending"
    /\ req' = [req EXCEPT ![r] = RejectAssignment(Abort(@))]
    /\ IF r \in Items(held)
       THEN /\ held' = Keep(held, Requests \ {r})
            /\ MaybeSettle(active, pendingTurns, held')
       ELSE UNCHANGED <<held, waiters>>
    /\ UNCHANGED <<turn, nextTurnId, pendingTurns, active, run, standalone,
                   releasing, quiescence, disposing, context>>

\* settled(), when the caller has to wait.
Settled(w) ==
    /\ releasing = << >>
    /\ active # NoTurn \/ pendingTurns # << >> \/ held # << >>
    /\ waiters' = waiters \cup {w}
    /\ UNCHANGED <<req, turn, nextTurnId, pendingTurns, active, run, standalone, held,
                   releasing, quiescence, disposing, context>>

\* dispose: every queued turn is cancelled, the active one is told to stop, and
\* nothing that waits outside a turn survives.
Dispose ==
    /\ releasing = << >> /\ ~disposing
    /\ disposing' = TRUE
    /\ LET ended  == Items(pendingTurns)
           loose  == Items(standalone) \cup Items(held)
           tr1    == CancelledBeforeStart(turn, ended)
       IN  /\ req' = [r \in Requests |->
                        IF req[r].turn \in ended THEN StopStep(req[r])
                        ELSE IF r \in loose THEN RejectAssignment(Abort(req[r]))
                        ELSE req[r]]
           /\ turn' = IF active = NoTurn THEN tr1 ELSE [tr1 EXCEPT ![active].aborted = TRUE]
    /\ pendingTurns' = << >>
    /\ standalone' = << >>
    /\ held' = << >>
    /\ MaybeSettle(active, << >>, << >>)
    /\ UNCHANGED <<nextTurnId, active, run, releasing, quiescence, context>>

--------------------------------------------------------------------------------
(* The run loop of the active turn.                                        *)

RunLoopUnchanged ==
    UNCHANGED <<nextTurnId, pendingTurns, active, standalone, held, releasing,
                quiescence, waiters, disposing>>

InPhase(p) == releasing = << >> /\ active # NoTurn /\ run.phase = p

\* The first event of the response resolves the turn's ready promise.
ResponseStarts ==
    /\ InPhase("request")
    /\ turn[active].ready = "pending"
    /\ turn' = [turn EXCEPT ![active].ready = "resolved"]
    /\ UNCHANGED <<req, run, context>>
    /\ RunLoopUnchanged

\* finishStep: the response and its tool calls are in the context.
FinishStep ==
    /\ InPhase("request") /\ ~SignalAborted
    /\ turn' = [turn EXCEPT ![active].ready = IF @ = "pending" THEN "resolved" ELSE @]
    /\ \E filtered \in BOOLEAN :
          run' = [run EXCEPT !.phase = "after", !.filtered = filtered]
    /\ UNCHANGED <<req, context>>
    /\ RunLoopUnchanged

\* Mutant of StepInterrupted: the LLM request is not given the signal.
StepInterruptedInHooks ==
    /\ InPhase("after") \/ InPhase("recover")
    /\ SignalAborted
    /\ HandleLoopCancellation
    /\ RunLoopUnchanged

\* The step is interrupted by a signal: the LLM request, a tool, finishStep or a
\* hook throws, and so does a handler that waits on the turn's signal.
StepInterrupted ==
    /\ \/ InPhase("request") \/ InPhase("after") \/ InPhase("recover")
    /\ SignalAborted
    /\ HandleLoopCancellation
    /\ RunLoopUnchanged

\* The step throws an abort error of its own although no signal is set.
StepAborts ==
    /\ \/ InPhase("request") \/ InPhase("after") \/ InPhase("recover")
    /\ ~SignalAborted
    /\ RunReturns(req, turn, active, run.steps, "cancelled")
    /\ RunLoopUnchanged

\* The step fails and a registered handler matches the error ...
StepFailsRecoverably ==
    /\ InPhase("request") /\ ~SignalAborted
    /\ run' = [run EXCEPT !.phase = "recover"]
    /\ UNCHANGED <<req, turn, context>>
    /\ RunLoopUnchanged

\* ... or none does.
StepFails ==
    /\ InPhase("request") /\ ~SignalAborted
    /\ RunReturns(req, turn, active, run.steps, "failed")
    /\ RunLoopUnchanged

\* The handler retries the failed driver: enqueueStep finds its step and puts it
\* back at the head of the queue.
HandlerRetries ==
    /\ InPhase("recover")
    /\ ~req[run.driver].stopped
    /\ BeginLoopStep([req EXCEPT ![run.driver].step = "queued"],
                     [turn EXCEPT ![active].queue = <<run.driver>> \o @],
                     active, run.steps)
    /\ RunLoopUnchanged

\* The handler declines: it gave up, or it saw the step cancelled while it waited.
HandlerDeclines ==
    /\ InPhase("recover")
    /\ turn[active].aborted => req[run.driver].stopped
    /\ RunReturns(req, turn, active, run.steps, "failed")
    /\ RunLoopUnchanged

\* completeLoopStep: the step is completed whatever happened to it during the
\* hooks, then a filtered response fails the turn, a hook may stop it, or the
\* next step begins.
CompleteLoopStep ==
    /\ InPhase("after")
    /\ LET rq1 == [req EXCEPT ![run.driver].step = "completed",
                              ![run.driver].result = IF @ = "pending" THEN "completed" ELSE @]
           ended == IF turn[active].aborted THEN "cancelled" ELSE "failed"
       IN  IF run.filtered
           THEN RunReturns(rq1, turn, active, run.steps, ended)
           ELSE \/ RunReturns(rq1, turn, active, run.steps, "completed")
                \/ BeginLoopStep(rq1, turn, active, run.steps)
    /\ RunLoopUnchanged

\* Mutant of FinishTurn: the steps the turn leaves behind are not cancelled.
FinishTurnKeepsSteps ==
    /\ InPhase("returned")
    /\ LET tr1 == [turn EXCEPT ![active].state = run.result,
                               ![active].ready = IF @ = "pending" THEN "rejected" ELSE @]
       IN  IF disposing \/ pendingTurns = << >>
           THEN /\ turn' = tr1
                /\ active' = NoTurn
                /\ run' = Idle
                /\ MaybeSettle(NoTurn, pendingTurns, held)
                /\ UNCHANGED <<req, pendingTurns, context>>
           ELSE PumpTurns(req, tr1, pendingTurns, NoTurn, quiescence)
    /\ UNCHANGED <<nextTurnId, standalone, held, releasing, quiescence, disposing>>

\* The rest of runTurn: the ready promise settles, releaseActiveTurn cancels what
\* is left of the turn's steps, and pumpTurns starts the next turn.
FinishTurn ==
    /\ InPhase("returned")
    /\ LET rq1 == [r \in Requests |-> IF req[r].turn = active THEN StopStep(req[r]) ELSE req[r]]
           tr1 == [turn EXCEPT ![active].state = run.result,
                               ![active].ready = IF @ = "pending" THEN "rejected" ELSE @]
       IN  IF disposing \/ pendingTurns = << >>
           THEN /\ req' = rq1 /\ turn' = tr1
                /\ active' = NoTurn
                /\ run' = Idle
                /\ MaybeSettle(NoTurn, pendingTurns, held)
                /\ UNCHANGED <<pendingTurns, context>>
           ELSE PumpTurns(rq1, tr1, pendingTurns, NoTurn, quiescence)
    /\ UNCHANGED <<nextTurnId, standalone, held, releasing, quiescence, disposing>>

--------------------------------------------------------------------------------
RunLoop ==
    \/ FinishStep \/ StepInterrupted \/ StepAborts \/ StepFailsRecoverably \/ StepFails
    \/ HandlerRetries \/ HandlerDeclines \/ CompleteLoopStep \/ FinishTurn

Next ==
    \/ \E r \in Requests : EnqueueNow(r)
    \/ \E r \in Requests : EnqueueThrows(r)
    \/ \E r \in Requests : EnqueueHeld(r)
    \/ AcquireQuiescence
    \/ ReleaseQuiescence
    \/ AdmitReleased
    \/ CancelActiveTurn
    \/ \E t \in TurnIds : CancelQueuedTurn(t)
    \/ \E r \in Requests : CancelStep(r)
    \/ \E r \in Requests : AbortRequest(r)
    \/ \E w \in Waiters : Settled(w)
    \/ Dispose
    \/ ResponseStarts
    \/ RunLoop

\* The steps a turn is suspended in end: requests and tools time out, hooks and
\* handlers return.  A lease is held for the span of one undo and released in a
\* finally block.
Fairness ==
    /\ WF_vars(RunLoop)
    /\ WF_vars(ReleaseQuiescence)
    /\ WF_vars(AdmitReleased)

SafetySpec == Init /\ [][Next]_vars

Spec == SafetySpec /\ Fairness
--------------------------------------------------------------------------------
(* Properties.                                                             *)

\* Every variable has the shape the code gives it.
TypeOK ==
    /\ req \in [Requests -> RequestRecord]
    /\ turn \in [TurnIds -> TurnRecord]
    /\ nextTurnId \in 0..MaxTurns
    /\ pendingTurns \in Seq(TurnIds)
    /\ active \in TurnIds \cup {NoTurn}
    /\ run \in RunRecord
    /\ standalone \in Seq(Requests)
    /\ held \in Seq(Requests)
    /\ releasing \in Seq(Requests)
    /\ quiescence \in 0..MaxLeases
    /\ waiters \subseteq Waiters
    /\ disposing \in BOOLEAN
    /\ context \in Seq(Requests)

Ended(t) == turn[t].state \in EndState

\* Turns run one at a time: the running turn is the active one, a turn in any
\* other state has no run loop (test "queues consecutive nextTurn requests in FIFO
\* order without overlapping turns").
OneTurnAtATime ==
    /\ \A t \in TurnIds : turn[t].state = "running" <=> t = active
    /\ run.phase = "none" <=> active = NoTurn

\* The pending turns are the queued ones, in the order they were created, and all
\* of them younger than the active turn.
PendingTurnsInOrder ==
    /\ Items(pendingTurns) = {t \in TurnIds : turn[t].state = "queued"}
    /\ \A i, j \in DOMAIN pendingTurns : i < j => pendingTurns[i] < pendingTurns[j]
    /\ \A t \in Items(pendingTurns) : active < t /\ t < nextTurnId

\* A quiescence lease keeps the loop still: while one is held no turn is active or
\* pending and no request waits for a turn (undo rewrites the context under it).
QuiescentLoopIsIdle ==
    quiescence > 0 =>
        /\ active = NoTurn
        /\ pendingTurns = << >>
        /\ Items(standalone) \subseteq Aborted(req)

\* No wake-up is lost: an idle loop that nothing holds back has neither a turn nor
\* a held admission waiting for it.
IdleLoopHasNoWork ==
    active = NoTurn /\ quiescence = 0 /\ releasing = << >> =>
        pendingTurns = << >> /\ held = << >>

\* The promise of an admission settles: while it is pending the request is in one
\* of the places a later admission, abort or dispose takes it from.
NoOrphanedAssignment ==
    \A r \in Requests : req[r].assigned = "pending" =>
        r \in Items(standalone) \cup Items(held) \cup Items(releasing)

\* No promise outlives its turn: a step that is not final, or whose result is
\* pending, belongs to a turn that has not ended, and an ended turn has settled its
\* ready promise and holds no request that could still be materialized.
NoOrphanedStep ==
    /\ \A r \in Requests : req[r].result = "pending" \/ req[r].step \in {"queued", "running"} =>
           req[r].turn # NoTurn /\ turn[req[r].turn].state \in {"queued", "running"}
    /\ \A t \in TurnIds : Ended(t) =>
           /\ turn[t].ready # "pending"
           /\ \A r \in Requests : req[r].turn = t => req[r].state # "pending"

\* A message enters the context at most once, however often its step is retried,
\* never after the request was aborted, and always when the step's result says
\* completed.
MaterializedOnce ==
    /\ \A i, j \in DOMAIN context : context[i] = context[j] => i = j
    /\ Items(context) = {r \in Requests : req[r].state = "materialized"}
    /\ \A r \in Requests : req[r].result = "completed" => r \in Items(context)

\* What is final stays final: an ended turn keeps its state, a settled promise its
\* value, a request that was aborted or materialized its state.
SettledForGood ==
    [][/\ \A t \in TurnIds : Ended(t) => turn'[t].state = turn[t].state
       /\ \A t \in TurnIds :
            turn[t].ready \in {"resolved", "rejected"} => turn'[t].ready = turn[t].ready
       /\ \A r \in Requests :
            /\ req[r].state \in {"materialized", "aborted"} => req'[r].state = req[r].state
            /\ req[r].assigned \in {"resolved", "rejected"} => req'[r].assigned = req[r].assigned
            /\ req[r].result \in {"completed", "cancelled"} => req'[r].result = req[r].result]_vars

\* settled() resolves only on a loop with no turn, running or queued, and no held
\* admission: closing a session relies on it.
SettledMeansIdle ==
    [][waiters' = {} /\ waiters # {} =>
         \/ active' = NoTurn /\ pendingTurns' = << >> /\ held' = << >>
         \/ active = NoTurn /\ pendingTurns = << >> /\ held = << >>]_vars

\* A turn whose cancellation was accepted before its run loop returned takes no
\* further step.
NoStepAfterCancel ==
    [][active # NoTurn /\ active' = active /\ turn[active].aborted => run'.steps = run.steps]_vars

\* stepRequestQueue.ts: "When a run ends, turn-scoped requests are aborted while
\* agent-scoped requests (steers) carry into the next turn."
SteersCarryOver ==
    [][FinishTurn => \A r \in Requests \ TurnScoped :
         req[r].state = "pending" => req'[r].state # "aborted"]_vars

\* Whoever awaits settled() is released in the end, and so is an admission held by
\* a quiescence lease: the request is admitted, or waits for the next turn.
WaitersAreReleased ==
    /\ waiters # {} ~> waiters = {}
    /\ \A r \in Requests : r \in Items(held) ~> r \notin Items(held)

\* The loop keeps the promises of TurnQueue.
TQ == INSTANCE TurnQueue WITH state <- [t \in TurnIds |-> turn[t].state]

\* Safety: turns are created, run and ended as TurnQueue allows.
ImplementsTurnQueue == TQ!SafetySpec

\* Liveness: every turn that was created ends.
EveryTurnEnds == TQ!EveryTurnEnds
================================================================================
