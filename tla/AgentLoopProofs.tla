---------------------------- MODULE AgentLoopProofs ----------------------------
(***************************************************************************)
(* Proofs about AgentLoop, for every set of requests and every bound.      *)
(*                                                                         *)
(* The operators of the run loop take the tables their caller has updated  *)
(* so far; a lemma for each says what it establishes from typed tables, so *)
(* that the step of an action cites the lemma instead of expanding it.     *)
(***************************************************************************)
EXTENDS AgentLoop, StepRequestQueueProofs, TLAPS

\* The run loop is suspended in one of its phases for some active turn, and only
\* then; a step in progress has a driver, a returned run has a result.
RunShape ==
    /\ active = NoTurn <=> run.phase = "none"
    /\ run.phase \in {"request", "after", "recover"} => run.driver \in Requests
    /\ run.phase = "returned" => run.result \in EndState

TypeInv == TypeOK /\ RunShape

LEMMA TurnIdsNat == TurnIds \subseteq Nat /\ NoTurn \notin TurnIds
BY BoundsAssumption DEF TurnIds, NoTurn

--------------------------------------------------------------------------------
(* Operations on one request record.                                       *)

LEMMA AbortType ==
    ASSUME NEW q \in RequestRecord
    PROVE  /\ Abort(q) \in RequestRecord
           /\ Abort(q).turn = q.turn /\ Abort(q).assigned = q.assigned
           /\ Abort(q).step = q.step /\ Abort(q).result = q.result
BY DEF Abort, RequestRecord, RequestState

LEMMA RejectAssignmentType ==
    ASSUME NEW q \in RequestRecord
    PROVE  /\ RejectAssignment(q) \in RequestRecord
           /\ RejectAssignment(q).turn = q.turn /\ RejectAssignment(q).state = q.state
           /\ RejectAssignment(q).step = q.step /\ RejectAssignment(q).result = q.result
BY DEF RejectAssignment, RequestRecord, PromiseState

LEMMA StopStepType ==
    ASSUME NEW q \in RequestRecord
    PROVE  /\ StopStep(q) \in RequestRecord
           /\ StopStep(q).turn = q.turn /\ StopStep(q).assigned = q.assigned
           /\ StopStep(q).step \notin {"queued", "running"}
<1>1. Abort(q) \in RequestRecord /\ Abort(q).turn = q.turn /\ Abort(q).assigned = q.assigned
      BY AbortType
<1> QED BY <1>1 DEF StopStep, RequestRecord, StepState, StepResult

LEMMA AssignType ==
    ASSUME NEW q \in RequestRecord, NEW t \in TurnIds
    PROVE  Assign(q, t) \in RequestRecord /\ Assign(q, t).turn = t
BY DEF Assign, RequestRecord, PromiseState, StepState, StepResult

--------------------------------------------------------------------------------
(* The run loop.                                                           *)

\* What every way through beginLoopStep leaves behind: typed tables, a run loop
\* suspended in a phase, and no turn in another state than before.
Suspended(tr) ==
    /\ req' \in [Requests -> RequestRecord]
    /\ turn' \in [TurnIds -> TurnRecord]
    /\ run' \in RunRecord
    /\ context' \in Seq(Requests)
    /\ run'.phase # "none"
    /\ run'.phase # "returned" => run'.driver \in Requests
    /\ run'.phase = "returned" => run'.result \in EndState
    /\ \A u \in TurnIds : turn'[u].state = tr[u].state

LEMMA RunReturnsType ==
    ASSUME NEW rq \in [Requests -> RequestRecord], NEW tr \in [TurnIds -> TurnRecord],
           NEW t \in TurnIds, NEW n \in 0..MaxSteps, NEW result \in EndState,
           context \in Seq(Requests),
           RunReturns(rq, tr, t, n, result)
    PROVE  Suspended(tr)
<1> DEFINE rq1 == [r \in Requests |->
                     IF r \in Items(tr[t].queue) \cap TurnScoped THEN Abort(rq[r]) ELSE rq[r]]
           q1  == Keep(tr[t].queue, Requests \ Aborted(rq1))
<1>1. rq1 \in [Requests -> RequestRecord]
      BY AbortType
<1>2. tr[t].queue \in Seq(Requests)
      BY DEF TurnRecord
<1>3. q1 \in Seq(Requests)
      BY <1>2, KeepSeq
<1>4. req' = rq1 /\ turn' = [tr EXCEPT ![t].queue = q1]
      BY DEF RunReturns
<1>5. run' = [phase |-> "returned", driver |-> NoRequest, steps |-> n,
              filtered |-> FALSE, result |-> result] /\ context' = context
      BY DEF RunReturns
<1> HIDE DEF rq1, q1
<1>6. turn' \in [TurnIds -> TurnRecord] /\ \A u \in TurnIds : turn'[u].state = tr[u].state
      BY <1>3, <1>4 DEF TurnRecord
<1>7. run' \in RunRecord
      BY <1>5 DEF RunRecord, Phase
<1> QED BY <1>1, <1>4, <1>5, <1>6, <1>7 DEF Suspended

LEMMA TakeStepType ==
    ASSUME NEW rq \in [Requests -> RequestRecord], NEW tr \in [TurnIds -> TurnRecord],
           NEW t \in TurnIds, NEW n \in 0..(MaxSteps - 1),
           context \in Seq(Requests),
           HasPendingRequests(tr[t].queue, Aborted(rq)),
           TakeStep(rq, tr, t, n)
    PROVE  Suspended(tr)
<1>1. tr[t].queue \in Seq(Requests)
      BY DEF TurnRecord
<1> DEFINE batch == TakeNextBatch(tr[t].queue, Mergeable, Aborted(rq))
           items == <<batch.driver>> \o batch.merged
           fresh == {r \in Items(items) : rq[r].state = "pending"}
           rq1   == [rq EXCEPT ![batch.driver].step = "running", ![batch.driver].stopped = FALSE]
           added == Keep(items, fresh)
<1>2. /\ batch.driver \in Requests
      /\ batch.merged \in Seq(Requests)
      /\ batch.rest \in Seq(Requests)
      BY <1>1, BatchType
<1>3. /\ req' = [r \in Requests |->
                   IF r \in fresh THEN [rq1[r] EXCEPT !.state = "materialized"] ELSE rq1[r]]
      /\ turn' = [tr EXCEPT ![t].queue = batch.rest]
      /\ run' = [phase |-> "request", driver |-> batch.driver, steps |-> n + 1,
                 filtered |-> FALSE, result |-> "none"]
      /\ context' = context \o added
      BY DEF TakeStep
<1> HIDE DEF batch
<1>4. items \in Seq(Requests)
      BY <1>2
<1>5. rq1 \in [Requests -> RequestRecord]
      BY <1>2, ZenonT(30) DEF RequestRecord, StepState
<1>6. added \in Seq(Requests)
      BY <1>4, KeepSeq
<1> HIDE DEF rq1, items, fresh, added
<1>7. req' \in [Requests -> RequestRecord]
      BY <1>3, <1>5, ZenonT(30) DEF RequestRecord, RequestState
<1>8. turn' \in [TurnIds -> TurnRecord] /\ \A u \in TurnIds : turn'[u].state = tr[u].state
      BY <1>2, <1>3 DEF TurnRecord
<1>9. run' \in RunRecord
      BY <1>2, <1>3, BoundsAssumption DEF RunRecord, Phase
<1>10. context' \in Seq(Requests)
      BY <1>3, <1>6
<1> QED BY <1>2, <1>3, <1>7, <1>8, <1>9, <1>10 DEF Suspended

LEMMA BeginLoopStepType ==
    ASSUME NEW rq \in [Requests -> RequestRecord], NEW tr \in [TurnIds -> TurnRecord],
           NEW t \in TurnIds, NEW n \in 0..MaxSteps,
           context \in Seq(Requests),
           BeginLoopStep(rq, tr, t, n)
    PROVE  Suspended(tr)
<1>1. CASE \E result \in EndState : RunReturns(rq, tr, t, n, result)
      BY <1>1, RunReturnsType
<1>2. CASE /\ n \in 0..(MaxSteps - 1)
           /\ HasPendingRequests(tr[t].queue, Aborted(rq))
           /\ TakeStep(rq, tr, t, n)
      BY <1>2, TakeStepType
<1>3. "cancelled" \in EndState /\ "completed" \in EndState /\ "failed" \in EndState
      BY DEF EndState
<1> QED BY <1>1, <1>2, <1>3, BoundsAssumption DEF BeginLoopStep

\* pumpTurns leaves the loop as it is, or starts the oldest pending turn.
Pumped(tr, pending, act, depth) ==
    \/ /\ disposing \/ depth > 0 \/ act # NoTurn \/ pending = << >>
       /\ turn' = tr
       /\ pendingTurns' = pending
       /\ active' = act
    \/ /\ ~disposing /\ depth = 0 /\ act = NoTurn /\ pending # << >>
       /\ pendingTurns' = Tail(pending)
       /\ active' = Head(pending)
       /\ \A u \in TurnIds : turn'[u].state = IF u = Head(pending) THEN "running" ELSE tr[u].state

\* The variables an admission may change are typed.
TablesTyped ==
    /\ req' \in [Requests -> RequestRecord]
    /\ turn' \in [TurnIds -> TurnRecord]
    /\ pendingTurns' \in Seq(TurnIds)
    /\ active' \in TurnIds \cup {NoTurn}
    /\ run' \in RunRecord
    /\ context' \in Seq(Requests)
    /\ RunShape'

LEMMA IdleType == Idle \in RunRecord /\ Idle.phase = "none"
BY BoundsAssumption DEF Idle, RunRecord, Phase

LEMMA StartTurnType ==
    ASSUME NEW rq \in [Requests -> RequestRecord], NEW tr \in [TurnIds -> TurnRecord],
           NEW pending \in Seq(TurnIds), pending # << >>,
           context \in Seq(Requests),
           StartTurn(rq, tr, pending)
    PROVE  /\ TablesTyped
           /\ pendingTurns' = Tail(pending)
           /\ active' = Head(pending)
           /\ \A u \in TurnIds :
                 turn'[u].state = IF u = Head(pending) THEN "running" ELSE tr[u].state
<1> DEFINE t   == Head(pending)
           tr1 == [tr EXCEPT ![t].state = "running"]
<1>1. t \in TurnIds /\ Tail(pending) \in Seq(TurnIds) /\ t # NoTurn
      BY TurnIdsNat
<1>2. /\ pendingTurns' = Tail(pending)
      /\ active' = t
      BY DEF StartTurn
<1>3. tr1 \in [TurnIds -> TurnRecord]
      BY <1>1 DEF TurnRecord, TurnState
<1>4. \A u \in TurnIds : tr1[u].state = IF u = t THEN "running" ELSE tr[u].state
      BY <1>1 DEF TurnRecord
<1>5. \/ BeginLoopStep(rq, tr1, t, 0)
      \/ /\ req' = rq
         /\ turn' = tr1
         /\ run' = [Idle EXCEPT !.phase = "returned", !.result = "failed"]
         /\ context' = context
      BY DEF StartTurn
<1> HIDE DEF t, tr1
<1>6. CASE BeginLoopStep(rq, tr1, t, 0)
  <2>1. 0 \in 0..MaxSteps
        BY BoundsAssumption
  <2>2. Suspended(tr1)
        BY <1>1, <1>3, <1>6, <2>1, BeginLoopStepType
  <2>3. TablesTyped
        BY <1>1, <1>2, <2>2 DEF Suspended, TablesTyped, RunShape
  <2> QED BY <1>2, <1>4, <2>2, <2>3 DEF Suspended, t
<1>7. CASE /\ req' = rq
           /\ turn' = tr1
           /\ run' = [Idle EXCEPT !.phase = "returned", !.result = "failed"]
           /\ context' = context
  <2>1. run' \in RunRecord /\ run'.phase = "returned" /\ run'.result = "failed"
        BY <1>7, IdleType DEF RunRecord, Phase, EndState
  <2>2. TablesTyped
        BY <1>1, <1>2, <1>3, <1>7, <2>1 DEF TablesTyped, RunShape, EndState
  <2> QED BY <1>2, <1>4, <1>7, <2>2 DEF t
<1> QED BY <1>5, <1>6, <1>7

LEMMA PumpTurnsType ==
    ASSUME TypeInv,
           NEW rq \in [Requests -> RequestRecord], NEW tr \in [TurnIds -> TurnRecord],
           NEW pending \in Seq(TurnIds), NEW act \in {active, NoTurn}, NEW depth \in Nat,
           PumpTurns(rq, tr, pending, act, depth)
    PROVE  /\ TablesTyped
           /\ Pumped(tr, pending, act, depth)
           /\ waiters' \subseteq Waiters
<1>1. CASE disposing \/ depth > 0 \/ act # NoTurn \/ pending = << >>
  <2>1. /\ req' = rq
        /\ turn' = tr
        /\ pendingTurns' = pending
        /\ active' = act
        /\ run' = IF act = NoTurn THEN Idle ELSE run
        /\ context' = context
        /\ IF disposing \/ depth > 0 \/ act # NoTurn
             THEN UNCHANGED waiters
             ELSE MaybeSettle(act, pending, held)
        BY <1>1 DEF PumpTurns
  <2>2. Pumped(tr, pending, act, depth)
        BY <1>1, <2>1 DEF Pumped
  <2>3. waiters' \subseteq Waiters
        BY <2>1 DEF MaybeSettle, TypeInv, TypeOK
  <2>4. act = active \/ act = NoTurn
        OBVIOUS
  <2>5. RunShape' /\ run' \in RunRecord
        BY <2>1, <2>4, IdleType DEF TypeInv, TypeOK, RunShape
  <2>6. TablesTyped
        BY <2>1, <2>4, <2>5 DEF TablesTyped, TypeInv, TypeOK
  <2> QED BY <2>2, <2>3, <2>6
<1>2. CASE ~(disposing \/ depth > 0 \/ act # NoTurn \/ pending = << >>)
  <2>1. StartTurn(rq, tr, pending) /\ waiters' = waiters
        BY <1>2 DEF PumpTurns
  <2>2. ~disposing /\ depth = 0 /\ act = NoTurn /\ pending # << >>
        BY <1>2
  <2> QED BY <2>1, <2>2, StartTurnType DEF Pumped, TypeInv, TypeOK
<1> QED BY <1>1, <1>2

\* The turn table with a turn `id` just queued.
QueuedNext(tr, id) ==
    /\ tr \in [TurnIds -> TurnRecord]
    /\ \A u \in TurnIds : tr[u].state = IF u = id THEN "queued" ELSE turn[u].state

LEMMA CreateAndQueueTurnType ==
    ASSUME TypeInv,
           NEW rq \in [Requests -> RequestRecord], NEW r \in Requests, NEW depth \in Nat,
           CreateAndQueueTurn(rq, r, depth)
    PROVE  /\ TablesTyped
           /\ waiters' \subseteq Waiters
           /\ standalone' = << >>
           /\ nextTurnId \in TurnIds /\ nextTurnId' \in 0..MaxTurns
           /\ nextTurnId' = nextTurnId + 1
           /\ \E tr \in [TurnIds -> TurnRecord] :
                 QueuedNext(tr, nextTurnId)
                 /\ Pumped(tr, Append(pendingTurns, nextTurnId), active, depth)
<1> DEFINE t == nextTurnId
<1>1. t \in TurnIds /\ t \in Nat /\ nextTurnId' = t + 1 /\ nextTurnId' \in 0..MaxTurns
      BY BoundsAssumption DEF TypeInv, TypeOK, TurnIds, CreateAndQueueTurn
<1>2. PICK moved \in {Keep(standalone, Requests \ Aborted(rq))} :
        LET steps == {r} \cup Items(moved)
            rq1   == [x \in Requests |-> IF x \in steps THEN Assign(rq[x], t) ELSE rq[x]]
            job   == [state |-> "queued", request |-> r, queue |-> <<r>> \o moved,
                      aborted |-> FALSE, ready |-> "pending"]
        IN  /\ standalone' = << >>
            /\ PumpTurns(rq1, [turn EXCEPT ![t] = job], Append(pendingTurns, t), active, depth)
      BY DEF CreateAndQueueTurn
<1> DEFINE steps == {r} \cup Items(moved)
           rq1   == [x \in Requests |-> IF x \in steps THEN Assign(rq[x], t) ELSE rq[x]]
           job   == [state |-> "queued", request |-> r, queue |-> <<r>> \o moved,
                     aborted |-> FALSE, ready |-> "pending"]
           tr1   == [turn EXCEPT ![t] = job]
<1>3. moved \in Seq(Requests)
      BY KeepSeq DEF TypeInv, TypeOK
<1>4. rq1 \in [Requests -> RequestRecord]
      BY <1>1, AssignType
<1>5. job \in TurnRecord
  <2>1. <<r>> \o moved \in Seq(Requests)
        BY <1>3
  <2> QED BY <2>1 DEF TurnRecord, TurnState, PromiseState
<1>6. tr1 \in [TurnIds -> TurnRecord]
      BY <1>5 DEF TypeInv, TypeOK
<1>7. \A u \in TurnIds : tr1[u].state = IF u = t THEN "queued" ELSE turn[u].state
      BY DEF TypeInv, TypeOK
<1>8. Append(pendingTurns, t) \in Seq(TurnIds)
      BY <1>1 DEF TypeInv, TypeOK
<1>9. standalone' = << >> /\ PumpTurns(rq1, tr1, Append(pendingTurns, t), active, depth)
      BY <1>2
<1> HIDE DEF rq1, tr1
<1>10. /\ TablesTyped
       /\ Pumped(tr1, Append(pendingTurns, t), active, depth)
       /\ waiters' \subseteq Waiters
      BY <1>4, <1>6, <1>8, <1>9, PumpTurnsType
<1> QED BY <1>1, <1>6, <1>7, <1>9, <1>10 DEF QueuedNext

--------------------------------------------------------------------------------
(* The operations of the callers.                                          *)

\* What an admission does to the loop: it creates a turn, waits for the next one,
\* or joins the active one.
LEMMA AdmitType ==
    ASSUME TypeInv, NEW rq \in [Requests -> RequestRecord], NEW r \in Requests,
           \/ AdmitNewTurn(rq, r)
           \/ (AdmitStandalone(rq, r) \/ AdmitActive(rq, r)) /\ waiters' \subseteq Waiters
    PROVE  /\ TablesTyped
           /\ waiters' \subseteq Waiters
           /\ standalone' \in Seq(Requests)
           /\ nextTurnId' \in 0..MaxTurns
           /\ \/ /\ nextTurnId \in TurnIds /\ nextTurnId' = nextTurnId + 1
                 /\ \E tr \in [TurnIds -> TurnRecord] :
                       QueuedNext(tr, nextTurnId)
                       /\ Pumped(tr, Append(pendingTurns, nextTurnId), active, 0)
              \/ /\ UNCHANGED <<nextTurnId, pendingTurns, active>>
                 /\ \A u \in TurnIds : turn'[u].state = turn[u].state
<1>1. CASE AdmitNewTurn(rq, r)
  <2>1. CreateAndQueueTurn(rq, r, 0) /\ 0 \in Nat
        BY <1>1 DEF AdmitNewTurn
  <2>2. << >> \in Seq(Requests)
        OBVIOUS
  <2> QED BY <2>1, <2>2, CreateAndQueueTurnType
<1>2. CASE AdmitStandalone(rq, r) /\ waiters' \subseteq Waiters
      BY <1>2 DEF AdmitStandalone, TablesTyped, RunShape, TypeInv, TypeOK
<1>3. CASE AdmitActive(rq, r) /\ waiters' \subseteq Waiters
  <2>1. active \in TurnIds
        BY <1>3 DEF AdmitActive, TypeInv, TypeOK
  <2>2. req' = [rq EXCEPT ![r] = Assign(rq[r], active)]
        /\ turn' = [turn EXCEPT ![active].queue = Append(@, r)]
        /\ UNCHANGED <<nextTurnId, pendingTurns, active, run, standalone, context>>
        BY <1>3 DEF AdmitActive
  <2>3. req' \in [Requests -> RequestRecord]
        BY <2>1, <2>2, AssignType
  <2> DEFINE q1 == Append(turn[active].queue, r)
  <2>4. q1 \in Seq(Requests)
        BY <2>1 DEF TypeInv, TypeOK, TurnRecord
  <2>5. turn' = [turn EXCEPT ![active].queue = q1]
        BY <2>2
  <2> HIDE DEF q1
  <2>6. turn' \in [TurnIds -> TurnRecord] /\ \A u \in TurnIds : turn'[u].state = turn[u].state
        BY <2>1, <2>4, <2>5 DEF TypeInv, TypeOK, TurnRecord
  <2> QED BY <1>3, <2>2, <2>3, <2>6 DEF TablesTyped, RunShape, TypeInv, TypeOK
<1> QED BY <1>1, <1>2, <1>3

LEMMA SentType ==
    ASSUME TypeInv, NEW r \in Requests
    PROVE  Sent(r) \in [Requests -> RequestRecord]
BY ZenonT(30) DEF Sent, TypeInv, TypeOK, RequestRecord, RequestState, PromiseState

LEMMA EnqueueNowType ==
    ASSUME TypeInv, NEW r \in Requests, EnqueueNow(r)
    PROVE  TypeInv'
<1>1. \/ AdmitNewTurn(Sent(r), r)
      \/ (AdmitStandalone(Sent(r), r) \/ AdmitActive(Sent(r), r)) /\ waiters' \subseteq Waiters
      BY DEF EnqueueNow, TypeInv, TypeOK
<1>2. UNCHANGED <<held, releasing, quiescence, disposing>>
      BY DEF EnqueueNow
<1>3. /\ TablesTyped
      /\ waiters' \subseteq Waiters
      /\ standalone' \in Seq(Requests)
      /\ nextTurnId' \in 0..MaxTurns
      BY <1>1, SentType, AdmitType
<1> QED BY <1>2, <1>3 DEF TablesTyped, TypeInv, TypeOK

LEMMA EnqueueThrowsType ==
    ASSUME TypeInv, NEW r \in Requests, EnqueueThrows(r)
    PROVE  TypeInv'
<1> DEFINE rq == Sent(r)
<1>1. rq \in [Requests -> RequestRecord] /\ req' = [rq EXCEPT ![r].assigned = "rejected"]
      BY SentType DEF EnqueueThrows
<1> HIDE DEF rq
<1>2. req' \in [Requests -> RequestRecord]
      BY <1>1 DEF RequestRecord, PromiseState
<1> QED BY <1>2 DEF EnqueueThrows, TypeInv, TypeOK, RunShape

LEMMA EnqueueHeldType ==
    ASSUME TypeInv, NEW r \in Requests, EnqueueHeld(r)
    PROVE  TypeInv'
<1>1. req' \in [Requests -> RequestRecord]
      BY SentType DEF EnqueueHeld
<1> QED BY <1>1 DEF EnqueueHeld, TypeInv, TypeOK, RunShape

LEMMA ReleaseQuiescenceType ==
    ASSUME TypeInv, ReleaseQuiescence
    PROVE  TypeInv'
<1>1. quiescence' \in 0..MaxLeases /\ UNCHANGED <<nextTurnId, standalone, disposing>>
      BY BoundsAssumption DEF ReleaseQuiescence, TypeInv, TypeOK
<1>2. CASE quiescence = 1 /\ ~disposing
  <2>1. PumpTurns(req, turn, pendingTurns, active, 0) /\ releasing' = held /\ held' = << >>
        BY <1>2 DEF ReleaseQuiescence
  <2>2. TablesTyped /\ waiters' \subseteq Waiters
        BY <2>1, PumpTurnsType DEF TypeInv, TypeOK
  <2> QED BY <1>1, <2>1, <2>2 DEF TablesTyped, TypeInv, TypeOK
<1>3. CASE ~(quiescence = 1 /\ ~disposing)
      BY <1>1, <1>3 DEF ReleaseQuiescence, TypeInv, TypeOK, RunShape
<1> QED BY <1>2, <1>3

LEMMA AdmitReleasedType ==
    ASSUME TypeInv, AdmitReleased
    PROVE  TypeInv'
<1> DEFINE r == Head(releasing)
<1>1. r \in Requests /\ releasing' \in Seq(Requests) /\ UNCHANGED <<held, quiescence, disposing>>
      BY DEF AdmitReleased, TypeInv, TypeOK
<1>2. CASE \/ AdmitNewTurn(req, r)
           \/ (AdmitStandalone(req, r) \/ AdmitActive(req, r)) /\ waiters' \subseteq Waiters
  <2>1. /\ TablesTyped
        /\ waiters' \subseteq Waiters
        /\ standalone' \in Seq(Requests)
        /\ nextTurnId' \in 0..MaxTurns
        BY <1>1, <1>2, AdmitType DEF TypeInv, TypeOK
  <2> QED BY <1>1, <2>1 DEF TablesTyped, TypeInv, TypeOK
<1>3. CASE /\ req' = IF req[r].state = "aborted" THEN req
                     ELSE [req EXCEPT ![r] = RejectAssignment(Abort(@))]
           /\ UNCHANGED <<turn, nextTurnId, pendingTurns, active, run, standalone, context>>
           /\ waiters' \subseteq Waiters
  <2>1. RejectAssignment(Abort(req[r])) \in RequestRecord
        BY <1>1, AbortType, RejectAssignmentType DEF TypeInv, TypeOK
  <2>2. req' \in [Requests -> RequestRecord]
        BY <1>3, <2>1 DEF TypeInv, TypeOK
  <2> QED BY <1>1, <1>3, <2>2 DEF TypeInv, TypeOK, RunShape
<1>4. {} \subseteq Waiters /\ waiters \subseteq Waiters
      BY DEF TypeInv, TypeOK
<1> QED BY <1>2, <1>3, <1>4 DEF AdmitReleased

LEMMA CancelActiveTurnType ==
    ASSUME TypeInv, CancelActiveTurn
    PROVE  TypeInv'
<1>1. turn' \in [TurnIds -> TurnRecord]
      BY DEF CancelActiveTurn, TypeInv, TypeOK, TurnRecord
<1> QED BY <1>1 DEF CancelActiveTurn, TypeInv, TypeOK, RunShape

LEMMA CancelledBeforeStartType ==
    ASSUME NEW tr \in [TurnIds -> TurnRecord], NEW ts
    PROVE  /\ CancelledBeforeStart(tr, ts) \in [TurnIds -> TurnRecord]
           /\ \A u \in TurnIds :
                 CancelledBeforeStart(tr, ts)[u].state =
                   IF u \in ts THEN "cancelled" ELSE tr[u].state
<1>1. ASSUME NEW u \in TurnIds
      PROVE  /\ [tr[u] EXCEPT !.state = "cancelled", !.aborted = TRUE, !.ready = "rejected"]
                   \in TurnRecord
             /\ [tr[u] EXCEPT !.state = "cancelled", !.aborted = TRUE, !.ready = "rejected"].state
                   = "cancelled"
      BY DEF TurnRecord, TurnState, PromiseState
<1> QED BY <1>1 DEF CancelledBeforeStart

LEMMA CancelQueuedTurnType ==
    ASSUME TypeInv, NEW t \in TurnIds, CancelQueuedTurn(t)
    PROVE  TypeInv'
<1>1. req' \in [Requests -> RequestRecord]
      BY StopStepType DEF CancelQueuedTurn, TypeInv, TypeOK
<1>2. turn' \in [TurnIds -> TurnRecord]
      BY CancelledBeforeStartType DEF CancelQueuedTurn, TypeInv, TypeOK
<1>3. pendingTurns' \in Seq(TurnIds)
      BY KeepSeq DEF CancelQueuedTurn, TypeInv, TypeOK
<1>4. waiters' \subseteq Waiters
      BY DEF CancelQueuedTurn, MaybeSettle, TypeInv, TypeOK
<1> QED BY <1>1, <1>2, <1>3, <1>4 DEF CancelQueuedTurn, TypeInv, TypeOK, RunShape

LEMMA CancelStepType ==
    ASSUME TypeInv, NEW r \in Requests, CancelStep(r)
    PROVE  TypeInv'
<1>1. req' \in [Requests -> RequestRecord]
      BY StopStepType DEF CancelStep, TypeInv, TypeOK
<1> QED BY <1>1 DEF CancelStep, TypeInv, TypeOK, RunShape

LEMMA AbortRequestType ==
    ASSUME TypeInv, NEW r \in Requests, AbortRequest(r)
    PROVE  TypeInv'
<1>1. req' \in [Requests -> RequestRecord]
      BY AbortType, RejectAssignmentType DEF AbortRequest, TypeInv, TypeOK
<1>2. held' \in Seq(Requests) /\ waiters' \subseteq Waiters
      BY KeepSeq DEF AbortRequest, MaybeSettle, TypeInv, TypeOK
<1> QED BY <1>1, <1>2 DEF AbortRequest, TypeInv, TypeOK, RunShape

LEMMA DisposeType ==
    ASSUME TypeInv, Dispose
    PROVE  TypeInv'
<1>1. req' \in [Requests -> RequestRecord]
      BY StopStepType, AbortType, RejectAssignmentType DEF Dispose, TypeInv, TypeOK
<1> DEFINE tr1 == CancelledBeforeStart(turn, Items(pendingTurns))
<1>2. tr1 \in [TurnIds -> TurnRecord]
      BY CancelledBeforeStartType DEF TypeInv, TypeOK
<1>3. turn' = IF active = NoTurn THEN tr1 ELSE [tr1 EXCEPT ![active].aborted = TRUE]
      BY DEF Dispose
<1> HIDE DEF tr1
<1>4. turn' \in [TurnIds -> TurnRecord]
      BY <1>2, <1>3 DEF TypeInv, TypeOK, TurnRecord
<1>5. pendingTurns' = << >> /\ standalone' = << >> /\ held' = << >> /\ waiters' \subseteq Waiters
      BY DEF Dispose, MaybeSettle, TypeInv, TypeOK
<1>6. /\ pendingTurns' \in Seq(TurnIds) /\ standalone' \in Seq(Requests)
      /\ held' \in Seq(Requests) /\ disposing' \in BOOLEAN
      BY <1>5 DEF Dispose
<1>7. UNCHANGED <<nextTurnId, active, run, releasing, quiescence, context>>
      BY DEF Dispose
<1> QED BY <1>1, <1>4, <1>5, <1>6, <1>7 DEF TypeInv, TypeOK, RunShape

LEMMA CallersType ==
    ASSUME TypeInv, AcquireQuiescence \/ (\E w \in Waiters : Settled(w)) \/ ResponseStarts
    PROVE  TypeInv'
<1>1. CASE AcquireQuiescence
      BY <1>1, BoundsAssumption DEF AcquireQuiescence, TypeInv, TypeOK, RunShape
<1>2. CASE \E w \in Waiters : Settled(w)
      BY <1>2 DEF Settled, TypeInv, TypeOK, RunShape
<1>3. CASE ResponseStarts
  <2>1. turn' \in [TurnIds -> TurnRecord]
        BY <1>3, ZenonT(30) DEF ResponseStarts, TypeInv, TypeOK, TurnRecord, PromiseState
  <2> QED BY <1>3, <2>1 DEF ResponseStarts, RunLoopUnchanged, TypeInv, TypeOK, RunShape
<1> QED BY <1>1, <1>2, <1>3

--------------------------------------------------------------------------------
(* The steps of the run loop.                                              *)

\* Every step of the run loop but the last leaves the loop suspended in some phase
\* and the turns in the states they are in.
RunContinues ==
    \/ FinishStep \/ StepInterrupted \/ StepAborts \/ StepFailsRecoverably \/ StepFails
    \/ HandlerRetries \/ HandlerDeclines \/ CompleteLoopStep

LEMMA RunContinuesSuspended ==
    ASSUME TypeInv, RunContinues
    PROVE  Suspended(turn) /\ RunLoopUnchanged /\ active \in TurnIds /\ active # NoTurn
<1>1. active \in TurnIds /\ active # NoTurn
      BY DEF RunContinues, FinishStep, StepInterrupted, StepAborts, StepFailsRecoverably,
             StepFails, HandlerRetries, HandlerDeclines, CompleteLoopStep, InPhase,
             TypeInv, TypeOK
<1>2. /\ req \in [Requests -> RequestRecord] /\ turn \in [TurnIds -> TurnRecord]
      /\ context \in Seq(Requests) /\ run \in RunRecord /\ run.steps \in 0..MaxSteps
      BY DEF TypeInv, TypeOK, RunRecord
<1>3. "cancelled" \in EndState /\ "completed" \in EndState /\ "failed" \in EndState
      BY DEF EndState
<1>4. ASSUME \E result \in EndState : RunReturns(req, turn, active, run.steps, result)
      PROVE  Suspended(turn)
      BY <1>1, <1>2, <1>4, RunReturnsType
<1>5. CASE FinishStep
  <2>1. turn' \in [TurnIds -> TurnRecord] /\ \A u \in TurnIds : turn'[u].state = turn[u].state
        BY <1>1, <1>2, <1>5, ZenonT(30) DEF FinishStep, TurnRecord, PromiseState
  <2>2. /\ run' \in RunRecord /\ run'.phase = "after"
        /\ run'.driver = run.driver
        BY <1>2, <1>5 DEF FinishStep, RunRecord, Phase
  <2>3. run.driver \in Requests
        BY <1>5 DEF FinishStep, InPhase, TypeInv, RunShape
  <2> QED BY <1>1, <1>2, <1>5, <2>1, <2>2, <2>3 DEF FinishStep, Suspended
<1>6. CASE StepInterrupted
  <2>1. HandleLoopCancellation /\ RunLoopUnchanged
        BY <1>6 DEF StepInterrupted
  <2>2. CASE BeginLoopStep(req, turn, active, run.steps)
        BY <1>1, <1>2, <2>1, <2>2, BeginLoopStepType
  <2> QED BY <1>1, <1>3, <1>4, <2>1, <2>2 DEF HandleLoopCancellation
<1>7. CASE StepAborts
  <2>1. RunReturns(req, turn, active, run.steps, "cancelled") /\ RunLoopUnchanged
        BY <1>7 DEF StepAborts
  <2> QED BY <1>1, <1>3, <1>4, <2>1
<1>8. CASE StepFailsRecoverably
  <2>1. run' \in RunRecord /\ run'.phase = "recover" /\ run'.driver = run.driver
        BY <1>2, <1>8 DEF StepFailsRecoverably, RunRecord, Phase
  <2>2. run.driver \in Requests
        BY <1>8 DEF StepFailsRecoverably, InPhase, TypeInv, RunShape
  <2> QED BY <1>1, <1>2, <1>8, <2>1, <2>2 DEF StepFailsRecoverably, Suspended
<1>9. CASE StepFails
  <2>1. RunReturns(req, turn, active, run.steps, "failed") /\ RunLoopUnchanged
        BY <1>9 DEF StepFails
  <2> QED BY <1>1, <1>3, <1>4, <2>1
<1>10. CASE HandlerRetries
  <2> DEFINE rq == [req EXCEPT ![run.driver].step = "queued"]
             tr == [turn EXCEPT ![active].queue = <<run.driver>> \o @]
             q  == <<run.driver>> \o turn[active].queue
  <2>1. run.driver \in Requests
        BY <1>10 DEF HandlerRetries, InPhase, TypeInv, RunShape
  <2>2. rq \in [Requests -> RequestRecord]
        BY <1>2, <2>1 DEF RequestRecord, StepState
  <2>3. q \in Seq(Requests)
        BY <1>1, <1>2, <2>1 DEF TurnRecord
  <2>4. tr = [turn EXCEPT ![active].queue = q]
        OBVIOUS
  <2>5. BeginLoopStep(rq, tr, active, run.steps) /\ RunLoopUnchanged
        BY <1>10 DEF HandlerRetries
  <2> HIDE DEF rq, tr, q
  <2>6. tr \in [TurnIds -> TurnRecord] /\ \A u \in TurnIds : tr[u].state = turn[u].state
        BY <1>1, <1>2, <2>3, <2>4 DEF TurnRecord
  <2>7. Suspended(tr)
        BY <1>1, <1>2, <2>2, <2>5, <2>6, BeginLoopStepType
  <2> QED BY <1>1, <2>5, <2>6, <2>7 DEF Suspended
<1>11. CASE HandlerDeclines
  <2>1. RunReturns(req, turn, active, run.steps, "failed") /\ RunLoopUnchanged
        BY <1>11 DEF HandlerDeclines
  <2> QED BY <1>1, <1>3, <1>4, <2>1
<1>12. CASE CompleteLoopStep
  <2> DEFINE done(q) == [q EXCEPT !.step = "completed",
                                  !.result = IF @ = "pending" THEN "completed" ELSE @]
             rq == [req EXCEPT ![run.driver].step = "completed",
                               ![run.driver].result = IF @ = "pending" THEN "completed" ELSE @]
  <2>1. run.driver \in Requests
        BY <1>12 DEF CompleteLoopStep, InPhase, TypeInv, RunShape
  <2>2. rq \in [Requests -> RequestRecord]
        BY <1>2, <2>1 DEF RequestRecord, StepState, StepResult
  <2>3. /\ \/ \E result \in EndState : RunReturns(rq, turn, active, run.steps, result)
           \/ BeginLoopStep(rq, turn, active, run.steps)
        /\ RunLoopUnchanged
        BY <1>3, <1>12 DEF CompleteLoopStep
  <2> HIDE DEF rq
  <2> QED BY <1>1, <1>2, <2>2, <2>3, BeginLoopStepType, RunReturnsType
<1> QED BY <1>5, <1>6, <1>7, <1>8, <1>9, <1>10, <1>11, <1>12 DEF RunContinues

LEMMA RunContinuesType ==
    ASSUME TypeInv, RunContinues
    PROVE  TypeInv'
<1>1. Suspended(turn) /\ RunLoopUnchanged /\ active \in TurnIds /\ active # NoTurn
      BY RunContinuesSuspended
<1> QED BY <1>1 DEF Suspended, RunLoopUnchanged, TypeInv, TypeOK, RunShape

\* The turn table with the active turn ended.
EndedActive(tr) ==
    /\ tr \in [TurnIds -> TurnRecord]
    /\ \A u \in TurnIds : tr[u].state = IF u = active THEN run.result ELSE turn[u].state

LEMMA FinishTurnType ==
    ASSUME TypeInv, FinishTurn
    PROVE  /\ TypeInv'
           /\ active \in TurnIds /\ run.result \in EndState
           /\ \E tr \in [TurnIds -> TurnRecord] :
                 EndedActive(tr) /\ Pumped(tr, pendingTurns, NoTurn, quiescence)
<1> DEFINE rq1 == [r \in Requests |-> IF req[r].turn = active THEN StopStep(req[r]) ELSE req[r]]
           tr1 == [turn EXCEPT ![active].state = run.result,
                               ![active].ready = IF @ = "pending" THEN "rejected" ELSE @]
<1>1. /\ active \in TurnIds /\ run.result \in EndState
      BY DEF FinishTurn, InPhase, TypeInv, TypeOK, RunShape
<1>2. UNCHANGED <<nextTurnId, standalone, held, releasing, quiescence, disposing>>
      BY DEF FinishTurn
<1>3. IF disposing \/ pendingTurns = << >>
           THEN /\ req' = rq1 /\ turn' = tr1
                /\ active' = NoTurn
                /\ run' = Idle
                /\ MaybeSettle(NoTurn, pendingTurns, held)
                /\ UNCHANGED <<pendingTurns, context>>
           ELSE PumpTurns(rq1, tr1, pendingTurns, NoTurn, quiescence)
      BY DEF FinishTurn
<1>4. rq1 \in [Requests -> RequestRecord]
      BY StopStepType DEF TypeInv, TypeOK
<1>5. EndedActive(tr1)
  <2> DEFINE ready == IF turn[active].ready = "pending" THEN "rejected" ELSE turn[active].ready
  <2>1. ready \in PromiseState
        BY <1>1 DEF TypeInv, TypeOK, TurnRecord, PromiseState
  <2>2. tr1 = [turn EXCEPT ![active].state = run.result, ![active].ready = ready]
        OBVIOUS
  <2> HIDE DEF ready, tr1
  <2>3. run.result \in TurnState
        BY <1>1 DEF EndState, TurnState
  <2> QED BY <1>1, <2>1, <2>2, <2>3 DEF EndedActive, TypeInv, TypeOK, TurnRecord
<1>6. tr1 \in [TurnIds -> TurnRecord]
      BY <1>5 DEF EndedActive
<1> HIDE DEF rq1, tr1
<1>7. CASE disposing \/ pendingTurns = << >>
  <2>1. waiters' \subseteq Waiters
        BY <1>3, <1>7 DEF MaybeSettle, TypeInv, TypeOK
  <2>2. TypeInv'
        BY <1>2, <1>3, <1>4, <1>6, <1>7, <2>1, IdleType DEF TypeInv, TypeOK, RunShape
  <2>3. Pumped(tr1, pendingTurns, NoTurn, quiescence)
        BY <1>3, <1>7 DEF Pumped
  <2> QED BY <1>1, <1>5, <1>6, <2>2, <2>3
<1>8. CASE ~(disposing \/ pendingTurns = << >>)
  <2>1. PumpTurns(rq1, tr1, pendingTurns, NoTurn, quiescence)
        BY <1>3, <1>8
  <2>2. quiescence \in Nat /\ pendingTurns \in Seq(TurnIds)
        BY BoundsAssumption DEF TypeInv, TypeOK
  <2>3. /\ TablesTyped /\ waiters' \subseteq Waiters
        /\ Pumped(tr1, pendingTurns, NoTurn, quiescence)
        BY <1>4, <1>6, <2>1, <2>2, PumpTurnsType
  <2>4. TypeInv'
        BY <1>2, <2>3 DEF TablesTyped, TypeInv, TypeOK
  <2> QED BY <1>1, <1>5, <1>6, <2>3, <2>4
<1> QED BY <1>7, <1>8

--------------------------------------------------------------------------------
(* Type correctness.                                                       *)

LEMMA InitType == Init => TypeInv
<1> SUFFICES ASSUME Init PROVE TypeInv
    OBVIOUS
<1>1. req \in [Requests -> RequestRecord]
      BY DEF Init, RequestRecord, RequestState, PromiseState, StepState, StepResult
<1>2. turn \in [TurnIds -> TurnRecord]
  <2>1. << >> \in Seq(Requests)
        OBVIOUS
  <2> QED BY <2>1 DEF Init, TurnRecord, TurnState, PromiseState
<1>3. /\ << >> \in Seq(Requests) /\ << >> \in Seq(TurnIds)
      /\ 0 \in 0..MaxTurns /\ 0 \in 0..MaxLeases
      BY BoundsAssumption
<1>4. /\ nextTurnId = 0 /\ quiescence = 0 /\ pendingTurns = << >> /\ active = NoTurn
      /\ run = Idle /\ standalone = << >> /\ held = << >> /\ releasing = << >>
      /\ waiters = {} /\ disposing = FALSE /\ context = << >>
      BY DEF Init
<1> QED BY <1>1, <1>2, <1>3, <1>4, IdleType DEF TypeInv, TypeOK, RunShape

LEMMA NextType ==
    ASSUME TypeInv, [Next]_vars
    PROVE  TypeInv'
<1>1. CASE \E r \in Requests : \/ EnqueueNow(r) \/ EnqueueThrows(r) \/ EnqueueHeld(r)
                              \/ CancelStep(r) \/ AbortRequest(r)
      BY <1>1, EnqueueNowType, EnqueueThrowsType, EnqueueHeldType, CancelStepType,
         AbortRequestType
<1>2. CASE \/ AcquireQuiescence \/ ReleaseQuiescence \/ AdmitReleased \/ CancelActiveTurn
           \/ (\E t \in TurnIds : CancelQueuedTurn(t))
           \/ (\E w \in Waiters : Settled(w)) \/ Dispose \/ ResponseStarts
      BY <1>2, ReleaseQuiescenceType, AdmitReleasedType, CancelActiveTurnType,
         CancelQueuedTurnType, DisposeType, CallersType
<1>3. CASE RunContinues
      BY <1>3, RunContinuesType
<1>4. CASE FinishTurn
      BY <1>4, FinishTurnType
<1>5. CASE UNCHANGED vars
      BY <1>5 DEF vars, TypeInv, TypeOK, RunShape
<1> QED BY <1>1, <1>2, <1>3, <1>4, <1>5 DEF Next, RunLoop, RunContinues

\* Every variable keeps the shape the code gives it, for every set of requests of
\* every kind and every bound; with it, that the run loop is suspended in one of
\* its phases exactly while a turn is active, for a request that exists.
THEOREM TypeCorrect == SafetySpec => []TypeOK
<1>1. Init => TypeInv
      BY InitType
<1>2. TypeInv /\ [Next]_vars => TypeInv'
      BY NextType
<1>3. TypeInv => TypeOK
      BY DEF TypeInv
<1> QED BY <1>1, <1>2, <1>3, PTL DEF SafetySpec

================================================================================
