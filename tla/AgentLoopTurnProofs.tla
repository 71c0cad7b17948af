-------------------------- MODULE AgentLoopTurnProofs --------------------------
(***************************************************************************)
(* What AgentLoop promises about turns, requests and promises.             *)
(*                                                                         *)
(* Turns: they run one at a time, in the order they were created, a        *)
(* quiescence lease keeps the loop still, and the loop implements          *)
(* TurnQueue.  A step of AgentLoop is first reduced to what it does to the *)
(* states of the turns, the pending turns and the active one (TurnStep,    *)
(* six cases); the invariant and the refinement are then proved for those  *)
(* cases.                                                                  *)
(*                                                                         *)
(* Requests: each promise belongs to something that will settle it, each   *)
(* message enters the context once (RequestInv), and what is final stays   *)
(* final (SettleStep, with SettleInv).                                     *)
(***************************************************************************)
EXTENDS AgentLoopProofs

\* What the turn table, the pending turns and the active turn keep to.
QueueInv ==
    /\ \A t \in TurnIds : turn[t].state = "running" <=> t = active
    /\ PendingTurnsInOrder
    /\ \A t \in TurnIds : turn[t].state = "none" <=> t >= nextTurnId
    /\ active < nextTurnId
    /\ pendingTurns # << >> => active # NoTurn

\* What the leases, the held admissions and dispose keep to.
LeaseInv ==
    /\ QuiescentLoopIsIdle
    /\ held # << >> => quiescence > 0
    /\ releasing # << >> => quiescence = 0 /\ ~disposing
    /\ disposing => pendingTurns = << >> /\ held = << >>

TurnInv == TypeInv /\ QueueInv /\ LeaseInv

--------------------------------------------------------------------------------
(* Sequences.                                                              *)

LEMMA ItemsAppend ==
    ASSUME NEW R, NEW q \in Seq(R), NEW x \in R
    PROVE  Items(Append(q, x)) = Items(q) \cup {x}
<1>1. \A i \in DOMAIN q : i \in DOMAIN Append(q, x) /\ Append(q, x)[i] = q[i]
      OBVIOUS
<1>2. Len(q) + 1 \in DOMAIN Append(q, x) /\ Append(q, x)[Len(q) + 1] = x
      OBVIOUS
<1>3. \A i \in DOMAIN Append(q, x) : i \in DOMAIN q \/ i = Len(q) + 1
      OBVIOUS
<1> QED BY <1>1, <1>2, <1>3 DEF Items

LEMMA ItemsEmpty == Items(<< >>) = {}
BY DEF Items

LEMMA ItemsMember ==
    ASSUME NEW R, NEW q \in Seq(R), NEW x \in Items(q)
    PROVE  q # << >> /\ x \in R
BY DEF Items

LEMMA ItemsHead ==
    ASSUME NEW R, NEW q \in Seq(R), q # << >>
    PROVE  /\ Head(q) \in Items(q)
           /\ \A x \in Items(Tail(q)) : x \in Items(q)
           /\ \A x \in Items(q) : x = Head(q) \/ x \in Items(Tail(q))
<1>1. 1 \in DOMAIN q /\ Head(q) = q[1]
      OBVIOUS
<1>2. \A i \in DOMAIN Tail(q) : i + 1 \in DOMAIN q /\ Tail(q)[i] = q[i + 1]
      OBVIOUS
<1>3. \A i \in DOMAIN q : i = 1 \/ (i - 1 \in DOMAIN Tail(q) /\ Tail(q)[i - 1] = q[i])
      OBVIOUS
<1>4. Head(q) \in Items(q)
      BY <1>1 DEF Items
<1>5. \A x \in Items(Tail(q)) : x \in Items(q)
      BY <1>2 DEF Items
<1>6. ASSUME NEW x \in Items(q), x # Head(q)
      PROVE  x \in Items(Tail(q))
  <2>1. PICK i \in DOMAIN q : x = q[i]
        BY DEF Items
  <2>2. i - 1 \in DOMAIN Tail(q) /\ Tail(q)[i - 1] = x
        BY <1>1, <1>3, <1>6, <2>1
  <2> QED BY <2>2 DEF Items
<1> QED BY <1>4, <1>5, <1>6

LEMMA NoItems ==
    ASSUME NEW R, NEW q \in Seq(R), Items(q) = {}
    PROVE  q = << >>
BY ItemsHead

\* The turns of q are in the order they were created.
Ordered(q) == \A i, j \in DOMAIN q : i < j => q[i] < q[j]

LEMMA OrderedTail ==
    ASSUME NEW q \in Seq(TurnIds), q # << >>, Ordered(q)
    PROVE  /\ Ordered(Tail(q))
           /\ \A x \in Items(Tail(q)) : Head(q) < x
<1>1. \A i \in DOMAIN Tail(q) : i \in Nat /\ i >= 1 /\ i + 1 \in DOMAIN q /\ Tail(q)[i] = q[i + 1]
      OBVIOUS
<1>2. 1 \in DOMAIN q /\ Head(q) = q[1]
      OBVIOUS
<1>3. Ordered(Tail(q))
      BY <1>1 DEF Ordered
<1>4. \A i \in DOMAIN Tail(q) : 1 < i + 1
      BY <1>1
<1>5. \A i \in DOMAIN Tail(q) : q[1] < q[i + 1]
      BY <1>1, <1>2, <1>4 DEF Ordered
<1> QED BY <1>1, <1>2, <1>3, <1>5 DEF Items

LEMMA OrderedAppend ==
    ASSUME NEW q \in Seq(TurnIds), NEW x \in TurnIds, Ordered(q), \A y \in Items(q) : y < x
    PROVE  Ordered(Append(q, x))
<1>1. \A i \in DOMAIN Append(q, x) :
        \/ i \in DOMAIN q /\ Append(q, x)[i] = q[i] /\ q[i] < x
        \/ i = Len(q) + 1 /\ Append(q, x)[i] = x
      BY DEF Items
<1>2. \A i \in DOMAIN q : i \in Nat /\ i <= Len(q)
      OBVIOUS
<1> QED BY <1>1, <1>2 DEF Ordered

LEMMA OrderedKeep ==
    ASSUME NEW q \in Seq(TurnIds), NEW S, Ordered(q)
    PROVE  Ordered(Keep(q, S))
<1> DEFINE k == Keep(q, S)
<1>1. k \in Seq(TurnIds) /\ DOMAIN k = 1..Len(k)
      BY KeepSeq
<1>2. ASSUME NEW i \in DOMAIN k, NEW j \in DOMAIN k, i < j
      PROVE  k[i] < k[j]
  <2>1. i \in 1..Len(Keep(q, S)) /\ j \in 1..Len(Keep(q, S))
        BY <1>1
  <2>2. \E a, b \in 1..Len(q) : a < b /\ Keep(q, S)[i] = q[a] /\ Keep(q, S)[j] = q[b]
    <3> HIDE DEF k
    <3> QED BY <1>2, <2>1, KeepOrder, SMTT(30)
  <2>3. PICK a, b \in 1..Len(q) : a < b /\ k[i] = q[a] /\ k[j] = q[b]
        BY <2>2
  <2>4. a \in DOMAIN q /\ b \in DOMAIN q
        OBVIOUS
  <2> QED BY <2>3, <2>4 DEF Ordered
<1> QED BY <1>2 DEF Ordered

--------------------------------------------------------------------------------
(* What a step does to the turns.                                          *)

Quiet ==
    /\ UNCHANGED <<nextTurnId, pendingTurns, active>>
    /\ \A u \in TurnIds : turn'[u].state = turn[u].state

\* A turn is created behind the turn that runs, ...
QueuesTurn ==
    /\ nextTurnId \in TurnIds /\ nextTurnId' = nextTurnId + 1
    /\ active # NoTurn /\ active' = active
    /\ pendingTurns' = Append(pendingTurns, nextTurnId)
    /\ \A u \in TurnIds : turn'[u].state = IF u = nextTurnId THEN "queued" ELSE turn[u].state

\* ... or on an idle loop, where it starts.
CreatesAndStarts ==
    /\ nextTurnId \in TurnIds /\ nextTurnId' = nextTurnId + 1
    /\ active = NoTurn /\ active' = nextTurnId
    /\ pendingTurns = << >> /\ pendingTurns' = << >>
    /\ \A u \in TurnIds : turn'[u].state = IF u = nextTurnId THEN "running" ELSE turn[u].state

\* The pending turns of ts are cancelled before they start.
CancelsPending(ts) ==
    /\ UNCHANGED <<nextTurnId, active>>
    /\ ts \subseteq Items(pendingTurns)
    /\ pendingTurns' = Keep(pendingTurns, TurnIds \ ts)
    /\ \A u \in TurnIds : turn'[u].state = IF u \in ts THEN "cancelled" ELSE turn[u].state

\* The active turn ends, and the oldest pending one starts if there is one.
EndsLast ==
    /\ nextTurnId' = nextTurnId /\ active \in TurnIds /\ active' = NoTurn
    /\ pendingTurns = << >> /\ pendingTurns' = << >>
    /\ run.result \in EndState
    /\ \A u \in TurnIds : turn'[u].state = IF u = active THEN run.result ELSE turn[u].state

EndsAndStarts ==
    /\ nextTurnId' = nextTurnId /\ active \in TurnIds
    /\ pendingTurns # << >> /\ pendingTurns' = Tail(pendingTurns)
    /\ active' = Head(pendingTurns)
    /\ run.result \in EndState
    /\ \A u \in TurnIds :
          turn'[u].state = IF u = Head(pendingTurns) THEN "running"
                           ELSE IF u = active THEN run.result ELSE turn[u].state

TurnStep ==
    \/ Quiet \/ QueuesTurn \/ CreatesAndStarts
    \/ (\E ts : CancelsPending(ts)) \/ EndsLast \/ EndsAndStarts

LEMMA AdmitTurnStep ==
    ASSUME TypeInv, QueueInv, ~disposing,
           NEW rq \in [Requests -> RequestRecord], NEW r \in Requests,
           \/ AdmitNewTurn(rq, r)
           \/ (AdmitStandalone(rq, r) \/ AdmitActive(rq, r)) /\ waiters' \subseteq Waiters
    PROVE  TurnStep
<1> DEFINE n == nextTurnId
<1>1. \/ /\ n \in TurnIds /\ n' = n + 1
         /\ \E tr \in [TurnIds -> TurnRecord] :
               QueuedNext(tr, n) /\ Pumped(tr, Append(pendingTurns, n), active, 0)
      \/ Quiet
      BY AdmitType DEF Quiet
<1>2. ASSUME n \in TurnIds, n' = n + 1, NEW tr \in [TurnIds -> TurnRecord],
             QueuedNext(tr, n), Pumped(tr, Append(pendingTurns, n), active, 0)
      PROVE  TurnStep
  <2>1. pendingTurns \in Seq(TurnIds)
        BY DEF TypeInv, TypeOK
  <2>2. Append(pendingTurns, n) # << >>
        BY <1>2, <2>1
  <2>3. CASE active # NoTurn
    <3>1. turn' = tr /\ pendingTurns' = Append(pendingTurns, n) /\ active' = active
          BY <1>2, <2>3 DEF Pumped
    <3> QED BY <1>2, <2>3, <3>1 DEF QueuedNext, QueuesTurn, TurnStep
  <2>4. CASE active = NoTurn
    <3>1. pendingTurns = << >>
          BY <2>4 DEF QueueInv
    <3>2. Head(Append(pendingTurns, n)) = n /\ Tail(Append(pendingTurns, n)) = << >>
          BY <1>2, <3>1
    <3>3. /\ pendingTurns' = << >> /\ active' = n
          /\ \A u \in TurnIds : turn'[u].state = IF u = n THEN "running" ELSE tr[u].state
          BY <1>2, <2>2, <2>4, <3>2 DEF Pumped
    <3> QED BY <1>2, <2>4, <3>1, <3>3 DEF QueuedNext, CreatesAndStarts, TurnStep
  <2> QED BY <2>3, <2>4
<1> QED BY <1>1, <1>2 DEF TurnStep

LEMMA FinishTurnStep ==
    ASSUME TypeInv, QueueInv, LeaseInv, FinishTurn
    PROVE  TurnStep
<1>1. active \in TurnIds /\ run.result \in EndState /\ active # NoTurn
      BY FinishTurnType, TurnIdsNat
<1>2. PICK tr \in [TurnIds -> TurnRecord] :
        EndedActive(tr) /\ Pumped(tr, pendingTurns, NoTurn, quiescence)
      BY FinishTurnType
<1>3. nextTurnId' = nextTurnId
      BY DEF FinishTurn
<1>4. ~(quiescence > 0) /\ (disposing => pendingTurns = << >>)
      BY <1>1 DEF LeaseInv, QuiescentLoopIsIdle
<1>5. CASE pendingTurns = << >>
  <2>1. turn' = tr /\ pendingTurns' = << >> /\ active' = NoTurn
        BY <1>2, <1>5 DEF Pumped
  <2> QED BY <1>1, <1>2, <1>3, <1>5, <2>1 DEF EndedActive, EndsLast, TurnStep
<1>6. CASE pendingTurns # << >>
  <2>1. /\ pendingTurns' = Tail(pendingTurns)
        /\ active' = Head(pendingTurns)
        /\ \A u \in TurnIds :
              turn'[u].state = IF u = Head(pendingTurns) THEN "running" ELSE tr[u].state
        BY <1>2, <1>4, <1>6 DEF Pumped
  <2> QED BY <1>1, <1>2, <1>3, <1>6, <2>1 DEF EndedActive, EndsAndStarts, TurnStep
<1> QED BY <1>5, <1>6

LEMMA CancellingTurnStep ==
    ASSUME TypeInv, Dispose \/ \E t \in TurnIds : CancelQueuedTurn(t)
    PROVE  TurnStep
<1>1. turn \in [TurnIds -> TurnRecord] /\ pendingTurns \in Seq(TurnIds)
      BY DEF TypeInv, TypeOK
<1>2. ASSUME NEW t \in TurnIds, CancelQueuedTurn(t)
      PROVE  CancelsPending({t})
  <2>1. /\ t \in Items(pendingTurns)
        /\ pendingTurns' = Keep(pendingTurns, TurnIds \ {t})
        /\ turn' = CancelledBeforeStart(turn, {t})
        /\ UNCHANGED <<nextTurnId, active>>
        BY <1>2 DEF CancelQueuedTurn
  <2> QED BY <1>1, <2>1, CancelledBeforeStartType DEF CancelsPending
<1>3. ASSUME Dispose
      PROVE  CancelsPending(Items(pendingTurns))
  <2> DEFINE ts  == Items(pendingTurns)
             tr1 == CancelledBeforeStart(turn, ts)
             k   == Keep(pendingTurns, TurnIds \ ts)
  <2>1. /\ turn' = IF active = NoTurn THEN tr1 ELSE [tr1 EXCEPT ![active].aborted = TRUE]
        /\ pendingTurns' = << >>
        /\ UNCHANGED <<nextTurnId, active>>
        BY <1>3 DEF Dispose
  <2>2. /\ tr1 \in [TurnIds -> TurnRecord]
        /\ \A u \in TurnIds : tr1[u].state = IF u \in ts THEN "cancelled" ELSE turn[u].state
        BY <1>1, CancelledBeforeStartType
  <2>3. k = << >>
    <3>1. k \in Seq(TurnIds) /\ Items(k) = Items(pendingTurns) \cap (TurnIds \ ts)
          BY <1>1, KeepSeq, KeepItems
    <3> HIDE DEF k
    <3> QED BY <3>1, NoItems
  <2> HIDE DEF tr1
  <2>4. \A u \in TurnIds : turn'[u].state = tr1[u].state
        BY <2>1, <2>2 DEF TurnRecord
  <2> QED BY <2>1, <2>2, <2>3, <2>4 DEF CancelsPending
<1> QED BY <1>2, <1>3 DEF TurnStep

LEMMA NextTurnStep ==
    ASSUME TypeInv, QueueInv, LeaseInv, [Next]_vars
    PROVE  TurnStep
<1>1. turn \in [TurnIds -> TurnRecord] /\ req \in [Requests -> RequestRecord]
      /\ releasing \in Seq(Requests) /\ waiters \subseteq Waiters
      BY DEF TypeInv, TypeOK
<1>2. CASE \E r \in Requests : EnqueueNow(r)
  <2>1. PICK r \in Requests : EnqueueNow(r)
        BY <1>2
  <2>2. /\ ~disposing
        /\ \/ AdmitNewTurn(Sent(r), r)
           \/ (AdmitStandalone(Sent(r), r) \/ AdmitActive(Sent(r), r)) /\ waiters' \subseteq Waiters
        BY <1>1, <2>1 DEF EnqueueNow, CanEnqueue
  <2> QED BY <2>2, SentType, AdmitTurnStep
<1>3. CASE AdmitReleased
  <2> DEFINE r == Head(releasing)
  <2>1. r \in Requests /\ ~disposing
        BY <1>1, <1>3 DEF AdmitReleased, LeaseInv
  <2>2. \/ \/ AdmitNewTurn(req, r)
           \/ (AdmitStandalone(req, r) \/ AdmitActive(req, r)) /\ waiters' \subseteq Waiters
        \/ UNCHANGED <<turn, nextTurnId, pendingTurns, active>>
        BY <1>1, <1>3 DEF AdmitReleased
  <2>3. CASE UNCHANGED <<turn, nextTurnId, pendingTurns, active>>
        BY <2>3 DEF Quiet, TurnStep
  <2> QED BY <1>1, <2>1, <2>2, <2>3, AdmitTurnStep
<1>4. CASE ReleaseQuiescence
  <2>1. CASE quiescence = 1 /\ ~disposing
    <3>1. PumpTurns(req, turn, pendingTurns, active, 0) /\ nextTurnId' = nextTurnId
          BY <1>4, <2>1 DEF ReleaseQuiescence
    <3>2. pendingTurns = << >>
          BY <2>1 DEF LeaseInv, QuiescentLoopIsIdle
    <3>3. Pumped(turn, pendingTurns, active, 0)
          BY <1>1, <3>1, PumpTurnsType DEF TypeInv, TypeOK
    <3>4. turn' = turn /\ pendingTurns' = pendingTurns /\ active' = active
          BY <3>2, <3>3 DEF Pumped
    <3> QED BY <3>1, <3>4 DEF Quiet, TurnStep
  <2>2. CASE ~(quiescence = 1 /\ ~disposing)
        BY <1>4, <2>2 DEF ReleaseQuiescence, Quiet, TurnStep
  <2> QED BY <2>1, <2>2
<1>5. CASE Dispose \/ \E t \in TurnIds : CancelQueuedTurn(t)
      BY <1>5, CancellingTurnStep
<1>6. CASE FinishTurn
      BY <1>6, FinishTurnStep
<1>7. CASE RunContinues
  <2>1. Suspended(turn) /\ RunLoopUnchanged
        BY <1>7, RunContinuesSuspended
  <2> QED BY <2>1 DEF Suspended, RunLoopUnchanged, Quiet, TurnStep
<1>8. CASE CancelActiveTurn \/ ResponseStarts
  <2>1. \A u \in TurnIds : turn'[u].state = turn[u].state
    <3>1. active \in TurnIds
          BY <1>8 DEF CancelActiveTurn, ResponseStarts, InPhase, TypeInv, TypeOK
    <3>2. CASE CancelActiveTurn
          BY <1>1, <3>1, <3>2 DEF CancelActiveTurn, TurnRecord
    <3>3. CASE ResponseStarts
          BY <1>1, <3>1, <3>3 DEF ResponseStarts, TurnRecord
    <3> QED BY <1>8, <3>2, <3>3
  <2> QED BY <1>8, <2>1 DEF CancelActiveTurn, ResponseStarts, RunLoopUnchanged, Quiet, TurnStep
<1>9. CASE \/ \E r \in Requests : \/ EnqueueThrows(r) \/ EnqueueHeld(r)
                                  \/ CancelStep(r) \/ AbortRequest(r)
           \/ AcquireQuiescence \/ (\E w \in Waiters : Settled(w)) \/ UNCHANGED vars
  <2>1. UNCHANGED <<turn, nextTurnId, pendingTurns, active>>
        BY <1>9 DEF EnqueueThrows, EnqueueHeld, CancelStep, AbortRequest, AcquireQuiescence,
                    Settled, vars
  <2> QED BY <2>1 DEF Quiet, TurnStep
<1> QED BY <1>2, <1>3, <1>4, <1>5, <1>6, <1>7, <1>8, <1>9 DEF Next, RunLoop, RunContinues

--------------------------------------------------------------------------------
(* The invariant of the turns.                                             *)

\* QueueInv, unfolded into the facts the cases below use.
Queue ==
    /\ \A t \in TurnIds : turn[t].state = "running" <=> t = active
    /\ \A t \in TurnIds : t \in Items(pendingTurns) <=> turn[t].state = "queued"
    /\ Items(pendingTurns) \subseteq TurnIds
    /\ Ordered(pendingTurns)
    /\ \A t \in Items(pendingTurns) : active < t /\ t < nextTurnId
    /\ \A t \in TurnIds : turn[t].state = "none" <=> t >= nextTurnId
    /\ active < nextTurnId
    /\ pendingTurns # << >> => active # NoTurn

LEMMA QueueUnfolded == QueueInv <=> Queue
BY DEF QueueInv, Queue, PendingTurnsInOrder, Ordered

LEMMA TurnStepKeepsQueue ==
    ASSUME TypeInv, TypeInv', QueueInv, TurnStep
    PROVE  QueueInv'
<1> DEFINE n  == nextTurnId
           q  == pendingTurns
           q1 == pendingTurns'
<1>1. Queue
      BY QueueUnfolded
<1>2. /\ q \in Seq(TurnIds) /\ n \in Nat
      /\ active \in TurnIds \cup {NoTurn} /\ TurnIds \subseteq Nat /\ NoTurn \notin TurnIds
      /\ NoTurn = -1
      BY TurnIdsNat DEF TypeInv, TypeOK, NoTurn
<1>3. CASE Quiet
      BY <1>1, <1>3 DEF Quiet, Queue, QueueInv, PendingTurnsInOrder, Ordered
<1>4. CASE QueuesTurn
  <2>1. /\ n \in TurnIds /\ n' = n + 1 /\ active' = active /\ active # NoTurn
        /\ q1 = Append(q, n)
        /\ \A u \in TurnIds : turn'[u].state = IF u = n THEN "queued" ELSE turn[u].state
        BY <1>4 DEF QueuesTurn
  <2>2. Items(q1) = Items(q) \cup {n}
        BY <1>2, <2>1, ItemsAppend
  <2>3. Ordered(q1)
        BY <1>1, <1>2, <2>1, OrderedAppend DEF Queue
  <2>4. turn[n].state = "none"
        BY <1>1, <1>2, <2>1 DEF Queue
  <2>5. Queue'
    <3>1. \A t \in TurnIds : turn'[t].state = "running" <=> t = active'
          BY <1>1, <2>1, <2>4 DEF Queue
    <3>2. \A t \in TurnIds : t \in Items(q1) <=> turn'[t].state = "queued"
          BY <1>1, <2>1, <2>2, <2>4 DEF Queue
    <3>3. Items(q1) \subseteq TurnIds /\ \A t \in Items(q1) : active' < t /\ t < n'
      <4>1. active < n /\ n < n + 1 /\ Items(q) \subseteq TurnIds
            BY <1>1, <1>2 DEF Queue
      <4>2. ASSUME NEW t \in Items(q)
            PROVE  active < t /\ t < n + 1
        <5>1. active < t /\ t < n /\ t \in Nat
              BY <1>1, <1>2, <4>1 DEF Queue
        <5> QED BY <1>2, <5>1
      <4> QED BY <2>1, <2>2, <4>1, <4>2
    <3>4. \A t \in TurnIds : turn'[t].state = "none" <=> t >= n'
          BY <1>1, <1>2, <2>1 DEF Queue
    <3>5. active' < n' /\ active' # NoTurn
          BY <1>1, <1>2, <2>1 DEF Queue
    <3> QED BY <2>3, <3>1, <3>2, <3>3, <3>4, <3>5 DEF Queue, Ordered
  <2> QED BY <2>5, QueueUnfolded, PTL
<1>5. CASE CreatesAndStarts
  <2>1. /\ n \in TurnIds /\ n' = n + 1 /\ active' = n /\ active = NoTurn
        /\ q = << >> /\ q1 = << >>
        /\ \A u \in TurnIds : turn'[u].state = IF u = n THEN "running" ELSE turn[u].state
        BY <1>5 DEF CreatesAndStarts
  <2>2. Items(q) = {} /\ Items(q1) = {} /\ Ordered(q1)
        BY <2>1, ItemsEmpty DEF Ordered
  <2>3. \A t \in TurnIds : turn[t].state # "running" /\ turn[t].state # "queued"
        BY <1>1, <1>2, <2>1, <2>2 DEF Queue
  <2>4. \A t \in TurnIds : turn'[t].state = "none" <=> t >= n'
        BY <1>1, <1>2, <2>1 DEF Queue
  <2>5. Queue'
        BY <1>2, <2>1, <2>2, <2>3, <2>4 DEF Queue, Ordered
  <2> QED BY <2>5, QueueUnfolded, PTL
<1>6. ASSUME NEW ts, CancelsPending(ts)
      PROVE  QueueInv'
  <2>1. /\ n' = n /\ active' = active /\ ts \subseteq Items(q)
        /\ q1 = Keep(q, TurnIds \ ts)
        /\ \A u \in TurnIds : turn'[u].state = IF u \in ts THEN "cancelled" ELSE turn[u].state
        BY <1>6 DEF CancelsPending
  <2>2. Items(q1) = Items(q) \cap (TurnIds \ ts)
        BY <1>2, <2>1, KeepItems
  <2>3. Ordered(q1)
        BY <1>1, <1>2, <2>1, OrderedKeep DEF Queue
  <2>4. q1 # << >> => active # NoTurn
    <3>1. q1 \in Seq(TurnIds)
          BY <1>2, <2>1, KeepSeq
    <3>2. q1 # << >> => q # << >>
          BY <1>2, <2>2, <3>1, ItemsHead, ItemsMember
    <3> QED BY <1>1, <3>2 DEF Queue
  <2>5. \A t \in ts : turn[t].state = "queued" /\ t \in TurnIds
        BY <1>1, <2>1 DEF Queue
  <2>6. Queue'
    <3>1. \A t \in TurnIds : turn'[t].state = "running" <=> t = active'
          BY <1>1, <2>1, <2>5 DEF Queue
    <3>2. \A t \in TurnIds : t \in Items(q1) <=> turn'[t].state = "queued"
          BY <1>1, <2>1, <2>2, <2>5 DEF Queue
    <3>3. \A t \in TurnIds : turn'[t].state = "none" <=> t >= n'
          BY <1>1, <2>1, <2>5 DEF Queue
    <3>4. Items(q1) \subseteq TurnIds /\ \A t \in Items(q1) : active' < t /\ t < n'
          BY <1>1, <2>1, <2>2 DEF Queue
    <3> QED BY <1>1, <2>1, <2>3, <2>4, <3>1, <3>2, <3>3, <3>4 DEF Queue, Ordered
  <2> QED BY <2>6, QueueUnfolded, PTL
<1>7. CASE EndsLast
  <2>1. /\ n' = n /\ active \in TurnIds /\ active' = NoTurn /\ q = << >> /\ q1 = << >>
        /\ run.result \in {"completed", "failed", "cancelled"}
        /\ \A u \in TurnIds : turn'[u].state = IF u = active THEN run.result ELSE turn[u].state
        BY <1>7 DEF EndsLast, EndState
  <2>2. Items(q) = {} /\ Items(q1) = {} /\ Ordered(q1)
        BY <2>1, ItemsEmpty DEF Ordered
  <2>3. Queue'
    <3>1. \A t \in TurnIds : turn'[t].state = "running" <=> t = active'
          BY <1>1, <1>2, <2>1 DEF Queue
    <3>2. \A t \in TurnIds : turn'[t].state # "queued"
          BY <1>1, <2>1, <2>2 DEF Queue
    <3>3. \A t \in TurnIds : turn'[t].state = "none" <=> t >= n'
          BY <1>1, <1>2, <2>1 DEF Queue
    <3> QED BY <1>2, <2>1, <2>2, <3>1, <3>2, <3>3 DEF Queue, Ordered
  <2> QED BY <2>3, QueueUnfolded, PTL
<1>8. CASE EndsAndStarts
  <2> DEFINE h == Head(q)
  <2>1. /\ n' = n /\ active \in TurnIds /\ active' = h /\ q # << >> /\ q1 = Tail(q)
        /\ run.result \in {"completed", "failed", "cancelled"}
        /\ \A u \in TurnIds :
              turn'[u].state = IF u = h THEN "running"
                               ELSE IF u = active THEN run.result ELSE turn[u].state
        BY <1>8 DEF EndsAndStarts, EndState
  <2>2. /\ h \in Items(q) /\ h \in TurnIds
        /\ \A x \in Items(q1) : x \in Items(q) /\ h < x
        /\ \A x \in Items(q) : x = h \/ x \in Items(q1)
        /\ Ordered(q1)
        BY <1>1, <1>2, <2>1, ItemsHead, OrderedTail DEF Queue
  <2>3. turn[h].state = "queued" /\ active < h /\ h < n /\ turn[active].state = "running"
        BY <1>1, <2>1, <2>2 DEF Queue
  <2> HIDE DEF h
  <2>4. Queue'
    <3>1. \A t \in TurnIds : turn'[t].state = "running" <=> t = active'
          BY <1>1, <2>1, <2>2, <2>3 DEF Queue
    <3>2. \A t \in TurnIds : t \in Items(q1) <=> turn'[t].state = "queued"
          BY <1>1, <1>2, <2>1, <2>2, <2>3 DEF Queue
    <3>3. \A t \in TurnIds : turn'[t].state = "none" <=> t >= n'
          BY <1>1, <1>2, <2>1, <2>3 DEF Queue
    <3>4. Items(q1) \subseteq TurnIds /\ \A t \in Items(q1) : active' < t /\ t < n'
          BY <1>1, <2>1, <2>2 DEF Queue
    <3>5. active' < n' /\ active' # NoTurn
          BY <1>2, <2>1, <2>2, <2>3
    <3> QED BY <2>2, <3>1, <3>2, <3>3, <3>4, <3>5 DEF Queue, Ordered
  <2> QED BY <2>4, QueueUnfolded, PTL
<1> QED BY <1>3, <1>4, <1>5, <1>6, <1>7, <1>8 DEF TurnStep

--------------------------------------------------------------------------------
(* The invariant of the leases.                                            *)

\* A step that leaves the turns and the leases alone and, under a lease, revives no
\* aborted request.
Harmless ==
    /\ UNCHANGED <<pendingTurns, active, standalone, quiescence, releasing, disposing>>
    /\ quiescence > 0 =>
          \A x \in Requests : req[x].state = "aborted" => req'[x].state = "aborted"
    /\ held' # << >> => held # << >> \/ (quiescence > 0 /\ ~disposing)

LEMMA HarmlessKeepsLease ==
    ASSUME LeaseInv, Harmless
    PROVE  LeaseInv'
<1>1. QuiescentLoopIsIdle'
  <2> SUFFICES ASSUME quiescence' > 0
               PROVE  /\ active' = NoTurn /\ pendingTurns' = << >>
                      /\ Items(standalone') \subseteq Aborted(req')
      BY DEF QuiescentLoopIsIdle
  <2>1. /\ active = NoTurn /\ pendingTurns = << >> /\ Items(standalone) \subseteq Aborted(req)
        /\ UNCHANGED <<pendingTurns, active, standalone>>
        BY DEF Harmless, LeaseInv, QuiescentLoopIsIdle
  <2>2. Aborted(req) \subseteq Aborted(req')
        BY DEF Harmless, Aborted
  <2> QED BY <2>1, <2>2
<1> QED BY <1>1 DEF Harmless, LeaseInv

LEMMA LeaseKept ==
    ASSUME TypeInv, QueueInv, LeaseInv, [Next]_vars
    PROVE  LeaseInv'
<1>1. /\ standalone \in Seq(Requests) /\ held \in Seq(Requests) /\ releasing \in Seq(Requests)
      /\ req \in [Requests -> RequestRecord] /\ quiescence \in Nat
      BY BoundsAssumption DEF TypeInv, TypeOK
<1>2. Items(standalone) \subseteq Requests
      BY <1>1 DEF Items
<1>3. Items(<< >>) = {}
      BY ItemsEmpty
\* A step of the run loop, or of an admission: no lease is held.
<1>4. ASSUME UNCHANGED <<held, quiescence, disposing>>, quiescence = 0, ~disposing,
             releasing' # << >> => releasing # << >>
      PROVE  LeaseInv'
      BY <1>1, <1>4 DEF LeaseInv, QuiescentLoopIsIdle
<1>5. CASE \E r \in Requests : EnqueueNow(r)
      BY <1>4, <1>5 DEF EnqueueNow, CanEnqueue
<1>6. CASE \E r \in Requests : EnqueueThrows(r)
  <2>1. PICK r \in Requests : EnqueueThrows(r)
        BY <1>6
  <2>2. quiescence = 0 /\ UNCHANGED <<held, quiescence, disposing, releasing>> /\ ~disposing
        BY <2>1 DEF EnqueueThrows, CanEnqueue
  <2> QED BY <1>4, <2>2
<1>7. CASE \E r \in Requests : EnqueueHeld(r)
  <2>1. PICK r \in Requests : EnqueueHeld(r)
        BY <1>7
  <2>2. /\ req[r].state = "new" /\ req' = Sent(r) /\ quiescence > 0 /\ ~disposing
        BY <2>1 DEF EnqueueHeld, CanEnqueue
  <2>3. ASSUME NEW x \in Requests, req[x].state = "aborted"
        PROVE  req'[x].state = "aborted"
        BY <1>1, <2>2, <2>3 DEF Sent
  <2> QED BY <2>1, <2>2, <2>3, HarmlessKeepsLease DEF EnqueueHeld, Harmless
<1>8. CASE AcquireQuiescence
  <2>1. /\ releasing = << >> /\ ~disposing /\ active = NoTurn /\ quiescence' = quiescence + 1
        /\ UNCHANGED <<req, pendingTurns, active, standalone, held, releasing, disposing>>
        BY <1>8 DEF AcquireQuiescence
  <2>2. pendingTurns = << >> /\ Items(standalone) \subseteq Aborted(req)
        BY <1>8 DEF AcquireQuiescence, LoopHasPendingRequests, HasPendingRequests
  <2> QED BY <1>1, <2>1, <2>2 DEF LeaseInv, QuiescentLoopIsIdle
<1>9. CASE ReleaseQuiescence
  <2>1. /\ releasing = << >> /\ quiescence > 0 /\ quiescence' = quiescence - 1
        /\ UNCHANGED <<standalone, disposing>>
        BY <1>9 DEF ReleaseQuiescence
  <2>2. CASE quiescence = 1 /\ ~disposing
    <3>1. held' = << >>
          BY <1>9, <2>2 DEF ReleaseQuiescence
    <3> QED BY <2>1, <2>2, <3>1 DEF LeaseInv, QuiescentLoopIsIdle
  <2>3. CASE ~(quiescence = 1 /\ ~disposing)
    <3>1. UNCHANGED <<req, pendingTurns, active, held, releasing>>
          BY <1>9, <2>3 DEF ReleaseQuiescence
    <3>2. quiescence = 1 => disposing
          BY <2>3
    <3>3. quiescence > 1 => quiescence' > 0
          BY <1>1, <2>1
    <3> QED BY <1>1, <2>1, <3>1, <3>2, <3>3 DEF LeaseInv, QuiescentLoopIsIdle
  <2> QED BY <2>2, <2>3
<1>10. CASE AdmitReleased
  <2>1. /\ releasing # << >> /\ quiescence = 0 /\ ~disposing
        /\ UNCHANGED <<held, quiescence, disposing>>
        BY <1>10 DEF AdmitReleased, LeaseInv
  <2> QED BY <1>4, <2>1
<1>11. CASE CancelActiveTurn
      BY <1>11, HarmlessKeepsLease DEF CancelActiveTurn, Harmless
<1>12. CASE \E t \in TurnIds : CancelQueuedTurn(t)
  <2>1. PICK t \in TurnIds : CancelQueuedTurn(t)
        BY <1>12
  <2>2. /\ t \in Items(pendingTurns)
        /\ UNCHANGED <<held, quiescence, disposing, releasing>>
        BY <2>1 DEF CancelQueuedTurn
  <2>3. pendingTurns # << >>
        BY <2>2, ItemsMember DEF TypeInv, TypeOK
  <2>4. ~(quiescence > 0) /\ ~disposing
        BY <2>3 DEF LeaseInv, QuiescentLoopIsIdle
  <2> QED BY <1>1, <1>4, <2>2, <2>4
<1>13. CASE \E r \in Requests : CancelStep(r)
  <2>1. PICK r \in Requests : CancelStep(r)
        BY <1>13
  <2>2. req' = [req EXCEPT ![r] = StopStep(@)]
        BY <2>1 DEF CancelStep
  <2>3. ASSUME NEW x \in Requests, req[x].state = "aborted"
        PROVE  req'[x].state = "aborted"
        BY <1>1, <2>2, <2>3 DEF StopStep, Abort, RequestRecord
  <2> QED BY <2>1, <2>3, HarmlessKeepsLease DEF CancelStep, Harmless
<1>14. CASE \E r \in Requests : AbortRequest(r)
  <2>1. PICK r \in Requests : AbortRequest(r)
        BY <1>14
  <2>2. /\ req' = [req EXCEPT ![r] = RejectAssignment(Abort(@))]
        /\ held' = held \/ r \in Items(held)
        BY <2>1 DEF AbortRequest
  <2>3. ASSUME NEW x \in Requests, req[x].state = "aborted"
        PROVE  req'[x].state = "aborted"
        BY <1>1, <2>2, <2>3 DEF RejectAssignment, Abort, RequestRecord
  <2>4. held' # << >> => held # << >>
        BY <1>1, <2>2, ItemsMember
  <2> QED BY <2>1, <2>3, <2>4, HarmlessKeepsLease DEF AbortRequest, Harmless
<1>15. CASE \E w \in Waiters : Settled(w)
      BY <1>15, HarmlessKeepsLease DEF Settled, Harmless
<1>16. CASE Dispose
  <2>1. /\ releasing = << >> /\ pendingTurns' = << >> /\ standalone' = << >> /\ held' = << >>
        /\ UNCHANGED <<active, releasing, quiescence>>
        BY <1>16 DEF Dispose
  <2> QED BY <1>3, <2>1 DEF LeaseInv, QuiescentLoopIsIdle
<1>17. CASE ResponseStarts
      BY <1>17, HarmlessKeepsLease DEF ResponseStarts, RunLoopUnchanged, Harmless
<1>18. CASE RunContinues
  <2>1. active # NoTurn /\ RunLoopUnchanged
        BY <1>18, RunContinuesSuspended
  <2>2. ~(quiescence > 0)
        BY <2>1 DEF LeaseInv, QuiescentLoopIsIdle
  <2> QED BY <2>1, <2>2, HarmlessKeepsLease DEF RunLoopUnchanged, Harmless
<1>19. CASE FinishTurn
  <2>1. /\ active \in TurnIds /\ active # NoTurn
        /\ UNCHANGED <<standalone, held, releasing, quiescence, disposing>>
        BY <1>19, FinishTurnType, TurnIdsNat DEF FinishTurn
  <2>2. quiescence = 0
        BY <1>1, <2>1 DEF LeaseInv, QuiescentLoopIsIdle
  <2>3. disposing => pendingTurns' = << >>
    <3>1. CASE disposing
          BY <1>19, <3>1 DEF FinishTurn, LeaseInv
    <3> QED BY <3>1
  <2> QED BY <2>1, <2>2, <2>3 DEF LeaseInv, QuiescentLoopIsIdle
<1>20. CASE UNCHANGED vars
      BY <1>20, HarmlessKeepsLease DEF vars, Harmless
<1> QED BY <1>5, <1>6, <1>7, <1>8, <1>9, <1>10, <1>11, <1>12, <1>13, <1>14, <1>15, <1>16,
           <1>17, <1>18, <1>19, <1>20 DEF Next, RunLoop, RunContinues

--------------------------------------------------------------------------------
(* The theorems.                                                           *)

LEMMA InitTurns == Init => QueueInv /\ LeaseInv
<1> SUFFICES ASSUME Init PROVE QueueInv /\ LeaseInv
    OBVIOUS
<1>1. /\ pendingTurns = << >> /\ active = NoTurn /\ nextTurnId = 0 /\ held = << >>
      /\ releasing = << >> /\ quiescence = 0 /\ disposing = FALSE
      /\ \A t \in TurnIds : turn[t].state = "none"
      BY DEF Init
<1>2. Items(pendingTurns) = {} /\ Ordered(pendingTurns)
      BY <1>1, ItemsEmpty DEF Ordered
<1>3. \A t \in TurnIds : t >= 0 /\ t # NoTurn
      BY TurnIdsNat
<1>4. NoTurn < 0
      BY DEF NoTurn
<1> QED BY <1>1, <1>2, <1>3, <1>4
        DEF QueueInv, LeaseInv, PendingTurnsInOrder, Ordered, QuiescentLoopIsIdle

LEMMA TurnsInvariant == SafetySpec => []TurnInv
<1>1. Init => TurnInv
      BY InitType, InitTurns DEF TurnInv
<1>2. TurnInv /\ [Next]_vars => TurnInv'
  <2> SUFFICES ASSUME TurnInv, [Next]_vars PROVE TurnInv'
      OBVIOUS
  <2>1. TypeInv /\ QueueInv /\ LeaseInv
        BY DEF TurnInv
  <2>2. TypeInv'
        BY <2>1, NextType
  <2>3. QueueInv'
        BY <2>1, <2>2, NextTurnStep, TurnStepKeepsQueue
  <2>4. LeaseInv'
        BY <2>1, LeaseKept
  <2> QED BY <2>2, <2>3, <2>4 DEF TurnInv
<1> QED BY <1>1, <1>2, PTL DEF SafetySpec

\* Turns run one at a time, for any number of turns and requests: the turn that
\* runs is the active one, and the run loop exists exactly while there is one.
THEOREM TurnsRunOneAtATime == SafetySpec => []OneTurnAtATime
<1>1. TurnInv => OneTurnAtATime
      BY DEF TurnInv, TypeInv, RunShape, QueueInv, OneTurnAtATime
<1> QED BY <1>1, TurnsInvariant, PTL

\* The pending turns are the queued ones, oldest first, and all younger than the
\* active turn, whatever was cancelled in between.
THEOREM PendingTurnsStayInOrder == SafetySpec => []PendingTurnsInOrder
<1>1. TurnInv => PendingTurnsInOrder
      BY DEF TurnInv, QueueInv
<1> QED BY <1>1, TurnsInvariant, PTL

\* While a quiescence lease is held no turn is active or pending and no request
\* waits for a turn: what undo relies on when it rewrites the context.
THEOREM LeaseKeepsLoopIdle == SafetySpec => []QuiescentLoopIsIdle
<1>1. TurnInv => QuiescentLoopIsIdle
      BY DEF TurnInv, LeaseInv
<1> QED BY <1>1, TurnsInvariant, PTL

\* An idle loop that no lease holds back has no turn and no admission waiting: the
\* callers that must pump the queue all do.
THEOREM NoWakeUpIsLost == SafetySpec => []IdleLoopHasNoWork
<1>1. TurnInv => IdleLoopHasNoWork
      BY DEF TurnInv, QueueInv, LeaseInv, IdleLoopHasNoWork, TypeInv, TypeOK
<1> QED BY <1>1, TurnsInvariant, PTL

--------------------------------------------------------------------------------
(* AgentLoop implements TurnQueue.                                         *)

\* A turn moves as TurnQueue allows.
LEMMA TurnStepMoves ==
    ASSUME TypeInv, QueueInv, TurnStep, NEW t \in TurnIds, turn'[t].state # turn[t].state
    PROVE  <<turn[t].state, turn'[t].state>> \in TQ!Moves
<1> DEFINE from == turn[t].state
           to   == turn'[t].state
<1>1. Queue
      BY QueueUnfolded
<1>2. /\ pendingTurns \in Seq(TurnIds) /\ nextTurnId \in Nat /\ t \in Nat
      /\ active \in TurnIds \cup {NoTurn}
      BY TurnIdsNat DEF TypeInv, TypeOK
<1>3. CASE QueuesTurn
  <2>1. from = "none" /\ to = "queued"
        BY <1>1, <1>2, <1>3 DEF QueuesTurn, Queue
  <2> QED BY <2>1 DEF TQ!Moves
<1>4. CASE CreatesAndStarts
  <2>1. from = "none" /\ to = "running"
        BY <1>1, <1>2, <1>4 DEF CreatesAndStarts, Queue
  <2> QED BY <2>1 DEF TQ!Moves
<1>5. ASSUME NEW ts, CancelsPending(ts)
      PROVE  <<from, to>> \in TQ!Moves
  <2>1. from = "queued" /\ to = "cancelled"
        BY <1>1, <1>5 DEF CancelsPending, Queue
  <2> QED BY <2>1 DEF TQ!Moves
<1>6. CASE EndsLast
  <2>1. from = "running" /\ to \in TQ!EndState
        BY <1>1, <1>6 DEF EndsLast, Queue, EndState, TQ!EndState
  <2> QED BY <2>1 DEF TQ!Moves
<1>7. CASE EndsAndStarts
  <2>1. Head(pendingTurns) \in Items(pendingTurns)
        BY <1>2, <1>7, ItemsHead DEF EndsAndStarts
  <2>2. \/ from = "running" /\ to \in TQ!EndState
        \/ from = "queued" /\ to = "running"
        BY <1>1, <1>7, <2>1 DEF EndsAndStarts, Queue, EndState, TQ!EndState
  <2> QED BY <2>2 DEF TQ!Moves
<1>8. ~Quiet
      BY DEF Quiet
<1> QED BY <1>3, <1>4, <1>5, <1>6, <1>7, <1>8 DEF TurnStep

LEMMA StepImplements ==
    ASSUME TypeInv, TypeInv', QueueInv, QueueInv', TurnStep
    PROVE  TQ!Next
<1>1. Queue /\ Queue'
  <2>1. Queue
        BY QueueUnfolded
  <2>2. Queue'
        BY QueueUnfolded, PTL
  <2> QED BY <2>1, <2>2
<1>2. nextTurnId \in Nat /\ (nextTurnId' = nextTurnId \/ nextTurnId' = nextTurnId + 1)
  <2>1. nextTurnId \in Nat
        BY DEF TypeInv, TypeOK
  <2>2. ASSUME NEW ts, CancelsPending(ts)
        PROVE  nextTurnId' = nextTurnId
        BY <2>2 DEF CancelsPending
  <2> QED BY <2>1, <2>2 DEF TurnStep, Quiet, QueuesTurn, CreatesAndStarts, EndsLast, EndsAndStarts
<1>3. TQ!TurnIds = TurnIds /\ TurnIds \subseteq Nat
      BY TurnIdsNat DEF TQ!TurnIds, TurnIds
<1>4. ASSUME NEW t \in TurnIds
      PROVE  /\ turn'[t].state # turn[t].state =>
                   <<turn[t].state, turn'[t].state>> \in TQ!Moves
             /\ TQ!CreatedInOrder(t)
             /\ TQ!StartsInOrder(t)
  <2>1. turn'[t].state # turn[t].state => <<turn[t].state, turn'[t].state>> \in TQ!Moves
        BY TurnStepMoves
  <2>2. TQ!CreatedInOrder(t)
    <3> SUFFICES ASSUME turn[t].state = "none", turn'[t].state # "none", NEW u \in 0..(t - 1)
                 PROVE  u \in TurnIds /\ turn[u].state # "none"
        BY DEF TQ!CreatedInOrder
    <3>1. t >= nextTurnId /\ ~(t >= nextTurnId')
          BY <1>1 DEF Queue
    <3>2. t = nextTurnId
          BY <1>2, <1>3, <3>1
    <3>3. u \in TurnIds /\ ~(u >= nextTurnId)
          BY <1>2, <1>3, <3>2, BoundsAssumption DEF TurnIds
    <3> QED BY <1>1, <3>3 DEF Queue
  <2>3. TQ!StartsInOrder(t)
    <3> SUFFICES ASSUME turn'[t].state = "running", NEW u \in TurnIds \ {t}
                 PROVE  turn'[u].state # "running" /\ (turn'[u].state = "queued" => t < u)
        BY <1>3 DEF TQ!StartsInOrder
    <3>1. t = active'
          BY <1>1 DEF Queue
    <3> QED BY <1>1, <3>1 DEF Queue
  <2> QED BY <2>1, <2>2, <2>3
<1> QED BY <1>3, <1>4 DEF TQ!Next

\* Whatever happens to the requests inside them, turns are created, started and
\* ended as TurnQueue says, for any number of turns.
THEOREM LoopImplementsTurnQueue == SafetySpec => ImplementsTurnQueue
<1>1. Init => TQ!Init
      BY DEF Init, TQ!Init, TQ!TurnIds, TurnIds
<1>2. TurnInv /\ TurnInv' /\ [Next]_vars => [TQ!Next]_([t \in TurnIds |-> turn[t].state])
  <2> SUFFICES ASSUME TurnInv, TurnInv', [Next]_vars PROVE TQ!Next
      OBVIOUS
  <2> QED BY NextTurnStep, StepImplements DEF TurnInv
<1> QED BY <1>1, <1>2, TurnsInvariant, PTL DEF SafetySpec, ImplementsTurnQueue, TQ!SafetySpec

--------------------------------------------------------------------------------
(* The requests: where each of them is, and what becomes of its promises.  The *)
(* parts speak of any tables rq and tr, because the helpers are called with    *)
(* tables their callers have updated.                                          *)

Distinct(q) == \A i, j \in DOMAIN q : q[i] = q[j] => i = j

Unfinished(q) == q.step \in {"queued", "running"}

\* A request and its step agree: a promise of assignment is pending only before
\* a turn is known, a result only until the step is final, and a request of a
\* turn is pending only while its step is not final.
RequestOK(q) ==
    /\ q.state = "new" => q.turn = NoTurn
    /\ q.assigned = "pending" => q.state = "pending" /\ q.turn = NoTurn
    /\ q.turn = NoTurn => ~Unfinished(q)
    /\ q.result = "pending" => Unfinished(q)
    /\ q.state = "pending" /\ q.turn # NoTurn => Unfinished(q)
    /\ q.result = "completed" => q.state = "materialized"

\* A queue holds requests of its own turn, each once; unfinished steps belong to
\* turns that have not ended, and a turn that has ended has settled `ready`.
TablesOK(rq, tr) ==
    /\ \A r \in Requests : RequestOK(rq[r])
    /\ \A r \in Requests : Unfinished(rq[r]) => tr[rq[r].turn].state \in {"queued", "running"}
    /\ \A t \in TurnIds : Distinct(tr[t].queue) /\ \A r \in Items(tr[t].queue) : rq[r].turn = t
    /\ \A t \in TurnIds : tr[t].state \in EndState => tr[t].ready # "pending"

\* The driver of the step in progress is in the context and out of the queue.
DriverOK(rq, tr, rn, act) ==
    rn.phase \in {"request", "after", "recover"} =>
        /\ rn.driver \in Requests /\ act \in TurnIds
        /\ rq[rn.driver].turn = act /\ rq[rn.driver].state = "materialized"
        /\ rn.driver \notin Items(tr[act].queue)

ContextOK(rq, ctx) ==
    /\ Distinct(ctx)
    /\ Items(ctx) = {r \in Requests : rq[r].state = "materialized"}

\* A request waits in one place, once and without a turn, and every pending
\* assignment waits.
WaitOK(rq, sa, hl, rl) ==
    /\ \A r \in Items(sa) \cup Items(hl) \cup Items(rl) :
          rq[r].turn = NoTurn /\ rq[r].state # "new"
    /\ Distinct(sa) /\ Distinct(hl) /\ Distinct(rl)
    /\ Items(sa) \cap (Items(hl) \cup Items(rl)) = {}
    /\ \A r \in Requests : rq[r].assigned = "pending" =>
          r \in Items(sa) \cup Items(hl) \cup Items(rl)

RequestInv ==
    /\ TablesOK(req, turn)
    /\ DriverOK(req, turn, run, active)
    /\ ContextOK(req, context)
    /\ WaitOK(req, standalone, held, releasing)

--------------------------------------------------------------------------------
(* Sequences without repetition.                                           *)

LEMMA DistinctKeep ==
    ASSUME NEW R, NEW q \in Seq(R), NEW S, Distinct(q)
    PROVE  Distinct(Keep(q, S))
<1>1. PICK k : k = Keep(q, S)
      OBVIOUS
<1>2. k \in Seq(R)
      BY <1>1, KeepSeq
<1>3. ASSUME NEW i \in 1..Len(k), NEW j \in 1..Len(k), i < j
      PROVE  k[i] # k[j]
  <2>1. \E a, b \in 1..Len(q) : a < b /\ k[i] = q[a] /\ k[j] = q[b]
        BY <1>1, <1>3, KeepOrder
  <2> QED BY <2>1 DEF Distinct
<1>4. ASSUME NEW i \in DOMAIN k, NEW j \in DOMAIN k, k[i] = k[j]
      PROVE  i = j
  <2>1. i \in 1..Len(k) /\ j \in 1..Len(k)
        BY <1>2
  <2>2. ~(i < j) /\ ~(j < i)
        BY <1>3, <1>4, <2>1
  <2> QED BY <2>1, <2>2
<1> QED BY <1>1, <1>4 DEF Distinct

LEMMA DistinctConcat ==
    ASSUME NEW R, NEW p \in Seq(R), NEW q \in Seq(R)
    PROVE  /\ p \o q \in Seq(R)
           /\ Items(p \o q) = Items(p) \cup Items(q)
           /\ Distinct(p) /\ Distinct(q) /\ Items(p) \cap Items(q) = {} => Distinct(p \o q)
<1>1. PICK s : s = p \o q
      OBVIOUS
<1>2. PICK m, n : m = Len(p) /\ n = Len(q)
      OBVIOUS
<1>3. /\ s \in Seq(R) /\ m \in Nat /\ n \in Nat
      /\ DOMAIN p = 1..m /\ DOMAIN q = 1..n /\ DOMAIN s = 1..(m + n)
      BY <1>1, <1>2
<1>4. \A i \in 1..m : s[i] = p[i]
      BY <1>1, <1>2
<1>5. \A i \in 1..n : s[m + i] = q[i]
      BY <1>1, <1>2
<1>6. \A i \in 1..(m + n) : i \in 1..m \/ (i - m \in 1..n /\ s[i] = q[i - m])
  <2> SUFFICES ASSUME NEW i \in 1..(m + n), i \notin 1..m
               PROVE  i - m \in 1..n /\ s[i] = q[i - m]
      OBVIOUS
  <2>1. i - m \in 1..n /\ m + (i - m) = i
        BY <1>3
  <2> QED BY <1>5, <2>1
<1>7. Items(s) = Items(p) \cup Items(q)
  <2>1. \A x \in Items(s) : x \in Items(p) \cup Items(q)
        BY <1>3, <1>4, <1>6 DEF Items
  <2>2. \A x \in Items(p) : x \in Items(s)
    <3>1. \A i \in 1..m : i \in 1..(m + n)
          BY <1>3
    <3> QED BY <1>3, <1>4, <3>1 DEF Items
  <2>3. \A x \in Items(q) : x \in Items(s)
    <3>1. \A i \in 1..n : m + i \in 1..(m + n)
          BY <1>3
    <3> QED BY <1>3, <1>5, <3>1 DEF Items
  <2> QED BY <2>1, <2>2, <2>3
<1>8. ASSUME Distinct(p), Distinct(q), Items(p) \cap Items(q) = {}
      PROVE  Distinct(s)
  <2> SUFFICES ASSUME NEW i \in 1..(m + n), NEW j \in 1..(m + n), s[i] = s[j]
               PROVE  i = j
      BY <1>3 DEF Distinct
  <2>1. \A k \in 1..m : p[k] \in Items(p)
        BY <1>3 DEF Items
  <2>2. \A k \in 1..n : q[k] \in Items(q)
        BY <1>3 DEF Items
  <2>3. CASE i \in 1..m /\ j \in 1..m
        BY <1>3, <1>4, <1>8, <2>3 DEF Distinct
  <2>4. CASE i \notin 1..m /\ j \notin 1..m
    <3>1. i - m \in 1..n /\ j - m \in 1..n /\ q[i - m] = q[j - m]
          BY <1>6, <2>4
    <3>2. i - m = j - m
          BY <1>3, <1>8, <3>1 DEF Distinct
    <3> QED BY <1>3, <3>2
  <2>5. CASE i \in 1..m /\ j \notin 1..m
    <3>1. s[i] \in Items(p) /\ s[j] \in Items(q)
          BY <1>4, <1>6, <2>1, <2>2, <2>5
    <3> QED BY <1>8, <3>1
  <2>6. CASE i \notin 1..m /\ j \in 1..m
    <3>1. s[j] \in Items(p) /\ s[i] \in Items(q)
          BY <1>4, <1>6, <2>1, <2>2, <2>6
    <3> QED BY <1>8, <3>1
  <2> QED BY <2>3, <2>4, <2>5, <2>6
<1> QED BY <1>1, <1>3, <1>7, <1>8

LEMMA DistinctOne ==
    ASSUME NEW R, NEW x \in R
    PROVE  <<x>> \in Seq(R) /\ Items(<<x>>) = {x} /\ Distinct(<<x>>)
BY DEF Items, Distinct

LEMMA DistinctCons ==
    ASSUME NEW R, NEW x \in R, NEW q \in Seq(R)
    PROVE  /\ <<x>> \o q \in Seq(R) /\ Items(<<x>> \o q) = {x} \cup Items(q)
           /\ Distinct(q) /\ x \notin Items(q) => Distinct(<<x>> \o q)
<1>1. PICK s : s = <<x>>
      OBVIOUS
<1>2. s \in Seq(R) /\ Items(s) = {x} /\ Distinct(s)
      BY <1>1, DistinctOne
<1>3. /\ s \o q \in Seq(R)
      /\ Items(s \o q) = Items(s) \cup Items(q)
      /\ Distinct(s) /\ Distinct(q) /\ Items(s) \cap Items(q) = {} => Distinct(s \o q)
      BY <1>2, DistinctConcat
<1> QED BY <1>1, <1>2, <1>3

LEMMA DistinctAppend ==
    ASSUME NEW R, NEW q \in Seq(R), NEW x \in R
    PROVE  /\ Append(q, x) \in Seq(R) /\ Items(Append(q, x)) = Items(q) \cup {x}
           /\ Distinct(q) /\ x \notin Items(q) => Distinct(Append(q, x))
<1>1. PICK s : s = <<x>>
      OBVIOUS
<1>2. s \in Seq(R) /\ Items(s) = {x} /\ Distinct(s)
      BY <1>1, DistinctOne
<1>3. /\ q \o s \in Seq(R)
      /\ Items(q \o s) = Items(q) \cup Items(s)
      /\ Distinct(q) /\ Distinct(s) /\ Items(q) \cap Items(s) = {} => Distinct(q \o s)
      BY <1>2, DistinctConcat
<1>4. Append(q, x) = q \o s
      BY <1>1
<1> QED BY <1>2, <1>3, <1>4

LEMMA DistinctTail ==
    ASSUME NEW R, NEW q \in Seq(R), q # << >>, Distinct(q)
    PROVE  Distinct(Tail(q)) /\ Head(q) \notin Items(Tail(q))
<1>1. PICK s : s = Tail(q)
      OBVIOUS
<1>2. \A i \in DOMAIN s : i \in Nat /\ i >= 1 /\ i + 1 \in DOMAIN q /\ s[i] = q[i + 1]
      BY <1>1
<1>3. 1 \in DOMAIN q /\ Head(q) = q[1]
      OBVIOUS
<1>4. Distinct(s)
  <2> SUFFICES ASSUME NEW i \in DOMAIN s, NEW j \in DOMAIN s, s[i] = s[j]
               PROVE  i = j
      BY DEF Distinct
  <2>1. i + 1 = j + 1
        BY <1>2 DEF Distinct
  <2> QED BY <1>2, <2>1
<1>5. Head(q) \notin Items(s)
  <2> SUFFICES ASSUME NEW i \in DOMAIN s PROVE s[i] # Head(q)
      BY DEF Items
  <2>1. i + 1 # 1
        BY <1>2
  <2> QED BY <1>2, <1>3, <2>1 DEF Distinct
<1> QED BY <1>1, <1>4, <1>5

\* A batch of a queue without repetition: its driver is neither folded into its
\* own step nor left in the queue.
LEMMA BatchDistinct ==
    ASSUME NEW R, NEW q \in Seq(R), NEW M, NEW A, HasPendingRequests(q, A), Distinct(q)
    PROVE  LET batch == TakeNextBatch(q, M, A)
           IN  /\ Distinct(<<batch.driver>> \o batch.merged)
               /\ Items(<<batch.driver>> \o batch.merged) \subseteq Items(q) \ A
               /\ batch.driver \in Items(<<batch.driver>> \o batch.merged)
               /\ Distinct(batch.rest) /\ batch.driver \notin Items(batch.rest)
<1> DEFINE live == Keep(q, Items(q) \ A)
           d    == Driver(live, M)
           m    == Merged(live, M)
           s    == Rest(live, M)
<1>1. TakeNextBatch(q, M, A) = [driver |-> d, merged |-> m, rest |-> s]
      BY DEF TakeNextBatch
<1> HIDE DEF d, m, s
<1>2. /\ d \in Items(q) \ A /\ d \in R /\ m \in Seq(R) /\ Items(m) \subseteq Items(q) \ A
  <2>1. PICK batch : batch = TakeNextBatch(q, M, A)
        OBVIOUS
  <2>2. /\ batch.driver \in Items(q) \ A /\ batch.driver \in R
        /\ batch.merged \in Seq(R) /\ Items(batch.merged) \subseteq Items(q) \ A
        BY <2>1, BatchType
  <2>3. batch.driver = d /\ batch.merged = m
        BY <1>1, <2>1
  <2> QED BY <2>2, <2>3
<1>3. live \in Seq(R) /\ Distinct(live)
      BY KeepSeq, DistinctKeep
<1> HIDE DEF live
<1>4. Distinct(m) /\ d \notin Items(m)
  <2>1. Items(m) = Items(live) \cap (M \ {d})
        BY <1>3, KeepItems DEF Merged, d, m
  <2> QED BY <1>3, <2>1, DistinctKeep DEF Merged, d, m
<1>5. Distinct(s) /\ d \notin Items(s)
  <2>1. Items(s) = Items(live) \cap (Items(live) \ (M \cup {d}))
        BY <1>3, KeepItems DEF Rest, d, s
  <2> QED BY <1>3, <2>1, DistinctKeep DEF Rest, d, s
<1>6. Distinct(<<d>> \o m) /\ Items(<<d>> \o m) = {d} \cup Items(m)
      BY <1>2, <1>4, DistinctCons
<1> QED BY <1>1, <1>2, <1>5, <1>6

--------------------------------------------------------------------------------
(* The operations on a request record keep it consistent.                  *)

LEMMA AbortOK ==
    ASSUME NEW q \in RequestRecord, RequestOK(q), q.assigned # "pending"
    PROVE  /\ RequestOK(Abort(q))
           /\ Abort(q).state = "new" <=> q.state = "new"
           /\ Abort(q).state = "materialized" <=> q.state = "materialized"
BY DEF Abort, RequestOK, RequestRecord, RequestState, Unfinished

LEMMA RejectOK ==
    ASSUME NEW q \in RequestRecord, RequestOK(q), q.state # "new", q.turn = NoTurn
    PROVE  /\ RequestOK(RejectAssignment(Abort(q)))
           /\ RejectAssignment(Abort(q)).assigned # "pending"
           /\ RejectAssignment(Abort(q)).state # "new"
           /\ RejectAssignment(Abort(q)).turn = NoTurn
           /\ ~Unfinished(RejectAssignment(Abort(q)))
           /\ RejectAssignment(Abort(q)).state = "materialized" <=> q.state = "materialized"
<1>1. PICK a : a = Abort(q)
      OBVIOUS
<1>2. /\ a \in RequestRecord /\ a.turn = q.turn /\ a.assigned = q.assigned
      /\ a.step = q.step /\ a.result = q.result
      BY <1>1, AbortType
<1>3. /\ a.state \notin {"new", "pending"}
      /\ a.state = "materialized" <=> q.state = "materialized"
      BY <1>1 DEF Abort, RequestRecord, RequestState
<1>4. PICK b : b = RejectAssignment(a)
      OBVIOUS
<1>5. /\ b \in RequestRecord /\ b.turn = a.turn /\ b.state = a.state
      /\ b.step = a.step /\ b.result = a.result
      BY <1>2, <1>4, RejectAssignmentType
<1>6. b.assigned # "pending"
      BY <1>2, <1>4 DEF RejectAssignment, RequestRecord, PromiseState
<1> QED BY <1>1, <1>2, <1>3, <1>4, <1>5, <1>6 DEF RequestOK, Unfinished

LEMMA StopStepOK ==
    ASSUME NEW q \in RequestRecord, RequestOK(q)
    PROVE  /\ RequestOK(StopStep(q))
           /\ ~Unfinished(StopStep(q))
           /\ StopStep(q).state = "new" <=> q.state = "new"
           /\ StopStep(q).state = "materialized" <=> q.state = "materialized"
<1>1. CASE ~Unfinished(q)
      BY <1>1 DEF StopStep, Unfinished
<1>2. CASE Unfinished(q)
  <2>1. PICK a : a = Abort(q)
        OBVIOUS
  <2>2. q.assigned # "pending"
        BY <1>2 DEF RequestOK
  <2>3. /\ a \in RequestRecord /\ a.turn = q.turn /\ a.assigned = q.assigned
        /\ a.step = q.step /\ a.result = q.result
        /\ a.state = "new" <=> q.state = "new"
        /\ a.state = "materialized" <=> q.state = "materialized"
        BY <2>1, <2>2, AbortType, AbortOK
  <2>4. a.state # "pending"
        BY <2>1 DEF Abort, RequestRecord
  <2>5. PICK v : v = (IF a.result = "pending" THEN "cancelled" ELSE a.result)
        OBVIOUS
  <2>6. StopStep(q) = [a EXCEPT !.step = "cancelled", !.stopped = TRUE, !.result = v]
        BY <1>2, <2>1, <2>5 DEF StopStep, Unfinished
  <2>7. PICK b : b = StopStep(q)
        OBVIOUS
  <2>8. /\ b.state = a.state /\ b.turn = q.turn /\ b.assigned = q.assigned
        /\ b.step = "cancelled" /\ b.result = v
        BY <2>3, <2>6, <2>7 DEF RequestRecord
  <2>9. v # "pending" /\ (v = "completed" => q.result = "completed")
        BY <2>3, <2>5
  <2> QED BY <1>2, <2>3, <2>4, <2>7, <2>8, <2>9 DEF RequestOK, Unfinished
<1> QED BY <1>1, <1>2

LEMMA AssignOK ==
    ASSUME NEW q \in RequestRecord, NEW t \in TurnIds, q.state # "new"
    PROVE  /\ RequestOK(Assign(q, t)) /\ Unfinished(Assign(q, t))
           /\ Assign(q, t).state = q.state /\ Assign(q, t).assigned = "resolved"
BY TurnIdsNat DEF Assign, RequestOK, Unfinished, RequestRecord

--------------------------------------------------------------------------------
(* The run loop.                                                           *)

\* Neither a turn nor an assignment changes, and nothing is enqueued.
SameWaits(rq, rq2) ==
    \A r \in Requests :
        /\ rq2[r].turn = rq[r].turn /\ rq2[r].assigned = rq[r].assigned
        /\ rq2[r].state = "new" <=> rq[r].state = "new"

StepDone(rq, act) ==
    /\ TablesOK(req', turn') /\ DriverOK(req', turn', run', act)
    /\ ContextOK(req', context') /\ SameWaits(rq, req')

\* A table whose queues lose requests, and whose steps end or go on.
LEMMA TablesKept ==
    ASSUME NEW rq \in [Requests -> RequestRecord], NEW tr, TablesOK(rq, tr), NEW rq2, NEW tr2,
           \A r \in Requests :
               /\ RequestOK(rq2[r]) /\ rq2[r].turn = rq[r].turn
               /\ Unfinished(rq2[r]) =>
                     Unfinished(rq[r]) \/ tr2[rq[r].turn].state \in {"queued", "running"},
           \A u \in TurnIds :
               /\ tr2[u].state = tr[u].state
               /\ tr2[u].ready = tr[u].ready \/ tr2[u].ready # "pending"
               /\ Distinct(tr2[u].queue)
               /\ \A r \in Items(tr2[u].queue) : r \in Requests /\ rq[r].turn = u
    PROVE  TablesOK(rq2, tr2)
<1>1. ASSUME NEW r \in Requests, Unfinished(rq2[r])
      PROVE  tr2[rq2[r].turn].state \in {"queued", "running"}
  <2>1. CASE tr2[rq[r].turn].state \in {"queued", "running"}
        BY <2>1
  <2>2. CASE Unfinished(rq[r])
    <3>1. tr[rq[r].turn].state \in {"queued", "running"}
          BY <2>2 DEF TablesOK
    <3>2. rq[r].turn \in TurnIds \cup {NoTurn} /\ rq[r].turn # NoTurn
          BY <2>2 DEF TablesOK, RequestOK, RequestRecord
    <3> QED BY <3>1, <3>2
  <2> QED BY <1>1, <2>1, <2>2
<1> QED BY <1>1 DEF TablesOK

LEMMA RunReturnsKeeps ==
    ASSUME NEW rq \in [Requests -> RequestRecord], NEW tr \in [TurnIds -> TurnRecord],
           NEW t \in TurnIds, NEW n, NEW result,
           TablesOK(rq, tr), ContextOK(rq, context), RunReturns(rq, tr, t, n, result)
    PROVE  StepDone(rq, t)
<1>1. PICK q : q = tr[t].queue
      OBVIOUS
<1>2. PICK rq1 : rq1 = [r \in Requests |->
                          IF r \in Items(q) \cap TurnScoped THEN Abort(rq[r]) ELSE rq[r]]
      OBVIOUS
<1>3. PICK k : k = Keep(q, Requests \ Aborted(rq1))
      OBVIOUS
<1>4. /\ req' = rq1 /\ turn' = [tr EXCEPT ![t].queue = k] /\ context' = context
      /\ run' = [phase |-> "returned", driver |-> NoRequest, steps |-> n,
                 filtered |-> FALSE, result |-> result]
      BY <1>1, <1>2, <1>3 DEF RunReturns
<1>5. q \in Seq(Requests) /\ Distinct(q) /\ \A r \in Items(q) : rq[r].turn = t
      BY <1>1 DEF TablesOK, TurnRecord
<1>6. /\ Distinct(k) /\ Items(k) \subseteq Items(q) /\ Items(q) \subseteq Requests
  <2>1. Distinct(k) /\ Items(k) = Items(q) \cap (Requests \ Aborted(rq1))
        BY <1>3, <1>5, DistinctKeep, KeepItems
  <2>2. Items(q) \subseteq Requests
        BY <1>5 DEF Items
  <2> QED BY <2>1, <2>2
<1>7. ASSUME NEW r \in Requests
      PROVE  /\ RequestOK(rq1[r]) /\ rq1[r].turn = rq[r].turn
             /\ rq1[r].assigned = rq[r].assigned /\ rq1[r].step = rq[r].step
             /\ rq1[r].state = "new" <=> rq[r].state = "new"
             /\ rq1[r].state = "materialized" <=> rq[r].state = "materialized"
  <2>1. RequestOK(rq[r]) /\ rq[r] \in RequestRecord
        BY DEF TablesOK
  <2>2. CASE r \in Items(q) \cap TurnScoped
    <3>1. rq1[r] = Abort(rq[r])
          BY <1>2, <2>2
    <3>2. rq[r].assigned # "pending"
          BY <1>5, <2>1, <2>2, TurnIdsNat DEF RequestOK
    <3> QED BY <2>1, <3>1, <3>2, AbortOK, AbortType
  <2>3. CASE r \notin Items(q) \cap TurnScoped
    <3>1. rq1[r] = rq[r]
          BY <1>2, <2>3
    <3> QED BY <2>1, <3>1
  <2> QED BY <2>2, <2>3
<1>8. PICK tr2 : tr2 = [tr EXCEPT ![t].queue = k]
      OBVIOUS
<1>9. ASSUME NEW u \in TurnIds
      PROVE  /\ tr2[u].state = tr[u].state /\ tr2[u].ready = tr[u].ready
             /\ Distinct(tr2[u].queue)
             /\ \A r \in Items(tr2[u].queue) : r \in Requests /\ rq[r].turn = u
  <2>1. CASE u = t
    <3>1. tr2[t].queue = k /\ tr2[t].state = tr[t].state /\ tr2[t].ready = tr[t].ready
          BY <1>8 DEF TurnRecord
    <3> QED BY <1>5, <1>6, <2>1, <3>1
  <2>2. CASE u # t
    <3>1. tr2[u] = tr[u]
          BY <1>8, <2>2
    <3>2. tr[u].queue \in Seq(Requests)
          BY DEF TurnRecord
    <3>3. Items(tr[u].queue) \subseteq Requests
          BY <3>2 DEF Items
    <3> QED BY <3>1, <3>3 DEF TablesOK
  <2> QED BY <2>1, <2>2
<1>10. TablesOK(rq1, tr2)
  <2>1. \A r \in Requests : Unfinished(rq1[r]) => Unfinished(rq[r])
        BY <1>7 DEF Unfinished
  <2>2. /\ \A r \in Requests :
             /\ RequestOK(rq1[r]) /\ rq1[r].turn = rq[r].turn
             /\ Unfinished(rq1[r]) =>
                   Unfinished(rq[r]) \/ tr2[rq[r].turn].state \in {"queued", "running"}
        BY <1>7, <2>1
  <2>3. \A u \in TurnIds :
             /\ tr2[u].state = tr[u].state
             /\ tr2[u].ready = tr[u].ready \/ tr2[u].ready # "pending"
             /\ Distinct(tr2[u].queue)
             /\ \A r \in Items(tr2[u].queue) : r \in Requests /\ rq[r].turn = u
        BY <1>9
  <2> QED BY ONLY TablesOK(rq, tr), rq \in [Requests -> RequestRecord], <2>2, <2>3, TablesKept
<1>11. ContextOK(rq1, context)
       BY <1>7 DEF ContextOK
<1>12. SameWaits(rq, rq1)
       BY <1>7 DEF SameWaits
<1>13. DriverOK(rq1, tr2, run', t)
       BY <1>4 DEF DriverOK
<1> QED BY <1>4, <1>8, <1>10, <1>11, <1>12, <1>13 DEF StepDone

LEMMA TakeStepKeeps ==
    ASSUME NEW rq \in [Requests -> RequestRecord], NEW tr \in [TurnIds -> TurnRecord],
           NEW t \in TurnIds, NEW n, tr[t].state = "running", context \in Seq(Requests),
           HasPendingRequests(tr[t].queue, Aborted(rq)),
           TablesOK(rq, tr), ContextOK(rq, context), TakeStep(rq, tr, t, n)
    PROVE  StepDone(rq, t)
<1>1. PICK q, batch : q = tr[t].queue /\ batch = TakeNextBatch(q, Mergeable, Aborted(rq))
      OBVIOUS
<1>2. PICK d, rest, items : d = batch.driver /\ rest = batch.rest /\ items = <<d>> \o batch.merged
      OBVIOUS
<1>3. q \in Seq(Requests) /\ Distinct(q) /\ \A r \in Items(q) : rq[r].turn = t
      BY <1>1 DEF TablesOK, TurnRecord
<1>4. /\ d \in Requests /\ rest \in Seq(Requests) /\ Items(rest) \subseteq Items(q)
      /\ items \in Seq(Requests) /\ Items(items) \subseteq Items(q) \ Aborted(rq) /\ d \in Items(items)
      /\ Distinct(items) /\ Distinct(rest) /\ d \notin Items(rest)
  <2>1. HasPendingRequests(q, Aborted(rq))
        BY <1>1
  <2>2. /\ batch.driver \in Requests /\ batch.merged \in Seq(Requests) /\ batch.rest \in Seq(Requests)
        /\ Items(batch.rest) \subseteq Items(q)
        BY <1>1, <1>3, <2>1, BatchType
  <2>3. /\ Distinct(<<batch.driver>> \o batch.merged)
        /\ Items(<<batch.driver>> \o batch.merged) \subseteq Items(q) \ Aborted(rq)
        /\ batch.driver \in Items(<<batch.driver>> \o batch.merged)
        /\ Distinct(batch.rest) /\ batch.driver \notin Items(batch.rest)
        BY <1>1, <1>3, <2>1, BatchDistinct
  <2>4. <<batch.driver>> \o batch.merged \in Seq(Requests)
        BY <2>2, DistinctCons
  <2> QED BY <1>2, <2>2, <2>3, <2>4
<1>5. PICK fresh : fresh = {r \in Items(items) : rq[r].state = "pending"}
      OBVIOUS
<1>6. PICK rq1 : rq1 = [rq EXCEPT ![d].step = "running", ![d].stopped = FALSE]
      OBVIOUS
<1>7. PICK rq2 : rq2 = [r \in Requests |->
                          IF r \in fresh THEN [rq1[r] EXCEPT !.state = "materialized"] ELSE rq1[r]]
      OBVIOUS
<1>8. PICK tr2 : tr2 = [tr EXCEPT ![t].queue = rest]
      OBVIOUS
<1>9. PICK k : k = Keep(items, fresh)
      OBVIOUS
<1>10. /\ req' = rq2 /\ turn' = tr2 /\ context' = context \o k
       /\ run' = [phase |-> "request", driver |-> d, steps |-> n + 1,
                  filtered |-> FALSE, result |-> "none"]
       BY <1>1, <1>2, <1>5, <1>6, <1>7, <1>8, <1>9 DEF TakeStep
<1>11. Items(items) \subseteq Requests
       BY <1>4 DEF Items
<1>12. ASSUME NEW r \in Items(items)
       PROVE  /\ rq[r].turn = t /\ rq[r].state \in {"pending", "materialized"}
              /\ rq[r].assigned # "pending"
  <2>1. rq[r].turn = t /\ t # NoTurn /\ r \in Requests
        BY <1>3, <1>4, <1>11, TurnIdsNat
  <2>2. RequestOK(rq[r]) /\ rq[r] \in RequestRecord
        BY <2>1 DEF TablesOK
  <2>3. rq[r].state # "aborted"
        BY <1>4, <2>1 DEF Aborted
  <2> QED BY <2>1, <2>2, <2>3 DEF RequestOK, RequestRecord, RequestState
<1>13. ASSUME NEW r \in Requests
       PROVE  /\ rq1[r].turn = rq[r].turn /\ rq1[r].assigned = rq[r].assigned
              /\ rq1[r].result = rq[r].result /\ rq1[r].state = rq[r].state
              /\ rq1[r] \in RequestRecord
              /\ IF r = d THEN rq1[r].step = "running" ELSE rq1[r] = rq[r]
       BY <1>6 DEF RequestRecord, StepState
<1>14. ASSUME NEW r \in Items(items)
       PROVE  /\ rq2[r].turn = t /\ rq2[r].assigned = rq[r].assigned
              /\ rq2[r].result = rq[r].result /\ rq2[r].state = "materialized"
              /\ rq2[r].step = "running" \/ rq2[r].step = rq[r].step
  <2>1. r \in Requests
        BY <1>11
  <2>2. CASE r \in fresh
    <3>1. rq2[r] = [rq1[r] EXCEPT !.state = "materialized"]
          BY <1>7, <2>1, <2>2
    <3>2. /\ rq2[r].turn = rq1[r].turn /\ rq2[r].assigned = rq1[r].assigned
          /\ rq2[r].result = rq1[r].result /\ rq2[r].state = "materialized"
          /\ rq2[r].step = rq1[r].step
          BY <1>13, <2>1, <3>1 DEF RequestRecord
    <3> QED BY <1>12, <1>13, <2>1, <3>2
  <2>3. CASE r \notin fresh
    <3>1. rq2[r] = rq1[r]
          BY <1>7, <2>1, <2>3
    <3>2. rq[r].state = "materialized"
          BY <1>5, <1>12, <2>3
    <3> QED BY <1>12, <1>13, <2>1, <3>1, <3>2
  <2> QED BY <2>2, <2>3
<1>15. \A r \in Requests : r \notin Items(items) => rq2[r] = rq[r]
       BY <1>4, <1>5, <1>7, <1>13
<1>16. ASSUME NEW r \in Requests
       PROVE  /\ RequestOK(rq2[r]) /\ rq2[r].turn = rq[r].turn
              /\ rq2[r].assigned = rq[r].assigned
              /\ rq2[r].state = "new" <=> rq[r].state = "new"
              /\ Unfinished(rq2[r]) =>
                    Unfinished(rq[r]) \/ tr2[rq[r].turn].state \in {"queued", "running"}
  <2>1. RequestOK(rq[r])
        BY DEF TablesOK
  <2>2. CASE r \in Items(items)
    <3>1. tr2[t].state = "running"
          BY <1>8 DEF TurnRecord
    <3>2. t # NoTurn
          BY TurnIdsNat
    <3>3. Unfinished(rq[r]) => Unfinished(rq2[r])
          BY <1>14, <2>2 DEF Unfinished
    <3>4. RequestOK(rq2[r])
          BY <1>12, <1>14, <2>1, <2>2, <3>2, <3>3 DEF RequestOK
    <3> QED BY <1>12, <1>14, <2>2, <3>1, <3>4
  <2>3. CASE r \notin Items(items)
    <3>1. rq2[r] = rq[r]
          BY <1>15, <2>3
    <3> QED BY <2>1, <3>1
  <2> QED BY <2>2, <2>3
<1>17. ASSUME NEW u \in TurnIds
       PROVE  /\ tr2[u].state = tr[u].state /\ tr2[u].ready = tr[u].ready
              /\ Distinct(tr2[u].queue)
              /\ \A r \in Items(tr2[u].queue) : r \in Requests /\ rq[r].turn = u
  <2>1. CASE u = t
    <3>1. tr2[t].queue = rest /\ tr2[t].state = tr[t].state /\ tr2[t].ready = tr[t].ready
          BY <1>8 DEF TurnRecord
    <3>2. Items(rest) \subseteq Requests
          BY <1>4 DEF Items
    <3> QED BY <1>3, <1>4, <2>1, <3>1, <3>2
  <2>2. CASE u # t
    <3>1. tr2[u] = tr[u]
          BY <1>8, <2>2
    <3>2. tr[u].queue \in Seq(Requests)
          BY DEF TurnRecord
    <3>3. Items(tr[u].queue) \subseteq Requests
          BY <3>2 DEF Items
    <3> QED BY <3>1, <3>3 DEF TablesOK
  <2> QED BY <2>1, <2>2
<1>18. TablesOK(rq2, tr2)
  <2>1. \A r \in Requests :
             /\ RequestOK(rq2[r]) /\ rq2[r].turn = rq[r].turn
             /\ Unfinished(rq2[r]) =>
                   Unfinished(rq[r]) \/ tr2[rq[r].turn].state \in {"queued", "running"}
        BY <1>16
  <2>2. \A u \in TurnIds :
             /\ tr2[u].state = tr[u].state
             /\ tr2[u].ready = tr[u].ready \/ tr2[u].ready # "pending"
             /\ Distinct(tr2[u].queue)
             /\ \A r \in Items(tr2[u].queue) : r \in Requests /\ rq[r].turn = u
        BY <1>17
  <2> QED BY ONLY TablesOK(rq, tr), rq \in [Requests -> RequestRecord], <2>1, <2>2, TablesKept
<1>19. ContextOK(rq2, context \o k)
  <2>1. /\ k \in Seq(Requests) /\ Distinct(k) /\ Items(k) = fresh
        BY <1>4, <1>5, <1>9, KeepSeq, KeepItems, DistinctKeep
  <2>2. Items(context) = {r \in Requests : rq[r].state = "materialized"} /\ Distinct(context)
        BY DEF ContextOK
  <2>3. Items(context) \cap Items(k) = {}
        BY <1>5, <2>1, <2>2
  <2>4. Items(context \o k) = Items(context) \cup Items(k) /\ Distinct(context \o k)
        BY <2>1, <2>2, <2>3, DistinctConcat
  <2>5. \A r \in Requests : rq2[r].state = "materialized" <=> rq[r].state = "materialized" \/ r \in fresh
    <3> SUFFICES ASSUME NEW r \in Requests
                 PROVE  rq2[r].state = "materialized" <=> rq[r].state = "materialized" \/ r \in fresh
        OBVIOUS
    <3>1. CASE r \in Items(items)
          BY <1>5, <1>12, <1>14, <3>1
    <3>2. CASE r \notin Items(items)
          BY <1>5, <1>15, <3>2
    <3> QED BY <3>1, <3>2
  <2>6. fresh \subseteq Requests
        BY <1>5, <1>11
  <2> QED BY <2>1, <2>2, <2>4, <2>5, <2>6 DEF ContextOK
<1>20. SameWaits(rq, rq2)
       BY <1>16 DEF SameWaits
<1>21. DriverOK(rq2, tr2, run', t)
  <2>1. run'.driver = d
        BY <1>10
  <2>2. tr2[t].queue = rest
        BY <1>8 DEF TurnRecord
  <2> QED BY <1>4, <1>14, <2>1, <2>2 DEF DriverOK
<1> QED BY <1>10, <1>18, <1>19, <1>20, <1>21 DEF StepDone

LEMMA BeginLoopStepKeeps ==
    ASSUME NEW rq \in [Requests -> RequestRecord], NEW tr \in [TurnIds -> TurnRecord],
           NEW t \in TurnIds, NEW n, tr[t].state = "running", context \in Seq(Requests),
           TablesOK(rq, tr), ContextOK(rq, context), BeginLoopStep(rq, tr, t, n)
    PROVE  StepDone(rq, t)
<1>1. CASE \E result \in EndState : RunReturns(rq, tr, t, n, result)
      BY <1>1, RunReturnsKeeps
<1>2. CASE HasPendingRequests(tr[t].queue, Aborted(rq)) /\ TakeStep(rq, tr, t, n)
      BY <1>2, TakeStepKeeps
<1>3. "cancelled" \in EndState /\ "completed" \in EndState /\ "failed" \in EndState
      BY DEF EndState
<1> QED BY <1>1, <1>2, <1>3 DEF BeginLoopStep

--------------------------------------------------------------------------------
(* Starting turns.                                                         *)

LEMMA StartTurnKeeps ==
    ASSUME NEW rq \in [Requests -> RequestRecord], NEW tr \in [TurnIds -> TurnRecord],
           NEW pending \in Seq(TurnIds), pending # << >>, context \in Seq(Requests),
           TablesOK(rq, tr), ContextOK(rq, context), StartTurn(rq, tr, pending)
    PROVE  StepDone(rq, active')
<1>1. PICK t, tr1 : t = Head(pending) /\ tr1 = [tr EXCEPT ![t].state = "running"]
      OBVIOUS
<1>2. t \in TurnIds /\ active' = t
      BY <1>1 DEF StartTurn
<1>3. \/ BeginLoopStep(rq, tr1, t, 0)
      \/ /\ req' = rq /\ turn' = tr1 /\ context' = context
         /\ run' = [Idle EXCEPT !.phase = "returned", !.result = "failed"]
      BY <1>1 DEF StartTurn
<1>4. /\ tr1 \in [TurnIds -> TurnRecord] /\ tr1[t].state = "running"
      /\ \A u \in TurnIds : /\ u # t => tr1[u] = tr[u]
                            /\ tr1[u].queue = tr[u].queue /\ tr1[u].ready = tr[u].ready
      BY <1>1, <1>2 DEF TurnRecord, TurnState
<1>5. TablesOK(rq, tr1)
  <2>1. ASSUME NEW r \in Requests, Unfinished(rq[r])
        PROVE  tr1[rq[r].turn].state \in {"queued", "running"}
    <3>1. /\ rq[r].turn \in TurnIds \cup {NoTurn} /\ rq[r].turn # NoTurn
          /\ tr[rq[r].turn].state \in {"queued", "running"}
          BY <2>1 DEF TablesOK, RequestOK, RequestRecord
    <3> QED BY <1>4, <3>1
  <2>2. \A u \in TurnIds : tr1[u].state \in EndState => tr1[u].ready # "pending"
        BY <1>4 DEF TablesOK, EndState
  <2> QED BY <1>4, <2>1, <2>2 DEF TablesOK
<1>6. CASE BeginLoopStep(rq, tr1, t, 0)
      BY <1>2, <1>4, <1>5, <1>6, BeginLoopStepKeeps
<1>7. CASE /\ req' = rq /\ turn' = tr1 /\ context' = context
           /\ run' = [Idle EXCEPT !.phase = "returned", !.result = "failed"]
  <2>1. run'.phase = "returned"
        BY <1>7 DEF Idle
  <2>2. DriverOK(rq, tr1, run', t)
        BY <2>1 DEF DriverOK
  <2>3. SameWaits(rq, rq)
        BY DEF SameWaits
  <2> QED BY <1>2, <1>5, <1>7, <2>2, <2>3 DEF StepDone
<1> QED BY <1>3, <1>6, <1>7

LEMMA PumpTurnsKeeps ==
    ASSUME TypeInv,
           NEW rq \in [Requests -> RequestRecord], NEW tr \in [TurnIds -> TurnRecord],
           NEW pending \in Seq(TurnIds), NEW act, NEW depth,
           TablesOK(rq, tr), ContextOK(rq, context),
           act # NoTurn => DriverOK(rq, tr, run, act),
           PumpTurns(rq, tr, pending, act, depth)
    PROVE  StepDone(rq, active')
<1>1. CASE disposing \/ depth > 0 \/ act # NoTurn \/ pending = << >>
  <2>1. /\ req' = rq /\ turn' = tr /\ active' = act /\ context' = context
        /\ run' = IF act = NoTurn THEN Idle ELSE run
        BY <1>1 DEF PumpTurns
  <2>2. DriverOK(rq, tr, run', act)
    <3>1. CASE act = NoTurn
          BY <2>1, <3>1 DEF DriverOK, Idle
    <3>2. CASE act # NoTurn
          BY <2>1, <3>2
    <3> QED BY <3>1, <3>2
  <2>3. SameWaits(rq, rq)
        BY DEF SameWaits
  <2> QED BY <2>1, <2>2, <2>3 DEF StepDone
<1>2. CASE ~(disposing \/ depth > 0 \/ act # NoTurn \/ pending = << >>)
  <2>1. StartTurn(rq, tr, pending) /\ pending # << >>
        BY <1>2 DEF PumpTurns
  <2> QED BY <2>1, StartTurnKeeps DEF TypeInv, TypeOK
<1> QED BY <1>1, <1>2

\* A request that is about to be admitted: in no turn, not aborted, and in no
\* place where requests wait.  The others that wait are in `others`.
AdmissionOK(rq, r, sa, others) ==
    /\ rq[r].turn = NoTurn /\ rq[r].state \notin {"new", "aborted"}
    /\ r \notin Items(sa) /\ Distinct(sa) /\ r \notin others /\ Items(sa) \cap others = {}
    /\ \A x \in Items(sa) \cup others : rq[x].turn = NoTurn /\ rq[x].state # "new"
    /\ \A x \in Requests : rq[x].assigned = "pending" => x = r \/ x \in Items(sa) \cup others

\* What the admission leaves.
AdmissionDone(others) ==
    /\ TablesOK(req', turn') /\ DriverOK(req', turn', run', active')
    /\ ContextOK(req', context')
    /\ Distinct(standalone') /\ Items(standalone') \cap others = {}
    /\ \A x \in Items(standalone') \cup others : req'[x].turn = NoTurn /\ req'[x].state # "new"
    /\ \A x \in Requests : req'[x].assigned = "pending" => x \in Items(standalone') \cup others

LEMMA CreateAndQueueTurnKeeps ==
    ASSUME TypeInv, QueueInv,
           NEW rq \in [Requests -> RequestRecord], NEW r \in Requests, NEW depth,
           NEW others \in SUBSET Requests,
           TablesOK(rq, turn), ContextOK(rq, context),
           active # NoTurn => DriverOK(rq, turn, run, active),
           AdmissionOK(rq, r, standalone, others),
           CreateAndQueueTurn(rq, r, depth)
    PROVE  AdmissionDone(others)
<1>1. PICK t, sa, moved :
          /\ t = nextTurnId /\ sa = standalone
          /\ moved = Keep(standalone, Requests \ Aborted(rq))
      OBVIOUS
<1>2. PICK steps, q : steps = {r} \cup Items(moved) /\ q = <<r>> \o moved
      OBVIOUS
<1>3. PICK rq1 : rq1 = [x \in Requests |-> IF x \in steps THEN Assign(rq[x], t) ELSE rq[x]]
      OBVIOUS
<1>4. PICK job : job = [state |-> "queued", request |-> r, queue |-> q,
                        aborted |-> FALSE, ready |-> "pending"]
      OBVIOUS
<1>5. PICK tr1, pending : tr1 = [turn EXCEPT ![t] = job] /\ pending = Append(pendingTurns, t)
      OBVIOUS
<1>6. /\ t < MaxTurns /\ standalone' = << >>
      /\ PumpTurns(rq1, tr1, pending, active, depth)
      BY <1>1, <1>2, <1>3, <1>4, <1>5 DEF CreateAndQueueTurn
<1>7. /\ t \in TurnIds /\ pending \in Seq(TurnIds) /\ turn \in [TurnIds -> TurnRecord]
      /\ sa \in Seq(Requests) /\ t # NoTurn
      BY <1>1, <1>5, <1>6, BoundsAssumption, TurnIdsNat DEF TypeInv, TypeOK, TurnIds
<1>8. turn[t].state = "none" /\ active # t
      BY <1>1, <1>7, TurnIdsNat DEF QueueInv, TypeInv, TypeOK
<1>9. /\ moved \in Seq(Requests) /\ Distinct(moved) /\ Items(moved) = Items(sa) \cap (Requests \ Aborted(rq))
  <2>1. Distinct(sa)
        BY <1>1 DEF AdmissionOK
  <2> QED BY <1>1, <1>7, <2>1, KeepSeq, KeepItems, DistinctKeep
<1>10. q \in Seq(Requests) /\ Items(q) = steps /\ Distinct(q) /\ steps \subseteq Requests
  <2>1. r \notin Items(moved)
        BY <1>1, <1>9 DEF AdmissionOK
  <2>2. Items(moved) \subseteq Requests
        BY <1>9
  <2> QED BY <1>2, <1>9, <2>1, <2>2, DistinctCons
<1>11. \A x \in steps : rq[x].turn = NoTurn /\ rq[x].state # "new" /\ x \in Requests
       BY <1>1, <1>2, <1>9 DEF AdmissionOK
<1>12. ASSUME NEW x \in Requests
       PROVE  /\ x \in steps => /\ rq1[x].turn = t /\ rq1[x].assigned = "resolved"
                                /\ RequestOK(rq1[x])
              /\ x \notin steps => rq1[x] = rq[x]
              /\ rq1[x].state = rq[x].state /\ rq1[x] \in RequestRecord
  <2>1. CASE x \in steps
    <3>1. rq1[x] = Assign(rq[x], t)
          BY <1>3, <2>1
    <3> QED BY <1>7, <1>11, <2>1, <3>1, AssignOK, AssignType
  <2>2. CASE x \notin steps
        BY <1>3, <2>2
  <2> QED BY <2>1, <2>2
<1>13. rq1 \in [Requests -> RequestRecord]
       BY <1>3, <1>12
<1>14. job \in TurnRecord /\ job.queue = q /\ job.state = "queued" /\ job.ready = "pending"
       BY <1>4, <1>10 DEF TurnRecord, TurnState, PromiseState
<1>15. tr1 \in [TurnIds -> TurnRecord] /\ tr1[t] = job /\ \A u \in TurnIds : u # t => tr1[u] = turn[u]
       BY <1>5, <1>7, <1>14
<1>16. \A u \in TurnIds : \A x \in Items(turn[u].queue) : x \in Requests /\ rq[x].turn = u /\ x \notin steps
  <2> SUFFICES ASSUME NEW u \in TurnIds, NEW x \in Items(turn[u].queue)
               PROVE  x \in Requests /\ rq[x].turn = u /\ x \notin steps
      OBVIOUS
  <2>1. turn[u].queue \in Seq(Requests)
        BY <1>7 DEF TurnRecord
  <2>2. x \in Requests
        BY <2>1 DEF Items
  <2>3. rq[x].turn = u /\ u # NoTurn
        BY TurnIdsNat DEF TablesOK
  <2> QED BY <1>11, <2>2, <2>3
<1>17. TablesOK(rq1, tr1)
  <2>1. \A x \in Requests : RequestOK(rq1[x])
        BY <1>12 DEF TablesOK
  <2>2. ASSUME NEW x \in Requests, Unfinished(rq1[x])
        PROVE  tr1[rq1[x].turn].state \in {"queued", "running"}
    <3>1. CASE x \in steps
          BY <1>12, <1>14, <1>15, <3>1
    <3>2. CASE x \notin steps
      <4>1. rq1[x] = rq[x]
            BY <1>12, <3>2
      <4>2. /\ rq[x].turn \in TurnIds \cup {NoTurn} /\ rq[x].turn # NoTurn
            /\ turn[rq[x].turn].state \in {"queued", "running"}
            BY <2>2, <4>1 DEF TablesOK, RequestOK, RequestRecord
      <4>3. rq[x].turn # t
            BY <1>8, <4>2
      <4> QED BY <1>15, <4>1, <4>2, <4>3
    <3> QED BY <3>1, <3>2
  <2>3. ASSUME NEW u \in TurnIds
        PROVE  /\ Distinct(tr1[u].queue)
               /\ \A x \in Items(tr1[u].queue) : rq1[x].turn = u
               /\ tr1[u].state \in EndState => tr1[u].ready # "pending"
    <3>1. CASE u = t
          BY <1>10, <1>12, <1>14, <1>15, <3>1 DEF EndState
    <3>2. CASE u # t
      <4>1. tr1[u] = turn[u]
            BY <1>15, <3>2
      <4>2. \A x \in Items(turn[u].queue) : rq1[x].turn = u
            BY <1>12, <1>16
      <4> QED BY <4>1, <4>2 DEF TablesOK
    <3> QED BY <3>1, <3>2
  <2> QED BY <2>1, <2>2, <2>3 DEF TablesOK
<1>18. ContextOK(rq1, context)
       BY <1>12 DEF ContextOK
<1>19. ASSUME active # NoTurn
       PROVE  DriverOK(rq1, tr1, run, active)
  <2> SUFFICES ASSUME run.phase \in {"request", "after", "recover"}
               PROVE  /\ run.driver \in Requests /\ active \in TurnIds
                      /\ rq1[run.driver].turn = active /\ rq1[run.driver].state = "materialized"
                      /\ run.driver \notin Items(tr1[active].queue)
      BY DEF DriverOK
  <2>1. /\ run.driver \in Requests /\ active \in TurnIds
        /\ rq[run.driver].turn = active /\ rq[run.driver].state = "materialized"
        /\ run.driver \notin Items(turn[active].queue)
        BY <1>19 DEF DriverOK
  <2>2. run.driver \notin steps
        BY <1>11, <1>19, <2>1
  <2> QED BY <1>8, <1>12, <1>15, <2>1, <2>2
<1>20. StepDone(rq1, active')
       BY <1>6, <1>7, <1>13, <1>15, <1>17, <1>18, <1>19, PumpTurnsKeeps
<1>21. ASSUME NEW x \in others
       PROVE  req'[x].turn = NoTurn /\ req'[x].state # "new"
  <2>1. x \notin steps /\ x \in Requests /\ rq[x].turn = NoTurn /\ rq[x].state # "new"
        BY <1>1, <1>2, <1>9 DEF AdmissionOK
  <2>2. rq1[x] = rq[x]
        BY <1>12, <2>1
  <2> QED BY <1>20, <2>1, <2>2 DEF StepDone, SameWaits
<1>22. ASSUME NEW x \in Requests, req'[x].assigned = "pending"
       PROVE  x \in others
  <2>1. rq1[x].assigned = "pending"
        BY <1>20, <1>22 DEF StepDone, SameWaits
  <2>2. x \notin steps /\ rq[x].assigned = "pending"
        BY <1>12, <2>1
  <2>3. rq[x].state = "pending"
        BY <2>2 DEF TablesOK, RequestOK
  <2>4. x \notin Items(sa)
    <3>1. x \notin Aborted(rq)
          BY <2>3 DEF Aborted
    <3> QED BY <1>2, <1>9, <2>2, <3>1
  <2> QED BY <1>1, <1>2, <2>2, <2>4 DEF AdmissionOK
<1>23. Distinct(standalone') /\ Items(standalone') = {}
       BY <1>6 DEF Distinct, Items
<1> QED BY <1>20, <1>21, <1>22, <1>23 DEF AdmissionDone, StepDone


LEMMA AdmitActiveKeeps ==
    ASSUME TypeInv, QueueInv,
           NEW rq \in [Requests -> RequestRecord], NEW r \in Requests,
           NEW others \in SUBSET Requests,
           TablesOK(rq, turn), ContextOK(rq, context),
           active # NoTurn => DriverOK(rq, turn, run, active),
           AdmissionOK(rq, r, standalone, others),
           AdmitActive(rq, r)
    PROVE  AdmissionDone(others)
<1>1. PICK t, q, a : t = active /\ q = turn[t].queue /\ a = Assign(rq[r], t)
      OBVIOUS
<1>2. PICK rq1, tr1 : /\ rq1 = [rq EXCEPT ![r] = a]
                      /\ tr1 = [turn EXCEPT ![t].queue = Append(q, r)]
      OBVIOUS
<1>3. /\ t # NoTurn /\ req' = rq1
      /\ run' = run /\ active' = active /\ standalone' = standalone /\ context' = context
      BY <1>1, <1>2 DEF AdmitActive
<1>4. turn' = tr1
  <2>1. turn' = [turn EXCEPT ![active].queue = Append(turn[active].queue, r)]
        BY DEF AdmitActive
  <2> QED BY <1>1, <1>2, <2>1
<1>5. t \in TurnIds /\ turn \in [TurnIds -> TurnRecord] /\ standalone \in Seq(Requests)
      BY <1>1, <1>3 DEF TypeInv, TypeOK
<1>6. turn[t].state = "running"
      BY <1>1, <1>5 DEF QueueInv
<1>7. q \in Seq(Requests) /\ Distinct(q) /\ \A x \in Items(q) : x \in Requests /\ rq[x].turn = t
  <2>1. q \in Seq(Requests)
        BY <1>1, <1>5 DEF TurnRecord
  <2>2. Items(q) \subseteq Requests
        BY <2>1 DEF Items
  <2> QED BY <1>1, <1>5, <2>1, <2>2 DEF TablesOK
<1>8. rq[r].turn = NoTurn /\ rq[r].state # "new"
      BY DEF AdmissionOK
<1>9. r \notin Items(q)
      BY <1>3, <1>7, <1>8
<1>10. PICK q2 : q2 = Append(q, r)
       OBVIOUS
<1>11. q2 \in Seq(Requests) /\ Items(q2) = Items(q) \cup {r} /\ Distinct(q2)
       BY <1>7, <1>9, <1>10, DistinctAppend
<1>12. /\ tr1[t].queue = q2 /\ tr1[t].state = "running" /\ tr1[t].ready = turn[t].ready
       /\ \A u \in TurnIds : u # t => tr1[u] = turn[u]
       BY <1>2, <1>5, <1>6, <1>10 DEF TurnRecord
<1>13. /\ rq1[r] = a /\ RequestOK(a) /\ a.turn = t /\ a.state = rq[r].state
       /\ a.assigned = "resolved"
       /\ \A x \in Requests : x # r => rq1[x] = rq[x]
  <2>1. rq1[r] = a /\ \A x \in Requests : x # r => rq1[x] = rq[x]
        BY <1>2
  <2>2. RequestOK(a) /\ a.state = rq[r].state /\ a.assigned = "resolved"
        BY <1>1, <1>5, <1>8, AssignOK
  <2>3. a.turn = t
        BY <1>1, <1>5, AssignType
  <2> QED BY <2>1, <2>2, <2>3
<1>14. TablesOK(rq1, tr1)
  <2>1. \A x \in Requests : RequestOK(rq1[x])
    <3> SUFFICES ASSUME NEW x \in Requests PROVE RequestOK(rq1[x])
        OBVIOUS
    <3>1. RequestOK(rq[x])
          BY DEF TablesOK
    <3> QED BY <1>13, <3>1
  <2>2. ASSUME NEW x \in Requests, Unfinished(rq1[x])
        PROVE  tr1[rq1[x].turn].state \in {"queued", "running"}
    <3>1. CASE x = r
          BY <1>12, <1>13, <3>1
    <3>2. CASE x # r
      <4>1. rq1[x] = rq[x]
            BY <1>13, <3>2
      <4>2. /\ rq[x].turn \in TurnIds \cup {NoTurn} /\ rq[x].turn # NoTurn
            /\ turn[rq[x].turn].state \in {"queued", "running"}
            BY <2>2, <4>1 DEF TablesOK, RequestOK, RequestRecord
      <4> QED BY <1>12, <4>1, <4>2
    <3> QED BY <3>1, <3>2
  <2>3. ASSUME NEW u \in TurnIds
        PROVE  /\ Distinct(tr1[u].queue)
               /\ \A x \in Items(tr1[u].queue) : rq1[x].turn = u
               /\ tr1[u].state \in EndState => tr1[u].ready # "pending"
    <3>1. CASE u = t
      <4>1. \A x \in Items(q2) : rq1[x].turn = t
            BY <1>7, <1>11, <1>13
      <4> QED BY <1>11, <1>12, <3>1, <4>1 DEF EndState
    <3>2. CASE u # t
      <4>1. tr1[u] = turn[u]
            BY <1>12, <3>2
      <4>2. turn[u].queue \in Seq(Requests)
            BY <1>5 DEF TurnRecord
      <4>3. \A x \in Items(turn[u].queue) : x \in Requests /\ rq[x].turn = u
            BY <4>2 DEF TablesOK, Items
      <4>4. u # NoTurn
            BY TurnIdsNat
      <4>5. \A x \in Items(turn[u].queue) : rq1[x].turn = u
            BY <1>8, <1>13, <4>3, <4>4
      <4> QED BY <4>1, <4>5 DEF TablesOK
    <3> QED BY <3>1, <3>2
  <2> QED BY <2>1, <2>2, <2>3 DEF TablesOK
<1>15. ContextOK(rq1, context)
  <2>1. \A x \in Requests : rq1[x].state = rq[x].state
        BY <1>13
  <2> QED BY <2>1 DEF ContextOK
<1>16. DriverOK(rq1, tr1, run, t)
  <2> SUFFICES ASSUME run.phase \in {"request", "after", "recover"}
               PROVE  /\ run.driver \in Requests /\ t \in TurnIds
                      /\ rq1[run.driver].turn = t /\ rq1[run.driver].state = "materialized"
                      /\ run.driver \notin Items(tr1[t].queue)
      BY DEF DriverOK
  <2>1. /\ run.driver \in Requests /\ t \in TurnIds
        /\ rq[run.driver].turn = t /\ rq[run.driver].state = "materialized"
        /\ run.driver \notin Items(q)
        BY <1>1, <1>3 DEF DriverOK
  <2>2. run.driver # r
        BY <1>3, <1>8, <2>1
  <2> QED BY <1>11, <1>12, <1>13, <2>1, <2>2
<1>17. \A x \in Items(standalone) \cup others : x # r /\ x \in Requests
  <2>1. Items(standalone) \subseteq Requests
        BY <1>5 DEF Items
  <2> QED BY <2>1 DEF AdmissionOK
<1>18. \A x \in Items(standalone) \cup others : rq1[x].turn = NoTurn /\ rq1[x].state # "new"
       BY <1>13, <1>17 DEF AdmissionOK
<1>19. ASSUME NEW x \in Requests, rq1[x].assigned = "pending"
       PROVE  x \in Items(standalone) \cup others
  <2>1. x # r /\ rq[x].assigned = "pending"
        BY <1>13, <1>19
  <2> QED BY <2>1 DEF AdmissionOK
<1>20. Distinct(standalone) /\ Items(standalone) \cap others = {}
       BY DEF AdmissionOK
<1> QED BY <1>1, <1>3, <1>4, <1>14, <1>15, <1>16, <1>18, <1>19, <1>20 DEF AdmissionDone

LEMMA AdmitStandaloneKeeps ==
    ASSUME TypeInv,
           NEW rq \in [Requests -> RequestRecord], NEW r \in Requests,
           NEW others \in SUBSET Requests,
           TablesOK(rq, turn), ContextOK(rq, context),
           AdmissionOK(rq, r, standalone, others),
           AdmitStandalone(rq, r)
    PROVE  AdmissionDone(others)
<1>1. PICK sa : sa = Append(standalone, r)
      OBVIOUS
<1>2. /\ standalone' = sa /\ req' = rq /\ turn' = turn /\ active' = active
      /\ run' = run /\ context' = context /\ active = NoTurn
      BY <1>1 DEF AdmitStandalone
<1>3. DriverOK(rq, turn, run, active)
      BY <1>2 DEF DriverOK, TypeInv, RunShape
<1>4. /\ standalone \in Seq(Requests) /\ Distinct(standalone) /\ r \notin Items(standalone)
      BY DEF TypeInv, TypeOK, AdmissionOK
<1>5. Items(sa) = Items(standalone) \cup {r} /\ Distinct(sa)
      BY <1>1, <1>4, DistinctAppend
<1>6. /\ Items(sa) \cap others = {}
      /\ \A x \in Items(sa) \cup others : rq[x].turn = NoTurn /\ rq[x].state # "new"
      /\ \A x \in Requests : rq[x].assigned = "pending" => x \in Items(sa) \cup others
      BY <1>5 DEF AdmissionOK
<1> QED BY <1>2, <1>3, <1>5, <1>6 DEF AdmissionDone

LEMMA AdmitKeeps ==
    ASSUME TypeInv, QueueInv,
           NEW rq \in [Requests -> RequestRecord], NEW r \in Requests,
           NEW others \in SUBSET Requests,
           TablesOK(rq, turn), ContextOK(rq, context),
           active # NoTurn => DriverOK(rq, turn, run, active),
           AdmissionOK(rq, r, standalone, others),
           AdmitNewTurn(rq, r) \/ AdmitStandalone(rq, r) \/ AdmitActive(rq, r)
    PROVE  AdmissionDone(others)
<1>1. CASE AdmitNewTurn(rq, r)
  <2>1. CreateAndQueueTurn(rq, r, 0)
        BY <1>1 DEF AdmitNewTurn
  <2> QED BY <2>1, CreateAndQueueTurnKeeps
<1>2. CASE AdmitStandalone(rq, r)
      BY <1>2, AdmitStandaloneKeeps
<1>3. CASE AdmitActive(rq, r)
      BY <1>3, AdmitActiveKeeps
<1> QED BY <1>1, <1>2, <1>3

\* An admission that leaves the other requests that wait where they were.
LEMMA AdmissionKeeps ==
    ASSUME NEW others, AdmissionDone(others), others = Items(held') \cup Items(releasing'),
           Distinct(held'), Distinct(releasing')
    PROVE  RequestInv'
BY DEF AdmissionDone, RequestInv, WaitOK

--------------------------------------------------------------------------------
(* Steps that leave the queues of the turns alone.                         *)

\* A step that changes requests and turns without moving a request: no step is
\* begun, and a turn ends only when none of its steps goes on.
Moveless(rq, tr) ==
    /\ \A r \in Requests :
          /\ RequestOK(rq[r]) /\ rq[r].turn = req[r].turn
          /\ rq[r].state = "materialized" <=> req[r].state = "materialized"
          /\ Unfinished(rq[r]) => Unfinished(req[r])
    /\ \A u \in TurnIds :
          /\ tr[u].queue = turn[u].queue
          /\ tr[u].ready = turn[u].ready \/ tr[u].ready # "pending"
          /\ \/ tr[u].state = turn[u].state
             \/ /\ tr[u].state \in EndState => tr[u].ready # "pending"
                /\ \A r \in Requests : req[r].turn = u => ~Unfinished(rq[r])

LEMMA MovelessKeeps ==
    ASSUME TypeInv, RequestInv, NEW rq, NEW tr, Moveless(rq, tr)
    PROVE  /\ TablesOK(rq, tr) /\ ContextOK(rq, context)
           /\ DriverOK(rq, tr, run, active)
<1>1. TablesOK(req, turn) /\ ContextOK(req, context) /\ DriverOK(req, turn, run, active)
      BY DEF RequestInv
<1>2. \A r \in Requests : /\ RequestOK(rq[r]) /\ rq[r].turn = req[r].turn
                          /\ rq[r].state = "materialized" <=> req[r].state = "materialized"
      BY DEF Moveless
<1>3. ASSUME NEW r \in Requests, Unfinished(rq[r])
      PROVE  tr[rq[r].turn].state \in {"queued", "running"}
  <2>1. Unfinished(req[r]) /\ rq[r].turn = req[r].turn
        BY <1>3 DEF Moveless
  <2>2. turn[req[r].turn].state \in {"queued", "running"}
        BY <1>1, <2>1 DEF TablesOK
  <2>3. req[r].turn \in TurnIds
        BY <1>1, <2>1 DEF TablesOK, RequestOK, TypeInv, TypeOK, RequestRecord
  <2>4. tr[req[r].turn].state = turn[req[r].turn].state
        BY <1>3, <2>3 DEF Moveless
  <2> QED BY <2>1, <2>2, <2>4
<1>4. ASSUME NEW u \in TurnIds
      PROVE  /\ Distinct(tr[u].queue)
             /\ \A r \in Items(tr[u].queue) : rq[r].turn = u
             /\ tr[u].state \in EndState => tr[u].ready # "pending"
  <2>1. tr[u].queue = turn[u].queue
        BY DEF Moveless
  <2>2. turn[u].queue \in Seq(Requests)
        BY DEF TypeInv, TypeOK, TurnRecord
  <2>3. Items(turn[u].queue) \subseteq Requests
        BY <2>2 DEF Items
  <2>4. Distinct(turn[u].queue) /\ \A r \in Items(turn[u].queue) : req[r].turn = u
        BY <1>1 DEF TablesOK
  <2>5. turn[u].state \in EndState => turn[u].ready # "pending"
        BY <1>1 DEF TablesOK
  <2>6. tr[u].state \in EndState => tr[u].ready # "pending"
        BY <2>5 DEF Moveless
  <2> QED BY <1>2, <2>1, <2>3, <2>4, <2>6
<1>5. TablesOK(rq, tr)
      BY <1>2, <1>3, <1>4 DEF TablesOK
<1>6. ContextOK(rq, context)
      BY <1>1, <1>2 DEF ContextOK
<1>7. DriverOK(rq, tr, run, active)
  <2> SUFFICES ASSUME run.phase \in {"request", "after", "recover"}
               PROVE  /\ run.driver \in Requests /\ active \in TurnIds
                      /\ rq[run.driver].turn = active /\ rq[run.driver].state = "materialized"
                      /\ run.driver \notin Items(tr[active].queue)
      BY DEF DriverOK
  <2>1. /\ run.driver \in Requests /\ active \in TurnIds
        /\ req[run.driver].turn = active /\ req[run.driver].state = "materialized"
        /\ run.driver \notin Items(turn[active].queue)
        BY <1>1 DEF DriverOK
  <2>2. tr[active].queue = turn[active].queue
        BY <2>1 DEF Moveless
  <2> QED BY <1>2, <2>1, <2>2
<1> QED BY <1>5, <1>6, <1>7

LEMMA WaitKept ==
    ASSUME TypeInv, WaitOK(req, standalone, held, releasing), NEW rq,
           \A r \in Requests :
               /\ rq[r].turn = req[r].turn
               /\ rq[r].state = "new" => req[r].state = "new"
               /\ rq[r].assigned = "pending" => req[r].assigned = "pending"
    PROVE  WaitOK(rq, standalone, held, releasing)
<1>1. Items(standalone) \cup Items(held) \cup Items(releasing) \subseteq Requests
      BY DEF TypeInv, TypeOK, Items
<1> QED BY <1>1 DEF WaitOK

\* A request as enqueue records it waits nowhere yet.
LEMMA SentKeeps ==
    ASSUME TypeInv, RequestInv, NEW r \in Requests, req[r].state = "new", NEW rq, rq = Sent(r)
    PROVE  /\ rq \in [Requests -> RequestRecord]
           /\ TablesOK(rq, turn) /\ ContextOK(rq, context) /\ DriverOK(rq, turn, run, active)
           /\ rq[r].state = "pending" /\ rq[r].turn = NoTurn /\ rq[r].assigned = "pending"
           /\ rq[r].step = req[r].step /\ rq[r].result = req[r].result
           /\ req[r].turn = NoTurn /\ RequestOK(req[r])
           /\ \A x \in Requests : x # r => rq[x] = req[x]
           /\ r \notin Items(standalone) \cup Items(held) \cup Items(releasing)
<1>1. RequestOK(req[r]) /\ req[r] \in RequestRecord /\ req[r].turn = NoTurn
      BY DEF RequestInv, TablesOK, RequestOK, TypeInv, TypeOK
<1>2. rq \in [Requests -> RequestRecord]
      BY SentType
<1>3. /\ rq[r].state = "pending" /\ rq[r].turn = NoTurn /\ rq[r].assigned = "pending"
      /\ rq[r].step = req[r].step /\ rq[r].result = req[r].result
      /\ \A x \in Requests : x # r => rq[x] = req[x]
      BY <1>1 DEF Sent, TypeInv, TypeOK, RequestRecord
<1>4. Moveless(rq, turn)
  <2>1. ASSUME NEW x \in Requests
        PROVE  /\ RequestOK(rq[x]) /\ rq[x].turn = req[x].turn
               /\ rq[x].state = "materialized" <=> req[x].state = "materialized"
               /\ Unfinished(rq[x]) => Unfinished(req[x])
    <3>1. CASE x = r
          BY <1>1, <1>3, <3>1 DEF RequestOK, Unfinished
    <3>2. CASE x # r
          BY <1>3, <3>2 DEF RequestInv, TablesOK
    <3> QED BY <3>1, <3>2
  <2> QED BY <2>1 DEF Moveless
<1>5. r \notin Items(standalone) \cup Items(held) \cup Items(releasing)
      BY DEF RequestInv, WaitOK
<1> QED BY <1>1, <1>2, <1>3, <1>4, <1>5, MovelessKeeps

--------------------------------------------------------------------------------
(* The steps that admit.                                                   *)

LEMMA EnqueueNowKeeps ==
    ASSUME TypeInv, QueueInv, RequestInv, NEW r \in Requests, EnqueueNow(r)
    PROVE  RequestInv'
<1>1. PICK rq, others : rq = Sent(r) /\ others = Items(held) \cup Items(releasing)
      OBVIOUS
<1>2. /\ req[r].state = "new"
      /\ AdmitNewTurn(rq, r) \/ AdmitStandalone(rq, r) \/ AdmitActive(rq, r)
      /\ held' = held /\ releasing' = releasing
      BY <1>1 DEF EnqueueNow, CanEnqueue
<1>3. /\ rq \in [Requests -> RequestRecord]
      /\ TablesOK(rq, turn) /\ ContextOK(rq, context) /\ DriverOK(rq, turn, run, active)
      /\ rq[r].state = "pending" /\ rq[r].turn = NoTurn
      /\ \A x \in Requests : x # r => rq[x] = req[x]
      /\ r \notin Items(standalone) \cup Items(held) \cup Items(releasing)
      BY <1>1, <1>2, SentKeeps
<1>4. /\ Items(standalone) \subseteq Requests /\ Items(held) \subseteq Requests
      /\ Items(releasing) \subseteq Requests
      BY DEF TypeInv, TypeOK, Items
<1>5. others \in SUBSET Requests
      BY <1>1, <1>4
<1>6. WaitOK(req, standalone, held, releasing)
      BY DEF RequestInv
<1>7. AdmissionOK(rq, r, standalone, others)
      BY <1>1, <1>3, <1>4, <1>6 DEF WaitOK, AdmissionOK
<1>8. AdmissionDone(others)
      BY <1>2, <1>3, <1>5, <1>7, AdmitKeeps
<1>9. Distinct(held') /\ Distinct(releasing') /\ others = Items(held') \cup Items(releasing')
      BY <1>1, <1>2, <1>6 DEF WaitOK
<1> QED BY <1>8, <1>9, AdmissionKeeps

LEMMA EnqueueThrowsKeeps ==
    ASSUME TypeInv, RequestInv, NEW r \in Requests, EnqueueThrows(r)
    PROVE  RequestInv'
<1>1. PICK rq, rq2 : rq = Sent(r) /\ rq2 = [rq EXCEPT ![r].assigned = "rejected"]
      OBVIOUS
<1>2. /\ req[r].state = "new" /\ req' = rq2
      /\ UNCHANGED <<turn, active, run, standalone, held, releasing, context>>
      BY <1>1 DEF EnqueueThrows, CanEnqueue
<1>3. /\ rq \in [Requests -> RequestRecord]
      /\ rq[r].state = "pending" /\ rq[r].turn = NoTurn
      /\ rq[r].step = req[r].step /\ rq[r].result = req[r].result
      /\ req[r].turn = NoTurn /\ RequestOK(req[r])
      /\ \A x \in Requests : x # r => rq[x] = req[x]
      BY <1>1, <1>2, SentKeeps
<1>4. /\ rq2[r].state = "pending" /\ rq2[r].turn = NoTurn /\ rq2[r].assigned = "rejected"
      /\ rq2[r].step = req[r].step /\ rq2[r].result = req[r].result
      /\ \A x \in Requests : x # r => rq2[x] = req[x]
      BY <1>1, <1>3 DEF RequestRecord
<1>5. Moveless(rq2, turn)
  <2>1. ASSUME NEW x \in Requests
        PROVE  /\ RequestOK(rq2[x]) /\ rq2[x].turn = req[x].turn
               /\ rq2[x].state = "materialized" <=> req[x].state = "materialized"
               /\ Unfinished(rq2[x]) => Unfinished(req[x])
    <3>1. CASE x = r
          BY <1>2, <1>3, <1>4, <3>1 DEF RequestOK, Unfinished
    <3>2. CASE x # r
          BY <1>4, <3>2 DEF RequestInv, TablesOK
    <3> QED BY <3>1, <3>2
  <2> QED BY <2>1 DEF Moveless
<1>6. /\ TablesOK(rq2, turn) /\ ContextOK(rq2, context) /\ DriverOK(rq2, turn, run, active)
      BY <1>5, MovelessKeeps
<1>7. WaitOK(rq2, standalone, held, releasing)
  <2>1. \A x \in Requests :
               /\ rq2[x].turn = req[x].turn
               /\ rq2[x].state = "new" => req[x].state = "new"
               /\ rq2[x].assigned = "pending" => req[x].assigned = "pending"
        BY <1>3, <1>4
  <2> QED BY <2>1, WaitKept DEF RequestInv
<1> QED BY <1>2, <1>6, <1>7 DEF RequestInv

LEMMA EnqueueHeldKeeps ==
    ASSUME TypeInv, RequestInv, NEW r \in Requests, EnqueueHeld(r)
    PROVE  RequestInv'
<1>1. PICK rq, hl : rq = Sent(r) /\ hl = Append(held, r)
      OBVIOUS
<1>2. /\ req[r].state = "new" /\ req' = rq /\ held' = hl /\ releasing = << >>
      /\ UNCHANGED <<turn, active, run, standalone, releasing, context>>
      BY <1>1 DEF EnqueueHeld, CanEnqueue
<1>3. /\ TablesOK(rq, turn) /\ ContextOK(rq, context) /\ DriverOK(rq, turn, run, active)
      /\ rq[r].state = "pending" /\ rq[r].turn = NoTurn
      /\ \A x \in Requests : x # r => rq[x] = req[x]
      /\ r \notin Items(standalone) \cup Items(held) \cup Items(releasing)
      BY <1>1, <1>2, SentKeeps
<1>4. WaitOK(req, standalone, held, releasing)
      BY DEF RequestInv
<1>5. held \in Seq(Requests) /\ Distinct(held)
      BY <1>4 DEF WaitOK, TypeInv, TypeOK
<1>6. Items(hl) = Items(held) \cup {r} /\ Distinct(hl)
      BY <1>1, <1>3, <1>5, DistinctAppend
<1>7. /\ Items(standalone) \subseteq Requests /\ Items(held) \subseteq Requests
      /\ Items(releasing) \subseteq Requests
      BY DEF TypeInv, TypeOK, Items
<1>8. WaitOK(rq, standalone, hl, releasing)
  <2>1. \A x \in Items(standalone) \cup Items(hl) \cup Items(releasing) :
          rq[x].turn = NoTurn /\ rq[x].state # "new"
        BY <1>3, <1>4, <1>6, <1>7 DEF WaitOK
  <2>2. \A x \in Requests : rq[x].assigned = "pending" =>
          x \in Items(standalone) \cup Items(hl) \cup Items(releasing)
        BY <1>3, <1>4, <1>6 DEF WaitOK
  <2>3. /\ Distinct(standalone) /\ Distinct(hl) /\ Distinct(releasing)
        /\ Items(standalone) \cap (Items(hl) \cup Items(releasing)) = {}
        BY <1>3, <1>4, <1>6 DEF WaitOK
  <2> QED BY <2>1, <2>2, <2>3 DEF WaitOK
<1> QED BY <1>2, <1>3, <1>8 DEF RequestInv

LEMMA ReleaseQuiescenceKeeps ==
    ASSUME TypeInv, RequestInv, ReleaseQuiescence
    PROVE  RequestInv'
<1>1. CASE quiescence = 1 /\ ~disposing
  <2>1. /\ PumpTurns(req, turn, pendingTurns, active, 0)
        /\ releasing' = held /\ held' = << >> /\ releasing = << >> /\ standalone' = standalone
        BY <1>1 DEF ReleaseQuiescence
  <2>2. /\ req \in [Requests -> RequestRecord] /\ turn \in [TurnIds -> TurnRecord]
        /\ pendingTurns \in Seq(TurnIds)
        BY DEF TypeInv, TypeOK
  <2>3. TablesOK(req, turn) /\ ContextOK(req, context) /\ DriverOK(req, turn, run, active)
        BY DEF RequestInv
  <2>4. StepDone(req, active')
        BY <2>1, <2>2, <2>3, PumpTurnsKeeps
  <2>5. WaitOK(req, standalone, << >>, held)
        BY <2>1 DEF RequestInv, WaitOK
  <2>6. /\ Items(standalone) \subseteq Requests /\ Items(held) \subseteq Requests
        BY DEF TypeInv, TypeOK, Items
  <2>7. WaitOK(req', standalone, << >>, held)
    <3>1. \A x \in Requests : /\ req'[x].turn = req[x].turn /\ req'[x].assigned = req[x].assigned
                              /\ req'[x].state = "new" <=> req[x].state = "new"
          BY <2>4 DEF StepDone, SameWaits
    <3> QED BY <2>5, <2>6, <3>1, ItemsEmpty DEF WaitOK
  <2> QED BY <2>1, <2>4, <2>7 DEF StepDone, RequestInv
<1>2. CASE ~(quiescence = 1 /\ ~disposing)
      BY <1>2 DEF ReleaseQuiescence, RequestInv
<1> QED BY <1>1, <1>2

LEMMA AdmitReleasedKeeps ==
    ASSUME TypeInv, QueueInv, LeaseInv, RequestInv, AdmitReleased
    PROVE  RequestInv'
<1>1. PICK r, rl : r = Head(releasing) /\ rl = Tail(releasing)
      OBVIOUS
<1>2. /\ releasing # << >> /\ releasing' = rl /\ held' = held
      /\ \/ /\ req[r].state # "aborted"
            /\ AdmitNewTurn(req, r) \/ AdmitStandalone(req, r) \/ AdmitActive(req, r)
         \/ /\ req' = IF req[r].state = "aborted" THEN req
                      ELSE [req EXCEPT ![r] = RejectAssignment(Abort(@))]
            /\ UNCHANGED <<turn, active, run, standalone, context>>
      BY <1>1 DEF AdmitReleased
<1>3. WaitOK(req, standalone, held, releasing)
      BY DEF RequestInv
<1>4. held = << >>
      BY <1>2 DEF LeaseInv, TypeInv, TypeOK
<1>5. releasing \in Seq(Requests) /\ Distinct(releasing)
      BY <1>3 DEF WaitOK, TypeInv, TypeOK
<1>6. /\ Distinct(rl) /\ r \notin Items(rl) /\ r \in Items(releasing) /\ r \in Requests
      /\ \A x \in Items(rl) : x \in Items(releasing)
      /\ \A x \in Items(releasing) : x = r \/ x \in Items(rl)
  <2>1. Distinct(rl) /\ r \notin Items(rl)
        BY <1>1, <1>2, <1>5, DistinctTail
  <2>2. /\ r \in Items(releasing)
        /\ \A x \in Items(rl) : x \in Items(releasing)
        /\ \A x \in Items(releasing) : x = r \/ x \in Items(rl)
        BY <1>1, <1>2, <1>5, ItemsHead
  <2>3. r \in Requests
        BY <1>5, <2>2, ItemsMember
  <2> QED BY <2>1, <2>2, <2>3
<1>7. PICK others : others = Items(held) \cup Items(rl)
      OBVIOUS
<1>8. /\ others = Items(rl) /\ others \in SUBSET Requests /\ Items(standalone) \subseteq Requests
  <2>1. Items(releasing) \subseteq Requests /\ Items(standalone) \subseteq Requests
        BY DEF TypeInv, TypeOK, Items
  <2> QED BY <1>4, <1>6, <1>7, <2>1, ItemsEmpty
<1>9. /\ req \in [Requests -> RequestRecord] /\ TablesOK(req, turn) /\ ContextOK(req, context)
      /\ DriverOK(req, turn, run, active)
      BY DEF RequestInv, TypeInv, TypeOK
<1>10. req[r].turn = NoTurn /\ req[r].state # "new" /\ RequestOK(req[r]) /\ req[r] \in RequestRecord
       BY <1>3, <1>6, <1>9 DEF WaitOK, TablesOK
<1>11. Distinct(held') /\ Distinct(releasing') /\ others = Items(held') \cup Items(releasing')
       BY <1>2, <1>3, <1>6, <1>7 DEF WaitOK
<1>12. /\ r \notin Items(standalone) /\ Distinct(standalone) /\ Items(standalone) \cap others = {}
       /\ \A x \in Items(standalone) \cup others : req[x].turn = NoTurn /\ req[x].state # "new"
       /\ \A x \in Requests : req[x].assigned = "pending" => x = r \/ x \in Items(standalone) \cup others
       BY <1>3, <1>4, <1>6, <1>8, ItemsEmpty DEF WaitOK
<1>13. CASE /\ req[r].state # "aborted"
            /\ AdmitNewTurn(req, r) \/ AdmitStandalone(req, r) \/ AdmitActive(req, r)
  <2>1. AdmissionOK(req, r, standalone, others)
        BY <1>6, <1>8, <1>10, <1>12, <1>13 DEF AdmissionOK
  <2>2. AdmissionDone(others)
        BY <1>6, <1>8, <1>9, <1>13, <2>1, AdmitKeeps
  <2> QED BY <1>11, <2>2, AdmissionKeeps
<1>14. CASE /\ req' = IF req[r].state = "aborted" THEN req
                      ELSE [req EXCEPT ![r] = RejectAssignment(Abort(@))]
            /\ UNCHANGED <<turn, active, run, standalone, context>>
  <2>1. PICK a : a = RejectAssignment(Abort(req[r]))
        OBVIOUS
  <2>2. /\ RequestOK(a) /\ a.assigned # "pending" /\ a.state # "new" /\ a.turn = NoTurn
        /\ ~Unfinished(a)
        /\ a.state = "materialized" <=> req[r].state = "materialized"
        BY <1>10, <2>1, RejectOK
  <2>3. PICK rq : rq = req'
        OBVIOUS
  <2>4. /\ RequestOK(rq[r]) /\ rq[r].assigned # "pending" /\ rq[r].state # "new"
        /\ rq[r].turn = NoTurn
        /\ rq[r].state = "materialized" <=> req[r].state = "materialized"
        /\ Unfinished(rq[r]) => Unfinished(req[r])
        /\ \A x \in Requests : x # r => rq[x] = req[x]
    <3>1. CASE req[r].state = "aborted"
      <4>1. rq = req
            BY <1>14, <2>3, <3>1
      <4>2. req[r].assigned # "pending"
            BY <1>10, <3>1 DEF RequestOK
      <4> QED BY <1>10, <4>1, <4>2
    <3>2. CASE req[r].state # "aborted"
      <4>1. rq = [req EXCEPT ![r] = a]
            BY <1>14, <2>1, <2>3, <3>2
      <4>2. rq[r] = a /\ \A x \in Requests : x # r => rq[x] = req[x]
            BY <1>6, <1>9, <4>1
      <4> QED BY <2>2, <4>2
    <3> QED BY <3>1, <3>2
  <2>5. Moveless(rq, turn)
    <3>1. \A x \in Requests : RequestOK(req[x])
          BY <1>9 DEF TablesOK
    <3>2. \A x \in Requests :
             /\ RequestOK(rq[x]) /\ rq[x].turn = req[x].turn
             /\ rq[x].state = "materialized" <=> req[x].state = "materialized"
             /\ Unfinished(rq[x]) => Unfinished(req[x])
      <4> SUFFICES ASSUME NEW x \in Requests
                   PROVE  /\ RequestOK(rq[x]) /\ rq[x].turn = req[x].turn
                          /\ rq[x].state = "materialized" <=> req[x].state = "materialized"
                          /\ Unfinished(rq[x]) => Unfinished(req[x])
          OBVIOUS
      <4>1. CASE x = r
            BY <1>10, <2>4, <4>1
      <4>2. CASE x # r
        <5>1. rq[x] = req[x]
              BY <2>4, <4>2
        <5> QED BY <3>1, <5>1
      <4> QED BY <4>1, <4>2
    <3> QED BY <3>2 DEF Moveless
  <2>6. TablesOK(rq, turn) /\ ContextOK(rq, context) /\ DriverOK(rq, turn, run, active)
        BY <2>5, MovelessKeeps
  <2>7. /\ Distinct(standalone) /\ Items(standalone) \cap others = {}
        /\ \A x \in Items(standalone) \cup others : rq[x].turn = NoTurn /\ rq[x].state # "new"
        /\ \A x \in Requests : rq[x].assigned = "pending" => x \in Items(standalone) \cup others
    <3>1. \A x \in Items(standalone) \cup others : x \in Requests /\ x # r
          BY <1>6, <1>8, <1>12
    <3> QED BY <1>12, <2>4, <3>1
  <2>8. AdmissionDone(others)
        BY <1>14, <2>3, <2>6, <2>7 DEF AdmissionDone
  <2> QED BY <1>11, <2>8, AdmissionKeeps
<1> QED BY <1>2, <1>13, <1>14

--------------------------------------------------------------------------------
(* The steps that cancel, and the promises of the turns.                   *)

\* A step that moves no request between the queues of the turns.
LEMMA MovelessStep ==
    ASSUME TypeInv, RequestInv, NEW rq, NEW tr, Moveless(rq, tr), req' = rq, turn' = tr,
           UNCHANGED <<active, context>>,
           \/ run' = run
           \/ run.phase \in {"request", "after", "recover"} /\ run'.driver = run.driver,
           WaitOK(rq, standalone', held', releasing')
    PROVE  RequestInv'
<1>1. TablesOK(rq, tr) /\ ContextOK(rq, context) /\ DriverOK(rq, tr, run, active)
      BY MovelessKeeps
<1>2. DriverOK(rq, tr, run', active)
  <2>1. CASE run' = run
        BY <1>1, <2>1
  <2>2. CASE run.phase \in {"request", "after", "recover"} /\ run'.driver = run.driver
        BY <1>1, <2>2 DEF DriverOK
  <2> QED BY <2>1, <2>2
<1> QED BY <1>1, <1>2 DEF RequestInv

\* A turn record changes in its signal or its ready promise only.
LEMMA SignalKeeps ==
    ASSUME TypeInv, RequestInv, NEW tr, req' = req, turn' = tr,
           \A u \in TurnIds :
               /\ tr[u].queue = turn[u].queue /\ tr[u].state = turn[u].state
               /\ tr[u].ready = turn[u].ready \/ tr[u].ready # "pending",
           UNCHANGED <<active, context, standalone, held, releasing>>,
           \/ run' = run
           \/ run.phase \in {"request", "after", "recover"} /\ run'.driver = run.driver
    PROVE  RequestInv'
<1>1. PICK rq : rq = req
      OBVIOUS
<1>2. Moveless(rq, tr)
      BY <1>1 DEF Moveless, RequestInv, TablesOK
<1>3. WaitOK(rq, standalone', held', releasing')
      BY <1>1 DEF RequestInv
<1> QED BY <1>1, <1>2, <1>3, MovelessStep

LEMMA SignalsKeep ==
    ASSUME TypeInv, RequestInv,
           CancelActiveTurn \/ ResponseStarts \/ FinishStep \/ StepFailsRecoverably
    PROVE  RequestInv'
<1>1. PICK tr : tr = turn'
      OBVIOUS
<1>2. turn \in [TurnIds -> TurnRecord]
      BY DEF TypeInv, TypeOK
<1>3. CASE CancelActiveTurn
  <2>1. tr = [turn EXCEPT ![active].aborted = TRUE]
        BY <1>1, <1>3 DEF CancelActiveTurn
  <2>2. \A u \in TurnIds : /\ tr[u].queue = turn[u].queue /\ tr[u].state = turn[u].state
                           /\ tr[u].ready = turn[u].ready
        BY <1>2, <2>1 DEF TurnRecord
  <2>3. UNCHANGED <<req, run, active, context, standalone, held, releasing>>
        BY <1>3 DEF CancelActiveTurn
  <2> QED BY <1>1, <2>2, <2>3, SignalKeeps
<1>4. CASE ResponseStarts
  <2>1. tr = [turn EXCEPT ![active].ready = "resolved"]
        BY <1>1, <1>4 DEF ResponseStarts
  <2>2. \A u \in TurnIds : /\ tr[u].queue = turn[u].queue /\ tr[u].state = turn[u].state
                           /\ tr[u].ready = turn[u].ready \/ tr[u].ready # "pending"
        BY <1>2, <2>1 DEF TurnRecord
  <2>3. UNCHANGED <<req, run, active, context, standalone, held, releasing>>
        BY <1>4 DEF ResponseStarts, RunLoopUnchanged
  <2> QED BY <1>1, <2>2, <2>3, SignalKeeps
<1>5. CASE FinishStep
  <2>1. PICK v : v = (IF turn[active].ready = "pending" THEN "resolved" ELSE turn[active].ready)
        OBVIOUS
  <2>2. tr = [turn EXCEPT ![active].ready = v]
        BY <1>1, <1>5, <2>1 DEF FinishStep
  <2>3. \A u \in TurnIds : /\ tr[u].queue = turn[u].queue /\ tr[u].state = turn[u].state
                           /\ tr[u].ready = turn[u].ready \/ tr[u].ready # "pending"
        BY <1>2, <2>1, <2>2 DEF TurnRecord
  <2>4. UNCHANGED <<req, active, context, standalone, held, releasing>>
        BY <1>5 DEF FinishStep, RunLoopUnchanged
  <2>5. run.phase = "request" /\ run'.driver = run.driver
        BY <1>5 DEF FinishStep, InPhase, TypeInv, TypeOK, RunRecord
  <2> QED BY <1>1, <2>3, <2>4, <2>5, SignalKeeps
<1>6. CASE StepFailsRecoverably
  <2>1. tr = turn /\ UNCHANGED <<req, active, context, standalone, held, releasing>>
        BY <1>1, <1>6 DEF StepFailsRecoverably, RunLoopUnchanged
  <2>2. run.phase = "request" /\ run'.driver = run.driver
        BY <1>6 DEF StepFailsRecoverably, InPhase, TypeInv, TypeOK, RunRecord
  <2> QED BY <1>1, <2>1, <2>2, SignalKeeps
<1> QED BY <1>3, <1>4, <1>5, <1>6

\* The turns of ts end and their steps with them; the requests of `loose` are
\* rejected.
Stops(rq, tr, ts, loose) ==
    /\ \A r \in loose : req[r].turn = NoTurn /\ req[r].state # "new"
    /\ rq = [r \in Requests |-> IF req[r].turn \in ts THEN StopStep(req[r])
                               ELSE IF r \in loose THEN RejectAssignment(Abort(req[r]))
                               ELSE req[r]]
    /\ \A u \in TurnIds :
          /\ tr[u].queue = turn[u].queue
          /\ tr[u].ready = turn[u].ready \/ tr[u].ready # "pending"
          /\ u \notin ts => tr[u].state = turn[u].state
          /\ u \in ts => tr[u].ready # "pending"

Stopped(rq, tr, ts, loose) ==
    /\ Moveless(rq, tr)
    /\ rq \in [Requests -> RequestRecord]
    /\ \A r \in Requests :
          /\ rq[r].turn = req[r].turn
          /\ rq[r].state = "new" => req[r].state = "new"
          /\ rq[r].assigned = "pending" =>
                req[r].assigned = "pending" /\ (r \in loose => req[r].turn \in ts)

LEMMA TurnsStopped ==
    ASSUME TypeInv, RequestInv, NEW rq, NEW tr, NEW ts, NEW loose, Stops(rq, tr, ts, loose)
    PROVE  Stopped(rq, tr, ts, loose)
<1>1. ASSUME NEW r \in Requests
      PROVE  /\ RequestOK(rq[r]) /\ rq[r].turn = req[r].turn
             /\ rq[r].state = "materialized" <=> req[r].state = "materialized"
             /\ Unfinished(rq[r]) => Unfinished(req[r])
             /\ req[r].turn \in ts => ~Unfinished(rq[r])
             /\ rq[r] \in RequestRecord
             /\ rq[r].state = "new" => req[r].state = "new"
             /\ rq[r].assigned = "pending" =>
                   req[r].assigned = "pending" /\ (r \in loose => req[r].turn \in ts)
  <2>1. PICK q, q2 : q = req[r] /\ q2 = rq[r]
        OBVIOUS
  <2>2. /\ q.turn \in ts => q2 = StopStep(q)
        /\ q.turn \notin ts /\ r \in loose =>
              q2 = RejectAssignment(Abort(q)) /\ q.turn = NoTurn /\ q.state # "new"
        /\ q.turn \notin ts /\ r \notin loose => q2 = q
        BY <2>1 DEF Stops
  <2>3. q \in RequestRecord /\ RequestOK(q)
        BY <2>1 DEF RequestInv, TablesOK, TypeInv, TypeOK
  <2>4. CASE q.turn \in ts
    <3>1. q2 = StopStep(q)
          BY <2>2, <2>4
    <3>2. /\ RequestOK(q2) /\ ~Unfinished(q2)
          /\ q2.state = "new" <=> q.state = "new"
          /\ q2.state = "materialized" <=> q.state = "materialized"
          BY <2>3, <3>1, StopStepOK
    <3>3. q2 \in RequestRecord /\ q2.turn = q.turn /\ q2.assigned = q.assigned
          BY <2>3, <3>1, StopStepType
    <3> QED BY <2>1, <2>4, <3>2, <3>3
  <2>5. CASE q.turn \notin ts /\ r \in loose
    <3>1. q2 = RejectAssignment(Abort(q)) /\ q.turn = NoTurn /\ q.state # "new"
          BY <2>2, <2>5
    <3>2. /\ RequestOK(q2) /\ q2.assigned # "pending" /\ q2.state # "new" /\ q2.turn = NoTurn
          /\ ~Unfinished(q2)
          /\ q2.state = "materialized" <=> q.state = "materialized"
          BY <2>3, <3>1, RejectOK
    <3>3. Abort(q) \in RequestRecord
          BY <2>3, AbortType
    <3>4. q2 \in RequestRecord
          BY <3>1, <3>3, RejectAssignmentType
    <3> QED BY <2>1, <2>5, <3>1, <3>2, <3>4
  <2>6. CASE q.turn \notin ts /\ r \notin loose
    <3>1. q2 = q
          BY <2>2, <2>6
    <3> QED BY <2>1, <2>3, <2>6, <3>1
  <2> QED BY <2>4, <2>5, <2>6
<1>2. ASSUME NEW u \in TurnIds
      PROVE  /\ tr[u].queue = turn[u].queue
             /\ tr[u].ready = turn[u].ready \/ tr[u].ready # "pending"
             /\ \/ tr[u].state = turn[u].state
                \/ /\ tr[u].state \in EndState => tr[u].ready # "pending"
                   /\ \A r \in Requests : req[r].turn = u => ~Unfinished(rq[r])
  <2>1. CASE u \in ts
        BY <1>1, <2>1 DEF Stops
  <2>2. CASE u \notin ts
        BY <2>2 DEF Stops
  <2> QED BY <2>1, <2>2
<1>3. Moveless(rq, tr)
      BY <1>1, <1>2 DEF Moveless
<1>4. rq \in [Requests -> RequestRecord]
      BY <1>1 DEF Stops
<1> QED BY <1>1, <1>3, <1>4 DEF Stopped

LEMMA CancelledTurns ==
    ASSUME TypeInv, NEW ts, NEW tr, tr = CancelledBeforeStart(turn, ts)
    PROVE  \A u \in TurnIds :
               /\ tr[u].queue = turn[u].queue
               /\ tr[u].ready = turn[u].ready \/ tr[u].ready # "pending"
               /\ u \notin ts => tr[u].state = turn[u].state
               /\ u \in ts => tr[u].ready # "pending"
<1> SUFFICES ASSUME NEW u \in TurnIds
             PROVE  /\ tr[u].queue = turn[u].queue
                    /\ tr[u].ready = turn[u].ready \/ tr[u].ready # "pending"
                    /\ u \notin ts => tr[u].state = turn[u].state
                    /\ u \in ts => tr[u].ready # "pending"
    OBVIOUS
<1>1. turn[u] \in TurnRecord
      BY DEF TypeInv, TypeOK
<1>2. CASE u \in ts
  <2>1. tr[u] = [turn[u] EXCEPT !.state = "cancelled", !.aborted = TRUE, !.ready = "rejected"]
        BY <1>2 DEF CancelledBeforeStart
  <2> QED BY <1>1, <1>2, <2>1 DEF TurnRecord
<1>3. CASE u \notin ts
  <2>1. tr[u] = turn[u]
        BY <1>3 DEF CancelledBeforeStart
  <2> QED BY <1>3, <2>1
<1> QED BY <1>2, <1>3

LEMMA CancelQueuedTurnKeeps ==
    ASSUME TypeInv, RequestInv, NEW t \in TurnIds, CancelQueuedTurn(t)
    PROVE  RequestInv'
<1>1. PICK rq, tr, loose, ts : rq = req' /\ tr = turn' /\ loose = {} /\ ts = {t}
      OBVIOUS
<1>2. /\ rq = [r \in Requests |-> IF req[r].turn = t THEN StopStep(req[r]) ELSE req[r]]
      /\ tr = CancelledBeforeStart(turn, {t})
      /\ UNCHANGED <<active, run, context, standalone, held, releasing>>
      BY <1>1 DEF CancelQueuedTurn
<1>3. rq = [r \in Requests |-> IF req[r].turn \in ts THEN StopStep(req[r])
                               ELSE IF r \in loose THEN RejectAssignment(Abort(req[r]))
                               ELSE req[r]]
      BY <1>1, <1>2
<1>4. \A u \in TurnIds :
           /\ tr[u].queue = turn[u].queue
           /\ tr[u].ready = turn[u].ready \/ tr[u].ready # "pending"
           /\ u \notin ts => tr[u].state = turn[u].state
           /\ u \in ts => tr[u].ready # "pending"
      BY <1>1, <1>2, CancelledTurns
<1>5. \A r \in loose : req[r].turn = NoTurn /\ req[r].state # "new"
      BY <1>1
<1>6. Stopped(rq, tr, ts, loose)
  <2>1. Stops(rq, tr, ts, loose)
        BY <1>3, <1>4, <1>5 DEF Stops
  <2> QED BY <2>1, TurnsStopped
<1>7. WaitOK(rq, standalone, held, releasing)
      BY <1>6, WaitKept DEF RequestInv, Stopped
<1>8. Moveless(rq, tr)
      BY <1>6 DEF Stopped
<1> QED BY <1>1, <1>2, <1>7, <1>8, MovelessStep

LEMMA DisposeKeeps ==
    ASSUME TypeInv, RequestInv, Dispose
    PROVE  RequestInv'
<1>1. PICK rq, tr, loose, ts, tr1 :
          /\ rq = req' /\ tr = turn' /\ loose = Items(standalone) \cup Items(held)
          /\ ts = Items(pendingTurns) /\ tr1 = CancelledBeforeStart(turn, ts)
      OBVIOUS
<1>2. /\ rq = [r \in Requests |-> IF req[r].turn \in ts THEN StopStep(req[r])
                                  ELSE IF r \in loose THEN RejectAssignment(Abort(req[r]))
                                  ELSE req[r]]
      /\ tr = IF active = NoTurn THEN tr1 ELSE [tr1 EXCEPT ![active].aborted = TRUE]
      /\ standalone' = << >> /\ held' = << >> /\ releasing' = << >> /\ releasing = << >>
      /\ UNCHANGED <<active, run, context>>
      BY <1>1 DEF Dispose
<1>3. \A u \in TurnIds :
           /\ tr1[u].queue = turn[u].queue
           /\ tr1[u].ready = turn[u].ready \/ tr1[u].ready # "pending"
           /\ u \notin ts => tr1[u].state = turn[u].state
           /\ u \in ts => tr1[u].ready # "pending"
      BY <1>1, CancelledTurns
<1>4. tr1 \in [TurnIds -> TurnRecord]
      BY <1>1, CancelledBeforeStartType DEF TypeInv, TypeOK
<1>5. \A u \in TurnIds : /\ tr[u].queue = tr1[u].queue /\ tr[u].ready = tr1[u].ready
                         /\ tr[u].state = tr1[u].state
      BY <1>2, <1>4 DEF TurnRecord
<1>6. \A u \in TurnIds :
           /\ tr[u].queue = turn[u].queue
           /\ tr[u].ready = turn[u].ready \/ tr[u].ready # "pending"
           /\ u \notin ts => tr[u].state = turn[u].state
           /\ u \in ts => tr[u].ready # "pending"
      BY <1>3, <1>5
<1>7. WaitOK(req, standalone, held, releasing)
      BY DEF RequestInv
<1>8. \A r \in loose : req[r].turn = NoTurn /\ req[r].state # "new"
      BY <1>1, <1>7 DEF WaitOK
<1>9. Stopped(rq, tr, ts, loose)
  <2>1. Stops(rq, tr, ts, loose)
        BY <1>2, <1>6, <1>8 DEF Stops
  <2> QED BY <2>1, TurnsStopped
<1>10. ASSUME NEW r \in Requests, rq[r].assigned = "pending"
       PROVE  FALSE
  <2>1. req[r].assigned = "pending" /\ r \in loose
        BY <1>1, <1>2, <1>7, <1>9, <1>10, ItemsEmpty DEF WaitOK, Stopped
  <2>2. req[r].turn = NoTurn /\ req[r].turn \in ts
        BY <1>8, <1>9, <1>10, <2>1 DEF Stopped
  <2>3. ts \subseteq TurnIds
        BY <1>1 DEF TypeInv, TypeOK, Items
  <2> QED BY <2>2, <2>3, TurnIdsNat
<1>11. WaitOK(rq, << >>, << >>, << >>)
       BY <1>10, ItemsEmpty DEF WaitOK, Distinct
<1>12. Moveless(rq, tr)
       BY <1>9 DEF Stopped
<1> QED BY <1>1, <1>2, <1>11, <1>12, MovelessStep

LEMMA CancelStepKeeps ==
    ASSUME TypeInv, RequestInv, NEW r \in Requests, CancelStep(r)
    PROVE  RequestInv'
<1>1. PICK rq, q : rq = req' /\ q = StopStep(req[r])
      OBVIOUS
<1>2. /\ rq = [req EXCEPT ![r] = q]
      /\ UNCHANGED <<turn, active, run, context, standalone, held, releasing>>
      BY <1>1 DEF CancelStep
<1>3. req[r] \in RequestRecord /\ RequestOK(req[r])
      BY DEF RequestInv, TablesOK, TypeInv, TypeOK
<1>4. /\ RequestOK(q) /\ ~Unfinished(q)
      /\ q.state = "new" <=> req[r].state = "new"
      /\ q.state = "materialized" <=> req[r].state = "materialized"
      BY <1>1, <1>3, StopStepOK
<1>5. q.turn = req[r].turn /\ q.assigned = req[r].assigned
      BY <1>1, <1>3, StopStepType
<1>6. rq[r] = q /\ \A x \in Requests : x # r => rq[x] = req[x]
      BY <1>2 DEF TypeInv, TypeOK
<1>7. ASSUME NEW x \in Requests
      PROVE  /\ RequestOK(rq[x]) /\ rq[x].turn = req[x].turn /\ rq[x].assigned = req[x].assigned
             /\ rq[x].state = "materialized" <=> req[x].state = "materialized"
             /\ rq[x].state = "new" <=> req[x].state = "new"
             /\ Unfinished(rq[x]) => Unfinished(req[x])
  <2>1. CASE x = r
        BY <1>4, <1>5, <1>6, <2>1
  <2>2. CASE x # r
    <3>1. rq[x] = req[x]
          BY <1>6, <2>2
    <3>2. RequestOK(req[x])
          BY DEF RequestInv, TablesOK
    <3> QED BY <3>1, <3>2
  <2> QED BY <2>1, <2>2
<1>8. Moveless(rq, turn)
      BY <1>7 DEF Moveless
<1>9. WaitOK(rq, standalone, held, releasing)
      BY <1>7, WaitKept DEF RequestInv
<1>10. PICK tr : tr = turn
       OBVIOUS
<1>11. req' = rq /\ turn' = tr /\ Moveless(rq, tr)
       BY <1>1, <1>2, <1>8, <1>10
<1> QED BY <1>2, <1>9, <1>11, MovelessStep

LEMMA AbortRequestKeeps ==
    ASSUME TypeInv, RequestInv, NEW r \in Requests, AbortRequest(r)
    PROVE  RequestInv'
<1>1. PICK rq, q, hl, tr : /\ rq = req' /\ q = RejectAssignment(Abort(req[r])) /\ hl = held'
                           /\ tr = turn
      OBVIOUS
<1>2. /\ rq = [req EXCEPT ![r] = q]
      /\ req[r].assigned = "pending" /\ req[r].state = "pending"
      /\ hl = held \/ hl = Keep(held, Requests \ {r})
      /\ UNCHANGED <<turn, active, run, context, standalone, releasing>>
      BY <1>1 DEF AbortRequest
<1>3. req[r] \in RequestRecord /\ RequestOK(req[r]) /\ req[r].turn = NoTurn
      BY <1>2 DEF RequestInv, TablesOK, TypeInv, TypeOK, RequestOK
<1>4. /\ RequestOK(q) /\ q.assigned # "pending" /\ q.state # "new" /\ q.turn = NoTurn
      /\ ~Unfinished(q)
      /\ q.state = "materialized" <=> req[r].state = "materialized"
      BY <1>1, <1>2, <1>3, RejectOK
<1>5. rq[r] = q /\ \A x \in Requests : x # r => rq[x] = req[x]
      BY <1>2 DEF TypeInv, TypeOK
<1>6. ASSUME NEW x \in Requests
      PROVE  /\ RequestOK(rq[x]) /\ rq[x].turn = req[x].turn
             /\ rq[x].state = "materialized" <=> req[x].state = "materialized"
             /\ rq[x].state = "new" => req[x].state = "new"
             /\ rq[x].assigned = "pending" => req[x].assigned = "pending" /\ x # r
             /\ Unfinished(rq[x]) => Unfinished(req[x])
  <2>1. CASE x = r
        BY <1>3, <1>4, <1>5, <2>1
  <2>2. CASE x # r
    <3>1. rq[x] = req[x]
          BY <1>5, <2>2
    <3>2. RequestOK(req[x])
          BY DEF RequestInv, TablesOK
    <3> QED BY <2>2, <3>1, <3>2
  <2> QED BY <2>1, <2>2
<1>7. Moveless(rq, tr)
      BY <1>1, <1>6 DEF Moveless
<1>8. WaitOK(rq, standalone, held, releasing)
      BY <1>6, WaitKept DEF RequestInv
<1>9. held \in Seq(Requests) /\ Distinct(held)
      BY <1>8 DEF WaitOK, TypeInv, TypeOK
<1>10. /\ Distinct(hl) /\ Items(hl) \subseteq Items(held)
       /\ \A x \in Items(held) : x \in Items(hl) \/ x = r
  <2>1. CASE hl = held
        BY <1>9, <2>1
  <2>2. CASE hl = Keep(held, Requests \ {r})
    <3>1. Distinct(hl) /\ Items(hl) = Items(held) \cap (Requests \ {r})
          BY <1>9, <2>2, DistinctKeep, KeepItems
    <3>2. Items(held) \subseteq Requests
          BY <1>9 DEF Items
    <3> QED BY <3>1, <3>2
  <2> QED BY <1>2, <2>1, <2>2
<1>11. WaitOK(rq, standalone, hl, releasing)
  <2>1. \A x \in Requests : rq[x].assigned = "pending" => x # r
        BY <1>6
  <2> QED BY <1>8, <1>10, <2>1 DEF WaitOK
<1> QED BY <1>1, <1>2, <1>7, <1>11, MovelessStep

--------------------------------------------------------------------------------
(* The steps of the run loop.                                              *)

LEMMA LoopStepKeeps ==
    ASSUME TypeInv, RequestInv, NEW rq, SameWaits(req, rq), StepDone(rq, active),
           RunLoopUnchanged
    PROVE  RequestInv'
<1>1. UNCHANGED <<active, standalone, held, releasing>>
      BY DEF RunLoopUnchanged
<1>2. \A r \in Requests : /\ req'[r].turn = req[r].turn
                          /\ req'[r].assigned = req[r].assigned
                          /\ req'[r].state = "new" <=> req[r].state = "new"
      BY DEF StepDone, SameWaits
<1>3. WaitOK(req, standalone, held, releasing)
      BY DEF RequestInv
<1>4. PICK rq2 : rq2 = req'
      OBVIOUS
<1>5. WaitOK(rq2, standalone, held, releasing)
      BY <1>2, <1>3, <1>4, WaitKept
<1> QED BY <1>1, <1>4, <1>5 DEF StepDone, RequestInv

LEMMA ActiveTables ==
    ASSUME TypeInv, QueueInv, RequestInv, active # NoTurn
    PROVE  /\ req \in [Requests -> RequestRecord] /\ turn \in [TurnIds -> TurnRecord]
           /\ active \in TurnIds /\ turn[active].state = "running" /\ context \in Seq(Requests)
           /\ TablesOK(req, turn) /\ ContextOK(req, context) /\ DriverOK(req, turn, run, active)
           /\ SameWaits(req, req)
BY DEF TypeInv, TypeOK, QueueInv, RequestInv, SameWaits

\* The requests as completeLoopStep leaves them.
LEMMA StepCompletedKeeps ==
    ASSUME TypeInv, QueueInv, RequestInv, InPhase("after"),
           NEW rq, rq = [req EXCEPT ![run.driver].step = "completed",
                                    ![run.driver].result = IF @ = "pending" THEN "completed" ELSE @]
    PROVE  /\ rq \in [Requests -> RequestRecord] /\ SameWaits(req, rq)
           /\ TablesOK(rq, turn) /\ ContextOK(rq, context)
<1>1. PICK d, q, v : /\ d = run.driver /\ q = req[d]
                     /\ v = (IF q.result = "pending" THEN "completed" ELSE q.result)
      OBVIOUS
<1>2. d \in Requests /\ q.turn = active /\ q.state = "materialized" /\ active # NoTurn
      BY <1>1 DEF InPhase, RequestInv, DriverOK
<1>3. q \in RequestRecord /\ RequestOK(q)
      BY <1>1, <1>2 DEF RequestInv, TablesOK, TypeInv, TypeOK
<1>4. rq = [req EXCEPT ![d] = [q EXCEPT !.step = "completed", !.result = v]]
  <2>1. req \in [Requests -> RequestRecord]
        BY DEF TypeInv, TypeOK
  <2>2. rq = [req EXCEPT ![d].step = "completed",
                         ![d].result = IF @ = "pending" THEN "completed" ELSE @]
        BY <1>1
  <2> QED BY <1>1, <1>2, <2>1, <2>2 DEF RequestRecord
<1>5. PICK q2 : q2 = [q EXCEPT !.step = "completed", !.result = v]
      OBVIOUS
<1>6. /\ q2 \in RequestRecord /\ q2.step = "completed" /\ q2.result = v
      /\ q2.turn = q.turn /\ q2.assigned = q.assigned /\ q2.state = q.state
      BY <1>1, <1>3, <1>5 DEF RequestRecord, StepState, StepResult
<1>7. RequestOK(q2) /\ ~Unfinished(q2)
      BY <1>1, <1>2, <1>3, <1>6 DEF RequestOK, Unfinished
<1>8. rq[d] = q2 /\ \A x \in Requests : x # d => rq[x] = req[x]
      BY <1>2, <1>4, <1>5 DEF TypeInv, TypeOK
<1>9. ASSUME NEW x \in Requests
      PROVE  /\ RequestOK(rq[x]) /\ rq[x].turn = req[x].turn /\ rq[x].assigned = req[x].assigned
             /\ rq[x].state = req[x].state /\ rq[x] \in RequestRecord
             /\ Unfinished(rq[x]) => Unfinished(req[x])
  <2>1. CASE x = d
        BY <1>1, <1>6, <1>7, <1>8, <2>1
  <2>2. CASE x # d
    <3>1. rq[x] = req[x]
          BY <1>8, <2>2
    <3>2. RequestOK(req[x]) /\ req[x] \in RequestRecord
          BY DEF RequestInv, TablesOK, TypeInv, TypeOK
    <3> QED BY <3>1, <3>2
  <2> QED BY <2>1, <2>2
<1>10. rq \in [Requests -> RequestRecord]
       BY <1>4, <1>9 DEF TypeInv, TypeOK
<1>11. Moveless(rq, turn)
       BY <1>9 DEF Moveless
<1>12. SameWaits(req, rq)
       BY <1>9 DEF SameWaits
<1> QED BY <1>10, <1>11, <1>12, MovelessKeeps

\* The failed driver at the head of its queue again.
LEMMA DriverRequeued ==
    ASSUME TypeInv, QueueInv, RequestInv, InPhase("recover"),
           NEW rq, rq = [req EXCEPT ![run.driver].step = "queued"],
           NEW tr, tr = [turn EXCEPT ![active].queue = <<run.driver>> \o @]
    PROVE  /\ rq \in [Requests -> RequestRecord] /\ SameWaits(req, rq)
           /\ tr \in [TurnIds -> TurnRecord] /\ tr[active].state = turn[active].state
           /\ TablesOK(rq, tr) /\ ContextOK(rq, context)
<1>1. PICK t, d, q : t = active /\ d = run.driver /\ q = turn[t].queue
      OBVIOUS
<1>2. /\ d \in Requests /\ t \in TurnIds /\ t # NoTurn /\ req[d].turn = t
      /\ req[d].state = "materialized" /\ d \notin Items(q) /\ turn[t].state = "running"
      BY <1>1, ActiveTables DEF InPhase, DriverOK
<1>3. /\ req \in [Requests -> RequestRecord] /\ turn \in [TurnIds -> TurnRecord]
      /\ TablesOK(req, turn) /\ ContextOK(req, context)
      BY DEF TypeInv, TypeOK, RequestInv
<1>4. /\ q \in Seq(Requests) /\ Distinct(q) /\ Items(q) \subseteq Requests
      /\ \A x \in Items(q) : req[x].turn = t
  <2>1. q \in Seq(Requests)
        BY <1>1, <1>2, <1>3 DEF TurnRecord
  <2> QED BY <1>1, <1>2, <1>3, <2>1 DEF TablesOK, Items
<1>5. PICK q2 : q2 = <<d>> \o q
      OBVIOUS
<1>6. q2 \in Seq(Requests) /\ Items(q2) = {d} \cup Items(q) /\ Distinct(q2)
      BY <1>2, <1>4, <1>5, DistinctCons
<1>7. tr = [turn EXCEPT ![t].queue = q2]
      BY <1>1, <1>5
<1>8. /\ tr \in [TurnIds -> TurnRecord] /\ tr[t].queue = q2
      /\ tr[t].state = turn[t].state /\ tr[t].ready = turn[t].ready
      /\ \A u \in TurnIds : u # t => tr[u] = turn[u]
  <2>1. PICK j : j = [turn[t] EXCEPT !.queue = q2]
        OBVIOUS
  <2>2. turn[t] \in TurnRecord
        BY <1>2, <1>3
  <2>3. j \in TurnRecord /\ j.queue = q2 /\ j.state = turn[t].state /\ j.ready = turn[t].ready
        BY <1>6, <2>1, <2>2 DEF TurnRecord
  <2>4. tr[t] = j /\ \A u \in TurnIds : u # t => tr[u] = turn[u]
        BY <1>2, <1>3, <1>7, <2>1
  <2>5. DOMAIN tr = TurnIds /\ tr = [u \in TurnIds |-> tr[u]]
        BY <1>3, <1>7
  <2>6. \A u \in TurnIds : tr[u] \in TurnRecord
        BY <1>3, <2>3, <2>4
  <2> QED BY <2>3, <2>4, <2>5, <2>6
<1>9. PICK a : a = [req[d] EXCEPT !.step = "queued"]
      OBVIOUS
<1>10. /\ a \in RequestRecord /\ a.step = "queued" /\ a.turn = req[d].turn
       /\ a.assigned = req[d].assigned /\ a.state = req[d].state /\ a.result = req[d].result
       BY <1>2, <1>3, <1>9 DEF RequestRecord, StepState
<1>11. rq[d] = a /\ \A x \in Requests : x # d => rq[x] = req[x]
       BY <1>1, <1>2, <1>3, <1>9
<1>12. RequestOK(a)
  <2>1. RequestOK(req[d])
        BY <1>2, <1>3 DEF TablesOK
  <2> QED BY <1>2, <1>10, <2>1 DEF RequestOK, Unfinished
<1>13. ASSUME NEW x \in Requests
       PROVE  /\ RequestOK(rq[x]) /\ rq[x].turn = req[x].turn /\ rq[x].assigned = req[x].assigned
              /\ rq[x].state = req[x].state /\ rq[x] \in RequestRecord
              /\ Unfinished(rq[x]) =>
                    Unfinished(req[x]) \/ tr[req[x].turn].state \in {"queued", "running"}
  <2>1. CASE x = d
        BY <1>2, <1>8, <1>10, <1>11, <1>12, <2>1
  <2>2. CASE x # d
    <3>1. rq[x] = req[x]
          BY <1>11, <2>2
    <3>2. RequestOK(req[x]) /\ req[x] \in RequestRecord
          BY <1>3 DEF TablesOK
    <3> QED BY <3>1, <3>2
  <2> QED BY <2>1, <2>2
<1>14. rq \in [Requests -> RequestRecord]
       BY <1>3, <1>13
<1>15. ASSUME NEW u \in TurnIds
       PROVE  /\ tr[u].state = turn[u].state
              /\ tr[u].ready = turn[u].ready \/ tr[u].ready # "pending"
              /\ Distinct(tr[u].queue)
              /\ \A x \in Items(tr[u].queue) : x \in Requests /\ req[x].turn = u
  <2>1. CASE u = t
        BY <1>2, <1>4, <1>6, <1>8, <2>1
  <2>2. CASE u # t
    <3>1. tr[u] = turn[u]
          BY <1>8, <2>2
    <3>2. turn[u].queue \in Seq(Requests)
          BY <1>3 DEF TurnRecord
    <3>3. Items(turn[u].queue) \subseteq Requests
          BY <3>2 DEF Items
    <3> QED BY <1>3, <3>1, <3>3 DEF TablesOK
  <2> QED BY <2>1, <2>2
<1>16. TablesOK(rq, tr)
  <2>1. \A x \in Requests :
            /\ RequestOK(rq[x]) /\ rq[x].turn = req[x].turn
            /\ Unfinished(rq[x]) =>
                  Unfinished(req[x]) \/ tr[req[x].turn].state \in {"queued", "running"}
        BY <1>13
  <2>2. \A u \in TurnIds :
            /\ tr[u].state = turn[u].state
            /\ tr[u].ready = turn[u].ready \/ tr[u].ready # "pending"
            /\ Distinct(tr[u].queue)
            /\ \A r \in Items(tr[u].queue) : r \in Requests /\ req[r].turn = u
        BY <1>15
  <2>3. PICK rq0, tr0 : rq0 = req /\ tr0 = turn
        OBVIOUS
  <2>4. rq0 \in [Requests -> RequestRecord] /\ TablesOK(rq0, tr0)
        BY <1>3, <2>3
  <2>5. /\ \A x \in Requests :
             /\ RequestOK(rq[x]) /\ rq[x].turn = rq0[x].turn
             /\ Unfinished(rq[x]) =>
                   Unfinished(rq0[x]) \/ tr[rq0[x].turn].state \in {"queued", "running"}
        BY <2>1, <2>3
  <2>6. \A u \in TurnIds :
            /\ tr[u].state = tr0[u].state
            /\ tr[u].ready = tr0[u].ready \/ tr[u].ready # "pending"
            /\ Distinct(tr[u].queue)
            /\ \A r \in Items(tr[u].queue) : r \in Requests /\ rq0[r].turn = u
        BY <2>2, <2>3
  <2> QED BY ONLY <2>4, <2>5, <2>6, TablesKept
<1>17. ContextOK(rq, context)
       BY <1>3, <1>13 DEF ContextOK
<1>18. SameWaits(req, rq)
       BY <1>13 DEF SameWaits
<1> QED BY <1>1, <1>8, <1>14, <1>16, <1>17, <1>18

LEMMA RunContinuesKeeps ==
    ASSUME TypeInv, QueueInv, RequestInv, RunContinues
    PROVE  RequestInv'
<1>1. CASE \E rq, result : /\ active # NoTurn /\ rq \in [Requests -> RequestRecord]
                           /\ SameWaits(req, rq) /\ TablesOK(rq, turn) /\ ContextOK(rq, context)
                           /\ RunReturns(rq, turn, active, run.steps, result)
                           /\ RunLoopUnchanged
  <2>1. PICK rq, result : /\ active # NoTurn /\ rq \in [Requests -> RequestRecord]
                          /\ SameWaits(req, rq) /\ TablesOK(rq, turn) /\ ContextOK(rq, context)
                          /\ RunReturns(rq, turn, active, run.steps, result)
                          /\ RunLoopUnchanged
        BY <1>1
  <2>2. StepDone(rq, active)
        BY <2>1, ActiveTables, RunReturnsKeeps
  <2> QED BY <2>1, <2>2, LoopStepKeeps
<1>2. CASE \E rq, tr : /\ active # NoTurn /\ rq \in [Requests -> RequestRecord]
                       /\ tr \in [TurnIds -> TurnRecord] /\ tr[active].state = "running"
                       /\ SameWaits(req, rq) /\ TablesOK(rq, tr) /\ ContextOK(rq, context)
                       /\ BeginLoopStep(rq, tr, active, run.steps)
                       /\ RunLoopUnchanged
  <2>1. PICK rq, tr : /\ active # NoTurn /\ rq \in [Requests -> RequestRecord]
                      /\ tr \in [TurnIds -> TurnRecord] /\ tr[active].state = "running"
                      /\ SameWaits(req, rq) /\ TablesOK(rq, tr) /\ ContextOK(rq, context)
                      /\ BeginLoopStep(rq, tr, active, run.steps)
                      /\ RunLoopUnchanged
        BY <1>2
  <2>2. StepDone(rq, active)
        BY <2>1, ActiveTables, BeginLoopStepKeeps
  <2> QED BY <2>1, <2>2, LoopStepKeeps
<1>3. CASE FinishStep \/ StepFailsRecoverably
      BY <1>3, SignalsKeep
<1>4. CASE StepInterrupted \/ StepAborts \/ StepFails \/ HandlerDeclines
  <2>1. active # NoTurn /\ RunLoopUnchanged
        BY <1>4 DEF StepInterrupted, StepAborts, StepFails, HandlerDeclines, InPhase
  <2>2. \/ \E result : RunReturns(req, turn, active, run.steps, result)
        \/ BeginLoopStep(req, turn, active, run.steps)
        BY <1>4 DEF StepInterrupted, HandleLoopCancellation, StepAborts, StepFails, HandlerDeclines
  <2>3. CASE \E result : RunReturns(req, turn, active, run.steps, result)
        BY <1>1, <2>1, <2>3, ActiveTables
  <2>4. CASE BeginLoopStep(req, turn, active, run.steps)
        BY <1>2, <2>1, <2>4, ActiveTables
  <2> QED BY <2>2, <2>3, <2>4
<1>5. CASE HandlerRetries
  <2>1. PICK rq, tr : /\ rq = [req EXCEPT ![run.driver].step = "queued"]
                      /\ tr = [turn EXCEPT ![active].queue = <<run.driver>> \o @]
        OBVIOUS
  <2>2. /\ InPhase("recover") /\ RunLoopUnchanged /\ active # NoTurn
        /\ BeginLoopStep(rq, tr, active, run.steps)
        BY <1>5, <2>1 DEF HandlerRetries, InPhase
  <2>3. /\ rq \in [Requests -> RequestRecord] /\ SameWaits(req, rq)
        /\ tr \in [TurnIds -> TurnRecord] /\ tr[active].state = turn[active].state
        /\ TablesOK(rq, tr) /\ ContextOK(rq, context)
        BY <2>1, <2>2, DriverRequeued
  <2>4. tr[active].state = "running"
        BY <2>2, <2>3, ActiveTables
  <2> QED BY <1>2, <2>2, <2>3, <2>4
<1>6. CASE CompleteLoopStep
  <2>1. PICK rq : rq = [req EXCEPT ![run.driver].step = "completed",
                                   ![run.driver].result = IF @ = "pending" THEN "completed" ELSE @]
        OBVIOUS
  <2>2. /\ InPhase("after") /\ RunLoopUnchanged /\ active # NoTurn
        /\ \/ \E result : RunReturns(rq, turn, active, run.steps, result)
           \/ BeginLoopStep(rq, turn, active, run.steps)
        BY <1>6, <2>1 DEF CompleteLoopStep, InPhase
  <2>3. /\ rq \in [Requests -> RequestRecord] /\ SameWaits(req, rq)
        /\ TablesOK(rq, turn) /\ ContextOK(rq, context)
        BY <2>1, <2>2, StepCompletedKeeps
  <2>4. turn \in [TurnIds -> TurnRecord] /\ turn[active].state = "running"
        BY <2>2, ActiveTables
  <2>5. CASE \E result : RunReturns(rq, turn, active, run.steps, result)
        BY <1>1, <2>2, <2>3, <2>5
  <2>6. CASE BeginLoopStep(rq, turn, active, run.steps)
        BY <1>2, <2>2, <2>3, <2>4, <2>6
  <2> QED BY <2>2, <2>5, <2>6
<1> QED BY <1>3, <1>4, <1>5, <1>6 DEF RunContinues

LEMMA FinishTurnKeeps ==
    ASSUME TypeInv, QueueInv, RequestInv, FinishTurn
    PROVE  RequestInv'
<1>1. PICK t, ts, loose, rq, tr, v :
          /\ t = active /\ ts = {t} /\ loose = {}
          /\ v = (IF turn[t].ready = "pending" THEN "rejected" ELSE turn[t].ready)
          /\ rq = [r \in Requests |-> IF req[r].turn = active THEN StopStep(req[r]) ELSE req[r]]
          /\ tr = [turn EXCEPT ![active].state = run.result, ![active].ready = v]
      OBVIOUS
<1>2. /\ t # NoTurn /\ run.phase = "returned"
      /\ \/ /\ req' = rq /\ turn' = tr /\ active' = NoTurn /\ run' = Idle /\ context' = context
         \/ PumpTurns(rq, tr, pendingTurns, NoTurn, quiescence)
      /\ UNCHANGED <<standalone, held, releasing>>
      BY <1>1 DEF FinishTurn, InPhase
<1>3. t \in TurnIds /\ turn[t] \in TurnRecord /\ turn \in [TurnIds -> TurnRecord]
      BY <1>1, <1>2 DEF TypeInv, TypeOK
<1>4. run.result \in EndState
      BY <1>2 DEF TypeInv, RunShape
<1>5. v \in PromiseState /\ v # "pending"
      BY <1>1, <1>3 DEF TurnRecord, PromiseState
<1>6. /\ tr \in [TurnIds -> TurnRecord] /\ tr[t].queue = turn[t].queue /\ tr[t].ready = v
      /\ \A u \in TurnIds : u # t => tr[u] = turn[u]
      BY <1>1, <1>3, <1>4, <1>5 DEF TurnRecord, TurnState, EndState
<1>7. Stops(rq, tr, ts, loose)
  <2>1. \A u \in TurnIds :
            /\ tr[u].queue = turn[u].queue
            /\ tr[u].ready = turn[u].ready \/ tr[u].ready # "pending"
            /\ u \notin ts => tr[u].state = turn[u].state
            /\ u \in ts => tr[u].ready # "pending"
        BY <1>1, <1>5, <1>6
  <2>2. rq = [r \in Requests |-> IF req[r].turn \in ts THEN StopStep(req[r])
                                 ELSE IF r \in loose THEN RejectAssignment(Abort(req[r]))
                                 ELSE req[r]]
        BY <1>1
  <2> QED BY <1>1, <2>1, <2>2 DEF Stops
<1>8. Stopped(rq, tr, ts, loose)
      BY <1>7, TurnsStopped
<1>9. TablesOK(rq, tr) /\ ContextOK(rq, context) /\ rq \in [Requests -> RequestRecord]
      BY <1>8, MovelessKeeps DEF Stopped
<1>10. WaitOK(rq, standalone, held, releasing)
       BY <1>8, WaitKept DEF Stopped, RequestInv
<1>11. CASE /\ req' = rq /\ turn' = tr /\ active' = NoTurn /\ run' = Idle /\ context' = context
  <2>1. DriverOK(rq, tr, run', active')
        BY <1>11 DEF DriverOK, Idle
  <2> QED BY <1>2, <1>9, <1>10, <1>11, <2>1 DEF RequestInv
<1>12. CASE PumpTurns(rq, tr, pendingTurns, NoTurn, quiescence)
  <2>1. pendingTurns \in Seq(TurnIds)
        BY DEF TypeInv, TypeOK
  <2>2. PICK act : act = NoTurn
        OBVIOUS
  <2>3. StepDone(rq, active')
        BY <1>6, <1>9, <1>12, <2>1, <2>2, PumpTurnsKeeps
  <2>4. \A r \in Requests : /\ req'[r].turn = rq[r].turn /\ req'[r].assigned = rq[r].assigned
                            /\ req'[r].state = "new" <=> rq[r].state = "new"
        BY <2>3 DEF StepDone, SameWaits
  <2>5. Items(standalone) \cup Items(held) \cup Items(releasing) \subseteq Requests
        BY DEF TypeInv, TypeOK, Items
  <2>6. WaitOK(req', standalone, held, releasing)
        BY <1>10, <2>4, <2>5 DEF WaitOK
  <2> QED BY <1>2, <2>3, <2>6 DEF StepDone, RequestInv
<1> QED BY <1>2, <1>11, <1>12

--------------------------------------------------------------------------------
(* The requests: the theorems.                                             *)

LEMMA NextKeepsRequests ==
    ASSUME TypeInv, QueueInv, LeaseInv, RequestInv, [Next]_vars
    PROVE  RequestInv'
<1>1. CASE \E r \in Requests : \/ EnqueueNow(r) \/ EnqueueThrows(r) \/ EnqueueHeld(r)
                              \/ CancelStep(r) \/ AbortRequest(r)
      BY <1>1, EnqueueNowKeeps, EnqueueThrowsKeeps, EnqueueHeldKeeps, CancelStepKeeps,
         AbortRequestKeeps
<1>2. CASE ReleaseQuiescence \/ AdmitReleased
      BY <1>2, ReleaseQuiescenceKeeps, AdmitReleasedKeeps
<1>3. CASE CancelActiveTurn \/ ResponseStarts
      BY <1>3, SignalsKeep
<1>4. CASE (\E t \in TurnIds : CancelQueuedTurn(t)) \/ Dispose
      BY <1>4, CancelQueuedTurnKeeps, DisposeKeeps
<1>5. CASE AcquireQuiescence \/ (\E w \in Waiters : Settled(w)) \/ UNCHANGED vars
  <2>1. UNCHANGED <<req, turn, active, run, context, standalone, held, releasing>>
        BY <1>5 DEF AcquireQuiescence, Settled, vars
  <2> QED BY <2>1 DEF RequestInv
<1>6. CASE RunContinues
      BY <1>6, RunContinuesKeeps
<1>7. CASE FinishTurn
      BY <1>7, FinishTurnKeeps
<1> QED BY <1>1, <1>2, <1>3, <1>4, <1>5, <1>6, <1>7 DEF Next, RunLoop, RunContinues

LEMMA InitRequests == Init => RequestInv
<1> SUFFICES ASSUME Init PROVE RequestInv
    OBVIOUS
<1>1. \A r \in Requests : /\ req[r].state = "new" /\ req[r].assigned = "none"
                          /\ req[r].turn = NoTurn /\ req[r].step = "none"
                          /\ req[r].result = "none"
      BY DEF Init
<1>2. \A t \in TurnIds : turn[t].queue = << >> /\ turn[t].state = "none"
      BY DEF Init
<1>3. /\ standalone = << >> /\ held = << >> /\ releasing = << >> /\ context = << >>
      /\ run.phase = "none"
      BY DEF Init, Idle
<1>4. Distinct(<< >>) /\ Items(<< >>) = {}
      BY ItemsEmpty DEF Distinct
<1>5. TablesOK(req, turn)
      BY <1>1, <1>2, <1>4 DEF TablesOK, RequestOK, Unfinished, EndState
<1>6. DriverOK(req, turn, run, active)
      BY <1>3 DEF DriverOK
<1>7. ContextOK(req, context)
      BY <1>1, <1>3, <1>4 DEF ContextOK
<1>8. WaitOK(req, standalone, held, releasing)
      BY <1>1, <1>3, <1>4 DEF WaitOK
<1> QED BY <1>5, <1>6, <1>7, <1>8 DEF RequestInv

LEMMA RequestsInvariant == SafetySpec => [](TypeInv /\ RequestInv)
<1>1. Init => TypeInv /\ RequestInv
      BY InitType, InitRequests
<1>2. TypeInv /\ RequestInv /\ TurnInv /\ [Next]_vars => TypeInv' /\ RequestInv'
      BY NextType, NextKeepsRequests DEF TurnInv
<1> QED BY <1>1, <1>2, TurnsInvariant, PTL DEF SafetySpec

\* No promise outlives its turn: whatever is cancelled, retried, merged or carried
\* over, a step whose result somebody awaits belongs to a turn that still runs or
\* will run, and the end of a turn settles all that was promised under it.
THEOREM NoStepIsOrphaned == SafetySpec => []NoOrphanedStep
<1>1. TypeInv /\ RequestInv => NoOrphanedStep
  <2> SUFFICES ASSUME TypeInv, RequestInv PROVE NoOrphanedStep
      OBVIOUS
  <2>1. TablesOK(req, turn)
        BY DEF RequestInv
  <2>2. ASSUME NEW r \in Requests, req[r].result = "pending" \/ req[r].step \in {"queued", "running"}
        PROVE  req[r].turn # NoTurn /\ turn[req[r].turn].state \in {"queued", "running"}
        BY <2>1, <2>2 DEF TablesOK, RequestOK, Unfinished
  <2>3. ASSUME NEW t \in TurnIds, Ended(t)
        PROVE  turn[t].ready # "pending"
        BY <2>1, <2>3 DEF TablesOK, Ended
  <2>4. ASSUME NEW t \in TurnIds, Ended(t), NEW r \in Requests, req[r].turn = t
        PROVE  req[r].state # "pending"
    <3> SUFFICES ASSUME req[r].state = "pending" PROVE FALSE
        OBVIOUS
    <3>1. Unfinished(req[r])
          BY <2>1, <2>4, TurnIdsNat DEF TablesOK, RequestOK
    <3>2. turn[t].state \in {"queued", "running"}
          BY <2>1, <2>4, <3>1 DEF TablesOK
    <3> QED BY <2>4, <3>2 DEF Ended, EndState
  <2> QED BY <2>2, <2>3, <2>4 DEF NoOrphanedStep
<1> QED BY <1>1, RequestsInvariant, PTL

\* A message enters the context once, however often its step is retried, never
\* after its request was aborted, and always when its step's result says completed.
THEOREM MessagesAreMaterializedOnce == SafetySpec => []MaterializedOnce
<1>1. RequestInv => MaterializedOnce
      BY DEF RequestInv, ContextOK, TablesOK, RequestOK, Distinct, MaterializedOnce
<1> QED BY <1>1, RequestsInvariant, PTL

\* While the promise of an admission is pending, its request is in one of the
\* places a later admission, an abort or dispose takes it from.
THEOREM NoAssignmentIsOrphaned == SafetySpec => []NoOrphanedAssignment
<1>1. RequestInv => NoOrphanedAssignment
      BY DEF RequestInv, WaitOK, NoOrphanedAssignment
<1> QED BY <1>1, RequestsInvariant, PTL

--------------------------------------------------------------------------------
(* What a step may not do: wake the waiters of settled() too early, and take a *)
(* step in a turn that is cancelled.                                           *)

LEMMA PumpSettles ==
    ASSUME NEW rq, NEW tr, NEW pending, NEW act, NEW depth,
           PumpTurns(rq, tr, pending, act, depth), waiters' # waiters
    PROVE  /\ pending = << >> /\ held = << >>
           /\ active' = NoTurn /\ pendingTurns' = << >>
BY DEF PumpTurns, MaybeSettle

LEMMA AdmitNewTurnSettlesNothing ==
    ASSUME TypeInv, NEW rq, NEW r, AdmitNewTurn(rq, r)
    PROVE  waiters' = waiters
<1>1. PICK rq1, tr1, pending :
         /\ nextTurnId < MaxTurns
         /\ pending = Append(pendingTurns, nextTurnId)
         /\ PumpTurns(rq1, tr1, pending, active, 0)
      BY DEF AdmitNewTurn, CreateAndQueueTurn
<1>2. pendingTurns \in Seq(TurnIds)
      BY DEF TypeInv, TypeOK
<1>3. nextTurnId \in TurnIds
      BY <1>1, BoundsAssumption DEF TypeInv, TypeOK, TurnIds
<1>4. Len(pending) = Len(pendingTurns) + 1
      BY <1>1, <1>2, <1>3
<1>5. pending # << >>
      BY <1>2, <1>4
<1>6. PumpTurns(rq1, tr1, pending, active, 0)
      BY <1>1
<1>7. waiters' # waiters => pending = << >>
      BY <1>6, PumpSettles
<1> QED BY <1>5, <1>7

\* settled() resolves only on a loop that has neither a turn, running or queued,
\* nor an admission that waits for the end of a lease.
THEOREM SettlingMeansIdle == SafetySpec => SettledMeansIdle
<1> DEFINE Settles == waiters' = {} /\ waiters # {} =>
                \/ active' = NoTurn /\ pendingTurns' = << >> /\ held' = << >>
                \/ active = NoTurn /\ pendingTurns = << >> /\ held = << >>
<1>1. ASSUME TurnInv, [Next]_vars PROVE [Settles]_vars
  <2> SUFFICES ASSUME waiters' = {}, waiters # {}
               PROVE  active' = NoTurn /\ pendingTurns' = << >> /\ held' = << >>
      OBVIOUS
  <2>1. TypeInv /\ LeaseInv
        BY <1>1 DEF TurnInv
  <2>2. ASSUME NEW r \in Requests, EnqueueNow(r) PROVE FALSE
        BY <2>1, <2>2, AdmitNewTurnSettlesNothing DEF EnqueueNow
  <2>3. CASE AdmitReleased
    <3>1. PICK r : r = Head(releasing)
          OBVIOUS
    <3>2. /\ releasing # << >> /\ held' = held
          /\ \/ AdmitNewTurn(req, r)
             \/ waiters' = IF Tail(releasing) = << >> /\ active' = NoTurn /\ pendingTurns' = << >>
                           THEN {} ELSE waiters
          BY <2>3, <3>1 DEF AdmitReleased
    <3>3. active' = NoTurn /\ pendingTurns' = << >>
          BY <2>1, <3>2, AdmitNewTurnSettlesNothing
    <3>4. held = << >>
          BY <2>1, <3>2 DEF LeaseInv, TypeInv, TypeOK
    <3> QED BY <3>2, <3>3, <3>4
  <2>4. CASE ReleaseQuiescence
    <3>1. PumpTurns(req, turn, pendingTurns, active, 0) /\ held' = << >>
          BY <2>4 DEF ReleaseQuiescence
    <3> QED BY <3>1, PumpSettles
  <2>5. ASSUME NEW t \in TurnIds, CancelQueuedTurn(t)
        PROVE  active' = NoTurn /\ pendingTurns' = << >> /\ held' = << >>
        BY <2>5 DEF CancelQueuedTurn, MaybeSettle
  <2>6. ASSUME NEW r \in Requests, AbortRequest(r)
        PROVE  active' = NoTurn /\ pendingTurns' = << >> /\ held' = << >>
        BY <2>6 DEF AbortRequest, MaybeSettle
  <2>7. CASE Dispose
        BY <2>7 DEF Dispose, MaybeSettle
  <2>8. CASE FinishTurn
    <3>1. \/ /\ active' = NoTurn /\ pendingTurns' = pendingTurns
             /\ MaybeSettle(NoTurn, pendingTurns, held)
          \/ /\ pendingTurns # << >>
             /\ \E rq, tr : PumpTurns(rq, tr, pendingTurns, NoTurn, quiescence)
          BY <2>8 DEF FinishTurn
    <3>2. held' = held
          BY <2>8 DEF FinishTurn
    <3>3. ~(pendingTurns # << >> /\ \E rq, tr : PumpTurns(rq, tr, pendingTurns, NoTurn, quiescence))
          BY PumpSettles
    <3> QED BY <3>1, <3>2, <3>3 DEF MaybeSettle
  <2>9. ASSUME NEW w \in Waiters, Settled(w) PROVE FALSE
        BY <2>9 DEF Settled
  <2>10. ASSUME \/ RunContinues \/ AcquireQuiescence \/ CancelActiveTurn \/ ResponseStarts
                \/ (\E r \in Requests : EnqueueThrows(r) \/ EnqueueHeld(r) \/ CancelStep(r))
                \/ UNCHANGED vars
         PROVE  FALSE
    <3>1. CASE RunContinues
      <4>1. RunLoopUnchanged
            BY <2>1, <3>1, RunContinuesSuspended
      <4> QED BY <4>1 DEF RunLoopUnchanged
    <3> QED BY <2>10, <3>1
            DEF AcquireQuiescence, CancelActiveTurn, ResponseStarts, RunLoopUnchanged,
                EnqueueThrows, EnqueueHeld, CancelStep, vars
  <2> QED BY <1>1, <2>2, <2>3, <2>4, <2>5, <2>6, <2>7, <2>8, <2>9, <2>10
          DEF Next, RunLoop, RunContinues
<1> QED BY <1>1, TurnsInvariant, PTL DEF SafetySpec, SettledMeansIdle

LEMMA ReturnsTakeNoStep ==
    ASSUME NEW rq, NEW tr, NEW t, NEW n, NEW result, RunReturns(rq, tr, t, n, result)
    PROVE  run'.steps = n
BY DEF RunReturns

LEMMA AbortedTurnTakesNoStep ==
    ASSUME NEW rq, NEW tr, NEW t, NEW n, tr[t].aborted, BeginLoopStep(rq, tr, t, n)
    PROVE  run'.steps = n
BY ReturnsTakeNoStep DEF BeginLoopStep

LEMMA PumpTakesNoStep ==
    ASSUME TypeInv, NEW rq, NEW tr, NEW pending, NEW depth, active # NoTurn,
           PumpTurns(rq, tr, pending, active, depth)
    PROVE  run' = run
BY DEF PumpTurns

LEMMA AdmitTakesNoStep ==
    ASSUME TypeInv, NEW rq, NEW r, active # NoTurn,
           AdmitNewTurn(rq, r) \/ AdmitStandalone(rq, r) \/ AdmitActive(rq, r)
    PROVE  run' = run
<1>1. CASE AdmitNewTurn(rq, r)
  <2>1. PICK rq1, tr1, pending : PumpTurns(rq1, tr1, pending, active, 0)
        BY <1>1 DEF AdmitNewTurn, CreateAndQueueTurn
  <2> QED BY <2>1, PumpTakesNoStep
<1> QED BY <1>1 DEF AdmitStandalone, AdmitActive

\* The run loop of a turn whose cancellation was accepted before it returned begins
\* no further step: beginLoopStep looks at the signal first.
THEOREM CancelledTurnTakesNoStep == SafetySpec => NoStepAfterCancel
<1> DEFINE Stays == active # NoTurn /\ active' = active /\ turn[active].aborted =>
                        run'.steps = run.steps
<1>1. ASSUME TurnInv, [Next]_vars PROVE [Stays]_vars
  <2> SUFFICES ASSUME active # NoTurn, active' = active, turn[active].aborted
               PROVE  run'.steps = run.steps
      OBVIOUS
  <2>1. TypeInv /\ QueueInv /\ LeaseInv /\ active \in TurnIds /\ turn \in [TurnIds -> TurnRecord]
        BY <1>1 DEF TurnInv, TypeInv, TypeOK
  <2>2. ASSUME NEW r \in Requests, EnqueueNow(r) PROVE run' = run
    <3>1. PICK rq : AdmitNewTurn(rq, r) \/ AdmitStandalone(rq, r) \/ AdmitActive(rq, r)
          BY <2>2 DEF EnqueueNow
    <3> QED BY <2>1, <3>1, AdmitTakesNoStep
  <2>3. CASE AdmitReleased
    <3>1. \/ \E r : AdmitNewTurn(req, r) \/ AdmitStandalone(req, r) \/ AdmitActive(req, r)
          \/ run' = run
          BY <2>3 DEF AdmitReleased
    <3> QED BY <2>1, <3>1, AdmitTakesNoStep
  <2>4. CASE ReleaseQuiescence
    <3>1. PumpTurns(req, turn, pendingTurns, active, 0) \/ run' = run
          BY <2>4 DEF ReleaseQuiescence
    <3> QED BY <2>1, <3>1, PumpTakesNoStep
  <2>5. CASE StepInterrupted
    <3>1. RunReturns(req, turn, active, run.steps, "cancelled")
          BY <2>5 DEF StepInterrupted, HandleLoopCancellation
    <3> QED BY <3>1, ReturnsTakeNoStep
  <2>6. CASE StepAborts \/ StepFails \/ HandlerDeclines
    <3>1. \E result : RunReturns(req, turn, active, run.steps, result)
          BY <2>6 DEF StepAborts, StepFails, HandlerDeclines
    <3> QED BY <3>1, ReturnsTakeNoStep
  <2>7. CASE HandlerRetries
    <3>1. PICK rq, tr : /\ BeginLoopStep(rq, tr, active, run.steps)
                        /\ tr = [turn EXCEPT ![active].queue = <<run.driver>> \o @]
          BY <2>7 DEF HandlerRetries
    <3>2. tr[active].aborted = turn[active].aborted
          BY <2>1, <3>1 DEF TurnRecord
    <3> QED BY <3>1, <3>2, AbortedTurnTakesNoStep
  <2>8. CASE CompleteLoopStep
    <3>1. \E rq : \/ \E result : RunReturns(rq, turn, active, run.steps, result)
                  \/ BeginLoopStep(rq, turn, active, run.steps)
          BY <2>8 DEF CompleteLoopStep
    <3> QED BY <3>1, ReturnsTakeNoStep, AbortedTurnTakesNoStep
  <2>9. CASE FinishTurn
    <3>1. \E tr \in [TurnIds -> TurnRecord] : EndedActive(tr) /\ Pumped(tr, pendingTurns, NoTurn, quiescence)
          BY <2>1, <2>9, FinishTurnType
    <3>2. active' = NoTurn \/ (pendingTurns # << >> /\ active' = Head(pendingTurns))
          BY <3>1 DEF Pumped
    <3>3. pendingTurns # << >> => Head(pendingTurns) \in Items(pendingTurns)
          BY <2>1, ItemsHead DEF TypeInv, TypeOK
    <3>4. \A t \in Items(pendingTurns) : t # active
          BY <2>1, TurnIdsNat DEF QueueInv, PendingTurnsInOrder
    <3> QED BY <3>2, <3>3, <3>4
  <2>10. CASE FinishStep \/ StepFailsRecoverably
         BY <2>1, <2>10 DEF FinishStep, StepFailsRecoverably, TypeInv, TypeOK, RunRecord
  <2>11. CASE \/ AcquireQuiescence \/ CancelActiveTurn \/ ResponseStarts \/ Dispose
              \/ (\E r \in Requests : \/ EnqueueThrows(r) \/ EnqueueHeld(r) \/ CancelStep(r)
                                      \/ AbortRequest(r))
              \/ (\E t \in TurnIds : CancelQueuedTurn(t))
              \/ (\E w \in Waiters : Settled(w)) \/ UNCHANGED vars
    <3>1. run' = run
          BY <2>11 DEF AcquireQuiescence, CancelActiveTurn, ResponseStarts, Dispose, EnqueueThrows,
                       EnqueueHeld, CancelStep, AbortRequest, CancelQueuedTurn, Settled, vars
    <3> QED BY <3>1
  <2> QED BY <1>1, <2>2, <2>3, <2>4, <2>5, <2>6, <2>7, <2>8, <2>9, <2>10, <2>11 DEF Next, RunLoop
<1> QED BY <1>1, TurnsInvariant, PTL DEF SafetySpec, NoStepAfterCancel
--------------------------------------------------------------------------------
(* What is final stays final.                                              *)

\* What may become of a request: its state leaves "new" and "pending" only, each
\* promise is settled once, and a request with a turn keeps one.
Waits(q) == q.state = "aborted" \/ q.assigned = "pending"

Forward(q, q2) ==
    /\ q2.state = q.state \/ (q.state \in {"new", "pending"} /\ q2.state # "new")
    /\ q2.assigned = q.assigned \/ (q.assigned \in {"none", "pending"} /\ q2.state # "new")
    /\ q2.result = q.result \/ (q.result \in {"none", "pending"} /\ q2.turn # NoTurn)
    /\ q2.turn = NoTurn => q.turn = NoTurn
    /\ Waits(q) /\ q2.turn = NoTurn => Waits(q2)

\* The run loop does less: it assigns nothing.
Onward(q, q2) ==
    /\ q2.turn = q.turn /\ q2.assigned = q.assigned
    /\ q2.state = q.state \/ (q.state = "pending" /\ q2.state # "new")
    /\ q2.result = q.result \/ q.result = "pending"

\* What may become of a turn and its ready promise.
TurnForward(j, j2) ==
    /\ j2.ready = j.ready \/ (j.ready \in {"none", "pending"} /\ j2.state # "none")
    /\ j2.state = "none" => j.state = "none"
    /\ j2.state = "queued" => j2.ready = "pending" \/ (j.state = "queued" /\ j2.ready = j.ready)

AllForward(rq, rq2) == \A r \in Requests : Forward(rq[r], rq2[r])
AllOnward(rq, rq2)  == \A r \in Requests : Onward(rq[r], rq2[r])
TurnsForward(tr, tr2) == \A t \in TurnIds : TurnForward(tr[t], tr2[t])

Unpromised(rq) == \A r \in Requests : rq[r].turn = NoTurn => rq[r].result = "none"

Places(sa, hl, rl) == Items(sa) \cup Items(hl) \cup Items(rl)

\* A promise is settled only where one was made: nothing was promised for a request
\* that is new, no result for one without a turn, and `ready` of a turn that has not
\* started is pending; a request that waits is aborted or its assignment pending.
SettleInv ==
    /\ \A r \in Requests : req[r].state = "new" => req[r].assigned = "none"
    /\ Unpromised(req)
    /\ \A r \in Places(standalone, held, releasing) : Waits(req[r])
    /\ \A t \in TurnIds : /\ turn[t].state = "none" => turn[t].ready = "none"
                          /\ turn[t].state = "queued" => turn[t].ready = "pending"

SettleStep ==
    /\ AllForward(req, req') /\ TurnsForward(turn, turn')
    /\ \A r \in Places(standalone', held', releasing') :
          r \in Places(standalone, held, releasing) \/ Waits(req'[r])

LEMMA ForwardSame == \A q : Forward(q, q) /\ Onward(q, q) /\ TurnForward(q, q)
BY DEF Forward, Onward, TurnForward

LEMMA ForwardTwice ==
    ASSUME NEW a, NEW b, NEW c, Forward(a, b), Forward(b, c)
    PROVE  Forward(a, c)
BY DEF Forward

LEMMA OnwardTwice ==
    ASSUME NEW a, NEW b, NEW c, Onward(a, b), Onward(b, c)
    PROVE  Onward(a, c)
BY DEF Onward

LEMMA TurnForwardTwice ==
    ASSUME NEW a, NEW b, NEW c, TurnForward(a, b), TurnForward(b, c)
    PROVE  TurnForward(a, c)
BY DEF TurnForward

LEMMA OnwardForward ==
    ASSUME NEW q, NEW q2, q.turn = NoTurn => q.result # "pending", Onward(q, q2)
    PROVE  Forward(q, q2)
BY DEF Onward, Forward, Waits

LEMMA AbortOnward ==
    ASSUME NEW q \in RequestRecord
    PROVE  Onward(q, Abort(q))
BY DEF Abort, Onward, RequestRecord

LEMMA StopStepOnward ==
    ASSUME NEW q \in RequestRecord
    PROVE  Onward(q, StopStep(q))
<1>1. CASE ~Unfinished(q)
      BY <1>1 DEF StopStep, Unfinished, Onward
<1>2. CASE Unfinished(q)
  <2>1. PICK a, v : a = Abort(q) /\ v = (IF a.result = "pending" THEN "cancelled" ELSE a.result)
        OBVIOUS
  <2>2. a \in RequestRecord /\ Onward(q, a)
        BY <2>1, AbortType, AbortOnward
  <2>3. StopStep(q) = [a EXCEPT !.step = "cancelled", !.stopped = TRUE, !.result = v]
        BY <1>2, <2>1 DEF StopStep, Unfinished
  <2>4. Onward(a, StopStep(q))
        BY <2>1, <2>2, <2>3 DEF Onward, RequestRecord
  <2> QED BY <2>2, <2>4, OnwardTwice
<1> QED BY <1>1, <1>2

LEMMA RejectForward ==
    ASSUME NEW q \in RequestRecord, RequestOK(q), q.state # "new"
    PROVE  Forward(q, RejectAssignment(Abort(q)))
<1>1. PICK a, b : a = Abort(q) /\ b = RejectAssignment(a)
      OBVIOUS
<1>2. a \in RequestRecord /\ Onward(q, a)
      BY <1>1, AbortType, AbortOnward
<1>3. b.turn = a.turn /\ b.state = a.state /\ b.result = a.result
      BY <1>1, <1>2, RejectAssignmentType
<1>4. b.assigned = a.assigned \/ a.assigned = "pending"
      BY <1>1, <1>2 DEF RejectAssignment, RequestRecord
<1>5. Forward(q, a)
  <2>1. q.turn = NoTurn => q.result # "pending"
        BY DEF RequestOK
  <2> QED BY <1>2, <2>1, OnwardForward
<1>6. a.state # "new" /\ (a.assigned = "pending" => a.state = "aborted")
      BY <1>1, <1>2 DEF Abort, RequestOK, RequestRecord
<1>7. Forward(a, b)
      BY <1>3, <1>4, <1>6 DEF Forward, Waits
<1> QED BY <1>1, <1>5, <1>7, ForwardTwice

LEMMA AssignForward ==
    ASSUME NEW q \in RequestRecord, NEW t \in TurnIds,
           q.state # "new", q.assigned = "pending", q.result = "none"
    PROVE  Forward(q, Assign(q, t))
BY TurnIdsNat DEF Assign, Forward, RequestRecord

LEMMA AllOnwardForward ==
    ASSUME NEW rq, NEW rq2, Unpromised(rq), AllOnward(rq, rq2)
    PROVE  AllForward(rq, rq2)
<1> SUFFICES ASSUME NEW r \in Requests PROVE Forward(rq[r], rq2[r])
    BY DEF AllForward
<1>1. Onward(rq[r], rq2[r]) /\ (rq[r].turn = NoTurn => rq[r].result # "pending")
      BY DEF AllOnward, Unpromised
<1> QED BY <1>1, OnwardForward

LEMMA AllOnwardTwice ==
    ASSUME NEW a, NEW b, NEW c, AllOnward(a, b), AllOnward(b, c)
    PROVE  AllOnward(a, c)
BY OnwardTwice DEF AllOnward

LEMMA AllForwardTwice ==
    ASSUME NEW a, NEW b, NEW c, AllForward(a, b), AllForward(b, c)
    PROVE  AllForward(a, c)
BY ForwardTwice DEF AllForward

LEMMA TurnsForwardTwice ==
    ASSUME NEW a, NEW b, NEW c, TurnsForward(a, b), TurnsForward(b, c)
    PROVE  TurnsForward(a, c)
BY TurnForwardTwice DEF TurnsForward

\* A turn that gets another queue.
LEMMA QueueForward ==
    ASSUME NEW tr \in [TurnIds -> TurnRecord], NEW t, NEW q, NEW tr2,
           tr2 = [tr EXCEPT ![t].queue = q]
    PROVE  TurnsForward(tr, tr2)
<1> SUFFICES ASSUME NEW u \in TurnIds PROVE TurnForward(tr[u], tr2[u])
    BY DEF TurnsForward
<1>1. tr2[u].ready = tr[u].ready /\ tr2[u].state = tr[u].state
      BY DEF TurnRecord
<1> QED BY <1>1 DEF TurnForward

LEMMA RunReturnsOnward ==
    ASSUME NEW rq \in [Requests -> RequestRecord], NEW tr \in [TurnIds -> TurnRecord],
           NEW t, NEW n, NEW result, RunReturns(rq, tr, t, n, result)
    PROVE  AllOnward(rq, req') /\ TurnsForward(tr, turn')
<1>1. PICK S, q : /\ req' = [r \in Requests |-> IF r \in S THEN Abort(rq[r]) ELSE rq[r]]
                  /\ turn' = [tr EXCEPT ![t].queue = q]
      BY DEF RunReturns
<1>2. AllOnward(rq, req')
  <2> SUFFICES ASSUME NEW r \in Requests PROVE Onward(rq[r], req'[r])
      BY DEF AllOnward
  <2>1. req'[r] = Abort(rq[r]) \/ req'[r] = rq[r]
        BY <1>1
  <2>2. Onward(rq[r], Abort(rq[r])) /\ Onward(rq[r], rq[r])
        BY AbortOnward, ForwardSame
  <2> QED BY <2>1, <2>2
<1>3. TurnsForward(tr, turn')
      BY <1>1, QueueForward
<1> QED BY <1>2, <1>3

LEMMA TakeStepOnward ==
    ASSUME NEW rq \in [Requests -> RequestRecord], NEW tr \in [TurnIds -> TurnRecord],
           NEW t, NEW n, TakeStep(rq, tr, t, n)
    PROVE  AllOnward(rq, req') /\ TurnsForward(tr, turn')
<1>1. PICK batch, d, q, fresh, rq1 :
          /\ batch = TakeNextBatch(tr[t].queue, Mergeable, Aborted(rq))
          /\ d = batch.driver /\ q = batch.rest
          /\ fresh = {r \in Items(<<batch.driver>> \o batch.merged) : rq[r].state = "pending"}
          /\ rq1 = [rq EXCEPT ![d].step = "running", ![d].stopped = FALSE]
      OBVIOUS
<1>2. /\ req' = [r \in Requests |->
                   IF r \in fresh THEN [rq1[r] EXCEPT !.state = "materialized"] ELSE rq1[r]]
      /\ turn' = [tr EXCEPT ![t].queue = q]
      BY <1>1 DEF TakeStep
<1>3. \A r \in fresh : rq[r].state = "pending"
      BY <1>1
<1>4. AllOnward(rq, req')
  <2> SUFFICES ASSUME NEW r \in Requests PROVE Onward(rq[r], req'[r])
      BY DEF AllOnward
  <2>1. /\ rq1[r] \in RequestRecord /\ rq1[r].turn = rq[r].turn
        /\ rq1[r].assigned = rq[r].assigned /\ rq1[r].state = rq[r].state
        /\ rq1[r].result = rq[r].result
        BY <1>1, ZenonT(30) DEF RequestRecord, StepState
  <2>2. CASE r \in fresh
    <3>1. req'[r] = [rq1[r] EXCEPT !.state = "materialized"] /\ rq[r].state = "pending"
          BY <1>2, <1>3, <2>2
    <3> QED BY <2>1, <3>1 DEF Onward, RequestRecord
  <2>3. CASE r \notin fresh
    <3>1. req'[r] = rq1[r]
          BY <1>2, <2>3
    <3> QED BY <2>1, <3>1 DEF Onward
  <2> QED BY <2>2, <2>3
<1>5. TurnsForward(tr, turn')
      BY <1>2, QueueForward
<1> QED BY <1>4, <1>5

LEMMA BeginLoopStepOnward ==
    ASSUME NEW rq \in [Requests -> RequestRecord], NEW tr \in [TurnIds -> TurnRecord],
           NEW t, NEW n, BeginLoopStep(rq, tr, t, n)
    PROVE  AllOnward(rq, req') /\ TurnsForward(tr, turn')
<1>1. (\E result : RunReturns(rq, tr, t, n, result)) \/ TakeStep(rq, tr, t, n)
      BY DEF BeginLoopStep
<1> QED BY <1>1, RunReturnsOnward, TakeStepOnward

LEMMA StartTurnOnward ==
    ASSUME NEW rq \in [Requests -> RequestRecord], NEW tr \in [TurnIds -> TurnRecord],
           NEW pending \in Seq(TurnIds), pending # << >>, StartTurn(rq, tr, pending)
    PROVE  AllOnward(rq, req') /\ TurnsForward(tr, turn')
<1>1. PICK t, tr1 : t = Head(pending) /\ tr1 = [tr EXCEPT ![t].state = "running"]
      OBVIOUS
<1>2. t \in TurnIds
      BY <1>1
<1>3. BeginLoopStep(rq, tr1, t, 0) \/ (req' = rq /\ turn' = tr1)
      BY <1>1 DEF StartTurn
<1>4. tr1 \in [TurnIds -> TurnRecord]
      BY <1>1, <1>2, ZenonT(30) DEF TurnRecord, TurnState
<1>5. TurnsForward(tr, tr1)
  <2> SUFFICES ASSUME NEW u \in TurnIds PROVE TurnForward(tr[u], tr1[u])
      BY DEF TurnsForward
  <2>1. tr1[u].ready = tr[u].ready /\ (tr1[u].state = tr[u].state \/ tr1[u].state = "running")
        BY <1>1 DEF TurnRecord
  <2> QED BY <2>1 DEF TurnForward
<1>6. CASE BeginLoopStep(rq, tr1, t, 0)
  <2>1. AllOnward(rq, req') /\ TurnsForward(tr1, turn')
        BY <1>4, <1>6, BeginLoopStepOnward
  <2> QED BY <1>5, <2>1, TurnsForwardTwice
<1>7. CASE req' = rq /\ turn' = tr1
      BY <1>5, <1>7, ForwardSame DEF AllOnward
<1> QED BY <1>3, <1>6, <1>7

LEMMA PumpTurnsOnward ==
    ASSUME NEW rq \in [Requests -> RequestRecord], NEW tr \in [TurnIds -> TurnRecord],
           NEW pending \in Seq(TurnIds), NEW act, NEW depth, PumpTurns(rq, tr, pending, act, depth)
    PROVE  AllOnward(rq, req') /\ TurnsForward(tr, turn')
<1>1. (req' = rq /\ turn' = tr) \/ (pending # << >> /\ StartTurn(rq, tr, pending))
      BY DEF PumpTurns
<1>2. CASE req' = rq /\ turn' = tr
      BY <1>2, ForwardSame DEF AllOnward, TurnsForward
<1> QED BY <1>1, <1>2, StartTurnOnward

\* A request a turn may be assigned to.
Assignable(q) == q.state # "new" /\ q.assigned = "pending" /\ q.result = "none"

LEMMA CreateAndQueueTurnForward ==
    ASSUME TypeInv, QueueInv, SettleInv,
           NEW rq \in [Requests -> RequestRecord], NEW r \in Requests, NEW depth,
           Unpromised(rq),
           \A x \in Requests : x = r \/ x \in Items(standalone) =>
               rq[x].state = "aborted" \/ Assignable(rq[x]),
           rq[r].state # "aborted",
           CreateAndQueueTurn(rq, r, depth)
    PROVE  AllForward(rq, req') /\ TurnsForward(turn, turn') /\ standalone' = << >>
<1>1. PICK t, moved, steps, rq1, job, tr1, pending :
          /\ t = nextTurnId /\ moved = Keep(standalone, Requests \ Aborted(rq))
          /\ steps = {r} \cup Items(moved)
          /\ rq1 = [x \in Requests |-> IF x \in steps THEN Assign(rq[x], t) ELSE rq[x]]
          /\ job = [state |-> "queued", request |-> r, queue |-> <<r>> \o moved,
                    aborted |-> FALSE, ready |-> "pending"]
          /\ tr1 = [turn EXCEPT ![t] = job]
          /\ pending = Append(pendingTurns, t)
      OBVIOUS
<1>2. t < MaxTurns /\ standalone' = << >> /\ PumpTurns(rq1, tr1, pending, active, depth)
      BY <1>1 DEF CreateAndQueueTurn
<1>3. /\ t \in TurnIds /\ pending \in Seq(TurnIds) /\ turn \in [TurnIds -> TurnRecord]
      /\ standalone \in Seq(Requests)
      BY <1>1, <1>2, BoundsAssumption DEF TypeInv, TypeOK, TurnIds
<1>4. Items(moved) = Items(standalone) \cap (Requests \ Aborted(rq)) /\ moved \in Seq(Requests)
      BY <1>1, <1>3, KeepItems, KeepSeq
<1>5. \A x \in Requests : /\ x \in steps => rq1[x] = Assign(rq[x], t) /\ Assignable(rq[x])
                          /\ x \notin steps => rq1[x] = rq[x]
      BY <1>1, <1>4 DEF Aborted
<1>6. rq1 \in [Requests -> RequestRecord]
      BY <1>1, <1>3, AssignType
<1>7. job \in TurnRecord
  <2>1. <<r>> \o moved \in Seq(Requests)
        BY <1>4
  <2> QED BY <1>1, <2>1 DEF TurnRecord, TurnState, PromiseState
<1>8. tr1 \in [TurnIds -> TurnRecord]
      BY <1>1, <1>3, <1>7
<1>9. AllForward(rq, rq1)
  <2> SUFFICES ASSUME NEW x \in Requests PROVE Forward(rq[x], rq1[x])
      BY DEF AllForward
  <2>1. CASE x \in steps
        BY <1>3, <1>5, <2>1, AssignForward DEF Assignable
  <2>2. CASE x \notin steps
        BY <1>5, <2>2, ForwardSame
  <2> QED BY <2>1, <2>2
<1>10. TurnsForward(turn, tr1)
  <2> SUFFICES ASSUME NEW u \in TurnIds PROVE TurnForward(turn[u], tr1[u])
      BY DEF TurnsForward
  <2>1. CASE u = t
    <3>1. turn[t].state = "none"
          BY <1>1, <1>3, TurnIdsNat DEF QueueInv
    <3>2. turn[t].ready = "none"
          BY <1>3, <3>1 DEF SettleInv
    <3>3. tr1[t].ready = "pending" /\ tr1[t].state = "queued"
          BY <1>1, <1>3
    <3> QED BY <2>1, <3>1, <3>2, <3>3 DEF TurnForward
  <2>2. CASE u # t
    <3>1. tr1[u] = turn[u]
          BY <1>1, <1>3, <2>2
    <3> QED BY <3>1, ForwardSame
  <2> QED BY <2>1, <2>2
<1>11. AllOnward(rq1, req') /\ TurnsForward(tr1, turn')
       BY <1>2, <1>3, <1>6, <1>8, PumpTurnsOnward
<1>12. Unpromised(rq1)
       BY <1>3, <1>5, AssignType, TurnIdsNat DEF Unpromised
<1>13. AllForward(rq1, req')
       BY <1>11, <1>12, AllOnwardForward
<1> QED BY <1>2, <1>9, <1>10, <1>11, <1>13, AllForwardTwice, TurnsForwardTwice

LEMMA AdmitForward ==
    ASSUME TypeInv, QueueInv, SettleInv,
           NEW rq \in [Requests -> RequestRecord], NEW r \in Requests,
           Unpromised(rq),
           \A x \in Requests : x = r \/ x \in Items(standalone) =>
               rq[x].state = "aborted" \/ Assignable(rq[x]),
           rq[r].state # "aborted",
           AdmitNewTurn(rq, r) \/ AdmitStandalone(rq, r) \/ AdmitActive(rq, r)
    PROVE  /\ AllForward(rq, req') /\ TurnsForward(turn, turn')
           /\ \A x \in Items(standalone') : x \in Items(standalone) \/ (x = r /\ Waits(req'[x]))
<1>1. CASE AdmitNewTurn(rq, r)
  <2>1. CreateAndQueueTurn(rq, r, 0)
        BY <1>1 DEF AdmitNewTurn
  <2>2. AllForward(rq, req') /\ TurnsForward(turn, turn') /\ standalone' = << >>
        BY <2>1, CreateAndQueueTurnForward
  <2> QED BY <2>2, ItemsEmpty
<1>2. CASE AdmitStandalone(rq, r)
  <2>1. standalone' = Append(standalone, r) /\ req' = rq /\ turn' = turn
        BY <1>2 DEF AdmitStandalone
  <2>2. Items(standalone') = Items(standalone) \cup {r}
        BY <2>1, ItemsAppend DEF TypeInv, TypeOK
  <2>3. Waits(req'[r])
        BY <2>1 DEF Waits, Assignable
  <2> QED BY <2>1, <2>2, <2>3, ForwardSame DEF AllForward, TurnsForward
<1>3. CASE AdmitActive(rq, r)
  <2>1. PICK t, q : t = active /\ q = Append(turn[active].queue, r)
        OBVIOUS
  <2>2. /\ req' = [rq EXCEPT ![r] = Assign(rq[r], t)] /\ turn' = [turn EXCEPT ![t].queue = q]
        /\ t # NoTurn /\ standalone' = standalone
        BY <1>3, <2>1 DEF AdmitActive
  <2>3. t \in TurnIds /\ turn \in [TurnIds -> TurnRecord]
        BY <2>1, <2>2 DEF TypeInv, TypeOK
  <2>4. TurnsForward(turn, turn')
        BY <2>2, <2>3, QueueForward
  <2>5. AllForward(rq, req')
    <3> SUFFICES ASSUME NEW x \in Requests PROVE Forward(rq[x], req'[x])
        BY DEF AllForward
    <3>1. CASE x = r
      <4>1. req'[r] = Assign(rq[r], t) /\ Assignable(rq[r])
            BY <2>2
      <4> QED BY <2>3, <3>1, <4>1, AssignForward DEF Assignable
    <3>2. CASE x # r
      <4>1. req'[x] = rq[x]
            BY <2>2, <3>2
      <4> QED BY <4>1, ForwardSame
    <3> QED BY <3>1, <3>2
  <2> QED BY <2>2, <2>4, <2>5
<1> QED BY <1>1, <1>2, <1>3

LEMMA SentForward ==
    ASSUME TypeInv, RequestInv, SettleInv, NEW r \in Requests, req[r].state = "new",
           NEW rq, rq = Sent(r)
    PROVE  AllForward(req, rq) /\ Unpromised(rq) /\ Waits(rq[r]) /\ Assignable(rq[r])
<1>1. /\ rq[r].state = "pending" /\ rq[r].turn = NoTurn /\ rq[r].assigned = "pending"
      /\ rq[r].result = req[r].result /\ req[r].turn = NoTurn
      /\ \A x \in Requests : x # r => rq[x] = req[x]
      BY SentKeeps
<1>2. req[r].assigned = "none" /\ req[r].result = "none"
      BY <1>1 DEF SettleInv, Unpromised
<1>3. Forward(req[r], rq[r])
      BY <1>1, <1>2 DEF Forward, Waits
<1>4. AllForward(req, rq)
  <2> SUFFICES ASSUME NEW x \in Requests PROVE Forward(req[x], rq[x])
      BY DEF AllForward
  <2>1. CASE x = r
        BY <1>3, <2>1
  <2>2. CASE x # r
        BY <1>1, <2>2, ForwardSame
  <2> QED BY <2>1, <2>2
<1>5. Unpromised(rq)
      BY <1>1, <1>2 DEF SettleInv, Unpromised
<1> QED BY <1>1, <1>2, <1>4, <1>5 DEF Waits, Assignable

\* The standalone requests that are not aborted can be assigned.
LEMMA WaitingAssignable ==
    ASSUME TypeInv, RequestInv, SettleInv, NEW x \in Places(standalone, held, releasing)
    PROVE  x \in Requests /\ (req[x].state = "aborted" \/ Assignable(req[x]))
<1>1. x \in Requests
      BY DEF Places, TypeInv, TypeOK, Items
<1>2. req[x].turn = NoTurn /\ req[x].state # "new" /\ Waits(req[x])
      BY DEF Places, RequestInv, WaitOK, SettleInv
<1> QED BY <1>1, <1>2 DEF SettleInv, Unpromised, Waits, Assignable

LEMMA EnqueueSettles ==
    ASSUME TypeInv, QueueInv, RequestInv, SettleInv, NEW r \in Requests,
           EnqueueNow(r) \/ EnqueueThrows(r) \/ EnqueueHeld(r)
    PROVE  SettleStep
<1>1. PICK rq : rq = Sent(r)
      OBVIOUS
<1>2. req[r].state = "new"
      BY DEF EnqueueNow, EnqueueThrows, EnqueueHeld, CanEnqueue
<1>3. /\ AllForward(req, rq) /\ Unpromised(rq) /\ Waits(rq[r]) /\ Assignable(rq[r])
      BY <1>1, <1>2, SentForward
<1>4. /\ rq \in [Requests -> RequestRecord] /\ rq[r].state = "pending"
      /\ \A x \in Requests : x # r => rq[x] = req[x]
      BY <1>1, <1>2, SentKeeps
<1>5. CASE EnqueueNow(r)
  <2>1. /\ AdmitNewTurn(rq, r) \/ AdmitStandalone(rq, r) \/ AdmitActive(rq, r)
        /\ held' = held /\ releasing' = releasing
        BY <1>1, <1>5 DEF EnqueueNow
  <2>2. \A x \in Requests : x = r \/ x \in Items(standalone) =>
            rq[x].state = "aborted" \/ Assignable(rq[x])
        BY <1>3, <1>4, WaitingAssignable DEF Places
  <2>3. /\ AllForward(rq, req') /\ TurnsForward(turn, turn')
        /\ \A x \in Items(standalone') : x \in Items(standalone) \/ (x = r /\ Waits(req'[x]))
        BY <1>3, <1>4, <2>1, <2>2, AdmitForward
  <2>4. AllForward(req, req')
        BY <1>3, <2>3, AllForwardTwice
  <2> QED BY <2>1, <2>3, <2>4 DEF SettleStep, Places
<1>6. CASE EnqueueThrows(r)
  <2>1. PICK rq2 : rq2 = [rq EXCEPT ![r].assigned = "rejected"]
        OBVIOUS
  <2>2. req' = rq2 /\ UNCHANGED <<turn, standalone, held, releasing>>
        BY <1>1, <1>6, <2>1 DEF EnqueueThrows
  <2>3. AllForward(req, rq2)
    <3> SUFFICES ASSUME NEW x \in Requests PROVE Forward(req[x], rq2[x])
        BY DEF AllForward
    <3>1. CASE x = r
      <4>1. /\ rq2[r].state = "pending" /\ rq2[r].turn = rq[r].turn
            /\ rq2[r].result = rq[r].result
            BY <1>4, <2>1 DEF RequestRecord
      <4>2. req[r].assigned = "none" /\ Forward(req[r], rq[r])
            BY <1>2, <1>3 DEF SettleInv, AllForward
      <4> QED BY <1>2, <3>1, <4>1, <4>2 DEF Forward, Waits
    <3>2. CASE x # r
      <4>1. rq2[x] = req[x]
            BY <1>4, <2>1, <3>2
      <4> QED BY <4>1, ForwardSame
    <3> QED BY <3>1, <3>2
  <2> QED BY <2>2, <2>3, ForwardSame DEF SettleStep, TurnsForward
<1>7. CASE EnqueueHeld(r)
  <2>1. req' = rq /\ held' = Append(held, r) /\ UNCHANGED <<turn, standalone, releasing>>
        BY <1>1, <1>7 DEF EnqueueHeld
  <2>2. Items(held') = Items(held) \cup {r}
        BY <2>1, ItemsAppend DEF TypeInv, TypeOK
  <2> QED BY <1>3, <2>1, <2>2, ForwardSame DEF SettleStep, TurnsForward, Places
<1> QED BY <1>5, <1>6, <1>7

LEMMA ReleaseSettles ==
    ASSUME TypeInv, RequestInv, SettleInv, ReleaseQuiescence
    PROVE  SettleStep
<1>1. CASE quiescence = 1 /\ ~disposing
  <2>1. /\ PumpTurns(req, turn, pendingTurns, active, 0)
        /\ releasing' = held /\ held' = << >> /\ standalone' = standalone
        BY <1>1 DEF ReleaseQuiescence
  <2>2. AllOnward(req, req') /\ TurnsForward(turn, turn')
        BY <2>1, PumpTurnsOnward DEF TypeInv, TypeOK
  <2>3. AllForward(req, req')
        BY <2>2, AllOnwardForward DEF SettleInv
  <2> QED BY <2>1, <2>2, <2>3, ItemsEmpty DEF SettleStep, Places
<1>2. CASE ~(quiescence = 1 /\ ~disposing)
  <2>1. UNCHANGED <<req, turn, held, releasing, standalone>>
        BY <1>2 DEF ReleaseQuiescence
  <2> QED BY <2>1, ForwardSame DEF SettleStep, Places, AllForward, TurnsForward
<1> QED BY <1>1, <1>2

LEMMA AdmitReleasedSettles ==
    ASSUME TypeInv, QueueInv, RequestInv, SettleInv, AdmitReleased
    PROVE  SettleStep
<1>1. PICK r : r = Head(releasing)
      OBVIOUS
<1>2. /\ releasing # << >> /\ releasing' = Tail(releasing) /\ held' = held
      /\ \/ /\ req[r].state # "aborted"
            /\ AdmitNewTurn(req, r) \/ AdmitStandalone(req, r) \/ AdmitActive(req, r)
         \/ /\ req' = IF req[r].state = "aborted" THEN req
                      ELSE [req EXCEPT ![r] = RejectAssignment(Abort(@))]
            /\ UNCHANGED <<turn, standalone>>
      BY <1>1 DEF AdmitReleased
<1>3. /\ r \in Items(releasing) /\ \A x \in Items(releasing') : x \in Items(releasing)
      /\ req \in [Requests -> RequestRecord]
      BY <1>1, <1>2, ItemsHead DEF TypeInv, TypeOK
<1>4. /\ r \in Requests /\ (req[r].state = "aborted" \/ Assignable(req[r]))
      /\ RequestOK(req[r])
      BY <1>3, WaitingAssignable DEF Places, RequestInv, TablesOK
<1>5. CASE /\ req[r].state # "aborted"
           /\ AdmitNewTurn(req, r) \/ AdmitStandalone(req, r) \/ AdmitActive(req, r)
  <2>1. \A x \in Requests : x = r \/ x \in Items(standalone) =>
            req[x].state = "aborted" \/ Assignable(req[x])
        BY <1>4, WaitingAssignable DEF Places
  <2>2. Unpromised(req)
        BY DEF SettleInv
  <2>3. /\ AllForward(req, req') /\ TurnsForward(turn, turn')
        /\ \A x \in Items(standalone') : x \in Items(standalone) \/ (x = r /\ Waits(req'[x]))
        BY <1>3, <1>4, <1>5, <2>1, <2>2, AdmitForward
  <2> QED BY <1>2, <1>3, <2>3 DEF SettleStep, Places
<1>6. CASE /\ req' = IF req[r].state = "aborted" THEN req
                     ELSE [req EXCEPT ![r] = RejectAssignment(Abort(@))]
           /\ UNCHANGED <<turn, standalone>>
  <2>1. AllForward(req, req')
    <3> SUFFICES ASSUME NEW x \in Requests PROVE Forward(req[x], req'[x])
        BY DEF AllForward
    <3>1. CASE x = r /\ req[r].state # "aborted"
      <4>1. req'[r] = RejectAssignment(Abort(req[r]))
            BY <1>3, <1>4, <1>6, <3>1
      <4>2. req[r].state # "new" /\ req[r] \in RequestRecord
            BY <1>3, <1>4, <3>1 DEF Assignable
      <4> QED BY <1>4, <3>1, <4>1, <4>2, RejectForward
    <3>2. CASE ~(x = r /\ req[r].state # "aborted")
      <4>1. req'[x] = req[x]
            BY <1>3, <1>6, <3>2
      <4> QED BY <4>1, ForwardSame
    <3> QED BY <3>1, <3>2
  <2> QED BY <1>2, <1>3, <1>6, <2>1, ForwardSame DEF SettleStep, Places, TurnsForward
<1> QED BY <1>2, <1>5, <1>6

\* The turns of ts end before they started, and their steps with them.
LEMMA CancelsForward ==
    ASSUME TypeInv, QueueInv, SettleInv, NEW ts \in SUBSET Items(pendingTurns), NEW tr,
           tr = CancelledBeforeStart(turn, ts)
    PROVE  TurnsForward(turn, tr)
<1> SUFFICES ASSUME NEW u \in TurnIds PROVE TurnForward(turn[u], tr[u])
    BY DEF TurnsForward
<1>1. turn[u] \in TurnRecord
      BY DEF TypeInv, TypeOK
<1>2. CASE u \in ts
  <2>1. tr[u] = [turn[u] EXCEPT !.state = "cancelled", !.aborted = TRUE, !.ready = "rejected"]
        BY <1>2 DEF CancelledBeforeStart
  <2>2. turn[u].state = "queued"
        BY <1>2 DEF QueueInv, PendingTurnsInOrder
  <2>3. turn[u].ready = "pending"
        BY <2>2 DEF SettleInv
  <2>4. tr[u].state = "cancelled"
        BY <1>1, <2>1 DEF TurnRecord
  <2> QED BY <2>3, <2>4 DEF TurnForward
<1>3. CASE u \notin ts
  <2>1. tr[u] = turn[u]
        BY <1>3 DEF CancelledBeforeStart
  <2> QED BY <2>1, ForwardSame
<1> QED BY <1>2, <1>3

LEMMA StopForward ==
    ASSUME TypeInv, RequestInv, SettleInv, NEW r \in Requests
    PROVE  Forward(req[r], StopStep(req[r])) /\ Onward(req[r], StopStep(req[r]))
<1>1. req[r] \in RequestRecord /\ RequestOK(req[r])
      BY DEF TypeInv, TypeOK, RequestInv, TablesOK
<1>2. req[r].turn = NoTurn => req[r].result # "pending"
      BY <1>1 DEF RequestOK
<1>3. Onward(req[r], StopStep(req[r]))
      BY <1>1, StopStepOnward
<1> QED BY <1>2, <1>3, OnwardForward

LEMMA CancelsSettle ==
    ASSUME TypeInv, QueueInv, RequestInv, SettleInv,
           Dispose \/ (\E t \in TurnIds : CancelQueuedTurn(t))
    PROVE  SettleStep
<1>1. CASE \E t \in TurnIds : CancelQueuedTurn(t)
  <2>1. PICK t \in TurnIds : CancelQueuedTurn(t)
        BY <1>1
  <2>2. /\ t \in Items(pendingTurns) /\ turn' = CancelledBeforeStart(turn, {t})
        /\ req' = [r \in Requests |-> IF req[r].turn = t THEN StopStep(req[r]) ELSE req[r]]
        /\ UNCHANGED <<standalone, held, releasing>>
        BY <2>1 DEF CancelQueuedTurn
  <2>3. TurnsForward(turn, turn')
        BY <2>2, CancelsForward
  <2>4. AllForward(req, req')
        BY <2>2, StopForward, ForwardSame DEF AllForward
  <2> QED BY <2>2, <2>3, <2>4 DEF SettleStep
<1>2. CASE Dispose
  <2>1. PICK tr1, ended, loose : /\ ended = Items(pendingTurns)
                                 /\ loose = Items(standalone) \cup Items(held)
                                 /\ tr1 = CancelledBeforeStart(turn, ended)
        OBVIOUS
  <2>2. /\ req' = [r \in Requests |->
                     IF req[r].turn \in ended THEN StopStep(req[r])
                     ELSE IF r \in loose THEN RejectAssignment(Abort(req[r]))
                     ELSE req[r]]
        /\ turn' = IF active = NoTurn THEN tr1 ELSE [tr1 EXCEPT ![active].aborted = TRUE]
        /\ standalone' = << >> /\ held' = << >> /\ releasing' = releasing
        BY <1>2, <2>1 DEF Dispose
  <2>3. TurnsForward(turn, tr1)
        BY <2>1, CancelsForward
  <2>4. tr1 \in [TurnIds -> TurnRecord]
        BY <2>1, CancelledBeforeStartType DEF TypeInv, TypeOK
  <2>5. TurnsForward(turn, turn')
    <3> SUFFICES ASSUME NEW u \in TurnIds PROVE TurnForward(turn[u], turn'[u])
        BY DEF TurnsForward
    <3>1. turn'[u].ready = tr1[u].ready /\ turn'[u].state = tr1[u].state
          BY <2>2, <2>4 DEF TurnRecord
    <3> QED BY <2>3, <3>1 DEF TurnsForward, TurnForward
  <2>6. ASSUME NEW r \in Requests PROVE Forward(req[r], req'[r])
    <3>1. CASE req[r].turn \in ended
          BY <2>2, <3>1, StopForward
    <3>2. CASE req[r].turn \notin ended /\ r \in loose
      <4>1. req'[r] = RejectAssignment(Abort(req[r]))
            BY <2>2, <3>2
      <4>2. req[r].state # "new"
            BY <2>1, <3>2 DEF RequestInv, WaitOK
      <4>3. req[r] \in RequestRecord /\ RequestOK(req[r])
            BY DEF TypeInv, TypeOK, RequestInv, TablesOK
      <4> QED BY <4>1, <4>2, <4>3, RejectForward
    <3>3. CASE req[r].turn \notin ended /\ r \notin loose
          BY <2>2, <3>3, ForwardSame
    <3> QED BY <3>1, <3>2, <3>3
  <2> QED BY <2>2, <2>5, <2>6, ItemsEmpty DEF SettleStep, AllForward, Places
<1> QED BY <1>1, <1>2

LEMMA AbortsSettle ==
    ASSUME TypeInv, RequestInv, SettleInv, NEW r \in Requests, CancelStep(r) \/ AbortRequest(r)
    PROVE  SettleStep
<1>1. PICK q : req' = [req EXCEPT ![r] = q] /\ Forward(req[r], q)
  <2>1. CASE CancelStep(r)
        BY <2>1, StopForward DEF CancelStep
  <2>2. CASE AbortRequest(r)
    <3>1. req[r] \in RequestRecord /\ RequestOK(req[r])
          BY DEF TypeInv, TypeOK, RequestInv, TablesOK
    <3>2. Forward(req[r], RejectAssignment(Abort(req[r])))
          BY <2>2, <3>1, RejectForward DEF AbortRequest
    <3>3. req' = [req EXCEPT ![r] = RejectAssignment(Abort(req[r]))]
          BY <2>2 DEF AbortRequest
    <3> QED BY <3>2, <3>3
  <2> QED BY <2>1, <2>2
<1>2. AllForward(req, req')
  <2> SUFFICES ASSUME NEW x \in Requests PROVE Forward(req[x], req'[x])
      BY DEF AllForward
  <2>1. CASE x = r
    <3>1. req'[r] = q
          BY <1>1 DEF TypeInv, TypeOK
    <3> QED BY <1>1, <2>1, <3>1
  <2>2. CASE x # r
    <3>1. req'[x] = req[x]
          BY <1>1, <2>2 DEF TypeInv, TypeOK
    <3> QED BY <3>1, ForwardSame
  <2> QED BY <2>1, <2>2
<1>3. /\ turn' = turn /\ releasing' = releasing /\ standalone' = standalone
      /\ held' = held \/ held' = Keep(held, Requests \ {r})
      BY DEF CancelStep, AbortRequest
<1>4. \A x \in Items(held') : x \in Items(held)
      BY <1>3, KeepItems DEF TypeInv, TypeOK
<1> QED BY <1>2, <1>3, <1>4, ForwardSame DEF SettleStep, Places, TurnsForward

\* A step of the run loop moves the requests onward and moves nothing between the
\* places where requests wait.
LEMMA OnwardSettles ==
    ASSUME SettleInv, AllOnward(req, req'), TurnsForward(turn, turn'),
           UNCHANGED <<standalone, held, releasing>>
    PROVE  SettleStep
<1>1. AllForward(req, req')
      BY AllOnwardForward DEF SettleInv
<1> QED BY <1>1 DEF SettleStep

\* One field of one turn changes: the signal, or `ready` of the running turn.
LEMMA SignalsSettle ==
    ASSUME TypeInv, QueueInv, SettleInv,
           CancelActiveTurn \/ ResponseStarts \/ FinishStep \/ StepFailsRecoverably
    PROVE  SettleStep
<1>1. /\ active \in TurnIds /\ turn[active].state = "running"
      /\ turn \in [TurnIds -> TurnRecord] /\ turn[active] \in TurnRecord
      /\ UNCHANGED <<req, standalone, held, releasing>>
  <2>1. active # NoTurn /\ UNCHANGED <<req, standalone, held, releasing>>
        BY DEF CancelActiveTurn, ResponseStarts, FinishStep, StepFailsRecoverably, InPhase,
               RunLoopUnchanged
  <2> QED BY <2>1 DEF TypeInv, TypeOK, QueueInv, OneTurnAtATime
<1>2. PICK v : \/ turn' = turn
               \/ turn' = [turn EXCEPT ![active].aborted = TRUE]
               \/ /\ turn' = [turn EXCEPT ![active].ready = v]
                  /\ v = turn[active].ready \/ turn[active].ready = "pending"
  <2>1. CASE CancelActiveTurn \/ StepFailsRecoverably
        BY <2>1 DEF CancelActiveTurn, StepFailsRecoverably
  <2>2. CASE ResponseStarts
        BY <2>2 DEF ResponseStarts
  <2>3. CASE FinishStep
    <3>1. PICK w : w = IF turn[active].ready = "pending" THEN "resolved" ELSE turn[active].ready
          OBVIOUS
    <3>2. turn' = [turn EXCEPT ![active].ready = w]
          BY <1>1, <2>3, <3>1 DEF FinishStep
    <3> QED BY <3>1, <3>2
  <2> QED BY <2>1, <2>2, <2>3
<1>3. ASSUME NEW t \in TurnIds PROVE TurnForward(turn[t], turn'[t])
  <2>1. CASE t # active \/ turn' = turn
    <3>1. turn'[t] = turn[t]
          BY <1>1, <1>2, <2>1
    <3> QED BY <3>1, ForwardSame
  <2>2. CASE t = active /\ turn' = [turn EXCEPT ![active].aborted = TRUE]
    <3>1. turn'[t].state = turn[t].state /\ turn'[t].ready = turn[t].ready
          BY <1>1, <2>2 DEF TurnRecord
    <3> QED BY <3>1 DEF TurnForward
  <2>3. CASE /\ t = active /\ turn' = [turn EXCEPT ![active].ready = v]
             /\ v = turn[active].ready \/ turn[active].ready = "pending"
    <3>1. turn'[t].state = turn[t].state /\ turn'[t].ready = v
          BY <1>1, <2>3 DEF TurnRecord
    <3> QED BY <1>1, <2>3, <3>1 DEF TurnForward
  <2> QED BY <1>2, <2>1, <2>2, <2>3
<1>4. AllOnward(req, req') /\ TurnsForward(turn, turn')
      BY <1>1, <1>3, ForwardSame DEF AllOnward, TurnsForward
<1> QED BY <1>1, <1>4, OnwardSettles

LEMMA RunContinuesSettles ==
    ASSUME TypeInv, QueueInv, RequestInv, SettleInv, RunContinues
    PROVE  SettleStep
<1>1. UNCHANGED <<standalone, held, releasing>> /\ active # NoTurn
      BY RunContinuesSuspended DEF RunLoopUnchanged
<1>2. req \in [Requests -> RequestRecord] /\ turn \in [TurnIds -> TurnRecord]
      BY DEF TypeInv, TypeOK
<1>3. ASSUME NEW rq \in [Requests -> RequestRecord], NEW tr \in [TurnIds -> TurnRecord],
             AllOnward(req, rq), TurnsForward(turn, tr),
             \/ \E result : RunReturns(rq, tr, active, run.steps, result)
             \/ BeginLoopStep(rq, tr, active, run.steps)
      PROVE  SettleStep
  <2>1. AllOnward(rq, req') /\ TurnsForward(tr, turn')
        BY <1>3, RunReturnsOnward, BeginLoopStepOnward
  <2>2. PICK rq2, tr2 : rq2 = req' /\ tr2 = turn'
        OBVIOUS
  <2>3. AllOnward(req, rq2) /\ TurnsForward(turn, tr2)
        BY <1>3, <2>1, <2>2, AllOnwardTwice, TurnsForwardTwice
  <2> QED BY <1>1, <2>2, <2>3, OnwardSettles
<1>4. CASE StepInterrupted \/ StepAborts \/ StepFails \/ HandlerDeclines
  <2>1. \/ \E result : RunReturns(req, turn, active, run.steps, result)
        \/ BeginLoopStep(req, turn, active, run.steps)
        BY <1>4 DEF StepInterrupted, HandleLoopCancellation, StepAborts, StepFails, HandlerDeclines
  <2>2. AllOnward(req, req) /\ TurnsForward(turn, turn)
        BY ForwardSame DEF AllOnward, TurnsForward
  <2> QED BY <1>2, <1>3, <2>1, <2>2
<1>5. CASE HandlerRetries
  <2>1. PICK rq, tr : /\ rq = [req EXCEPT ![run.driver].step = "queued"]
                      /\ tr = [turn EXCEPT ![active].queue = <<run.driver>> \o @]
        OBVIOUS
  <2>2. InPhase("recover") /\ BeginLoopStep(rq, tr, active, run.steps)
        BY <1>5, <2>1 DEF HandlerRetries
  <2>3. rq \in [Requests -> RequestRecord] /\ tr \in [TurnIds -> TurnRecord]
        BY <2>1, <2>2, DriverRequeued
  <2>4. PICK q : q = <<run.driver>> \o turn[active].queue
        OBVIOUS
  <2>5. tr = [turn EXCEPT ![active].queue = q]
        BY <1>2, <2>1, <2>4
  <2>6. TurnsForward(turn, tr)
        BY <1>2, <2>5, QueueForward
  <2>7. ASSUME NEW r \in Requests PROVE Onward(req[r], rq[r])
    <3>1. /\ rq[r].turn = req[r].turn /\ rq[r].assigned = req[r].assigned
          /\ rq[r].state = req[r].state /\ rq[r].result = req[r].result
          BY <1>2, <2>1 DEF RequestRecord
    <3> QED BY <3>1 DEF Onward
  <2>8. AllOnward(req, rq)
        BY <2>7 DEF AllOnward
  <2> QED BY <1>3, <2>2, <2>3, <2>6, <2>8
<1>6. CASE CompleteLoopStep
  <2>1. PICK rq, v : /\ rq = [req EXCEPT ![run.driver].step = "completed",
                                   ![run.driver].result = IF @ = "pending" THEN "completed" ELSE @]
                     /\ v = IF req[run.driver].result = "pending" THEN "completed"
                            ELSE req[run.driver].result
        OBVIOUS
  <2>2. /\ InPhase("after")
        /\ \/ \E result : RunReturns(rq, turn, active, run.steps, result)
           \/ BeginLoopStep(rq, turn, active, run.steps)
        BY <1>6, <2>1 DEF CompleteLoopStep
  <2>3. rq \in [Requests -> RequestRecord]
        BY <2>1, <2>2, StepCompletedKeeps
  <2>4. ASSUME NEW r \in Requests PROVE Onward(req[r], rq[r])
    <3>1. /\ rq[r].turn = req[r].turn /\ rq[r].assigned = req[r].assigned
          /\ rq[r].state = req[r].state
          /\ rq[r].result = IF r = run.driver THEN v ELSE req[r].result
          BY <1>2, <2>1 DEF RequestRecord
    <3> QED BY <2>1, <3>1 DEF Onward
  <2>5. AllOnward(req, rq) /\ TurnsForward(turn, turn)
        BY <2>4, ForwardSame DEF AllOnward, TurnsForward
  <2> QED BY <1>2, <1>3, <2>2, <2>3, <2>5
<1> QED BY <1>4, <1>5, <1>6, SignalsSettle DEF RunContinues

LEMMA FinishTurnSettles ==
    ASSUME TypeInv, QueueInv, RequestInv, SettleInv, FinishTurn
    PROVE  SettleStep
<1>1. PICK rq, tr, v :
          /\ v = (IF turn[active].ready = "pending" THEN "rejected" ELSE turn[active].ready)
          /\ rq = [r \in Requests |-> IF req[r].turn = active THEN StopStep(req[r]) ELSE req[r]]
          /\ tr = [turn EXCEPT ![active].state = run.result, ![active].ready = v]
      OBVIOUS
<1>2. /\ active # NoTurn /\ run.phase = "returned"
      /\ \/ req' = rq /\ turn' = tr
         \/ PumpTurns(rq, tr, pendingTurns, NoTurn, quiescence)
      /\ UNCHANGED <<standalone, held, releasing>>
      BY <1>1 DEF FinishTurn, InPhase
<1>3. /\ active \in TurnIds /\ turn[active] \in TurnRecord /\ turn \in [TurnIds -> TurnRecord]
      /\ req \in [Requests -> RequestRecord] /\ pendingTurns \in Seq(TurnIds)
      BY <1>2 DEF TypeInv, TypeOK
<1>4. run.result \in EndState
      BY <1>2 DEF TypeInv, RunShape
<1>5. /\ tr \in [TurnIds -> TurnRecord] /\ tr[active].state = run.result /\ tr[active].ready = v
      /\ \A u \in TurnIds : u # active => tr[u] = turn[u]
      BY <1>1, <1>3, <1>4 DEF TurnRecord, TurnState, EndState, PromiseState
<1>6. ASSUME NEW u \in TurnIds PROVE TurnForward(turn[u], tr[u])
  <2>1. CASE u = active
        BY <1>1, <1>4, <1>5, <2>1 DEF TurnForward, EndState
  <2>2. CASE u # active
        BY <1>5, <2>2, ForwardSame
  <2> QED BY <2>1, <2>2
<1>7. ASSUME NEW r \in Requests PROVE Onward(req[r], rq[r]) /\ rq[r] \in RequestRecord
  <2>1. req[r] \in RequestRecord
        BY <1>3
  <2> QED BY <1>1, <2>1, StopForward, StopStepType, ForwardSame
<1>8. rq \in [Requests -> RequestRecord]
      BY <1>1, <1>7
<1>9. AllOnward(req, rq) /\ TurnsForward(turn, tr)
      BY <1>6, <1>7 DEF AllOnward, TurnsForward
<1>10. CASE req' = rq /\ turn' = tr
       BY <1>2, <1>9, <1>10, OnwardSettles
<1>11. CASE PumpTurns(rq, tr, pendingTurns, NoTurn, quiescence)
  <2>1. PICK act : act = NoTurn
        OBVIOUS
  <2>2. AllOnward(rq, req') /\ TurnsForward(tr, turn')
        BY <1>3, <1>5, <1>8, <1>11, PumpTurnsOnward
  <2>3. PICK rq2, tr2 : rq2 = req' /\ tr2 = turn'
        OBVIOUS
  <2>4. AllOnward(req, rq2) /\ TurnsForward(turn, tr2)
        BY <1>9, <2>2, <2>3, AllOnwardTwice, TurnsForwardTwice
  <2> QED BY <1>2, <2>3, <2>4, OnwardSettles
<1> QED BY <1>2, <1>10, <1>11

LEMMA NextSettles ==
    ASSUME TypeInv, QueueInv, RequestInv, SettleInv, [Next]_vars
    PROVE  SettleStep
<1>1. CASE \E r \in Requests : \/ EnqueueNow(r) \/ EnqueueThrows(r) \/ EnqueueHeld(r)
                              \/ CancelStep(r) \/ AbortRequest(r)
      BY <1>1, EnqueueSettles, AbortsSettle
<1>2. CASE ReleaseQuiescence \/ AdmitReleased
      BY <1>2, ReleaseSettles, AdmitReleasedSettles
<1>3. CASE CancelActiveTurn \/ ResponseStarts
      BY <1>3, SignalsSettle
<1>4. CASE (\E t \in TurnIds : CancelQueuedTurn(t)) \/ Dispose
      BY <1>4, CancelsSettle
<1>5. CASE AcquireQuiescence \/ (\E w \in Waiters : Settled(w)) \/ UNCHANGED vars
  <2>1. UNCHANGED <<req, turn, standalone, held, releasing>>
        BY <1>5 DEF AcquireQuiescence, Settled, vars
  <2> QED BY <2>1, ForwardSame DEF SettleStep, AllForward, TurnsForward
<1>6. CASE RunContinues
      BY <1>6, RunContinuesSettles
<1>7. CASE FinishTurn
      BY <1>7, FinishTurnSettles
<1> QED BY <1>1, <1>2, <1>3, <1>4, <1>5, <1>6, <1>7 DEF Next, RunLoop, RunContinues

LEMMA StepSettles ==
    ASSUME TypeInv, RequestInv, SettleInv, SettleStep, TypeInv', RequestInv'
    PROVE  SettleInv'
<1>1. PICK rq, tr, sa, hl, rl : /\ rq = req' /\ tr = turn'
                                /\ sa = standalone' /\ hl = held' /\ rl = releasing'
      OBVIOUS
<1>2. /\ AllForward(req, rq) /\ TurnsForward(turn, tr)
      /\ \A r \in Places(sa, hl, rl) :
            r \in Places(standalone, held, releasing) \/ Waits(rq[r])
      BY <1>1 DEF SettleStep
<1>3. ASSUME NEW r \in Places(sa, hl, rl) PROVE r \in Requests /\ rq[r].turn = NoTurn
      BY <1>1 DEF Places, TypeInv, TypeOK, Items, RequestInv, WaitOK
<1>4. ASSUME NEW r \in Requests, rq[r].state = "new" PROVE rq[r].assigned = "none"
  <2>1. Forward(req[r], rq[r]) /\ (req[r].state = "new" => req[r].assigned = "none")
        BY <1>2 DEF AllForward, SettleInv
  <2> QED BY <1>4, <2>1 DEF Forward
<1>5. ASSUME NEW r \in Requests, rq[r].turn = NoTurn PROVE rq[r].result = "none"
  <2>1. Forward(req[r], rq[r]) /\ (req[r].turn = NoTurn => req[r].result = "none")
        BY <1>2 DEF AllForward, SettleInv, Unpromised
  <2> QED BY <1>5, <2>1 DEF Forward
<1>6. ASSUME NEW r \in Places(sa, hl, rl) PROVE Waits(rq[r])
  <2>1. r \in Requests /\ rq[r].turn = NoTurn
        BY <1>3
  <2>2. CASE r \in Places(standalone, held, releasing)
    <3>1. Forward(req[r], rq[r]) /\ Waits(req[r])
          BY <1>2, <2>1, <2>2 DEF AllForward, SettleInv
    <3> QED BY <2>1, <3>1 DEF Forward
  <2> QED BY <1>2, <2>2
<1>7. ASSUME NEW t \in TurnIds
      PROVE  /\ tr[t].state = "none" => tr[t].ready = "none"
             /\ tr[t].state = "queued" => tr[t].ready = "pending"
  <2>1. /\ TurnForward(turn[t], tr[t])
        /\ turn[t].state = "none" => turn[t].ready = "none"
        /\ turn[t].state = "queued" => turn[t].ready = "pending"
        BY <1>2 DEF TurnsForward, SettleInv
  <2> QED BY <2>1 DEF TurnForward
<1> QED BY <1>1, <1>4, <1>5, <1>6, <1>7 DEF SettleInv, Unpromised

LEMMA InitSettles == Init => SettleInv
<1> SUFFICES ASSUME Init PROVE SettleInv
    OBVIOUS
<1>1. \A r \in Requests : req[r].assigned = "none" /\ req[r].result = "none"
      BY DEF Init
<1>2. \A t \in TurnIds : turn[t].state = "none" /\ turn[t].ready = "none"
      BY DEF Init
<1>3. Places(standalone, held, releasing) = {}
      BY ItemsEmpty DEF Init, Places
<1> QED BY <1>1, <1>2, <1>3 DEF SettleInv, Unpromised

LEMMA SettleInvariant == SafetySpec => [](TypeInv /\ QueueInv /\ RequestInv /\ SettleInv)
<1>1. Init => TypeInv /\ QueueInv /\ RequestInv /\ SettleInv
      BY InitType, InitTurns, InitRequests, InitSettles
<1>2. /\ TurnInv /\ TypeInv /\ QueueInv /\ RequestInv /\ SettleInv /\ [Next]_vars
      /\ TurnInv' /\ (TypeInv /\ RequestInv)'
      => (TypeInv /\ QueueInv /\ RequestInv /\ SettleInv)'
  <2> SUFFICES ASSUME TurnInv, RequestInv, SettleInv, [Next]_vars, TurnInv', RequestInv'
               PROVE  TypeInv' /\ QueueInv' /\ RequestInv' /\ SettleInv'
      OBVIOUS
  <2>1. TypeInv /\ QueueInv /\ TypeInv' /\ QueueInv'
        BY DEF TurnInv
  <2>2. SettleStep
        BY <2>1, NextSettles
  <2>3. SettleInv'
        BY <2>1, <2>2, StepSettles
  <2> QED BY <2>1, <2>3
<1> QED BY <1>1, <1>2, TurnsInvariant, RequestsInvariant, PTL DEF SafetySpec

\* What is final stays final: however cancellation, retries, merging and disposal
\* interleave, an ended turn keeps its outcome, a settled promise its value, and a
\* request that was aborted or materialized is neither revived nor appended again.
THEOREM SettledStaysSettled == SafetySpec => SettledForGood
<1> DEFINE Final == /\ \A t \in TurnIds : Ended(t) => turn'[t].state = turn[t].state
                    /\ \A t \in TurnIds :
                         turn[t].ready \in {"resolved", "rejected"} => turn'[t].ready = turn[t].ready
                    /\ \A r \in Requests :
                         /\ req[r].state \in {"materialized", "aborted"} => req'[r].state = req[r].state
                         /\ req[r].assigned \in {"resolved", "rejected"} => req'[r].assigned = req[r].assigned
                         /\ req[r].result \in {"completed", "cancelled"} => req'[r].result = req[r].result
<1>1. ASSUME TurnInv, RequestInv, SettleInv, [Next]_vars PROVE [Final]_vars
  <2>1. TypeInv /\ QueueInv /\ LeaseInv
        BY <1>1 DEF TurnInv
  <2>2. AllForward(req, req') /\ TurnsForward(turn, turn')
        BY <1>1, <2>1, NextSettles DEF SettleStep
  <2>3. ASSUME NEW t \in TurnIds, Ended(t) PROVE turn'[t].state = turn[t].state
    <3>1. turn'[t].state # turn[t].state =>
              <<turn[t].state, turn'[t].state>> \in TQ!Moves
          BY <1>1, <2>1, NextTurnStep, TurnStepMoves
    <3>2. turn[t].state \in {"completed", "failed", "cancelled"}
          BY <2>3 DEF Ended, EndState
    <3>3. <<turn[t].state, turn'[t].state>> \notin TQ!Moves
          BY <3>2 DEF TQ!Moves
    <3> QED BY <3>1, <3>3
  <2>4. ASSUME NEW t \in TurnIds, turn[t].ready \in {"resolved", "rejected"}
        PROVE  turn'[t].ready = turn[t].ready
        BY <2>2, <2>4 DEF TurnsForward, TurnForward
  <2>5. ASSUME NEW r \in Requests
        PROVE  /\ req[r].state \in {"materialized", "aborted"} => req'[r].state = req[r].state
               /\ req[r].assigned \in {"resolved", "rejected"} => req'[r].assigned = req[r].assigned
               /\ req[r].result \in {"completed", "cancelled"} => req'[r].result = req[r].result
    <3>1. Forward(req[r], req'[r])
          BY <2>2 DEF AllForward
    <3> QED BY <3>1 DEF Forward
  <2> QED BY <2>3, <2>4, <2>5
<1> QED BY <1>1, TurnsInvariant, SettleInvariant, PTL DEF SafetySpec, SettledForGood
================================================================================
