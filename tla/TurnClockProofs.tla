--------------------------- MODULE TurnClockProofs ---------------------------
(***************************************************************************)
(* The clock of turn identifiers never shows one twice, over any number of *)
(* turns, cancellations and restarts.                                      *)
(*                                                                         *)
(* The argument.  A turn starts with an identifier that is at most the     *)
(* clock's next and above every one that ran, and moves next past itself.  *)
(* It is at most next because every number from next to the reservation    *)
(* belongs to a queued turn or to a cancelled one, and next itself was     *)
(* never cancelled: the clock has skipped what was.  A restart only drops  *)
(* a suffix of the log and forgets a reservation that nobody holds.        *)
(***************************************************************************)
EXTENDS TurnClock, WellFoundedInduction, TLAPS

\* Every non-empty set of natural numbers has a least element.
LEMMA LeastNumber ==
    ASSUME NEW T \in SUBSET Nat, T # {}
    PROVE  \E x \in T : \A y \in T : x <= y
<1>1. PICK x \in T : \A y \in T : ~(<<y, x>> \in OpToRel(<, Nat))
      BY NatLessThanWellFounded, WFMin, Zenon
<1>2. \A y \in T : ~(y < x)
      BY <1>1 DEF OpToRel
<1> QED BY <1>2

Bounded(S) == \E b \in Nat : \A t \in S : t < b

\* Skip finds the first number from next on that is not in pend.
LEMMA SkipFinds ==
    ASSUME NEW next \in Nat, NEW pend \in SUBSET Nat, Bounded(pend)
    PROVE  /\ Skip(next, pend) \in Nat
           /\ Skip(next, pend) >= next
           /\ Skip(next, pend) \notin pend
           /\ \A m \in next..(Skip(next, pend) - 1) : m \in pend
<1> DEFINE T == {n \in Nat : n >= next /\ n \notin pend}
           C == {next} \cup {t + 1 : t \in pend}
           First(n) == /\ n >= next
                       /\ n \notin pend
                       /\ \A m \in next..(n - 1) : m \in pend
<1>1. PICK b \in Nat : \A t \in pend : t < b
      BY DEF Bounded
<1>2. next + b \in T
  <2>1. next + b \in Nat /\ next + b >= next /\ next + b >= b
        OBVIOUS
  <2>2. next + b \notin pend
        BY <1>1, <2>1
  <2> QED BY <2>1, <2>2
<1>3. PICK x \in T : \A y \in T : x <= y
  <2>1. T \in SUBSET Nat /\ T # {}
        BY <1>2
  <2> HIDE DEF T
  <2> QED BY <2>1, LeastNumber
<1>4. x \in Nat /\ First(x)
  <2>1. \A m \in next..(x - 1) : m \in Nat /\ m >= next /\ m < x
        BY <1>3
  <2>2. \A m \in next..(x - 1) : m \notin T
        BY <1>3, <2>1
  <2> QED BY <1>3, <2>1, <2>2
<1>5. x \in C
  <2>1. CASE x = next
        BY <2>1
  <2>2. CASE x # next
    <3>1. x - 1 \in next..(x - 1)
          BY <1>4, <2>2
    <3>2. x - 1 \in pend /\ x = (x - 1) + 1
          BY <1>4, <3>1
    <3> QED BY <3>2
  <2> QED BY <2>1, <2>2
<1>6. C \in SUBSET Nat
      OBVIOUS
<1>7. Skip(next, pend) = CHOOSE n \in C : First(n)
      BY Zenon DEF Skip
<1> HIDE DEF C, First
<1>8. Skip(next, pend) \in C /\ First(Skip(next, pend))
      BY <1>4, <1>5, <1>7, Zenon
<1>9. Skip(next, pend) \in Nat
      BY <1>6, <1>8
<1> QED BY <1>8, <1>9 DEF First

\* What the clock keeps of itself, in every state of the log.
ClockOK(c) == /\ c \in ClockType
              /\ Bounded(c.cancelled)
              /\ \A t \in c.cancelled : c.next < t
              /\ Ascending(c.ran)
              /\ \A i \in 1..Len(c.ran) : c.ran[i] < c.next

\* What it keeps of the identifiers of the process that runs.
ReservationsOK ==
    /\ active # NoTurn => active < clock.next
    /\ active = NoTurn => queued = {}
    /\ \A id \in queued : id < reserved
    /\ \A id \in queued : \A i \in 1..Len(clock.ran) : clock.ran[i] < id
    /\ \A n \in clock.next..(reserved - 1) : n \in queued \/ n \in clock.cancelled

IInv == /\ ClockTypeOK
        /\ \A k \in 1..Len(log) : ClockOK(log[k])
        /\ ReservationsOK

\* apply of turn.prompt, when its identifier is one the clock has not passed
LEMMA PromptAdvances ==
    ASSUME NEW c, ClockOK(c), NEW id \in Nat, id <= c.next,
           \A i \in 1..Len(c.ran) : c.ran[i] < id
    PROVE  LET d == PromptTurn(c, id)
           IN /\ ClockOK(d)
              /\ d.next > c.next
              /\ d.ran = Append(c.ran, id)
              /\ \A n \in Nat : n >= d.next /\ n \in c.cancelled => n \in d.cancelled
<1> DEFINE to == Skip(c.next + 1, c.cancelled)
           d == PromptTurn(c, id)
<1>1. /\ c.next \in Nat /\ c.cancelled \in SUBSET Nat /\ c.ran \in Seq(Nat)
      /\ c.next + 1 \in Nat
      BY DEF ClockOK, ClockType
<1>2. to \in Nat /\ to >= c.next + 1 /\ to \notin c.cancelled
      BY <1>1, SkipFinds DEF ClockOK
<1> DEFINE left == {t \in c.cancelled : t > to}
           e == Advance(c, c.next + 1, c.cancelled)
<1>3. /\ e = [c EXCEPT !.next = to, !.cancelled = left]
      /\ d = [e EXCEPT !.ran = Append(c.ran, id)]
      /\ left \in SUBSET Nat /\ Append(c.ran, id) \in Seq(Nat)
      BY <1>1 DEF PromptTurn, Advance
<1>4. /\ d.next = to
      /\ d.cancelled = {t \in c.cancelled : t > to}
      /\ d.ran = Append(c.ran, id)
      /\ d \in ClockType
  <2> HIDE DEF to, left, e, d
  <2>1. e.next = to /\ e.cancelled = left /\ e.ran = c.ran /\ e \in ClockType
        BY <1>1, <1>2, <1>3 DEF ClockOK, ClockType
  <2>2. d.next = to /\ d.cancelled = left /\ d.ran = Append(c.ran, id) /\ d \in ClockType
        BY <1>3, <2>1 DEF ClockType
  <2> QED BY <2>2 DEF left
<1> HIDE DEF to, d
<1>5. Bounded(d.cancelled)
      BY <1>4 DEF ClockOK, Bounded
<1>6. /\ Len(d.ran) = Len(c.ran) + 1 /\ Len(c.ran) \in Nat
      /\ \A i \in 1..Len(c.ran) : d.ran[i] = c.ran[i]
      /\ d.ran[Len(c.ran) + 1] = id
      BY <1>1, <1>4
<1>7. \A i \in 1..Len(c.ran) : c.ran[i] \in Nat
      BY <1>1
<1>8. Ascending(d.ran)
  <2> SUFFICES ASSUME NEW i \in 1..Len(d.ran), NEW j \in 1..Len(d.ran), i < j
               PROVE  d.ran[i] < d.ran[j]
      BY DEF Ascending
  <2>1. i \in 1..Len(c.ran) /\ d.ran[i] = c.ran[i]
        BY <1>6
  <2>2. CASE j \in 1..Len(c.ran)
        BY <1>6, <2>1, <2>2 DEF ClockOK, Ascending
  <2>3. CASE j = Len(c.ran) + 1
        BY <1>6, <2>1, <2>3
  <2> QED BY <1>6, <2>2, <2>3
<1>9. \A i \in 1..Len(d.ran) : d.ran[i] < d.next
      BY <1>1, <1>2, <1>4, <1>6, <1>7, SMTT(30)
<1>10. \A n \in Nat : n >= d.next /\ n \in c.cancelled => n \in d.cancelled
      BY <1>2, <1>4
<1> QED BY <1>1, <1>2, <1>4, <1>5, <1>8, <1>9, <1>10 DEF ClockOK, d

\* apply of turn.cancel
LEMMA CancelAdvances ==
    ASSUME NEW c, ClockOK(c), NEW id \in Nat
    PROVE  LET d == CancelTurn(c, id)
           IN /\ ClockOK(d)
              /\ d.next >= c.next
              /\ d.ran = c.ran
              /\ \A n \in Nat : n >= d.next /\ (n \in c.cancelled \/ n = id) => n \in d.cancelled
<1>1. /\ c.next \in Nat /\ c.cancelled \in SUBSET Nat /\ c.ran \in Seq(Nat)
      BY DEF ClockOK, ClockType
<1>2. CASE id < c.next
      BY <1>1, <1>2 DEF CancelTurn
<1>3. CASE ~(id < c.next)
  <2> DEFINE pend == c.cancelled \cup {id}
             to == Skip(c.next, pend)
             d == CancelTurn(c, id)
  <2>1. pend \in SUBSET Nat
        BY <1>1
  <2>2. Bounded(pend)
    <3>1. PICK b \in Nat : \A t \in c.cancelled : t < b
          BY DEF ClockOK, Bounded
    <3>2. /\ b + id + 1 \in Nat /\ id < b + id + 1
          /\ \A t \in c.cancelled : t < b + id + 1
          BY <1>1, <3>1
    <3> QED BY <3>2 DEF Bounded
  <2>3. to \in Nat /\ to >= c.next /\ to \notin pend
        BY <1>1, <2>1, <2>2, SkipFinds
  <2>4. d = [c EXCEPT !.next = to, !.cancelled = {t \in pend : t > to}]
        BY <1>3 DEF CancelTurn, Advance
  <2>5. /\ d.next = to
        /\ d.cancelled = {t \in pend : t > to}
        /\ d.ran = c.ran
        /\ d \in ClockType
        BY <1>1, <2>1, <2>3, <2>4 DEF ClockOK, ClockType
  <2> HIDE DEF to, d
  <2>6. Bounded(d.cancelled)
        BY <2>2, <2>5 DEF Bounded
  <2>7. \A i \in 1..Len(d.ran) : d.ran[i] < d.next
    <3>1. \A i \in 1..Len(c.ran) : c.ran[i] \in Nat /\ c.ran[i] < c.next
          BY <1>1 DEF ClockOK
    <3> QED BY <1>1, <2>3, <2>5, <3>1
  <2>8. \A n \in Nat : n >= d.next /\ n \in pend => n \in d.cancelled
        BY <2>3, <2>5
  <2> QED BY <1>1, <2>3, <2>5, <2>6, <2>7, <2>8 DEF ClockOK, d
<1> QED BY <1>2, <1>3

\* The state of the clock after a dispatch, and the log with it.
LEMMA DispatchAppends ==
    ASSUME IInv, NEW c, ClockOK(c), Dispatch(c)
    PROVE  /\ clock' = c
           /\ log' \in Seq(ClockType) /\ Len(log') > 0
           /\ \A k \in 1..Len(log') : ClockOK(log'[k])
<1>1. log \in Seq(ClockType) /\ Len(log) > 0 /\ c \in ClockType /\ Len(log) \in Nat
      BY DEF IInv, ClockTypeOK, ClockOK
<1>2. CASE c = clock
      BY <1>1, <1>2 DEF Dispatch, clock, IInv
<1>3. CASE c # clock
  <2>1. log' = Append(log, c)
        BY <1>3 DEF Dispatch
  <2>2. /\ Len(log') = Len(log) + 1
        /\ log'[Len(log) + 1] = c
        /\ \A k \in 1..Len(log) : log'[k] = log[k]
        /\ log' \in Seq(ClockType)
        BY <1>1, <2>1
  <2>3. \A k \in 1..Len(log') : ClockOK(log'[k])
        BY <1>1, <2>2 DEF IInv
  <2> QED BY <1>1, <2>2, <2>3 DEF clock
<1> QED BY <1>2, <1>3

LEMMA ClockIsOK == IInv => ClockOK(clock)
<1> SUFFICES ASSUME IInv PROVE ClockOK(clock)
    OBVIOUS
<1>1. Len(log) \in 1..Len(log)
      BY DEF IInv, ClockTypeOK
<1> QED BY <1>1 DEF IInv, clock

\* The lowest queued identifier, or the next one when none is queued, has not
\* been passed by the clock.
LEMMA LowestIsNotAhead ==
    ASSUME IInv, NEW id \in queued, \A t \in queued : id <= t
    PROVE  id <= clock.next
<1>1. clock.next \in Nat /\ clock.next \notin clock.cancelled
      BY ClockIsOK DEF ClockOK, ClockType
<1>2. id \in Nat /\ reserved \in Nat /\ id < reserved
      BY DEF IInv, ClockTypeOK, ReservationsOK
<1>3. CASE clock.next >= reserved
      BY <1>1, <1>2, <1>3
<1>4. CASE clock.next < reserved
  <2>1. clock.next \in clock.next..(reserved - 1)
        BY <1>1, <1>2, <1>4
  <2>2. clock.next \in queued
        BY <1>1, <2>1 DEF IInv, ReservationsOK
  <2> QED BY <2>2
<1> QED BY <1>1, <1>2, <1>3, <1>4

LEMMA InitOK == Init => IInv
<1> SUFFICES ASSUME Init PROVE IInv
    OBVIOUS
<1>1. log = <<InitClock>> /\ reserved = 0 /\ queued = {} /\ active = NoTurn
      BY DEF Init
<1>2. /\ InitClock \in ClockType /\ InitClock.next = 0 /\ InitClock.cancelled = {}
      /\ InitClock.ran = <<>>
      BY DEF InitClock, ClockType
<1>3. ClockOK(InitClock)
  <2>1. Bounded({})
        BY DEF Bounded
  <2> QED BY <1>2, <2>1 DEF ClockOK, Ascending
<1>4. log \in Seq(ClockType) /\ Len(log) = 1 /\ log[1] = InitClock
      BY <1>1, <1>2
<1>5. \A k \in 1..Len(log) : ClockOK(log[k])
      BY <1>3, <1>4
<1>6. ReservationsOK
      BY <1>1, <1>2, <1>4 DEF ReservationsOK, clock
<1> QED BY <1>1, <1>4, <1>5, <1>6 DEF IInv, ClockTypeOK

LEMMA CreateTurnOK == IInv /\ CreateTurn => IInv'
<1> SUFFICES ASSUME IInv, CreateTurn PROVE IInv'
    OBVIOUS
<1> DEFINE id == NewTurnId
<1>1. /\ ClockOK(clock) /\ clock.next \in Nat /\ reserved \in Nat
      /\ \A i \in 1..Len(clock.ran) : clock.ran[i] \in Nat /\ clock.ran[i] < clock.next
      /\ queued \in SUBSET Nat /\ clock.next \notin clock.cancelled
  <2>1. ClockOK(clock) /\ reserved \in Nat /\ queued \in SUBSET Nat
        BY ClockIsOK DEF IInv, ClockTypeOK
  <2> HIDE DEF id
  <2>2. clock.next \in Nat /\ clock.cancelled \in SUBSET Nat /\ clock.ran \in Seq(Nat)
        BY <2>1 DEF ClockOK, ClockType
  <2>3. \A i \in 1..Len(clock.ran) : clock.ran[i] \in Nat
        BY <2>2
  <2> QED BY <2>1, <2>2, <2>3 DEF ClockOK
<1>2. /\ id \in Nat /\ id >= clock.next /\ id >= reserved
      /\ id = reserved \/ id = clock.next
      BY <1>1 DEF NewTurnId
<1>3. reserved' = id + 1
      BY DEF CreateTurn
<1> HIDE DEF id
<1>4. CASE active = NoTurn
  <2>1. Dispatch(PromptTurn(clock, id)) /\ active' = id /\ queued' = queued
        BY <1>4 DEF CreateTurn, StartTurn, id
  <2>2. queued = {}
        BY <1>4 DEF IInv, ReservationsOK
  <2>3. reserved <= clock.next
    <3>1. SUFFICES ASSUME clock.next < reserved PROVE FALSE
          BY <1>1
    <3>2. clock.next \in clock.next..(reserved - 1)
          BY <1>1, <3>1
    <3> QED BY <1>1, <2>2, <3>2 DEF IInv, ReservationsOK
  <2>4. id = clock.next
        BY <1>1, <1>2, <2>3
  <2> DEFINE d == PromptTurn(clock, id)
  <2>5. ClockOK(d) /\ d.next > clock.next
        BY <1>1, <1>2, <2>4, PromptAdvances
  <2>6. /\ clock' = d
        /\ log' \in Seq(ClockType) /\ Len(log') > 0
        /\ \A k \in 1..Len(log') : ClockOK(log'[k])
        BY <2>1, <2>5, DispatchAppends
  <2>7. d.next \in Nat
        BY <2>5 DEF ClockOK, ClockType
  <2> HIDE DEF d
  <2>8. ReservationsOK'
    <3>1. \A n \in clock'.next..(reserved' - 1) : FALSE
          BY <1>1, <1>2, <1>3, <2>4, <2>5, <2>6, <2>7
    <3>2. active' < clock'.next
          BY <1>1, <2>1, <2>4, <2>5, <2>6, <2>7
    <3>3. active' # NoTurn
          BY <1>2, <2>1, NoTurnAssumption
    <3> QED BY <2>1, <2>2, <3>1, <3>2, <3>3 DEF ReservationsOK
  <2> QED BY <1>2, <1>3, <2>1, <2>2, <2>6, <2>8 DEF IInv, ClockTypeOK
<1>5. CASE active # NoTurn
  <2>1. queued' = queued \cup {id} /\ log' = log /\ active' = active
        BY <1>5 DEF CreateTurn, id
  <2>2. clock' = clock
        BY <2>1 DEF clock
  <2>3. \A n \in clock.next..(reserved' - 1) : n \in queued' \/ n \in clock.cancelled
    <3> TAKE n \in clock.next..(reserved' - 1)
    <3>1. n \in Nat /\ n >= clock.next /\ n <= id
          BY <1>1, <1>2, <1>3
    <3>2. CASE n < reserved
      <4>1. n \in clock.next..(reserved - 1)
            BY <1>1, <3>1, <3>2
      <4> QED BY <2>1, <4>1 DEF IInv, ReservationsOK
    <3>3. CASE n >= reserved
          BY <1>1, <1>2, <2>1, <3>1, <3>3
    <3> QED BY <1>1, <3>1, <3>2, <3>3
  <2>4. \A t \in queued' : t < reserved'
        BY <1>1, <1>2, <1>3, <2>1 DEF IInv, ReservationsOK
  <2>5. \A t \in queued' : \A i \in 1..Len(clock.ran) : clock.ran[i] < t
        BY <1>1, <1>2, <2>1 DEF IInv, ReservationsOK
  <2>6. ReservationsOK'
        BY <1>5, <2>1, <2>2, <2>3, <2>4, <2>5 DEF ReservationsOK, IInv
  <2> QED BY <1>1, <1>2, <1>3, <2>1, <2>6 DEF IInv, ClockTypeOK
<1> QED BY <1>4, <1>5

LEMMA EndActiveOK == IInv /\ EndActive => IInv'
<1> SUFFICES ASSUME IInv, EndActive PROVE IInv'
    OBVIOUS
<1>1. /\ ClockOK(clock) /\ clock.next \in Nat /\ reserved \in Nat
      /\ \A i \in 1..Len(clock.ran) : clock.ran[i] \in Nat
      /\ clock.ran \in Seq(Nat) /\ queued \in SUBSET Nat
      BY ClockIsOK, SMTT(30) DEF ClockOK, ClockType, IInv, ClockTypeOK
<1>2. reserved' = reserved /\ active # NoTurn
      BY DEF EndActive
<1>3. CASE queued = {} /\ active' = NoTurn /\ UNCHANGED <<log, queued>>
  <2>1. clock' = clock
        BY <1>3 DEF clock
  <2>2. ReservationsOK'
        BY <1>2, <1>3, <2>1 DEF ReservationsOK, IInv
  <2> QED BY <1>2, <1>3, <2>2 DEF IInv, ClockTypeOK
<1>4. CASE \E id \in queued : /\ \A t \in queued : id <= t
                              /\ StartTurn(id)
                              /\ queued' = queued \ {id}
  <2>1. PICK id \in queued : /\ \A t \in queued : id <= t
                             /\ StartTurn(id)
                             /\ queued' = queued \ {id}
        BY <1>4
  <2>2. id \in Nat /\ id <= clock.next
        BY <1>1, <2>1, LowestIsNotAhead
  <2>3. \A i \in 1..Len(clock.ran) : clock.ran[i] < id
        BY <2>1 DEF IInv, ReservationsOK
  <2> DEFINE d == PromptTurn(clock, id)
  <2>4. /\ ClockOK(d) /\ d.next > clock.next /\ d.ran = Append(clock.ran, id)
        /\ \A n \in Nat : n >= d.next /\ n \in clock.cancelled => n \in d.cancelled
        BY <1>1, <2>2, <2>3, PromptAdvances
  <2>5. Dispatch(d) /\ active' = id
        BY <2>1 DEF StartTurn
  <2>6. /\ clock' = d
        /\ log' \in Seq(ClockType) /\ Len(log') > 0
        /\ \A k \in 1..Len(log') : ClockOK(log'[k])
        BY <2>4, <2>5, DispatchAppends
  <2>7. d.next \in Nat
        BY <2>4 DEF ClockOK, ClockType
  <2> HIDE DEF d
  <2>8. \A t \in queued' : \A i \in 1..Len(d.ran) : d.ran[i] < t
    <3>1. \A t \in queued' : t \in Nat /\ t \in queued /\ id < t
          BY <1>1, <2>1, <2>2
    <3>2. /\ Len(d.ran) = Len(clock.ran) + 1 /\ Len(clock.ran) \in Nat
          /\ \A i \in 1..Len(clock.ran) : d.ran[i] = clock.ran[i]
          /\ d.ran[Len(clock.ran) + 1] = id
          BY <1>1, <2>2, <2>4
    <3>3. \A t \in queued' : \A i \in 1..Len(clock.ran) : clock.ran[i] < t
          BY <3>1 DEF IInv, ReservationsOK
    <3>4. \A i \in 1..Len(d.ran) : i \in 1..Len(clock.ran) \/ i = Len(clock.ran) + 1
          BY <3>2
    <3> QED BY <3>1, <3>2, <3>3, <3>4
  <2>9. \A n \in d.next..(reserved - 1) : n \in queued' \/ n \in d.cancelled
    <3> TAKE n \in d.next..(reserved - 1)
    <3>1. n \in Nat /\ n >= d.next /\ n > clock.next /\ n # id /\ n \in clock.next..(reserved - 1)
          BY <1>1, <2>2, <2>4, <2>7
    <3>2. n \in queued \/ n \in clock.cancelled
          BY <3>1 DEF IInv, ReservationsOK
    <3> QED BY <2>1, <2>4, <3>1, <3>2
  <2>10. active' # NoTurn /\ active' < clock'.next
        BY <1>1, <2>2, <2>4, <2>5, <2>6, <2>7, NoTurnAssumption
  <2>11. \A t \in queued' : t < reserved'
        BY <1>2, <2>1 DEF IInv, ReservationsOK
  <2>12. ReservationsOK'
        BY <1>2, <2>6, <2>8, <2>9, <2>10, <2>11 DEF ReservationsOK
  <2> QED BY <1>1, <1>2, <2>1, <2>2, <2>5, <2>6, <2>12 DEF IInv, ClockTypeOK
<1> QED BY <1>3, <1>4 DEF EndActive

LEMMA CancelQueuedOK ==
    ASSUME IInv, NEW id \in queued, CancelQueued(id)
    PROVE  IInv'
<1>1. /\ ClockOK(clock) /\ clock.next \in Nat /\ reserved \in Nat /\ queued \in SUBSET Nat
      /\ id \in Nat /\ active \in Nat \cup {NoTurn}
      BY ClockIsOK DEF ClockOK, ClockType, IInv, ClockTypeOK
<1> DEFINE d == CancelTurn(clock, id)
<1>2. /\ ClockOK(d) /\ d.next >= clock.next /\ d.ran = clock.ran
      /\ \A n \in Nat : n >= d.next /\ (n \in clock.cancelled \/ n = id) => n \in d.cancelled
      BY <1>1, CancelAdvances
<1>3. Dispatch(d) /\ queued' = queued \ {id} /\ reserved' = reserved /\ active' = active
      BY DEF CancelQueued
<1>4. /\ clock' = d
      /\ log' \in Seq(ClockType) /\ Len(log') > 0
      /\ \A k \in 1..Len(log') : ClockOK(log'[k])
      BY <1>2, <1>3, DispatchAppends
<1>5. d.next \in Nat
      BY <1>2 DEF ClockOK, ClockType
<1> HIDE DEF d
<1>6. \A n \in d.next..(reserved - 1) : n \in queued' \/ n \in d.cancelled
  <2> TAKE n \in d.next..(reserved - 1)
  <2>1. n \in Nat /\ n >= d.next /\ n \in clock.next..(reserved - 1)
        BY <1>1, <1>2, <1>5
  <2>2. n \in queued \/ n \in clock.cancelled
        BY <2>1 DEF IInv, ReservationsOK
  <2> QED BY <1>2, <1>3, <2>1, <2>2
<1>7. active' # NoTurn => active' < d.next
  <2>1. SUFFICES ASSUME active # NoTurn PROVE active < d.next
        BY <1>3
  <2>2. active < clock.next
        BY <2>1 DEF IInv, ReservationsOK
  <2> QED BY <1>1, <1>2, <1>5, <2>1, <2>2
<1>8. ReservationsOK'
      BY <1>2, <1>3, <1>4, <1>6, <1>7 DEF ReservationsOK, IInv
<1> QED BY <1>1, <1>3, <1>4, <1>8 DEF IInv, ClockTypeOK

LEMMA CancelActiveOK == IInv /\ CancelActive => IInv'
<1> SUFFICES ASSUME IInv, CancelActive PROVE IInv'
    OBVIOUS
<1>1. active < clock.next
      BY DEF CancelActive, IInv, ReservationsOK
<1>2. log' = log
      BY <1>1 DEF CancelActive, CancelTurn, Dispatch
<1>3. reserved' = reserved /\ queued' = queued /\ active' = active /\ clock' = clock
      BY <1>2 DEF CancelActive, clock
<1> QED BY <1>2, <1>3 DEF IInv, ClockTypeOK, ReservationsOK

LEMMA CrashOK ==
    ASSUME IInv, NEW n \in 1..Len(log), Crash(n)
    PROVE  IInv'
<1>1. /\ log' = SubSeq(log, 1, n)
      /\ reserved' = 0 /\ queued' = {} /\ active' = NoTurn
      BY DEF Crash
<1>2. log \in Seq(ClockType) /\ n \in Nat /\ n >= 1 /\ n <= Len(log)
      BY DEF IInv, ClockTypeOK
<1>3. /\ log' \in Seq(ClockType)
      /\ Len(log') = n
      /\ \A k \in 1..n : log'[k] = log[k]
      BY <1>1, <1>2
<1>4. \A k \in 1..Len(log') : ClockOK(log'[k])
      BY <1>2, <1>3 DEF IInv
<1>5. ReservationsOK'
  <2>1. clock' = log[n] /\ ClockOK(log[n])
        BY <1>2, <1>3 DEF clock, IInv
  <2>2. clock'.next \in Nat
        BY <2>1 DEF ClockOK, ClockType
  <2> QED BY <1>1, <2>2 DEF ReservationsOK
<1> QED BY <1>1, <1>2, <1>3, <1>4, <1>5 DEF IInv, ClockTypeOK

LEMMA StutterOK == IInv /\ UNCHANGED clockVars => IInv'
BY DEF IInv, ClockTypeOK, ReservationsOK, clock, clockVars

LEMMA ClockInvariant == ClockSpec => []IInv
<1>1. IInv /\ [Next]_clockVars => IInv'
  <2> SUFFICES ASSUME IInv, [Next]_clockVars PROVE IInv'
      OBVIOUS
  <2>1. CASE CreateTurn
        BY <2>1, CreateTurnOK
  <2>2. CASE EndActive
        BY <2>2, EndActiveOK
  <2>3. CASE \E id \in queued : CancelQueued(id)
        BY <2>3, CancelQueuedOK
  <2>4. CASE CancelActive
        BY <2>4, CancelActiveOK
  <2>5. CASE \E n \in 1..Len(log) : Crash(n)
        BY <2>5, CrashOK
  <2>6. CASE UNCHANGED clockVars
        BY <2>6, StutterOK
  <2> QED BY <2>1, <2>2, <2>3, <2>4, <2>5, <2>6 DEF Next
<1> QED BY <1>1, InitOK, PTL DEF ClockSpec

\* reserveTurnId and advanceTurnClock: whatever is cancelled and however often
\* the process stops, with whatever prefix of the log, the turns in the log
\* have increasing identifiers (loopService.ts:358, turnOps.ts:103).
THEOREM IdentifiersAreNeverReused == ClockSpec => []TurnIdsIncrease
<1>1. IInv => TurnIdsIncrease
      BY DEF IInv, ClockOK, TurnIdsIncrease
<1> QED BY <1>1, ClockInvariant, PTL
=============================================================================
