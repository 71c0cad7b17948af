---------------------------- MODULE SessionProofs ----------------------------
(***************************************************************************)
(* What holds of a session for every number of prompts, calls, turns and   *)
(* restarts: its turns are numbered by the clock, the prompt queue loses   *)
(* nothing and waits for nothing, the kernel forgets no request.           *)
(***************************************************************************)
EXTENDS Session, TurnClockProofs

-----------------------------------------------------------------------------
(***************************************************************************)
(* Every step is a step of the clock.                                      *)
(***************************************************************************)
LEMMA SessionStepIsClockStep == [SessionNext]_vars => [Next]_clockVars
<1> SUFFICES ASSUME [SessionNext]_vars PROVE [Next]_clockVars
    OBVIOUS
<1>1. CASE QueueOnly
  <2>1. CASE \E p \in Prompts : Enqueue(p) \/ Steer(p) \/ AbortPending(p)
        BY <2>1 DEF Enqueue, Steer, AbortPending
  <2>2. CASE HookReturns
        BY <2>2 DEF HookReturns, HookPasses, HookStops, Next
  <2>3. CASE \E id \in queued : AbortQueued(id)
        BY <2>3 DEF AbortQueued, Next
  <2>4. CASE OtherTurn
        BY <2>4 DEF OtherTurn, Next
  <2>5. CASE BeginCompaction \/ CancelCompaction \/ EndCompaction
        BY <2>5 DEF BeginCompaction, CancelCompaction, EndCompaction
  <2> QED BY <1>1, <2>1, <2>2, <2>3, <2>4, <2>5 DEF QueueOnly
<1>2. CASE MainTurnAborts
      BY <1>2 DEF MainTurnAborts, AbortActive, Next
<1>3. CASE MainTurnEnds
      BY <1>3 DEF MainTurnEnds, EndTurn, Next
<1>4. CASE \E c \in Calls : Respond(c) \/ \E a \in Agents, k \in Kinds : Ask(c, a, k)
      BY <1>4 DEF Respond, Ask, queueVars
<1>5. CASE SubStarts \/ SubEnds
      BY <1>5 DEF SubStarts, SubEnds, queueVars
<1>6. CASE \E n \in 1..Len(log) : SessionRestarts(n)
      BY <1>6 DEF SessionRestarts, Restart, Next
<1>7. CASE UNCHANGED vars
      BY <1>7 DEF vars, queueVars
<1> QED BY <1>1, <1>2, <1>3, <1>4, <1>5, <1>6, <1>7 DEF SessionNext

\* The prompt queue, the turns it creates, cancels and waits for, and the
\* restarts are steps of the clock of identifiers (promptService.ts:207,
\* loopService.ts:245, 451).
THEOREM SessionImplementsTurnClock == SafetySpec => ImplementsTurnClock
<1>1. SessionInit => Init
      BY DEF SessionInit, QueueInit
<1> QED BY <1>1, SessionStepIsClockStep, PTL DEF SafetySpec, ImplementsTurnClock, ClockSpec

\* No session numbers two turns alike, whatever is cancelled before it starts
\* and whatever part of the log a restart finds (loopService.ts:358).
THEOREM SessionNeverReusesIdentifiers == SafetySpec => []TurnIdsIncrease
BY SessionImplementsTurnClock, IdentifiersAreNeverReused, PTL DEF ImplementsTurnClock

-----------------------------------------------------------------------------
(***************************************************************************)
(* The prompt queue.  The invariant is that of NoPromptIsLost and          *)
(* PromptsInOrder, with what makes it inductive: startNext holds a prompt  *)
(* only while none is current, and prompts are pushed in their order.      *)
(***************************************************************************)
PromptStates == {"new", "pending", "running", "steered", "settled", "lost"}
Currents == [prompt : Prompts, turn : Nat] \cup {None}

QueueOK(pend, h, st, cur, fol) ==
    /\ pend \in Seq(Prompts)
    /\ h \in Prompts \cup {None}
    /\ st \in [Prompts -> PromptStates]
    /\ cur \in Currents
    /\ fol \in SUBSET Prompts
    /\ Ascending(pend)
    /\ h # None => cur = None /\ \A i \in 1..Len(pend) : h < pend[i]
    /\ cur # None => \A i \in 1..Len(pend) : cur.prompt < pend[i]
    /\ \A p \in Prompts : (st[p] = "pending") <=> (p = h \/ \E i \in 1..Len(pend) : pend[i] = p)
    /\ \A p \in Prompts : (st[p] = "running") <=> (cur # None /\ cur.prompt = p)
    /\ \A p \in Prompts : (st[p] = "steered") <=> p \in fol
    /\ \A p, q \in Prompts : p < q /\ st[p] = "new" => st[q] = "new"

QInv == /\ QueueOK(pending, held, state, current, followers)
        /\ ActiveHasLiveTurn
        /\ NoPromptWaitsForNothing
        /\ unwinding \in Nat

LEMMA PromptsAreNumbers == /\ Prompts \subseteq Nat
                           /\ None \notin Prompts
                           /\ \A c \in [prompt : Prompts, turn : Nat] : c # None
BY PromptAssumption DEF Prompts

\* What is left of an ascending queue is ascending, above what was taken.
LEMMA SuffixAscends ==
    ASSUME NEW s \in Seq(Prompts), Ascending(s), NEW k \in 0..Len(s), NEW t \in Seq(Prompts),
           Len(t) = Len(s) - k, \A i \in 1..Len(t) : t[i] = s[k + i]
    PROVE  /\ Ascending(t)
           /\ \A i \in 1..Len(t) : \A j \in 1..k : s[j] < t[i]
<1>1. Len(s) \in Nat /\ Len(t) \in Nat /\ k \in Nat
      OBVIOUS
<1>2. \A i \in 1..Len(t) : k + i \in 1..Len(s) /\ k + i > k
      BY <1>1
<1>3. \A j \in 1..k : j \in 1..Len(s)
      BY <1>1
<1>4. ASSUME NEW i \in 1..Len(t), NEW j \in 1..Len(t), i < j
      PROVE  t[i] < t[j]
  <2>1. k + i < k + j
        BY <1>1, <1>4
  <2> QED BY <1>2, <2>1 DEF Ascending
<1>5. ASSUME NEW i \in 1..Len(t), NEW j \in 1..k
      PROVE  s[j] < t[i]
  <2>1. j < k + i
        BY <1>1, <1>2
  <2> QED BY <1>2, <1>3, <2>1 DEF Ascending
<1> QED BY <1>4, <1>5 DEF Ascending

\* startNext keeps the invariant, and leaves nothing waiting for nothing.
LEMMA StartNextOK ==
    ASSUME NEW pend, NEW st, NEW cur, NEW fol, NEW act, NEW comp,
           QueueOK(pend, None, st, cur, fol),
           StartNext(pend, st, cur, act, comp)
    PROVE  /\ QueueOK(pending', held', state', cur, fol)
           /\ pending' # <<>> => held' # None \/ cur # None \/ comp
<1>1. /\ pend \in Seq(Prompts) /\ st \in [Prompts -> PromptStates] /\ Ascending(pend)
      /\ Len(pend) \in Nat
      /\ \A i \in 1..Len(pend) : pend[i] \in Prompts /\ pend[i] \in Nat
  <2>1. pend \in Seq(Prompts) /\ st \in [Prompts -> PromptStates] /\ Ascending(pend)
        BY DEF QueueOK
  <2>2. Len(pend) \in Nat /\ \A i \in 1..Len(pend) : pend[i] \in Prompts
        BY <2>1
  <2> QED BY <2>1, <2>2, PromptsAreNumbers
<1>2. CASE /\ cur # None \/ pend = <<>>
           /\ held' = None
           /\ pending' = pend
           /\ state' = st
      BY <1>2
<1>3. CASE /\ cur = None /\ pend # <<>> /\ ~HeldBack(act, comp)
           /\ held' = Head(pend)
           /\ pending' = Tail(pend)
           /\ state' = st
  <2> DEFINE h == Head(pend)
             t == Tail(pend)
  <2>1. /\ Len(pend) > 0
        /\ h = pend[1]
        /\ t \in Seq(Prompts)
        /\ Len(t) = Len(pend) - 1
        /\ \A i \in 1..Len(t) : t[i] = pend[1 + i]
        BY <1>1, <1>3
  <2> HIDE DEF h, t
  <2>2. h \in Prompts /\ h # None
        BY <1>1, <2>1, PromptsAreNumbers
  <2>3. 1 \in 0..Len(pend) /\ 1 \in 1..1
        BY <1>1, <2>1
  <2>4. Ascending(t) /\ \A i \in 1..Len(t) : h < t[i]
        BY <1>1, <2>1, <2>3, SuffixAscends
  <2>5. \A p : (\E i \in 1..Len(pend) : pend[i] = p) <=> (p = h \/ \E i \in 1..Len(t) : t[i] = p)
    <3> TAKE p
    <3>1. ASSUME NEW i \in 1..Len(pend), pend[i] = p
          PROVE  p = h \/ \E j \in 1..Len(t) : t[j] = p
      <4>1. CASE i = 1
            BY <2>1, <3>1, <4>1
      <4>2. CASE i # 1
        <5>1. i - 1 \in 1..Len(t) /\ t[i - 1] = pend[i]
              BY <1>1, <2>1, <4>2
        <5> QED BY <3>1, <5>1
      <4> QED BY <4>1, <4>2
    <3>2. ASSUME NEW j \in 1..Len(t), t[j] = p
          PROVE  \E i \in 1..Len(pend) : pend[i] = p
      <4>1. j + 1 \in 1..Len(pend)
            BY <1>1, <2>1
      <4> QED BY <2>1, <3>2, <4>1
    <3>3. 1 \in 1..Len(pend)
          BY <1>1, <2>1
    <3> QED BY <2>1, <3>1, <3>2, <3>3
  <2>6. \A p \in Prompts : (st[p] = "pending") <=> (p = h \/ \E i \in 1..Len(t) : t[i] = p)
        BY <2>5, PromptsAreNumbers DEF QueueOK
  <2>7. pending' = t /\ held' = h /\ state' = st /\ cur = None
        BY <1>3 DEF h, t
  <2> QED BY <2>1, <2>2, <2>4, <2>6, <2>7 DEF QueueOK
<1>4. CASE /\ cur = None /\ pend # <<>> /\ HeldBack(act, comp)
           /\ held' = None
           /\ \E n \in 0..Len(pend) :
                 /\ pending' = SubSeq(pend, n + 1, Len(pend))
                 /\ state' = [p \in Prompts |->
                                 IF p \in ToSet(SubSeq(pend, 1, n)) THEN "settled" ELSE st[p]]
  <2>1. PICK n \in 0..Len(pend) :
                 /\ pending' = SubSeq(pend, n + 1, Len(pend))
                 /\ state' = [p \in Prompts |->
                                 IF p \in ToSet(SubSeq(pend, 1, n)) THEN "settled" ELSE st[p]]
        BY <1>4
  <2> DEFINE t == SubSeq(pend, n + 1, Len(pend))
             f == SubSeq(pend, 1, n)
             F == ToSet(f)
             s == [p \in Prompts |-> IF p \in F THEN "settled" ELSE st[p]]
  <2>2. /\ t \in Seq(Prompts)
        /\ Len(t) = Len(pend) - n
        /\ \A i \in 1..Len(t) : t[i] = pend[n + i]
        BY <1>1
  <2>3. /\ f \in Seq(Prompts) /\ Len(f) = n
        /\ \A i \in 1..n : f[i] = pend[i]
        BY <1>1
  <2> HIDE DEF t, f
  <2>4. F = {pend[i] : i \in 1..n}
        BY <2>3 DEF ToSet
  <2>5. Ascending(t) /\ \A i \in 1..Len(t) : \A j \in 1..n : pend[j] < t[i]
        BY <1>1, <2>2, SuffixAscends
  <2>6. \A i \in 1..Len(t) : t[i] \notin F
    <3> SUFFICES ASSUME NEW i \in 1..Len(t), NEW j \in 1..n, t[i] = pend[j]
                 PROVE  FALSE
        BY <2>4
    <3>1. pend[j] \in Nat
          BY <1>1
    <3> QED BY <2>5, <3>1
  <2>7. \A p : (\E i \in 1..Len(pend) : pend[i] = p) => p \in F \/ \E i \in 1..Len(t) : t[i] = p
    <3> SUFFICES ASSUME NEW i \in 1..Len(pend), i > n
                 PROVE  \E j \in 1..Len(t) : t[j] = pend[i]
        BY <1>1, <2>4
    <3>1. i - n \in 1..Len(t) /\ n + (i - n) = i
          BY <1>1, <2>2
    <3> QED BY <2>2, <3>1
  <2>8. \A i \in 1..Len(t) : \E j \in 1..Len(pend) : pend[j] = t[i]
    <3> TAKE i \in 1..Len(t)
    <3>1. n + i \in 1..Len(pend)
          BY <1>1, <2>2
    <3> QED BY <2>2, <3>1
  <2>9. \A p \in F : p \in Prompts /\ st[p] = "pending"
        BY <1>1, <2>4 DEF QueueOK
  <2> HIDE DEF F
  <2>10. /\ s \in [Prompts -> PromptStates]
         /\ \A p \in Prompts : s[p] = IF p \in F THEN "settled" ELSE st[p]
        BY <1>1 DEF PromptStates
  <2> HIDE DEF s
  <2>11. \A p \in Prompts : (s[p] = "pending") <=> (p = None \/ \E i \in 1..Len(t) : t[i] = p)
    <3> TAKE p \in Prompts
    <3>1. (st[p] = "pending") <=> \E i \in 1..Len(pend) : pend[i] = p
          BY PromptsAreNumbers DEF QueueOK
    <3> QED BY <2>6, <2>7, <2>8, <2>10, <3>1, PromptsAreNumbers
  <2>12. /\ \A p \in Prompts : (s[p] = "running") <=> (cur # None /\ cur.prompt = p)
         /\ \A p \in Prompts : (s[p] = "steered") <=> p \in fol
         /\ \A p, q \in Prompts : p < q /\ s[p] = "new" => s[q] = "new"
        BY <2>9, <2>10 DEF QueueOK
  <2>13. pending' = t /\ state' = s /\ held' = None /\ cur = None
        BY <1>4, <2>1 DEF t, s, F, f
  <2>14. comp
        BY <1>4 DEF HeldBack
  <2> QED BY <2>2, <2>5, <2>10, <2>11, <2>12, <2>13, <2>14 DEF QueueOK
<1> QED BY <1>2, <1>3, <1>4 DEF StartNext

\* splice takes one prompt out of the queue and leaves the others as they were.
LEMMA SpliceOK ==
    ASSUME NEW p \in Prompts, pending \in Seq(Prompts), Ascending(pending), Splice(p)
    PROVE  /\ pending' \in Seq(Prompts)
           /\ Ascending(pending')
           /\ \E i \in 1..Len(pending) : pending[i] = p
           /\ \A q : (\E i \in 1..Len(pending') : pending'[i] = q)
                        <=> (q # p /\ \E i \in 1..Len(pending) : pending[i] = q)
<1>1. PICK k \in 1..Len(pending) : pending[k] = p /\ pending' = RemoveAt(pending, k)
      BY DEF Splice
<1> DEFINE a == SubSeq(pending, 1, k - 1)
           b == SubSeq(pending, k + 1, Len(pending))
           t == a \o b
<1>2. pending' = t
      BY <1>1 DEF RemoveAt
<1>3. /\ Len(pending) \in Nat /\ k \in Nat /\ k >= 1 /\ k <= Len(pending)
      /\ \A i \in 1..Len(pending) : pending[i] \in Nat
  <2>1. /\ Len(pending) \in Nat
        /\ \A i \in 1..Len(pending) : pending[i] \in Prompts
        OBVIOUS
  <2>2. k \in Nat /\ k >= 1 /\ k <= Len(pending)
        BY <2>1
  <2> QED BY <2>1, <2>2, PromptsAreNumbers
<1>4. /\ a \in Seq(Prompts) /\ Len(a) = k - 1
      /\ \A i \in 1..(k - 1) : a[i] = pending[i]
      BY <1>3
<1>5. /\ b \in Seq(Prompts) /\ Len(b) = Len(pending) - k
      /\ \A i \in 1..(Len(pending) - k) : b[i] = pending[k + i]
      BY <1>3
<1> HIDE DEF a, b
<1>6. /\ t \in Seq(Prompts)
      /\ Len(t) = Len(pending) - 1
      /\ \A i \in 1..Len(t) : t[i] = IF i < k THEN pending[i] ELSE pending[i + 1]
  <2>1. t \in Seq(Prompts) /\ Len(t) = Len(a) + Len(b)
    <3>1. a \in Seq(Prompts) /\ b \in Seq(Prompts)
          BY <1>4, <1>5
    <3> QED BY <3>1
  <2>2. \A i \in 1..Len(t) : t[i] = IF i <= Len(a) THEN a[i] ELSE b[i - Len(a)]
        BY <1>4, <1>5
  <2>3. ASSUME NEW i \in 1..Len(t)
        PROVE  t[i] = IF i < k THEN pending[i] ELSE pending[i + 1]
    <3>1. i \in Nat /\ i >= 1 /\ i <= Len(pending) - 1
          BY <1>3, <1>4, <1>5, <2>1
    <3>2. CASE i < k
          BY <1>3, <1>4, <2>2, <3>1, <3>2
    <3>3. CASE i >= k
      <4>1. /\ i - (k - 1) \in 1..(Len(pending) - k)
            /\ k + (i - (k - 1)) = i + 1
            BY <1>3, <3>1, <3>3
      <4>2. t[i] = b[i - (k - 1)]
            BY <1>3, <1>4, <2>2, <3>1, <3>3
      <4> QED BY <1>3, <1>5, <3>1, <3>3, <4>1, <4>2
    <3> QED BY <1>3, <3>1, <3>2, <3>3
  <2> QED BY <1>3, <1>4, <1>5, <2>1, <2>3
<1> HIDE DEF t
<1>7. ASSUME NEW i \in 1..Len(t)
      PROVE  \E j \in 1..Len(pending) : j # k /\ t[i] = pending[j]
  <2>1. CASE i < k
        BY <1>3, <1>6, <2>1
  <2>2. CASE i >= k
        BY <1>3, <1>6, <2>2
  <2> QED BY <1>3, <2>1, <2>2
<1>8. ASSUME NEW j \in 1..Len(pending), j # k
      PROVE  \E i \in 1..Len(t) : t[i] = pending[j]
  <2>1. CASE j < k
    <3>1. j \in 1..Len(t)
          BY <1>3, <1>6, <2>1
    <3> QED BY <1>6, <2>1, <3>1
  <2>2. CASE j > k
    <3>1. j - 1 \in 1..Len(t) /\ ~(j - 1 < k) /\ (j - 1) + 1 = j
          BY <1>3, <1>6, <2>2
    <3> QED BY <1>6, <3>1
  <2> QED BY <1>3, <1>8, <2>1, <2>2
<1>9. \A j \in 1..Len(pending) : j # k => pending[j] # p
  <2> TAKE j \in 1..Len(pending)
  <2>1. j < k \/ j > k \/ j = k
        BY <1>3
  <2> QED BY <1>1, <1>3, <2>1 DEF Ascending
<1>10. Ascending(t)
  <2> SUFFICES ASSUME NEW i \in 1..Len(t), NEW j \in 1..Len(t), i < j
               PROVE  t[i] < t[j]
      BY DEF Ascending
  <2>1. /\ i \in 1..Len(pending) /\ j \in 1..Len(pending)
        /\ i + 1 \in 1..Len(pending) /\ j + 1 \in 1..Len(pending)
        BY <1>3, <1>6
  <2>2. CASE i < k /\ j < k
        BY <1>6, <2>1, <2>2 DEF Ascending
  <2>3. CASE i < k /\ j >= k
    <3>1. i < j + 1
          BY <2>1
    <3> QED BY <1>3, <1>6, <2>1, <2>3, <3>1 DEF Ascending
  <2>4. CASE i >= k
    <3>1. i + 1 < j + 1 /\ ~(i < k) /\ ~(j < k)
          BY <1>3, <2>1, <2>4
    <3>2. t[i] = pending[i + 1] /\ t[j] = pending[j + 1]
          BY <1>6, <3>1
    <3> QED BY <2>1, <3>1, <3>2 DEF Ascending
  <2>5. i < k \/ i >= k
        BY <1>3
  <2>6. j < k \/ j >= k
        BY <1>3
  <2> QED BY <2>2, <2>3, <2>4, <2>5, <2>6
<1>11. ASSUME NEW q
       PROVE  (\E i \in 1..Len(t) : t[i] = q) <=> (q # p /\ \E i \in 1..Len(pending) : pending[i] = q)
  <2>1. ASSUME NEW i \in 1..Len(t), t[i] = q
        PROVE  q # p /\ \E j \in 1..Len(pending) : pending[j] = q
        BY <1>7, <1>9, <2>1
  <2>2. ASSUME q # p, NEW j \in 1..Len(pending), pending[j] = q
        PROVE  \E i \in 1..Len(t) : t[i] = q
        BY <1>1, <1>8, <2>2
  <2> QED BY <2>1, <2>2
<1> QED BY <1>1, <1>2, <1>6, <1>10, <1>11

LEMMA EnqueueOK ==
    ASSUME QInv, NEW p \in Prompts, Enqueue(p)
    PROVE  QInv'
<1> DEFINE pend == Append(pending, p)
           st == [state EXCEPT ![p] = "pending"]
<1>1. /\ state[p] = "new"
      /\ \A q \in Prompts : q < p => state[q] # "new"
      /\ current' = current /\ followers' = followers /\ UNCHANGED <<compacting, unwinding>>
      /\ queued' = queued /\ active' = active
      BY DEF Enqueue, clockVars, envVars
<1>2. /\ pending \in Seq(Prompts) /\ state \in [Prompts -> PromptStates]
      /\ Len(pending) \in Nat /\ Ascending(pending)
      /\ \A q \in Prompts : q \in Nat
  <2>1. pending \in Seq(Prompts) /\ state \in [Prompts -> PromptStates] /\ Ascending(pending)
        BY DEF QInv, QueueOK
  <2> QED BY <2>1, PromptsAreNumbers
<1>3. /\ pend \in Seq(Prompts) /\ Len(pend) = Len(pending) + 1
      /\ \A i \in 1..Len(pending) : pend[i] = pending[i]
      /\ pend[Len(pending) + 1] = p
      BY <1>2
<1>4. /\ st \in [Prompts -> PromptStates]
      /\ \A q \in Prompts : st[q] = IF q = p THEN "pending" ELSE state[q]
      BY <1>2 DEF PromptStates
<1> HIDE DEF pend, st
<1>5. \A q \in Prompts : state[q] # "new" => q < p
      BY <1>1, <1>2 DEF QInv, QueueOK
<1>6. \A i \in 1..Len(pending) : pending[i] \in Prompts /\ pending[i] < p
  <2> TAKE i \in 1..Len(pending)
  <2>1. pending[i] \in Prompts
        BY <1>2
  <2>2. state[pending[i]] = "pending"
        BY <2>1 DEF QInv, QueueOK
  <2> QED BY <1>5, <2>1, <2>2
<1>7. Ascending(pend)
  <2> SUFFICES ASSUME NEW i \in 1..Len(pend), NEW j \in 1..Len(pend), i < j
               PROVE  pend[i] < pend[j]
      BY DEF Ascending
  <2>1. i \in 1..Len(pending)
        BY <1>2, <1>3
  <2>2. CASE j \in 1..Len(pending)
    <3>1. pend[i] = pending[i] /\ pend[j] = pending[j]
          BY <1>3, <2>1, <2>2
    <3>2. pending[i] < pending[j]
          BY <1>2, <2>1, <2>2 DEF Ascending
    <3> QED BY <3>1, <3>2
  <2>3. CASE j = Len(pending) + 1
    <3>1. pend[i] = pending[i] /\ pend[j] = p /\ pending[i] < p
          BY <1>3, <1>6, <2>1, <2>3
    <3> QED BY <3>1
  <2>4. Len(pend) = Len(pending) + 1 /\ Len(pending) \in Nat
        BY <1>2, <1>3
  <2>5. j \in 1..Len(pending) \/ j = Len(pending) + 1
        BY <2>4
  <2> QED BY <2>2, <2>3, <2>5
<1>8. \A q : (\E i \in 1..Len(pend) : pend[i] = q) <=> (q = p \/ \E i \in 1..Len(pending) : pending[i] = q)
  <2> TAKE q
  <2>1. /\ Len(pending) + 1 \in 1..Len(pend)
        /\ \A i \in 1..Len(pending) : i \in 1..Len(pend)
        /\ \A i \in 1..Len(pend) : i \in 1..Len(pending) \/ i = Len(pending) + 1
        BY <1>2, <1>3
  <2> QED BY <1>3, <2>1
<1>9. QueueOK(pend, held, st, current, followers)
  <2>1. held # None => current = None /\ \A i \in 1..Len(pend) : held < pend[i]
    <3> SUFFICES ASSUME held # None
                 PROVE  current = None /\ \A i \in 1..Len(pend) : held < pend[i]
        OBVIOUS
    <3>1. held \in Prompts /\ state[held] = "pending"
          BY DEF QInv, QueueOK
    <3>2. held < p
          BY <1>5, <3>1
    <3>3. current = None /\ \A i \in 1..Len(pending) : held < pending[i]
          BY DEF QInv, QueueOK
    <3>4. \A i \in 1..Len(pend) : i \in 1..Len(pending) \/ i = Len(pending) + 1
          BY <1>2, <1>3
    <3> QED BY <1>3, <3>2, <3>3, <3>4
  <2>2. current # None => \A i \in 1..Len(pend) : current.prompt < pend[i]
    <3> SUFFICES ASSUME current # None
                 PROVE  \A i \in 1..Len(pend) : current.prompt < pend[i]
        OBVIOUS
    <3>1. current.prompt \in Prompts /\ state[current.prompt] = "running"
          BY DEF QInv, QueueOK, Currents
    <3>2. current.prompt < p
          BY <1>5, <3>1
    <3>3. \A i \in 1..Len(pending) : current.prompt < pending[i]
          BY DEF QInv, QueueOK
    <3>4. \A i \in 1..Len(pend) : i \in 1..Len(pending) \/ i = Len(pending) + 1
          BY <1>2, <1>3
    <3> QED BY <1>3, <3>2, <3>3, <3>4
  <2>3. \A q \in Prompts : (st[q] = "pending") <=> (q = held \/ \E i \in 1..Len(pend) : pend[i] = q)
        BY <1>4, <1>8 DEF QInv, QueueOK
  <2>4. /\ \A q \in Prompts : (st[q] = "running") <=> (current # None /\ current.prompt = q)
        /\ \A q \in Prompts : (st[q] = "steered") <=> q \in followers
        BY <1>1, <1>4 DEF QInv, QueueOK
  <2>5. \A q, r \in Prompts : q < r /\ st[q] = "new" => st[r] = "new"
        BY <1>1, <1>2, <1>4, <1>5 DEF QInv, QueueOK
  <2> QED BY <1>3, <1>4, <1>7, <2>1, <2>2, <2>3, <2>4, <2>5 DEF QInv, QueueOK
<1>10. /\ QueueOK(pending', held', state', current, followers)
       /\ pending' # <<>> => held' # None \/ current # None \/ compacting
  <2>1. CASE current = None /\ held = None /\ ~HeldBack(active, compacting)
    <3>1. StartNext(pend, st, None, active, compacting)
          BY <2>1 DEF Enqueue, pend, st
    <3>2. QueueOK(pend, None, st, None, followers)
          BY <1>9, <2>1
    <3> QED BY <2>1, <3>1, <3>2, StartNextOK
  <2>2. CASE ~(current = None /\ held = None /\ ~HeldBack(active, compacting))
    <3>1. pending' = pend /\ state' = st /\ held' = held
          BY <2>2 DEF Enqueue, pend, st
    <3> QED BY <1>9, <2>2, <3>1 DEF HeldBack
  <2> QED BY <2>1, <2>2
<1> QED BY <1>1, <1>10 DEF QInv, ActiveHasLiveTurn, NoPromptWaitsForNothing

LEMMA HookStopsOK == QInv /\ HookStops => QInv'
<1> SUFFICES ASSUME QInv, HookStops PROVE QInv'
    OBVIOUS
<1> DEFINE st == [state EXCEPT ![held] = "settled"]
<1>1. /\ held # None /\ held \in Prompts /\ current = None
      /\ StartNext(pending, st, current, active, compacting)
      /\ current' = current /\ followers' = followers /\ UNCHANGED <<compacting, unwinding>>
      /\ queued' = queued /\ active' = active
      BY DEF HookStops, clockVars, envVars, QInv, QueueOK
<1>2. /\ st \in [Prompts -> PromptStates]
      /\ \A q \in Prompts : st[q] = IF q = held THEN "settled" ELSE state[q]
      BY <1>1 DEF PromptStates, QInv, QueueOK
<1> HIDE DEF st
<1>3. QueueOK(pending, None, st, current, followers)
  <2>1. state[held] = "pending"
        BY <1>1 DEF QInv, QueueOK
  <2>2. \A i \in 1..Len(pending) : held < pending[i] /\ pending[i] \in Nat /\ held \in Nat
        BY <1>1, PromptsAreNumbers DEF QInv, QueueOK
  <2>3. \A i \in 1..Len(pending) : pending[i] # held
        BY <2>2
  <2>4. \A q \in Prompts : (st[q] = "pending") <=> (q = None \/ \E i \in 1..Len(pending) : pending[i] = q)
        BY <1>1, <1>2, <2>3, PromptsAreNumbers DEF QInv, QueueOK
  <2>5. /\ \A q \in Prompts : (st[q] = "running") <=> (current # None /\ current.prompt = q)
        /\ \A q \in Prompts : (st[q] = "steered") <=> q \in followers
        /\ \A q, r \in Prompts : q < r /\ st[q] = "new" => st[r] = "new"
        BY <1>1, <1>2, <2>1 DEF QInv, QueueOK
  <2> QED BY <1>1, <1>2, <2>4, <2>5 DEF QInv, QueueOK
<1>4. /\ QueueOK(pending', held', state', current, followers)
      /\ pending' # <<>> => held' # None \/ current # None \/ compacting
      BY <1>1, <1>3, StartNextOK
<1> QED BY <1>1, <1>4 DEF QInv, ActiveHasLiveTurn, NoPromptWaitsForNothing

\* The invariant of the queue speaks of turns only through the current one.
LEMMA TurnsOfQueue ==
    QInv => /\ unwinding \in Nat
            /\ current # None => current.turn \in queued \cup {active}
            /\ followers # {} => current # None
            /\ current # None => /\ current.prompt \in Prompts
                                 /\ current.turn \in Nat
                                 /\ state[current.prompt] = "running"
                                 /\ held = None
BY DEF QInv, QueueOK, ActiveHasLiveTurn, Currents

\* A turn that is created or started is queued or active.
LEMMA CreateTurnKeepsTurns ==
    ASSUME CreateTurn, IInv
    PROVE  /\ queued \cup {active} \subseteq queued' \cup {active', NoTurn}
           /\ NewTurnId \in queued' \cup {active'}
           /\ NewTurnId \in Nat
<1>1. NewTurnId \in Nat
      BY ClockIsOK DEF NewTurnId, IInv, ClockTypeOK, ClockOK, ClockType
<1> QED BY <1>1 DEF CreateTurn, StartTurn

LEMMA HookPassesOK == QInv /\ IInv /\ HookPasses => QInv'
<1> SUFFICES ASSUME QInv, IInv, HookPasses PROVE QInv'
    OBVIOUS
<1> DEFINE cur == [prompt |-> held, turn |-> NewTurnId]
<1>1. /\ held \in Prompts /\ held # None /\ current = None /\ followers = {}
      /\ \A i \in 1..Len(pending) : held < pending[i]
      /\ state[held] = "pending"
      BY TurnsOfQueue DEF HookPasses, QInv, QueueOK
<1>2. /\ current' = cur
      /\ state' = [state EXCEPT ![held] = "running"]
      /\ held' = None /\ pending' = pending /\ followers' = followers
      /\ UNCHANGED <<compacting, unwinding>>
      BY DEF HookPasses, envVars
<1>3. cur.turn \in queued' \cup {active'} /\ NewTurnId \in Nat
      BY CreateTurnKeepsTurns DEF HookPasses
<1>4. cur \in [prompt : Prompts, turn : Nat] /\ cur.prompt = held /\ cur # None
  <2>1. cur \in [prompt : Prompts, turn : Nat]
        BY <1>1, <1>3
  <2> QED BY <2>1, PromptsAreNumbers
<1> HIDE DEF cur
<1>5. /\ state' \in [Prompts -> PromptStates]
      /\ \A q \in Prompts : state'[q] = IF q = held THEN "running" ELSE state[q]
      BY <1>1, <1>2 DEF PromptStates, QInv, QueueOK
<1>6. QueueOK(pending', held', state', current', followers')
  <2>1. \A i \in 1..Len(pending) : pending[i] # held
    <3>1. \A i \in 1..Len(pending) : pending[i] \in Nat /\ held \in Nat
          BY <1>1, PromptsAreNumbers DEF QInv, QueueOK
    <3> QED BY <1>1, <3>1
  <2>2. \A q \in Prompts : (state'[q] = "pending") <=> (q = None \/ \E i \in 1..Len(pending) : pending[i] = q)
        BY <1>1, <1>5, <2>1, PromptsAreNumbers DEF QInv, QueueOK
  <2>3. \A q \in Prompts : (state'[q] = "running") <=> cur.prompt = q
        BY <1>1, <1>4, <1>5 DEF QInv, QueueOK
  <2>4. /\ \A q \in Prompts : (state'[q] = "steered") <=> q \in followers
        /\ \A q, r \in Prompts : q < r /\ state'[q] = "new" => state'[r] = "new"
        BY <1>1, <1>5 DEF QInv, QueueOK
  <2>5. pending \in Seq(Prompts) /\ Ascending(pending) /\ followers \in SUBSET Prompts
        BY DEF QInv, QueueOK
  <2> QED BY <1>1, <1>2, <1>4, <1>5, <2>2, <2>3, <2>4, <2>5 DEF QueueOK, Currents
<1> QED BY <1>2, <1>3, <1>4, <1>6 DEF QInv, ActiveHasLiveTurn, NoPromptWaitsForNothing

\* A pending prompt leaves the queue for the state s.
LEMMA TakenOut ==
    ASSUME QInv, NEW p \in Prompts, NEW s \in {"steered", "settled"}, Splice(p),
           held' = held, current' = current,
           state' = [state EXCEPT ![p] = s],
           followers' = IF s = "steered" THEN followers \cup {p} ELSE followers
    PROVE  QueueOK(pending', held', state', current', followers')
<1>1. /\ pending \in Seq(Prompts) /\ Ascending(pending) /\ state \in [Prompts -> PromptStates]
      /\ held \in Prompts \cup {None} /\ current \in Currents /\ followers \in SUBSET Prompts
      BY DEF QInv, QueueOK
<1>2. /\ pending' \in Seq(Prompts)
      /\ Ascending(pending')
      /\ \E i \in 1..Len(pending) : pending[i] = p
      /\ \A q : (\E i \in 1..Len(pending') : pending'[i] = q)
                   <=> (q # p /\ \E i \in 1..Len(pending) : pending[i] = q)
      BY <1>1, SpliceOK
<1>3. state[p] = "pending" /\ p # held
  <2>1. PICK i \in 1..Len(pending) : pending[i] = p
        BY <1>2
  <2>2. state[p] = "pending"
        BY <2>1 DEF QInv, QueueOK
  <2>3. ASSUME p = held PROVE FALSE
    <3>1. held < pending[i] /\ held \in Nat
          BY <2>3, PromptsAreNumbers DEF QInv, QueueOK
    <3> QED BY <2>1, <2>3, <3>1
  <2> QED BY <2>2, <2>3
<1>4. /\ state' \in [Prompts -> PromptStates]
      /\ \A q \in Prompts : state'[q] = IF q = p THEN s ELSE state[q]
      BY <1>1 DEF PromptStates
<1>5. \A i \in 1..Len(pending') : \E j \in 1..Len(pending) : pending[j] = pending'[i]
      BY <1>2
<1>6. /\ held' # None => current' = None /\ \A i \in 1..Len(pending') : held' < pending'[i]
      /\ current' # None => \A i \in 1..Len(pending') : current'.prompt < pending'[i]
      BY <1>5 DEF QInv, QueueOK
<1>7. \A q \in Prompts : (state'[q] = "pending") <=> (q = held \/ \E i \in 1..Len(pending') : pending'[i] = q)
      BY <1>2, <1>3, <1>4 DEF QInv, QueueOK
<1>8. /\ \A q \in Prompts : (state'[q] = "running") <=> (current # None /\ current.prompt = q)
      /\ \A q \in Prompts : (state'[q] = "steered") <=> q \in followers'
      /\ \A q, r \in Prompts : q < r /\ state'[q] = "new" => state'[r] = "new"
      BY <1>3, <1>4 DEF QInv, QueueOK
<1>9. followers' \in SUBSET Prompts
      BY <1>1
<1> QED BY <1>1, <1>2, <1>4, <1>6, <1>7, <1>8, <1>9 DEF QueueOK

LEMMA SteerOK ==
    ASSUME QInv, NEW p \in Prompts, Steer(p)
    PROVE  QInv'
<1>1. /\ current # None /\ current' = current
      /\ queued' = queued /\ active' = active /\ unwinding' = unwinding
      BY DEF Steer, clockVars, envVars
<1>2. QueueOK(pending', held', state', current', followers')
      BY TakenOut DEF Steer
<1> QED BY <1>1, <1>2 DEF QInv, ActiveHasLiveTurn, NoPromptWaitsForNothing

LEMMA AbortPendingOK ==
    ASSUME QInv, NEW p \in Prompts, AbortPending(p)
    PROVE  QInv'
<1>1. /\ current' = current /\ followers' = followers /\ held' = held
      /\ queued' = queued /\ active' = active /\ UNCHANGED <<compacting, unwinding>>
      BY DEF AbortPending, clockVars, envVars
<1>2. QueueOK(pending', held', state', current', followers')
      BY TakenOut DEF AbortPending
<1>3. \E i \in 1..Len(pending) : pending[i] = p
      BY DEF AbortPending, Splice
<1>4. pending # <<>>
      BY <1>3
<1> QED BY <1>1, <1>2, <1>4 DEF QInv, ActiveHasLiveTurn, NoPromptWaitsForNothing

\* settle keeps the invariant when the current prompt's turn lives on or is the
\* one that has its result.
LEMMA SettleOK ==
    ASSUME QInv, NEW id, Settle(id), UNCHANGED <<compacting, unwinding>>,
           current # None /\ current.turn # id => current.turn \in queued' \cup {active'}
    PROVE  QInv'
<1>1. CASE current # None /\ current.turn = id
  <2> DEFINE st == SettledStates
  <2>1. /\ current' = None /\ followers' = {}
        /\ StartNext(pending, st, None, active', compacting)
        BY <1>1 DEF Settle
  <2>2. /\ st \in [Prompts -> PromptStates]
        /\ \A p \in Prompts : st[p] = IF p = current.prompt \/ p \in followers
                                     THEN "settled" ELSE state[p]
        BY DEF SettledStates, PromptStates, QInv, QueueOK
  <2> HIDE DEF st
  <2>3. \A p \in Prompts : p = current.prompt \/ p \in followers => state[p] \in {"running", "steered"}
        BY <1>1 DEF QInv, QueueOK
  <2>4. \A p \in Prompts : state[p] \in {"running", "steered"} => p = current.prompt \/ p \in followers
        BY <1>1 DEF QInv, QueueOK
  <2>5. held = None
        BY <1>1, TurnsOfQueue
  <2>6. /\ \A p \in Prompts : (st[p] = "pending") <=> state[p] = "pending"
        /\ \A p \in Prompts : (st[p] = "new") <=> state[p] = "new"
        /\ \A p \in Prompts : st[p] # "running" /\ st[p] # "steered"
        BY <2>2, <2>3, <2>4
  <2>7. QueueOK(pending, None, st, None, {})
    <3>1. \A p \in Prompts : (st[p] = "pending") <=> (p = None \/ \E i \in 1..Len(pending) : pending[i] = p)
          BY <2>5, <2>6 DEF QInv, QueueOK
    <3>2. \A p, q \in Prompts : p < q /\ st[p] = "new" => st[q] = "new"
          BY <2>6 DEF QInv, QueueOK
    <3>3. pending \in Seq(Prompts) /\ Ascending(pending)
          BY DEF QInv, QueueOK
    <3> QED BY <2>2, <2>6, <3>1, <3>2, <3>3 DEF QueueOK, Currents
  <2>8. /\ QueueOK(pending', held', state', None, {})
        /\ pending' # <<>> => held' # None \/ None # None \/ compacting
        BY <2>1, <2>7, StartNextOK
  <2> QED BY <2>1, <2>8 DEF QInv, ActiveHasLiveTurn, NoPromptWaitsForNothing
<1>2. CASE ~(current # None /\ current.turn = id)
  <2>1. UNCHANGED promptVars
        BY <1>2 DEF Settle
  <2>2. /\ pending' = pending /\ held' = held /\ state' = state
        /\ current' = current /\ followers' = followers
        BY <2>1 DEF promptVars
  <2> QED BY <1>2, <2>2 DEF QInv, ActiveHasLiveTurn, NoPromptWaitsForNothing
<1> QED BY <1>1, <1>2

LEMMA AbortQueuedOK ==
    ASSUME QInv, NEW id \in queued, AbortQueued(id)
    PROVE  QInv'
<1>1. /\ queued' = queued \ {id} /\ active' = active /\ UNCHANGED <<compacting, unwinding>>
      /\ Settle(id)
      BY DEF AbortQueued, CancelQueued, envVars
<1> QED BY <1>1, TurnsOfQueue, SettleOK

LEMMA EndTurnOK == QInv /\ EndTurn => QInv'
<1> SUFFICES ASSUME QInv, EndTurn PROVE QInv'
    OBVIOUS
<1>1. EndActive /\ Settle(active) /\ UNCHANGED <<compacting, unwinding>>
      BY DEF EndTurn, envVars
<1>2. queued \subseteq queued' \cup {active'}
      BY <1>1 DEF EndActive, StartTurn
<1> QED BY <1>1, <1>2, TurnsOfQueue, SettleOK

\* The steps that leave the prompts alone.
LEMMA PromptsUntouched ==
    ASSUME QInv, UNCHANGED promptVars, unwinding' \in Nat,
           compacting \/ unwinding > 0 => compacting' \/ unwinding' > 0,
           current # None => current.turn \in queued' \cup {active'}
    PROVE  QInv'
<1>1. /\ pending' = pending /\ held' = held /\ state' = state
      /\ current' = current /\ followers' = followers
      BY DEF promptVars
<1> QED BY <1>1 DEF QInv, ActiveHasLiveTurn, NoPromptWaitsForNothing

LEMMA OtherTurnOK == QInv /\ IInv /\ OtherTurn => QInv'
<1> SUFFICES ASSUME QInv, IInv, OtherTurn PROVE QInv'
    OBVIOUS
<1>1. UNCHANGED promptVars /\ UNCHANGED <<compacting, unwinding>> /\ CreateTurn
      BY DEF OtherTurn, envVars
<1>2. queued \cup {active} \subseteq queued' \cup {active', NoTurn}
      BY <1>1, CreateTurnKeepsTurns
<1> QED BY <1>1, <1>2, TurnsOfQueue, PromptsUntouched, NoTurnAssumption

LEMMA EndCompactionOK == QInv /\ EndCompaction => QInv'
<1> SUFFICES ASSUME QInv, EndCompaction PROVE QInv'
    OBVIOUS
<1>1. /\ current' = current /\ followers' = followers
      /\ queued' = queued /\ active' = active
      /\ unwinding' \in Nat
      BY DEF EndCompaction, CompactionEnds, clockVars, QInv
<1>2. CASE held = None
  <2>1. StartNext(pending, state, current, active, compacting')
        BY <1>2 DEF EndCompaction
  <2>2. QueueOK(pending, None, state, current, followers)
        BY <1>2 DEF QInv
  <2>3. /\ QueueOK(pending', held', state', current, followers)
        /\ pending' # <<>> => held' # None \/ current # None \/ compacting'
        BY <2>1, <2>2, StartNextOK
  <2> QED BY <1>1, <2>3 DEF QInv, ActiveHasLiveTurn, NoPromptWaitsForNothing
<1>3. CASE held # None
  <2>1. state' = state /\ pending' = pending /\ held' = held
        BY <1>3 DEF EndCompaction
  <2> QED BY <1>1, <1>3, <2>1 DEF QInv, ActiveHasLiveTurn, NoPromptWaitsForNothing
<1> QED BY <1>2, <1>3

LEMMA RestartOK ==
    ASSUME QInv, NEW n, Restart(n)
    PROVE  QInv'
<1>1. /\ pending' = <<>> /\ held' = None /\ current' = None /\ followers' = {}
      /\ state' = [p \in Prompts |-> IF state[p] \in {"new", "settled"} THEN state[p] ELSE "lost"]
      /\ unwinding' = 0
      BY DEF Restart
<1>2. /\ state' \in [Prompts -> PromptStates]
      /\ \A p \in Prompts : /\ state'[p] \in {"new", "settled", "lost"}
                            /\ (state'[p] = "new") <=> state[p] = "new"
      BY <1>1 DEF PromptStates
<1>3. QueueOK(<<>>, None, state', None, {})
  <2>1. \A p, q \in Prompts : p < q /\ state'[p] = "new" => state'[q] = "new"
        BY <1>2 DEF QInv, QueueOK
  <2>2. <<>> \in Seq(Prompts) /\ Len(<<>>) = 0 /\ Ascending(<<>>)
        BY DEF Ascending
  <2>3. \A p \in Prompts : p # None
        BY PromptsAreNumbers
  <2> QED BY <1>2, <2>1, <2>2, <2>3 DEF QueueOK, Currents
<1> QED BY <1>1, <1>3 DEF QInv, ActiveHasLiveTurn, NoPromptWaitsForNothing

LEMMA QueueOnlyOK == QInv /\ IInv /\ QueueOnly => QInv'
<1> SUFFICES ASSUME QInv, IInv, QueueOnly PROVE QInv'
    OBVIOUS
<1>1. CASE \E p \in Prompts : Enqueue(p) \/ Steer(p) \/ AbortPending(p)
      BY <1>1, EnqueueOK, SteerOK, AbortPendingOK
<1>2. CASE HookReturns
      BY <1>2, HookPassesOK, HookStopsOK DEF HookReturns
<1>3. CASE \E id \in queued : AbortQueued(id)
      BY <1>3, AbortQueuedOK
<1>4. CASE OtherTurn
      BY <1>4, OtherTurnOK
<1>5. CASE BeginCompaction
      BY <1>5, TurnsOfQueue, PromptsUntouched DEF BeginCompaction, clockVars, QInv
<1>6. CASE CancelCompaction
  <2>1. unwinding' \in Nat /\ unwinding' > 0
        BY <1>6 DEF CancelCompaction, QInv
  <2> QED BY <1>6, <2>1, TurnsOfQueue, PromptsUntouched DEF CancelCompaction, clockVars
<1>7. CASE EndCompaction
      BY <1>7, EndCompactionOK
<1> QED BY <1>1, <1>2, <1>3, <1>4, <1>5, <1>6, <1>7 DEF QueueOnly

\* The steps of the kernel and of the second agent do not touch the queue.
LEMMA QueueUntouched == QInv /\ UNCHANGED queueVars => QInv'
BY TurnsOfQueue, PromptsUntouched DEF queueVars, clockVars, envVars

LEMMA QueueStep == QInv /\ IInv /\ [SessionNext]_vars => QInv'
<1> SUFFICES ASSUME QInv, IInv, [SessionNext]_vars PROVE QInv'
    OBVIOUS
<1>1. CASE QueueOnly
      BY <1>1, QueueOnlyOK
<1>2. CASE MainTurnAborts
      BY <1>2, TurnsOfQueue, PromptsUntouched DEF MainTurnAborts, AbortActive, CancelActive, envVars
<1>3. CASE MainTurnEnds
      BY <1>3, EndTurnOK DEF MainTurnEnds
<1>4. CASE \E c \in Calls : Respond(c) \/ \E a \in Agents, k \in Kinds : Ask(c, a, k)
      BY <1>4, QueueUntouched DEF Respond, Ask
<1>5. CASE SubStarts \/ SubEnds
      BY <1>5, QueueUntouched DEF SubStarts, SubEnds
<1>6. CASE \E n \in 1..Len(log) : SessionRestarts(n)
      BY <1>6, RestartOK DEF SessionRestarts
<1>7. CASE UNCHANGED vars
      BY <1>7, QueueUntouched DEF vars
<1> QED BY <1>1, <1>2, <1>3, <1>4, <1>5, <1>6, <1>7 DEF SessionNext

LEMMA QueueInitOK == SessionInit => QInv
<1> SUFFICES ASSUME SessionInit PROVE QInv
    OBVIOUS
<1>1. /\ pending = <<>> /\ held = None /\ current = None /\ followers = {}
      /\ state = [p \in Prompts |-> "new"]
      /\ unwinding = 0
      BY DEF SessionInit, QueueInit
<1>2. <<>> \in Seq(Prompts) /\ Len(<<>>) = 0 /\ Ascending(<<>>)
      BY DEF Ascending
<1>3. \A p \in Prompts : p # None
      BY PromptsAreNumbers
<1> QED BY <1>1, <1>2, <1>3
        DEF QInv, QueueOK, Currents, PromptStates, ActiveHasLiveTurn, NoPromptWaitsForNothing

LEMMA QueueInvariant == SafetySpec => [](IInv /\ QInv)
<1>1. SafetySpec => []IInv
      BY SessionImplementsTurnClock, ClockInvariant, PTL DEF ImplementsTurnClock
<1> QED BY <1>1, QueueInitOK, QueueStep, PTL DEF SafetySpec

\* Every prompt is where the service looks for it, and nowhere else
\* (promptService.ts:77-79, 207).
THEOREM NoPromptIsEverLost == SafetySpec => []NoPromptIsLost
<1>1. QInv => NoPromptIsLost
  <2> SUFFICES ASSUME QInv PROVE NoPromptIsLost
      OBVIOUS
  <2>1. pending \in Seq(Prompts)
        BY DEF QInv, QueueOK
  <2>2. \A p : p \in ToSet(pending) <=> \E i \in 1..Len(pending) : pending[i] = p
        BY <2>1 DEF ToSet
  <2>3. held \notin ToSet(pending)
    <3>1. CASE held = None
          BY <2>1, <2>2, <3>1, PromptsAreNumbers
    <3>2. CASE held # None
      <4>1. held \in Nat /\ \A i \in 1..Len(pending) : held < pending[i]
            BY <3>2, PromptsAreNumbers DEF QInv, QueueOK
      <4> QED BY <2>2, <4>1
    <3> QED BY <3>1, <3>2
  <2> QED BY <2>2, <2>3 DEF NoPromptIsLost, QInv, QueueOK
<1> QED BY <1>1, QueueInvariant, PTL

\* The prompt that blocks the others has a turn that is still to end
\* (promptService.ts:226, 239).
THEOREM ActivePromptHasLiveTurn == SafetySpec => []ActiveHasLiveTurn
BY QueueInvariant, PTL DEF QInv

\* The queue stands still only behind what ends with startNext
\* (promptService.ts:134, 235, 254, 316).
THEOREM NoPromptEverWaitsForNothing == SafetySpec => []NoPromptWaitsForNothing
BY QueueInvariant, PTL DEF QInv

\* What the user sends runs in the order of sending
\* (promptService.ts:133, 209, 212, 221).
THEOREM PromptsKeepTheirOrder == SafetySpec => []PromptsInOrder
<1>1. QInv => PromptsInOrder
      BY DEF QInv, QueueOK, PromptsInOrder
<1> QED BY <1>1, QueueInvariant, PTL

-----------------------------------------------------------------------------
(***************************************************************************)
(* The interaction kernel.  A parked request names a turn that runs, which *)
(* the end of that turn, the start of no other and the answer of no other  *)
(* request changes.                                                        *)
(***************************************************************************)
Requests == [agent : Agents, turn : Nat, kind : Kinds]
Answers == {"unasked", "waiting", "answered", "cancelled", "aborted", "lost"}

Live(req, c) == /\ req[c].agent \in Agents
                /\ req[c].turn \in Nat
                /\ req[c].turn = TurnOf(req[c].agent)

KInv == /\ request \in [Calls -> Requests \cup {None}]
        /\ answer \in [Calls -> Answers]
        /\ parked \in SUBSET Calls
        /\ subTurn \in Nat \cup {NoTurn} /\ subNext \in Nat
        /\ NoRequestIsForgotten
        /\ \A c \in parked : Live(request, c)

\* The steps of the queue leave an active turn active, but for its end.
LEMMA TurnsStay ==
    ASSUME active # NoTurn, QueueOnly
    PROVE  active' = active
<1>1. CASE \E p \in Prompts : Enqueue(p) \/ Steer(p) \/ AbortPending(p)
      BY <1>1 DEF Enqueue, Steer, AbortPending, clockVars
<1>2. CASE HookReturns
      BY <1>2 DEF HookReturns, HookPasses, HookStops, CreateTurn, clockVars
<1>3. CASE \E id \in queued : AbortQueued(id)
      BY <1>3 DEF AbortQueued, CancelQueued
<1>4. CASE OtherTurn
      BY <1>4 DEF OtherTurn, CreateTurn
<1>5. CASE BeginCompaction \/ CancelCompaction \/ EndCompaction
      BY <1>5 DEF BeginCompaction, CancelCompaction, EndCompaction, clockVars
<1> QED BY <1>1, <1>2, <1>3, <1>4, <1>5 DEF QueueOnly

\* The abort of calls forgets none that still waits.
LEMMA AbortCallsOK ==
    ASSUME NEW cs, NEW req, NEW ans \in [Calls -> Answers], NEW park \in SUBSET Calls,
           \A c \in Calls : ans[c] = "waiting" => c \in park,
           AbortCalls(cs, req, ans, park)
    PROVE  /\ answer' \in [Calls -> Answers]
           /\ parked' \in SUBSET Calls
           /\ parked' \subseteq park
           /\ NoRequestIsForgotten'
<1>1. /\ parked' = park \ {c \in cs : req[c].kind # "approval"}
      /\ answer' = [c \in Calls |-> IF c \in cs THEN "aborted" ELSE ans[c]]
      BY DEF AbortCalls
<1>2. \A c \in Calls : answer'[c] = "waiting" => c \notin cs /\ ans[c] = "waiting"
      BY <1>1
<1> QED BY <1>1, <1>2 DEF Answers, NoRequestIsForgotten

\* The cancellation of a turn's requests leaves only those of other turns.
LEMMA CancelPendingOK ==
    ASSUME KInv, NEW id, CancelPendingForTurn(id)
    PROVE  /\ request' = request
           /\ answer' \in [Calls -> Answers]
           /\ parked' = {c \in parked : request[c].turn # id}
           /\ NoRequestIsForgotten'
<1> DEFINE ended == {c \in parked : request[c].turn = id}
<1>1. /\ parked' = parked \ ended
      /\ answer' = [c \in Calls |-> IF c \in ended /\ answer[c] = "waiting"
                                    THEN "cancelled" ELSE answer[c]]
      /\ request' = request
      BY DEF CancelPendingForTurn
<1>2. \A c \in Calls : answer'[c] = "waiting" => c \notin ended /\ answer[c] = "waiting"
      BY <1>1
<1>3. answer' \in [Calls -> Answers]
      BY <1>1 DEF Answers, KInv
<1> QED BY <1>1, <1>2, <1>3 DEF NoRequestIsForgotten, KInv

LEMMA AskOK ==
    ASSUME KInv, ClockTypeOK, NEW c \in Calls, NEW agent \in Agents, NEW kind \in Kinds,
           Ask(c, agent, kind)
    PROVE  KInv'
<1> DEFINE r == [agent |-> agent, turn |-> TurnOf(agent), kind |-> kind]
           req == [request EXCEPT ![c] = r]
           ans == [answer EXCEPT ![c] = "waiting"]
           gone == IF agent = "main" /\ aborted THEN {c} ELSE {}
           park == parked \cup {c}
<1>1. /\ TurnOf(agent) # NoTurn
      /\ request' = req
      /\ AbortCalls(gone, req, ans, park)
      /\ active' = active /\ subTurn' = subTurn /\ subNext' = subNext
      BY DEF Ask, queueVars, clockVars, subVars
<1>2. TurnOf(agent) \in Nat
      BY <1>1 DEF TurnOf, KInv, ClockTypeOK
<1>3. r \in Requests /\ r.agent = agent /\ r.turn = TurnOf(agent)
      BY <1>2 DEF Requests
<1> HIDE DEF r
<1>4. /\ req \in [Calls -> Requests \cup {None}]
      /\ \A d \in Calls : req[d] = IF d = c THEN r ELSE request[d]
      BY <1>3 DEF KInv
<1>5. /\ ans \in [Calls -> Answers] /\ park \in SUBSET Calls
      /\ \A d \in Calls : ans[d] = "waiting" => d \in park
      BY DEF KInv, Answers, NoRequestIsForgotten
<1> HIDE DEF req, ans, gone, park
<1>6. /\ answer' \in [Calls -> Answers]
      /\ parked' \in SUBSET Calls
      /\ parked' \subseteq park
      /\ NoRequestIsForgotten'
      BY <1>1, <1>5, AbortCallsOK
<1>7. ASSUME NEW d \in park PROVE Live(req, d)
  <2>1. CASE d = c
        BY <1>2, <1>3, <1>4, <2>1 DEF Live
  <2>2. CASE d # c
        BY <1>4, <2>2 DEF Live, KInv, park
  <2> QED BY <2>1, <2>2
<1>8. \A d \in parked' : Live(request, d)'
      BY <1>1, <1>6, <1>7 DEF Live, TurnOf
<1> QED BY <1>1, <1>4, <1>6, <1>8 DEF KInv

\* An agent's turn ends: main's or the other's, with active and subTurn after it.
LEMMA EndOfTurnOK ==
    ASSUME KInv, NEW ended \in Agents, CancelPendingForTurn(TurnOf(ended)),
           subTurn' \in Nat \cup {NoTurn}, subNext' = subNext,
           ended # "main" => active' = active,
           ended # "sub" => subTurn' = subTurn
    PROVE  KInv'
<1>1. /\ request' = request
      /\ answer' \in [Calls -> Answers]
      /\ parked' = {c \in parked : request[c].turn # TurnOf(ended)}
      /\ NoRequestIsForgotten'
      BY CancelPendingOK
<1>2. ASSUME NEW c \in parked' PROVE Live(request, c)'
  <2>1. c \in parked /\ Live(request, c) /\ request[c].turn # TurnOf(ended)
        BY <1>1 DEF KInv
  <2>2. request[c].agent # ended
        BY <2>1 DEF Live
  <2> QED BY <1>1, <2>1, <2>2 DEF Live, TurnOf, Agents
<1> QED BY <1>1, <1>2 DEF KInv

LEMMA KernelStep == KInv /\ IInv /\ [SessionNext]_vars => KInv'
<1> SUFFICES ASSUME KInv, IInv, [SessionNext]_vars PROVE KInv'
    OBVIOUS
<1>1. ASSUME UNCHANGED <<subVars, kernelVars>>, active # NoTurn => active' = active
      PROVE  KInv'
  <2>1. /\ request' = request /\ answer' = answer /\ parked' = parked
        /\ subTurn' = subTurn /\ subNext' = subNext
        BY <1>1 DEF subVars, kernelVars
  <2>2. ASSUME NEW c \in parked PROVE Live(request, c)'
    <3>1. Live(request, c)
          BY DEF KInv
    <3> QED BY <1>1, <2>1, <3>1, NoTurnAssumption DEF Live, TurnOf
  <2> QED BY <2>1, <2>2 DEF KInv, NoRequestIsForgotten
<1>2. CASE QueueOnly
      BY <1>1, <1>2, TurnsStay DEF QueueOnly
<1>3. CASE MainTurnAborts
  <2>1. /\ AbortCalls(Waiting("main"), request, answer, parked)
        /\ request' = request /\ active' = active /\ subTurn' = subTurn /\ subNext' = subNext
        BY <1>3 DEF MainTurnAborts, AbortActive, CancelActive, subVars
  <2>2. /\ answer' \in [Calls -> Answers]
        /\ parked' \in SUBSET Calls
        /\ parked' \subseteq parked
        /\ NoRequestIsForgotten'
        BY <2>1, AbortCallsOK DEF KInv, NoRequestIsForgotten
  <2>3. \A c \in parked' : Live(request, c)'
        BY <2>1, <2>2 DEF KInv, Live, TurnOf
  <2> QED BY <2>1, <2>2, <2>3 DEF KInv
<1>4. CASE MainTurnEnds
      BY <1>4, EndOfTurnOK DEF MainTurnEnds, TurnOf, Agents, subVars, KInv
<1>5. CASE \E c \in Calls : Respond(c)
  <2>1. PICK c \in Calls : Respond(c)
        BY <1>5
  <2>2. /\ parked' = parked \ {c}
        /\ answer' = [answer EXCEPT ![c] = IF @ = "waiting" THEN "answered" ELSE @]
        /\ request' = request /\ active' = active /\ subTurn' = subTurn /\ subNext' = subNext
        BY <2>1 DEF Respond, queueVars, clockVars, subVars
  <2>3. /\ answer' \in [Calls -> Answers]
        /\ \A d \in Calls : answer'[d] = "waiting" => d # c /\ answer[d] = "waiting"
        BY <2>2 DEF KInv, Answers
  <2>4. \A d \in parked' : Live(request, d)'
        BY <2>2 DEF KInv, Live, TurnOf
  <2> QED BY <2>2, <2>3, <2>4 DEF KInv, NoRequestIsForgotten
<1>6. CASE \E c \in Calls : \E a \in Agents, k \in Kinds : Ask(c, a, k)
      BY <1>6, AskOK DEF IInv
<1>7. CASE SubStarts
  <2>1. /\ subTurn = NoTurn /\ subTurn' = subNext /\ subNext' = subNext + 1
        /\ active' = active /\ request' = request /\ answer' = answer /\ parked' = parked
        BY <1>7 DEF SubStarts, queueVars, clockVars, kernelVars
  <2>2. ASSUME NEW c \in parked PROVE Live(request, c)'
    <3>1. Live(request, c)
          BY DEF KInv
    <3>2. request[c].agent # "sub"
          BY <2>1, <3>1, NoTurnAssumption DEF Live, TurnOf
    <3> QED BY <2>1, <3>1, <3>2 DEF Live, TurnOf, Agents
  <2> QED BY <2>1, <2>2 DEF KInv, NoRequestIsForgotten
<1>8. CASE SubEnds
      BY <1>8, EndOfTurnOK DEF SubEnds, TurnOf, Agents, queueVars, clockVars
<1>9. CASE \E n \in 1..Len(log) : SessionRestarts(n)
  <2>1. /\ subTurn' = NoTurn /\ subNext' = subNext /\ parked' = {} /\ request' = request
        /\ answer' = [c \in Calls |-> IF answer[c] = "waiting" THEN "lost" ELSE answer[c]]
        BY <1>9 DEF SessionRestarts
  <2>2. /\ answer' \in [Calls -> Answers]
        /\ \A c \in Calls : answer'[c] # "waiting"
        BY <2>1 DEF KInv, Answers
  <2> QED BY <2>1, <2>2 DEF KInv, NoRequestIsForgotten
<1>10. CASE UNCHANGED vars
      BY <1>1, <1>10 DEF vars, queueVars, clockVars
<1> QED BY <1>2, <1>3, <1>4, <1>5, <1>6, <1>7, <1>8, <1>9, <1>10 DEF SessionNext

LEMMA KernelInvariant == SafetySpec => []KInv
<1>1. SessionInit => KInv
      BY DEF SessionInit, KInv, Answers, NoRequestIsForgotten
<1>2. SafetySpec => []IInv
      BY QueueInvariant, PTL
<1> QED BY <1>1, <1>2, KernelStep, PTL DEF SafetySpec

\* A call that waits can be answered (interactionService.ts:94, 121, 160).
THEOREM NoRequestIsEverForgotten == SafetySpec => []NoRequestIsForgotten
BY KernelInvariant, PTL DEF KInv

\* No request outlives its turn (agentLifecycleService.ts:107).
THEOREM EndedTurnsHaveNoPending == SafetySpec => []EndedTurnHasNoPending
<1>1. KInv => EndedTurnHasNoPending
      BY DEF KInv, Live, EndedTurnHasNoPending
<1> QED BY <1>1, KernelInvariant, PTL
=============================================================================
