------------------------ MODULE ToolSchedulerProofs ------------------------
(* For any number of calls and any conflict relation: conflicting tools never  *)
(* overlap, conflicting calls take effect in provider order, no call waits     *)
(* without a reason, and the scheduler implements CallOrder.  The conflict     *)
(* test of ToolAccesses is exact for paths of any depth and names; with its    *)
(* conflicts, no file is written by one running tool and used by another.      *)
EXTENDS MCToolScheduler, SequenceTheorems, WellFoundedInduction, TLAPS

(* While the signal is not aborted, a running tool belongs to an active call  *)
(* that has not settled, and active calls do not conflict; after it, no tool  *)
(* starts.                                                                    *)
RunningIsActive == ~aborted => running \subseteq active \ settled

ActiveNeverConflict ==
    \A i, j \in active : i # j => <<i, j>> \notin Conflicts

SchedulerInv ==
    /\ TypeOK
    /\ RunningIsActive
    /\ ActiveNeverConflict
    /\ ToolsNeverOverlap
    /\ ProviderOrder
    /\ NoNeedlessWait

-----------------------------------------------------------------------------
(* What is known of an arbitrary queued task that leaves the queue: nothing   *)
(* active and nothing before it in the queue conflicts with it.               *)
LEMMA UnblockedFree ==
    ASSUME NEW i, NEW q \in Unblocked(i)
    PROVE  /\ q \in queued
           /\ \A j \in active \ {i} : <<q, j>> \notin Conflicts
           /\ \A j \in queued : j < q => <<q, j>> \notin Conflicts
  BY DEF Unblocked, ConflictsWithAny

LEMMA StaysBlocked ==
    ASSUME NEW i, NEW q \in queued \ Unblocked(i)
    PROVE  \/ \E j \in active \ {i} : <<q, j>> \in Conflicts
           \/ \E j \in queued : j < q /\ <<q, j>> \in Conflicts
  BY DEF Unblocked, ConflictsWithAny

LEMMA InitEstablishes == Init => SchedulerInv
<1>1. Init => Added = {} /\ added \in 0 .. N
  BY CallsAssumption DEF Init, Added
<1> QED
  BY <1>1
  DEF Init, SchedulerInv, TypeOK, RunningIsActive, ActiveNeverConflict,
      ToolsNeverOverlap, ProviderOrder, NoNeedlessWait, Finished

(* Executing an added call that is not blocked, or queueing it. *)
LEMMA AddPreserves ==
    ASSUME SchedulerInv, Add
    PROVE  SchedulerInv'
<1> USE CallsAssumption DEF SchedulerInv, Calls
<1> DEFINE new == added + 1
<1>1. /\ added \in Nat /\ new \in Calls /\ new \notin Added
      /\ Added' = Added \cup {new}
      /\ added' \in 0 .. N
      /\ aborted' = aborted
  BY DEF Add, TypeOK, Added
<1>2. \A j \in Added : j < new /\ j \in Calls
  BY <1>1 DEF Added, TypeOK
<1>3. CASE IsBlocked(new, queued)
  <2>1. /\ queued' = queued \cup {new}
        /\ active' = active /\ settled' = settled /\ running' = running
    BY <1>3 DEF Add
  <2>2. Finished' = Finished
    BY <1>1, <2>1 DEF Finished, TypeOK
  <2>3. TypeOK'
    BY <1>1, <2>1 DEF TypeOK
  <2>4. RunningIsActive' /\ ActiveNeverConflict' /\ ToolsNeverOverlap'
    BY <1>1, <2>1 DEF RunningIsActive, ActiveNeverConflict, ToolsNeverOverlap
  <2>5. ProviderOrder'
    BY <1>1, <1>2, <2>1, <2>2 DEF ProviderOrder, TypeOK, Finished
  <2>6. \E j \in active \cup queued : j < new /\ <<new, j>> \in Conflicts
    BY <1>2, <1>3 DEF IsBlocked, ConflictsWithAny, TypeOK
  <2>7. NoNeedlessWait'
    <3> SUFFICES ASSUME NEW q \in queued \cup {new}
                 PROVE  \E j \in active \cup queued \cup {new} : j < q /\ <<q, j>> \in Conflicts
      BY <2>1 DEF NoNeedlessWait
    <3>1. CASE q = new
      BY <3>1, <2>6
    <3>2. CASE q \in queued
      BY <3>2 DEF NoNeedlessWait
    <3> QED BY <3>1, <3>2
  <2> QED BY <2>3, <2>4, <2>5, <2>7
<1>4. CASE ~IsBlocked(new, queued)
  <2>1. /\ active' = active \cup {new} /\ queued' = queued
        /\ Start({new})
    BY <1>4 DEF Add
  <2>2. \A j \in active \cup queued : <<new, j>> \notin Conflicts /\ <<j, new>> \notin Conflicts
    <3> SUFFICES ASSUME NEW j \in active \cup queued
                 PROVE  <<new, j>> \notin Conflicts /\ <<j, new>> \notin Conflicts
      OBVIOUS
    <3>1. <<new, j>> \notin Conflicts
      BY <1>4 DEF IsBlocked, ConflictsWithAny
    <3>2. j \in Calls
      BY <1>2 DEF TypeOK
    <3> QED BY <3>1, <3>2, <1>1
  <2>3. Finished' = Finished
    BY <1>1, <2>1 DEF Finished, TypeOK
  <2>4. TypeOK'
    BY <1>1, <2>1 DEF TypeOK, Start
  <2>5. RunningIsActive'
    BY <1>1, <2>1 DEF RunningIsActive, TypeOK, Start
  <2>6. ActiveNeverConflict'
    BY <1>1, <2>1, <2>2 DEF ActiveNeverConflict
  <2>7. ToolsNeverOverlap'
    BY <1>1, <2>1, <2>2 DEF ToolsNeverOverlap, RunningIsActive, Start
  <2>8. ProviderOrder'
    <3> SUFFICES ASSUME NEW a \in active \cup {new} \cup Finished, NEW j \in Added \cup {new},
                        j < a, <<a, j>> \in Conflicts
                 PROVE  j \in Finished
      BY <1>1, <2>1, <2>3 DEF ProviderOrder
    <3>1. j \in Added
      BY <1>1, <1>2 DEF Finished, TypeOK, Added
    <3>2. CASE a = new
      BY <3>1, <3>2, <2>2 DEF Finished
    <3>3. CASE a \in active \cup Finished
      BY <3>1, <3>3 DEF ProviderOrder
    <3> QED BY <3>2, <3>3
  <2>9. NoNeedlessWait'
    BY <2>1 DEF NoNeedlessWait
  <2> QED BY <2>4, <2>5, <2>6, <2>7, <2>8, <2>9
<1> QED BY <1>3, <1>4

(* A call leaves the active tasks and those it alone held back start. *)
LEMMA FinishPreserves ==
    ASSUME SchedulerInv, NEW i \in Calls, Finish(i)
    PROVE  SchedulerInv'
<1> USE CallsAssumption DEF SchedulerInv, Calls
<1> DEFINE S == Unblocked(i)
<1>1. /\ i \in active /\ i \in settled /\ i \in Added /\ i \notin queued
      /\ active' = (active \ {i}) \cup S /\ queued' = queued \ S
      /\ added' = added /\ aborted' = aborted /\ Added' = Added
      /\ Start(S)
  BY DEF Finish, TypeOK, Added
<1>2. \A q \in S : /\ q \in queued
                   /\ \A j \in active \ {i} : <<q, j>> \notin Conflicts
                   /\ \A j \in queued : j < q => <<q, j>> \notin Conflicts
  BY UnblockedFree
<1>3. /\ S \subseteq queued
      /\ \A j \in active \cup queued : j \in Added /\ j \in Calls /\ j \in Nat
  BY <1>2 DEF TypeOK, Added
<1>4. Finished' = Finished \cup {i}
  BY <1>1, <1>2 DEF Finished, TypeOK
<1> HIDE DEF S
<1>5. TypeOK'
  BY <1>1, <1>2 DEF TypeOK, Start
<1>6. RunningIsActive'
  <2> SUFFICES ASSUME ~aborted
               PROVE  running' \subseteq active' \ settled'
    BY <1>1 DEF RunningIsActive
  <2>1. running' = running \cup S /\ settled' = settled
    BY <1>1 DEF Start
  <2>2. running \subseteq active \ settled /\ settled \cap queued = {}
    BY DEF RunningIsActive, TypeOK
  <2> QED BY <1>1, <1>3, <2>1, <2>2
<1>7. \A q \in S, j \in active' : q # j => <<q, j>> \notin Conflicts /\ <<j, q>> \notin Conflicts
  <2> SUFFICES ASSUME NEW q \in S, NEW j \in active', q # j
               PROVE  <<q, j>> \notin Conflicts /\ <<j, q>> \notin Conflicts
    OBVIOUS
  <2>1. q \in active \cup queued /\ j \in active \cup queued
    BY <1>1, <1>3
  <2>2. q \in Calls /\ j \in Calls /\ (j < q \/ q < j)
    <3>1. q \in Nat /\ j \in Nat /\ q \in Calls /\ j \in Calls
      BY <2>1, <1>3
    <3> QED BY <3>1
  <2>3. CASE j \in active \ {i}
    BY <1>2, <2>2, <2>3
  <2>4. CASE j \in S
    BY <1>2, <2>2, <2>4
  <2> QED BY <1>1, <2>3, <2>4
<1>8. ActiveNeverConflict'
  BY <1>1, <1>7 DEF ActiveNeverConflict
<1>9. ToolsNeverOverlap'
  <2>1. CASE aborted
    BY <1>1, <2>1 DEF ToolsNeverOverlap, Start
  <2>2. CASE ~aborted
    <3>1. running' \subseteq active'
      BY <1>1, <1>6, <2>2 DEF RunningIsActive
    <3> QED BY <3>1, <1>8 DEF ToolsNeverOverlap, ActiveNeverConflict
  <2> QED BY <2>1, <2>2
<1>10. ProviderOrder'
  <2> SUFFICES ASSUME NEW a \in active' \cup Finished', NEW j \in Added,
                      j < a, <<a, j>> \in Conflicts
               PROVE  j \in Finished'
    BY <1>1 DEF ProviderOrder
  <2>1. CASE a \in active \cup Finished
    BY <2>1, <1>4 DEF ProviderOrder
  <2>2. CASE a \in S
    <3>1. j \notin active \ {i} /\ j \notin queued
      BY <1>2, <2>2
    <3> QED BY <3>1, <1>4 DEF Finished
  <2> QED BY <1>1, <1>4, <2>1, <2>2
<1>11. NoNeedlessWait'
  <2> SUFFICES ASSUME NEW q \in queued \ S
               PROVE  \E j \in active' \cup queued' : j < q /\ <<q, j>> \in Conflicts
    BY <1>1 DEF NoNeedlessWait
  <2>1. CASE \E j \in queued : j < q /\ <<q, j>> \in Conflicts
    BY <1>1, <2>1
  <2>2. CASE \E j \in active \ {i} : <<q, j>> \in Conflicts
    <3>1. PICK j \in active \ {i} : <<q, j>> \in Conflicts
      BY <2>2
    <3>2. q \in Calls /\ j \in Calls /\ q \in Added /\ <<j, q>> \in Conflicts
      BY <3>1, <1>3
    <3>3. ~(q < j)
      BY <3>1, <3>2 DEF ProviderOrder, Finished
    <3>4. q # j
      BY <3>1 DEF TypeOK
    <3> QED BY <1>1, <3>1, <3>2, <3>3, <3>4
  <2> QED BY <2>1, <2>2, StaysBlocked DEF S
<1> QED BY <1>5, <1>6, <1>8, <1>9, <1>10, <1>11

LEMMA StepPreserves == SchedulerInv /\ [Next]_vars => SchedulerInv'
<1> SUFFICES ASSUME SchedulerInv, [Next]_vars
             PROVE  SchedulerInv'
  OBVIOUS
<1> USE DEF SchedulerInv
<1>1. CASE Add
  BY <1>1, AddPreserves
<1>2. CASE Abort
  BY <1>2 DEF Abort, TypeOK, RunningIsActive, ActiveNeverConflict, ToolsNeverOverlap,
              ProviderOrder, NoNeedlessWait, Added, Finished
<1>3. ASSUME NEW i \in Calls, ToolReturns(i)
      PROVE  SchedulerInv'
  BY <1>3 DEF ToolReturns, TypeOK, RunningIsActive, ActiveNeverConflict, ToolsNeverOverlap,
              ProviderOrder, NoNeedlessWait, Added, Finished
<1>4. ASSUME NEW i \in Calls, GraceExpires(i)
      PROVE  SchedulerInv'
  BY <1>4 DEF GraceExpires, TypeOK, RunningIsActive, ActiveNeverConflict, ToolsNeverOverlap,
              ProviderOrder, NoNeedlessWait, Added, Finished
<1>5. ASSUME NEW i \in Calls, Finish(i)
      PROVE  SchedulerInv'
  BY <1>5, FinishPreserves
<1>6. CASE UNCHANGED vars
  BY <1>6 DEF vars, TypeOK, RunningIsActive, ActiveNeverConflict, ToolsNeverOverlap,
              ProviderOrder, NoNeedlessWait, Added, Finished
<1> QED BY <1>1, <1>2, <1>3, <1>4, <1>5, <1>6 DEF Next

LEMMA SchedulerInvariant == SafetySpec => []SchedulerInv
  BY InitEstablishes, StepPreserves, PTL DEF SafetySpec

-----------------------------------------------------------------------------
(* toolScheduler.ts:5-6: for any number of calls, two tools whose accesses    *)
(* conflict never run at the same time, even when the grace period has        *)
(* settled the call of a tool that goes on.                                   *)
THEOREM ConflictingToolsNeverOverlap == SafetySpec => []ToolsNeverOverlap
<1>1. SchedulerInv => ToolsNeverOverlap
  BY DEF SchedulerInv
<1> QED BY <1>1, SchedulerInvariant, PTL

(* startQueuedTasks: the conflicting calls of a step take effect in the order *)
(* the model made them.                                                       *)
THEOREM CallsTakeEffectInOrder == SafetySpec => []ProviderOrder
<1>1. SchedulerInv => ProviderOrder
  BY DEF SchedulerInv
<1> QED BY <1>1, SchedulerInvariant, PTL

(* startQueuedTasks: what waits has an unfinished conflicting call before it, *)
(* so the queue never waits on itself.                                        *)
THEOREM WaitingHasAReason == SafetySpec => []NoNeedlessWait
<1>1. SchedulerInv => NoNeedlessWait
  BY DEF SchedulerInv
<1> QED BY <1>1, SchedulerInvariant, PTL

-----------------------------------------------------------------------------
(* Every step of the scheduler is a step of CallOrder or leaves it alone. *)
LEMMA StepImplements ==
    ASSUME SchedulerInv, SchedulerInv', [Next]_vars
    PROVE  [Order!Next]_(Order!vars)
<1> USE CallsAssumption DEF SchedulerInv
<1> DEFINE known == queued \cup active \cup Finished
<1>1. known = Added
  BY DEF Finished, TypeOK
<1>2. \A a \in active' : \A j \in Order!Before(a) : j \in Added' => j \in Finished'
  BY DEF ProviderOrder, Order!Before
<1>3. CASE Add
  <2> DEFINE new == added + 1
  <2>1. new \in Calls \ Added /\ Added' = Added \cup {new}
    BY <1>3 DEF Add, Added, Calls, TypeOK
  <2>2. CASE queued' = queued \cup {new} /\ active' = active
    <3>1. Finished' = Finished
      BY <2>1, <2>2 DEF Finished, TypeOK
    <3>2. Order!Step({new}, {}, {})
      BY <1>1, <2>1, <2>2, <3>1 DEF Order!Step, Finished, TypeOK
    <3> QED BY <3>2, <2>1 DEF Order!Next
  <2>3. CASE queued' = queued /\ active' = active \cup {new}
    <3>1. Finished' = Finished
      BY <2>1, <2>3 DEF Finished, TypeOK
    <3>2. Order!Before(new) \subseteq Finished'
      BY <1>2, <2>1, <2>3 DEF Order!Before, Added, Calls, TypeOK
    <3>3. Order!Step({new}, {}, {new})
      BY <1>1, <2>1, <2>3, <3>1, <3>2 DEF Order!Step, Finished, TypeOK
    <3> QED BY <3>3, <2>1 DEF Order!Next
  <2> QED BY <1>3, <2>2, <2>3 DEF Add
<1>4. ASSUME NEW i \in Calls, Finish(i)
      PROVE  Order!Next
  <2> DEFINE S == Unblocked(i)
  <2>1. /\ i \in active /\ i \notin queued /\ i \in Added /\ Added' = Added
        /\ active' = (active \ {i}) \cup S /\ queued' = queued \ S
    BY <1>4 DEF Finish, TypeOK, Added
  <2>2. S \subseteq queued /\ S \subseteq Calls
    <3>1. S \subseteq queued
      BY DEF Unblocked
    <3>2. queued \subseteq Calls
      BY DEF TypeOK, Added, Calls
    <3> QED BY <3>1, <3>2
  <2> HIDE DEF S
  <2>3. Finished' = Finished \cup {i}
    BY <2>1, <2>2 DEF Finished, TypeOK
  <2>4. \A q \in S : Order!Before(q) \subseteq Finished'
    BY <1>2, <2>1, <2>2 DEF Order!Before, Added, Calls, TypeOK
  <2>5. Order!Step({}, {i}, S)
    BY <2>1, <2>2, <2>3, <2>4 DEF Order!Step, TypeOK
  <2> QED BY <1>4, <2>2, <2>5 DEF Order!Next
<1>5. CASE Abort \/ UNCHANGED vars \/ \E i \in Calls : ToolReturns(i) \/ GraceExpires(i)
  BY <1>5 DEF Abort, vars, ToolReturns, GraceExpires, Order!vars, Finished, Added
<1> QED BY <1>3, <1>4, <1>5 DEF Next

(* The scheduler starts a call exactly as CallOrder allows: once every        *)
(* conflicting call before it has finished.                                   *)
THEOREM SchedulerImplementsCallOrder == SafetySpec => ImplementsCallOrder
<1>1. Init => Order!Init
  BY CallsAssumption DEF Init, Order!Init, Finished, Added
<1> QED
  BY <1>1, StepImplements, SchedulerInvariant, PTL
  DEF SafetySpec, ImplementsCallOrder, Order!Spec

-----------------------------------------------------------------------------
(* The paths that a tool can write down, and the names a normalized one has. *)
WrittenPaths == Seq(Names \cup {EmptyName})
FoldedNames == {Fold[name] : name \in Names}

(* Some of the files is touched by both accesses and written by one. *)
SharedWrite(left, right, files) ==
    /\ Writes(left) \/ Writes(right)
    /\ \E file \in files : Touches(left, file) /\ Touches(right, file)

(* Every nonempty set of numbers has a least one. *)
LEMMA LeastNumber ==
    ASSUME NEW S, S \subseteq Nat, S # {}
    PROVE  \E m \in S : \A k \in S : m <= k
<1> DEFINE R == {pair \in Nat \X Nat : pair[1] < pair[2]}
<1>1. IsWellFoundedOn(R, Nat)
  BY NatLessThanWellFounded DEF OpToRel
<1>2. \A k, m \in Nat : k < m => <<k, m>> \in R
  OBVIOUS
<1> HIDE DEF R
<1>3. PICK m \in S : \A k \in S : <<k, m>> \notin R
  BY <1>1, WFMin
<1>4. \A k \in S : ~(k < m)
  BY <1>2, <1>3
<1> QED
  BY <1>4

(* What the first n components of a path leave, given what those before left. *)
Extend(path, names, n) ==
    IF n = 0 THEN <<>>
    ELSE IF path[n] = EmptyName THEN names[n - 1]
    ELSE Append(names[n - 1], Fold[path[n]])

(* A path has been normalized up to every length: otherwise there is a least  *)
(* length without, and one component more than the length before.             *)
LEMMA NamesExist ==
    ASSUME NEW path \in WrittenPaths, NEW m \in 0 .. Len(path)
    PROVE  \E names : names = [n \in 0 .. m |-> Extend(path, names, n)]
<1> DEFINE Exists(l) == \E names : names = [n \in 0 .. l |-> Extend(path, names, n)]
           Missing == {l \in 0 .. Len(path) : ~Exists(l)}
<1>1. SUFFICES ASSUME Missing # {} PROVE FALSE
  OBVIOUS
<1>2. PICK l \in Missing : \A k \in Missing : l <= k
  <2> HIDE DEF Exists
  <2>1. Missing \subseteq Nat
    BY DEF WrittenPaths
  <2> HIDE DEF Missing
  <2> QED
    BY <1>1, <2>1, LeastNumber
<1>3. CASE l = 0
  <2>1. [n \in 0 .. 0 |-> <<>>] = [n \in 0 .. 0 |-> Extend(path, [i \in 0 .. 0 |-> <<>>], n)]
    BY DEF Extend
  <2> QED
    BY <1>2, <1>3, <2>1
<1>4. CASE l # 0
  <2>1. l - 1 \in 0 .. Len(path) /\ l \in Nat
    BY <1>2, <1>4 DEF WrittenPaths
  <2>2. l - 1 \notin Missing
    <3> HIDE DEF Missing
    <3> QED
      BY <1>2, <2>1
  <2>3. PICK names : names = [n \in 0 .. l - 1 |-> Extend(path, names, n)]
    BY <2>1, <2>2
  <2> DEFINE longer == [n \in 0 .. l |-> IF n = l THEN Extend(path, names, l) ELSE names[n]]
  <2>4. \A n \in 0 .. l : longer[n] = Extend(path, longer, n)
    <3> SUFFICES ASSUME NEW n \in 0 .. l PROVE longer[n] = Extend(path, longer, n)
      OBVIOUS
    <3>1. n # 0 => n - 1 \in 0 .. l /\ n - 1 # l /\ longer[n - 1] = names[n - 1]
      BY <2>1
    <3>2. longer[n] = Extend(path, names, n)
      BY <2>1, <2>3
    <3> QED
      BY <3>1, <3>2 DEF Extend
  <2>5. longer = [n \in 0 .. l |-> Extend(path, longer, n)]
    BY <2>4
  <2> QED
    BY <1>2, <2>5
<1> QED
  BY <1>3, <1>4

(* The lengths up to which a path has been normalized, and the result. *)
LEMMA NormalizeSteps ==
    ASSUME NEW path \in WrittenPaths
    PROVE  \E names : /\ names = [n \in 0 .. Len(path) |-> Extend(path, names, n)]
                      /\ NormalizePath(path) = names[Len(path)]
<1> DEFINE Steps(names) == [n \in 0 .. Len(path) |-> Extend(path, names, n)]
           chosen == CHOOSE names : names = Steps(names)
<1>1. \E names : names = Steps(names)
  BY NamesExist DEF WrittenPaths
<1>2. chosen = Steps(chosen)
  BY <1>1
<1>3. NormalizePath(path) = chosen[Len(path)]
  BY DEF NormalizePath, Extend
<1> QED
  BY <1>2, <1>3

(* A normalized path is made of folded names, and no longer than the path. *)
LEMMA NormalizeType ==
    ASSUME NEW path \in WrittenPaths
    PROVE  NormalizePath(path) \in Seq(FoldedNames) /\ Len(NormalizePath(path)) <= Len(path)
<1>1. PICK names : /\ names = [n \in 0 .. Len(path) |-> Extend(path, names, n)]
                   /\ NormalizePath(path) = names[Len(path)]
  BY NormalizeSteps
<1>2. Len(path) \in Nat /\ \A n \in 1 .. Len(path) : path[n] \in Names \cup {EmptyName}
  BY DEF WrittenPaths
<1> DEFINE Typed(n) == names[n] \in Seq(FoldedNames) /\ Len(names[n]) <= n
           Bad == {n \in 0 .. Len(path) : ~Typed(n)}
<1>3. SUFFICES ASSUME Bad # {} PROVE FALSE
  BY <1>1, <1>2
<1>4. PICK l \in Bad : \A k \in Bad : l <= k
  <2> HIDE DEF Typed
  <2>1. Bad \subseteq Nat
    BY <1>2
  <2> HIDE DEF Bad
  <2> QED
    BY <1>3, <2>1, LeastNumber
<1>5. l \in 0 .. Len(path) /\ names[l] = Extend(path, names, l)
  BY <1>1, <1>4
<1>6. CASE l = 0
  <2>1. names[l] = <<>>
    BY <1>5, <1>6 DEF Extend
  <2>2. Typed(l)
    BY <2>1, <1>6
  <2> QED
    BY <1>4, <2>2
<1>7. CASE l # 0
  <2>1. l - 1 \in 0 .. Len(path) /\ ~(l <= l - 1) /\ l \in 1 .. Len(path)
    BY <1>2, <1>5, <1>7
  <2>2. Typed(l - 1)
    <3> HIDE DEF Typed
    <3> QED
      BY <1>4, <2>1
  <2>3. path[l] # EmptyName => Fold[path[l]] \in FoldedNames
    BY <1>2, <2>1 DEF FoldedNames
  <2>4. Typed(l)
    BY <1>5, <1>7, <2>1, <2>2, <2>3 DEF Extend
  <2> QED
    BY <1>4, <2>4
<1> QED
  BY <1>6, <1>7

(* Paths that differ in case only are normalized to one. *)
LEMMA NormalizeIgnoresCase ==
    ASSUME NEW f \in Seq(Names), NEW g \in Seq(Names), Len(f) = Len(g),
           \A i \in 1 .. Len(f) : Fold[f[i]] = Fold[g[i]]
    PROVE  NormalizePath(f) = NormalizePath(g)
<1>1. f \in WrittenPaths /\ g \in WrittenPaths
  BY DEF WrittenPaths
<1>2. PICK fnames : /\ fnames = [n \in 0 .. Len(f) |-> Extend(f, fnames, n)]
                    /\ NormalizePath(f) = fnames[Len(f)]
  BY <1>1, NormalizeSteps
<1>3. PICK gnames : /\ gnames = [n \in 0 .. Len(f) |-> Extend(g, gnames, n)]
                    /\ NormalizePath(g) = gnames[Len(f)]
  BY <1>1, NormalizeSteps
<1> DEFINE Differ == {n \in 0 .. Len(f) : fnames[n] # gnames[n]}
<1>4. SUFFICES ASSUME Differ # {} PROVE FALSE
  BY <1>2, <1>3, SMTT(30)
<1>5. PICK l \in Differ : \A k \in Differ : l <= k
  <2>1. Differ \subseteq Nat
    OBVIOUS
  <2> HIDE DEF Differ
  <2> QED
    BY <1>4, <2>1, LeastNumber
<1>6. /\ l \in 0 .. Len(f)
      /\ fnames[l] = Extend(f, fnames, l) /\ gnames[l] = Extend(g, gnames, l)
  BY <1>2, <1>3, <1>5
<1>7. CASE l = 0
  BY <1>5, <1>6, <1>7 DEF Extend
<1>8. CASE l # 0
  <2>1. l - 1 \in 0 .. Len(f) /\ ~(l <= l - 1) /\ l \in 1 .. Len(f)
    BY <1>6, <1>8
  <2>2. fnames[l - 1] = gnames[l - 1]
    BY <1>5, <2>1
  <2>3. f[l] # EmptyName /\ g[l] # EmptyName /\ Fold[f[l]] = Fold[g[l]]
    BY <2>1, NamesAssumption
  <2> QED
    BY <1>5, <1>6, <1>8, <2>2, <2>3 DEF Extend
<1> QED
  BY <1>7, <1>8

LEMMA PrefixOfItself ==
    ASSUME NEW S, NEW s \in Seq(S)
    PROVE  IsPrefix(s, s)
  BY DEF IsPrefix

(* A sequence that is a prefix of another agrees with it in every place. *)
LEMMA PrefixAgrees ==
    ASSUME NEW S, NEW s \in Seq(S), NEW t \in Seq(S)
    PROVE  IsPrefix(s, t) <=> /\ Len(s) <= Len(t)
                              /\ \A i \in 1 .. Len(s) : s[i] = t[i]
<1>1. CASE Len(s) <= Len(t)
  <2>1. /\ SubSeq(s, 1, Len(s)) \in Seq(S) /\ Len(SubSeq(s, 1, Len(s))) = Len(s)
        /\ \A i \in 1 .. Len(s) : SubSeq(s, 1, Len(s))[i] = s[i]
    OBVIOUS
  <2>2. /\ SubSeq(t, 1, Len(s)) \in Seq(S) /\ Len(SubSeq(t, 1, Len(s))) = Len(s)
        /\ \A i \in 1 .. Len(s) : SubSeq(t, 1, Len(s))[i] = t[i]
    BY <1>1
  <2>3. (\A i \in 1 .. Len(s) : s[i] = t[i]) => SubSeq(s, 1, Len(s)) = SubSeq(t, 1, Len(s))
    BY <2>1, <2>2, SeqEqual
  <2> QED
    BY <1>1, <2>1, <2>2, <2>3 DEF IsPrefix
<1>2. CASE ~(Len(s) <= Len(t))
  BY <1>2 DEF IsPrefix
<1> QED
  BY <1>1, <1>2

(* Of two prefixes of one sequence the shorter is a prefix of the longer. *)
LEMMA PrefixesAreComparable ==
    ASSUME NEW S, NEW s \in Seq(S), NEW t \in Seq(S), NEW u \in Seq(S),
           IsPrefix(s, u), IsPrefix(t, u)
    PROVE  IsPrefix(s, t) \/ IsPrefix(t, s)
<1>1. /\ \A i \in 1 .. Len(s) : s[i] = u[i]
      /\ \A i \in 1 .. Len(t) : t[i] = u[i]
  BY PrefixAgrees
<1>2. CASE Len(s) <= Len(t)
  BY <1>1, <1>2, PrefixAgrees
<1>3. CASE Len(t) <= Len(s)
  BY <1>1, <1>3, PrefixAgrees
<1> QED
  BY <1>2, <1>3

(* Two file accesses overlap exactly when some file is touched by both. *)
LEMMA OverlapIsSharedFile ==
    ASSUME NEW S, NEW files, files \subseteq Seq(S),
           NEW left, NormalizePath(left.path) \in files, left.recursive \in BOOLEAN,
           NEW right, NormalizePath(right.path) \in files, right.recursive \in BOOLEAN,
           left.kind = "file", right.kind = "file"
    PROVE  FileAccessesOverlap(left, right)
               <=> \E file \in files : Touches(left, file) /\ Touches(right, file)
<1> DEFINE leftPath == NormalizePath(left.path)
           rightPath == NormalizePath(right.path)
<1> HIDE DEF leftPath, rightPath
<1>1. leftPath \in files /\ rightPath \in files
  BY DEF leftPath, rightPath
<1>2. FileAccessesOverlap(left, right)
          <=> \/ leftPath = rightPath
              \/ left.recursive /\ IsStrictPrefix(leftPath, rightPath)
              \/ right.recursive /\ IsStrictPrefix(rightPath, leftPath)
  BY DEF FileAccessesOverlap, leftPath, rightPath
<1>3. \A file :
          /\ Touches(left, file)
                 <=> file = leftPath \/ (left.recursive /\ IsPrefix(leftPath, file))
          /\ Touches(right, file)
                 <=> file = rightPath \/ (right.recursive /\ IsPrefix(rightPath, file))
  BY DEF Touches, leftPath, rightPath
<1>4. ASSUME FileAccessesOverlap(left, right)
      PROVE  \E file \in files : Touches(left, file) /\ Touches(right, file)
  <2>1. CASE leftPath = rightPath
    BY <2>1, <1>1, <1>3
  <2>2. CASE left.recursive /\ IsStrictPrefix(leftPath, rightPath)
    BY <2>2, <1>1, <1>3 DEF IsStrictPrefix
  <2>3. CASE right.recursive /\ IsStrictPrefix(rightPath, leftPath)
    BY <2>3, <1>1, <1>3 DEF IsStrictPrefix
  <2> QED
    BY <1>2, <1>4, <2>1, <2>2, <2>3
<1>5. ASSUME NEW file \in files, Touches(left, file), Touches(right, file)
      PROVE  FileAccessesOverlap(left, right)
  <2>1. CASE file = leftPath /\ file = rightPath
    BY <2>1, <1>2
  <2>2. CASE file = leftPath /\ right.recursive /\ IsPrefix(rightPath, file)
    BY <2>2, <1>2 DEF IsStrictPrefix
  <2>3. CASE file = rightPath /\ left.recursive /\ IsPrefix(leftPath, file)
    BY <2>3, <1>2 DEF IsStrictPrefix
  <2>4. CASE /\ left.recursive /\ IsPrefix(leftPath, file)
             /\ right.recursive /\ IsPrefix(rightPath, file)
    <3>1. IsPrefix(leftPath, rightPath) \/ IsPrefix(rightPath, leftPath)
      BY <2>4, <1>1, <1>5, PrefixesAreComparable
    <3> QED
      BY <3>1, <2>4, <1>2 DEF IsStrictPrefix
  <2> QED
    BY <1>5, <1>3, <2>1, <2>2, <2>3, <2>4
<1> QED
  BY <1>4, <1>5

(* The same of accesses, for any files among which the declared ones are. *)
LEMMA SharedWriteAmong ==
    ASSUME NEW S, NEW files, files \subseteq Seq(S), <<>> \in files,
           NEW paths, \A path \in paths : NormalizePath(path) \in files,
           NEW left \in Accesses(paths), NEW right \in Accesses(paths)
    PROVE  ResourceAccessesConflict(left, right) <=> SharedWrite(left, right, files)
<1>1. \A access \in Accesses(paths) :
          \/ access.kind = "all"
          \/ /\ access.kind = "file"
             /\ access.recursive \in BOOLEAN
             /\ NormalizePath(access.path) \in files
  BY DEF Accesses, All, FileAccess
<1>2. \A access \in Accesses(paths) : \E file \in files : Touches(access, file)
  BY <1>1 DEF Touches
<1>3. CASE left.kind = "all" \/ right.kind = "all"
  BY <1>2, <1>3 DEF ResourceAccessesConflict, SharedWrite, Writes, Touches
<1>4. CASE left.kind = "file" /\ right.kind = "file"
  <2>1. FileAccessesOverlap(left, right)
            <=> \E file \in files : Touches(left, file) /\ Touches(right, file)
    BY <1>1, <1>4, OverlapIsSharedFile
  <2>2. FileOperationsConflict(left.operation, right.operation)
            <=> Writes(left) \/ Writes(right)
    BY <1>4 DEF FileOperationsConflict, FileOperationWrites, Writes
  <2> QED
    BY <1>4, <2>1, <2>2 DEF ResourceAccessesConflict, SharedWrite
<1> QED
  BY <1>1, <1>3, <1>4

(* ToolAccesses.conflict says that two accesses conflict exactly when some    *)
(* file, at any depth, is touched by both and written by one.                 *)
THEOREM ConflictMeansSharedWrite ==
    ASSUME NEW left \in Accesses(WrittenPaths), NEW right \in Accesses(WrittenPaths)
    PROVE  ResourceAccessesConflict(left, right)
               <=> SharedWrite(left, right, Seq(FoldedNames))
<1>1. \A path \in WrittenPaths : NormalizePath(path) \in Seq(FoldedNames)
  BY NormalizeType
<1>2. <<>> \in Seq(FoldedNames)
  OBVIOUS
<1> QED
  BY <1>1, <1>2, SharedWriteAmong

(* A path within the bound is one that can be written, and normalizing it     *)
(* stays within the bound.                                                    *)
LEMMA NormalizeWithinBound ==
    ASSUME NEW path \in Paths
    PROVE  path \in WrittenPaths /\ NormalizePath(path) \in Files
<1>1. PICK n \in 0 .. MaxDepth : path \in [1 .. n -> Names \cup {EmptyName}]
  BY DEF Paths
<1>2. path \in WrittenPaths /\ Len(path) = n
  BY <1>1, MaxDepthAssumption DEF WrittenPaths
<1>3. NormalizePath(path) \in Seq(FoldedNames) /\ Len(NormalizePath(path)) <= n
  BY <1>2, NormalizeType
<1>4. Len(NormalizePath(path)) \in 0 .. MaxDepth
  BY <1>3, MaxDepthAssumption
<1>5. NormalizePath(path) \in [1 .. Len(NormalizePath(path)) -> FoldedNames]
  BY <1>3
<1> QED
  BY <1>2, <1>4, <1>5 DEF Files, FoldedNames

(* Two calls conflict exactly when some file is touched by both and written   *)
(* by one, and two spellings of a path are one file: for every bound on the   *)
(* depth, all names and any way to fold them.                                 *)
THEOREM ConflictTestIsExact == SafetySpec => []ConflictIsSharedWrite
<1>1. ASSUME NEW left \in Accesses(Paths), NEW right \in Accesses(Paths)
      PROVE  Conflict({left}, {right})
                 <=> /\ Touched(left) \cap Touched(right) # {}
                     /\ Writes(left) \/ Writes(right)
  <2>1. Files \subseteq Seq(FoldedNames)
    BY MaxDepthAssumption DEF Files, FoldedNames
  <2>2. <<>> \in Files
    <3>1. <<>> \in [1 .. 0 -> {Fold[name] : name \in Names}] /\ 0 \in 0 .. MaxDepth
      BY MaxDepthAssumption
    <3> QED
      BY <3>1 DEF Files
  <2>3. ResourceAccessesConflict(left, right) <=> SharedWrite(left, right, Files)
    BY <1>1, <2>1, <2>2, NormalizeWithinBound, SharedWriteAmong
  <2> QED
    BY <2>3 DEF Conflict, SharedWrite, Touched
<1>2. ASSUME NEW f \in [1 .. MaxDepth -> Names], NEW g \in [1 .. MaxDepth -> Names],
             \A i \in 1 .. MaxDepth : Fold[f[i]] = Fold[g[i]]
      PROVE  Conflict({FileAccess("write", f, FALSE)}, {FileAccess("read", g, FALSE)})
  <2>1. f \in Seq(Names) /\ g \in Seq(Names) /\ Len(f) = MaxDepth /\ Len(g) = MaxDepth
    BY MaxDepthAssumption
  <2>2. NormalizePath(f) = NormalizePath(g)
    BY <1>2, <2>1, NormalizeIgnoresCase
  <2> QED
    BY <2>2 DEF Conflict, ResourceAccessesConflict, FileAccess, FileOperationsConflict,
       FileOperationWrites, FileAccessesOverlap
<1>3. ConflictIsSharedWrite
  BY <1>1, <1>2 DEF ConflictIsSharedWrite
<1> QED
  BY <1>3, PTL

(* The conflicts that ToolAccesses computes meet what CallsAssumption says of *)
(* Conflicts.                                                                 *)
LEMMA ConflictIsSymmetric ==
    ASSUME NEW left, NEW right
    PROVE  Conflict(left, right) <=> Conflict(right, left)
<1>1. \A l, r : ResourceAccessesConflict(l, r) <=> ResourceAccessesConflict(r, l)
  BY DEF ResourceAccessesConflict, FileOperationsConflict, FileAccessesOverlap
<1> QED
  BY <1>1 DEF Conflict

(* With the conflicts that ToolAccesses computes from what the calls declare, *)
(* no file is ever touched by two running tools and written by one of them,   *)
(* also while a tool goes on after the grace period of an abort.              *)
THEOREM RunningToolsShareNoWrite ==
    ASSUME NEW accesses \in [Calls -> SUBSET Accesses(WrittenPaths)],
           Conflicts = {pair \in Calls \X Calls :
                          Conflict(accesses[pair[1]], accesses[pair[2]])}
    PROVE  SafetySpec =>
             [](\A i, j \in running : i # j =>
                  \A left \in accesses[i], right \in accesses[j] :
                      ~SharedWrite(left, right, Seq(FoldedNames)))
<1>1. SchedulerInv =>
          \A i, j \in running : i # j =>
              \A left \in accesses[i], right \in accesses[j] :
                  ~SharedWrite(left, right, Seq(FoldedNames))
  <2> SUFFICES ASSUME SchedulerInv, NEW i \in running, NEW j \in running, i # j,
                      NEW left \in accesses[i], NEW right \in accesses[j]
               PROVE  ~SharedWrite(left, right, Seq(FoldedNames))
    OBVIOUS
  <2>1. i \in Calls /\ j \in Calls
    BY CallsAssumption DEF SchedulerInv, TypeOK, Added, Calls
  <2>2. <<i, j>> \notin Conflicts
    BY DEF SchedulerInv, ToolsNeverOverlap
  <2>3. ~Conflict(accesses[i], accesses[j])
    BY <2>1, <2>2
  <2>4. left \in Accesses(WrittenPaths) /\ right \in Accesses(WrittenPaths)
    BY <2>1
  <2>5. ~ResourceAccessesConflict(left, right)
    BY <2>3 DEF Conflict
  <2> QED
    BY <2>4, <2>5, ConflictMeansSharedWrite
<1> QED
  BY <1>1, SchedulerInvariant, PTL
=============================================================================
