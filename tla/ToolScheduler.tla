--------------------------- MODULE ToolScheduler ---------------------------
(* The tool calls of one model step: ToolScheduler orders them by their        *)
(* resource accesses, executeBatch runs them under the turn's abort signal.    *)
(*                                                                             *)
(* Calls are numbered in provider order, the order in which executeBatch adds  *)
(* them; activeTasks and queuedTasks are kept in that order or only searched,  *)
(* so they are sets.  task.start is an async function and never throws; its    *)
(* first part, up to the tool's own code, runs in the step that starts it.     *)
EXTENDS Naturals

CONSTANTS
    N,           \* how many calls the model made in this step
    Conflicts    \* pairs of calls whose accesses conflict

Calls == 1 .. N

(* ToolAccesses.conflict compares every access of one side with every access  *)
(* of the other, and is symmetric.                                            *)
ASSUME CallsAssumption ==
    /\ N \in Nat
    /\ Conflicts \subseteq Calls \X Calls
    /\ \A i, j \in Calls : <<i, j>> \in Conflicts => <<j, i>> \in Conflicts

VARIABLES
    added,      \* how many calls executeBatch has added
    active,     \* activeTasks
    queued,     \* queuedTasks
    settled,    \* calls whose result promise is settled
    running,    \* calls whose tool is running, whatever the scheduler thinks
    aborted     \* the abort signal of the turn

vars == <<added, active, queued, settled, running, aborted>>

Init ==
    /\ added = 0
    /\ active = {} /\ queued = {} /\ settled = {} /\ running = {}
    /\ aborted = FALSE

(* conflictsWithAny(task, candidates) *)
ConflictsWithAny(i, candidates) == \E j \in candidates : <<i, j>> \in Conflicts

IsBlocked(i, queuedBefore) ==
    ConflictsWithAny(i, active) \/ ConflictsWithAny(i, queuedBefore)

\* Mutant of Start: the signal is not looked at before the tool runs.
StartIgnoringSignal(starting) ==
    /\ running' = running \cup starting
    /\ settled' = settled

(* start: the tool of each call runs, or under an aborted signal the call     *)
(* settles without it.                                                        *)
Start(starting) ==
    /\ running' = IF aborted THEN running ELSE running \cup starting
    /\ settled' = IF aborted THEN settled \cup starting ELSE settled

\* Mutant of Add: only the active tasks are looked at.
AddOvertaking ==
    /\ added < N
    /\ added' = added + 1
    /\ \/ /\ IsBlocked(added + 1, {})
          /\ queued' = queued \cup {added + 1}
          /\ UNCHANGED <<active, settled, running>>
       \/ /\ ~IsBlocked(added + 1, {})
          /\ active' = active \cup {added + 1}
          /\ Start({added + 1})
          /\ UNCHANGED queued
    /\ UNCHANGED aborted

Add ==
    /\ added < N
    /\ added' = added + 1
    /\ \/ /\ IsBlocked(added + 1, queued)
          /\ queued' = queued \cup {added + 1}
          /\ UNCHANGED <<active, settled, running>>
       \/ /\ ~IsBlocked(added + 1, queued)
          /\ active' = active \cup {added + 1}
          /\ Start({added + 1})
          /\ UNCHANGED queued
    /\ UNCHANGED aborted

(* The tool's code returns or throws; its call settles unless the grace       *)
(* period has settled it already.                                             *)
ToolReturns(i) ==
    /\ i \in running
    /\ running' = running \ {i}
    /\ settled' = settled \cup {i}
    /\ UNCHANGED <<added, active, queued, aborted>>

(* raceWithAbortGrace: the call of a tool that ignores the signal settles     *)
(* while the tool is still running.                                           *)
GraceExpires(i) ==
    /\ aborted
    /\ i \in running \ settled
    /\ settled' = settled \cup {i}
    /\ UNCHANGED <<added, active, queued, running, aborted>>

Abort ==
    /\ ~aborted
    /\ aborted' = TRUE
    /\ UNCHANGED <<added, active, queued, settled, running>>

(* startQueuedTasks, when i leaves the active tasks: a queued task starts if  *)
(* it conflicts neither with what stays active nor with a task queued before  *)
(* it.  The earlier task either stays queued or has just become active, and   *)
(* blocks in both cases.                                                      *)
Unblocked(i) ==
    {q \in queued : /\ ~ConflictsWithAny(q, active \ {i})
                    /\ ~ConflictsWithAny(q, {j \in queued : j < q})}

\* Mutant of Finish: the queue waits for all the active tasks.
FinishLast(i) ==
    /\ i \in active \cap settled
    /\ LET starting == IF active = {i} THEN Unblocked(i) ELSE {}
       IN  /\ active' = (active \ {i}) \cup starting
           /\ queued' = queued \ starting
           /\ Start(starting)
    /\ UNCHANGED <<added, aborted>>

\* Mutant of Finish: the queue is not looked at again.
FinishOnly(i) ==
    /\ i \in active \cap settled
    /\ active' = active \ {i}
    /\ UNCHANGED <<added, queued, settled, running, aborted>>

Finish(i) ==
    /\ i \in active \cap settled
    /\ active' = (active \ {i}) \cup Unblocked(i)
    /\ queued' = queued \ Unblocked(i)
    /\ Start(Unblocked(i))
    /\ UNCHANGED <<added, aborted>>

Next ==
    \/ Add \/ Abort
    \/ \E i \in Calls : ToolReturns(i) \/ GraceExpires(i) \/ Finish(i)

SafetySpec == Init /\ [][Next]_vars

(* executeBatch adds every call in one loop, promise callbacks run, and the   *)
(* grace timer fires.  Nothing makes a tool return: it may wait for a user.   *)
Spec ==
    /\ SafetySpec
    /\ WF_vars(Add)
    /\ \A i \in Calls : WF_vars(GraceExpires(i)) /\ WF_vars(Finish(i))

-----------------------------------------------------------------------------
Added == 1 .. added
Finished == Added \ (active \cup queued)

TypeOK ==
    /\ added \in 0 .. N
    /\ active \subseteq Added /\ queued \subseteq Added
    /\ active \cap queued = {}
    /\ settled \subseteq Added \ queued /\ running \subseteq Added \ queued
    /\ aborted \in BOOLEAN

(* Two tools whose accesses conflict never run at the same time, also when    *)
(* the signal is aborted and a tool goes on after its call has settled.       *)
ToolsNeverOverlap ==
    \A i, j \in running : i # j => <<i, j>> \notin Conflicts

(* Conflicting calls take effect in provider order: a call is started only    *)
(* after every conflicting call before it has finished.                       *)
ProviderOrder ==
    \A i \in active \cup Finished, j \in Added :
        j < i /\ <<i, j>> \in Conflicts => j \in Finished

(* A call waits only for a conflicting call before it, so independent calls   *)
(* run concurrently and the queue cannot wait on itself.                      *)
NoNeedlessWait ==
    \A i \in queued : \E j \in active \cup queued : j < i /\ <<i, j>> \in Conflicts

(* An aborted batch ends although no tool returns: every call added is        *)
(* finished in the end.                                                       *)
AbortEndsBatch == aborted ~> Finished = Calls

(* The scheduler keeps what CallOrder promises. *)
Order == INSTANCE CallOrder WITH waiting <- queued, started <- active, finished <- Finished

ImplementsCallOrder == Order!Spec
=============================================================================
