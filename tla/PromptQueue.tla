----------------------------- MODULE PromptQueue -----------------------------
(***************************************************************************)
(* The prompt queue of one agent (promptService.ts) over the turns of its  *)
(* loop, with the compaction that holds it back (fullCompactionService.ts) *)
(* and the restarts that forget it.                                        *)
(*                                                                         *)
(* Turns are those of TurnClock: the actions below conjoin its actions, so *)
(* that every step here is a step of the clock or leaves it alone.         *)
(*                                                                         *)
(* Simplifications.  A prompt's request is admitted at once: the           *)
(* quiescence lease, which can only delay it, is part of AgentLoop.  What  *)
(* a microtask continues (an assignment, the result of a turn) belongs to  *)
(* the step that resolved it.  steer takes one prompt here: a call with    *)
(* several is as many steps in a row.  A prompt's outcomes (completed,     *)
(* failed, cancelled, blocked) are one state, "settled".  dispose, run     *)
(* records, events and the text of prompts are left out.                   *)
(***************************************************************************)
EXTENDS TurnClock, FiniteSets, SequencesExt

CONSTANTS
    MaxPrompts,   \* prompts are 1 .. MaxPrompts, in the order of enqueue's push
    MaxTurns,     \* bound on the identifiers of turns
    MaxCompactions, \* bound on compactions
    MaxCrashes,   \* bound on restarts
    None          \* no prompt

ASSUME PromptAssumption == /\ MaxPrompts \in Nat /\ MaxTurns \in Nat
                           /\ MaxPrompts <= MaxTurns
                           /\ None \notin Nat
                           /\ None \notin [prompt : Nat, turn : Nat]

VARIABLES
    state,        \* Record.state of every prompt, or "new" or "lost"
    pending,      \* this.pending
    held,         \* the prompt startNext has taken and not settled yet: launching
    current,      \* this.active: the prompt and its turn, or None
    followers,    \* this.steered of the current prompt
    aborted,      \* the signal of the active turn is aborted
    compacting,   \* fullCompaction.compacting # null
    unwinding,    \* cancelled compactions whose worker has not ended
    compactions, crashes      \* for the bounds

promptVars == <<state, pending, held, current, followers>>
envVars == <<compacting, unwinding, compactions, crashes>>
queueVars == <<clockVars, promptVars, aborted, envVars>>

Prompts == 1..MaxPrompts

(***************************************************************************)
(* startNext, called with pending = pend and the states st, while cur is   *)
(* the current prompt; act and comp tell whether a turn is active and a    *)
(* compaction runs.                                                        *)
(*                                                                         *)
(* When a compaction holds the queue back, startNext puts the prompt back  *)
(* and returns, and its finally block calls startNext again, at once and   *)
(* without end: the recursion ends with a RangeError, which the innermost  *)
(* calls catch or not depending on where the stack is exhausted.  Those    *)
(* that catch it settle the prompt they hold as failed, so some number of  *)
(* prompts fails, from the front, and the others stay pending.             *)
(***************************************************************************)
HeldBack(act, comp) == comp /\ act = NoTurn

StartNext(pend, st, cur, act, comp) ==
    \/ /\ cur # None \/ pend = <<>>
       /\ held' = None
       /\ pending' = pend
       /\ state' = st
    \/ /\ cur = None /\ pend # <<>> /\ ~HeldBack(act, comp)
       /\ held' = Head(pend)
       /\ pending' = Tail(pend)
       /\ state' = st
    \/ /\ cur = None /\ pend # <<>> /\ HeldBack(act, comp)
       /\ held' = None
       /\ \E n \in 0..Len(pend) :
             /\ pending' = SubSeq(pend, n + 1, Len(pend))
             /\ state' = [p \in Prompts |->
                             IF p \in ToSet(SubSeq(pend, 1, n)) THEN "settled" ELSE st[p]]

\* What the current prompt's result does in settle, before startNext.
SettledStates ==
    [p \in Prompts |-> IF p = current.prompt \/ p \in followers THEN "settled" ELSE state[p]]

\* settle, once the turn with identifier id has its result
Settle(id) ==
    IF current # None /\ current.turn = id
    THEN /\ current' = None
         /\ followers' = {}
         /\ StartNext(pending, SettledStates, None, active', compacting)
    ELSE UNCHANGED promptVars

\* Mutant: a prompt enqueued behind another goes to the head.
EnqueueAtHead(p) ==
    /\ state[p] = "new"
    /\ \A q \in Prompts : q < p => state[q] # "new"
    /\ IF current = None /\ held = None /\ ~HeldBack(active, compacting)
       THEN StartNext(<<p>> \o pending, [state EXCEPT ![p] = "pending"], None, active, compacting)
       ELSE /\ pending' = <<p>> \o pending
            /\ state' = [state EXCEPT ![p] = "pending"]
            /\ UNCHANGED held
    /\ UNCHANGED <<current, followers, clockVars, aborted, envVars>>

\* The push of enqueue and what follows it in the same step.
Enqueue(p) ==
    LET pend == Append(pending, p)
        st == [state EXCEPT ![p] = "pending"]
    IN /\ state[p] = "new"
       /\ \A q \in Prompts : q < p => state[q] # "new"
       /\ IF current = None /\ held = None /\ ~HeldBack(active, compacting)
          THEN StartNext(pend, st, None, active, compacting)
          ELSE pending' = pend /\ state' = st /\ UNCHANGED held
       /\ UNCHANGED <<current, followers, clockVars, aborted, envVars>>

\* Mutant: without the finally block.
HookStopsQueue ==
    /\ held # None
    /\ held' = None
    /\ state' = [state EXCEPT ![held] = "settled"]
    /\ UNCHANGED <<pending, current, followers, clockVars, aborted, envVars>>

\* onBeforeSubmitPrompt blocks the prompt or throws.
HookStops ==
    /\ held # None
    /\ StartNext(pending, [state EXCEPT ![held] = "settled"], current, active, compacting)
    /\ UNCHANGED <<current, followers, clockVars, aborted, envVars>>

\* The hook lets the prompt pass; its request is admitted with a turn of its own.
HookPasses ==
    /\ held # None
    /\ current' = [prompt |-> held, turn |-> NewTurnId]
    /\ state' = [state EXCEPT ![held] = "running"]
    /\ held' = None
    /\ CreateTurn
    /\ UNCHANGED <<pending, followers, aborted, envVars>>

\* blockedByHook comes back.
HookReturns == HookPasses \/ HookStops

\* Mutant: the steered prompt stays in the queue.
SteerKeepingQueue(p) ==
    /\ current # None
    /\ p \in ToSet(pending)
    /\ followers' = followers \cup {p}
    /\ state' = [state EXCEPT ![p] = "steered"]
    /\ UNCHANGED <<pending, held, current, clockVars, aborted, envVars>>

\* pending.splice(pending.indexOf(p), 1)
Splice(p) == \E i \in 1..Len(pending) : /\ pending[i] = p
                                        /\ pending' = RemoveAt(pending, i)

\* steer([p]): the request joins the active turn, the prompt the steered ones
\* of the current prompt.
Steer(p) ==
    /\ current # None
    /\ Splice(p)
    /\ followers' = followers \cup {p}
    /\ state' = [state EXCEPT ![p] = "steered"]
    /\ UNCHANGED <<held, current, clockVars, aborted, envVars>>

\* abort of a pending prompt; one that is held is in no list and not found.
AbortPending(p) ==
    /\ Splice(p)
    /\ state' = [state EXCEPT ![p] = "settled"]
    /\ UNCHANGED <<held, current, followers, clockVars, aborted, envVars>>

\* cancel of the active turn, by abort of its prompt or by turn: only a signal.
AbortActive ==
    /\ ~aborted
    /\ aborted' = TRUE
    /\ CancelActive
    /\ UNCHANGED <<promptVars, envVars>>

\* cancel of a queued turn, whose result settles the prompt that owns it
AbortQueued(id) ==
    /\ CancelQueued(id)
    /\ Settle(id)
    /\ UNCHANGED <<aborted, envVars>>

\* The end of runTurn: release, pump, and the settlement of the prompt.
EndTurn ==
    /\ EndActive
    /\ Settle(active)
    /\ aborted' = FALSE
    /\ UNCHANGED envVars

\* A turn that owes nothing to the queue: retry, inject, a goal.  The bound
\* leaves an identifier to every prompt that may still need one.
OtherTurn ==
    /\ NewTurnId + Cardinality({p \in Prompts : state[p] \in {"new", "pending"}}) < MaxTurns
    /\ CreateTurn
    /\ UNCHANGED <<promptVars, aborted, envVars>>

\* begin: 'manual' on an idle loop only, 'auto' within the hooks of a step
BeginCompaction ==
    /\ ~compacting
    /\ compactions < MaxCompactions
    /\ compacting' = TRUE
    /\ compactions' = compactions + 1
    /\ UNCHANGED <<clockVars, promptVars, aborted, unwinding, crashes>>

\* cancelActive by the signal: compacting is null at once, the worker ends later.
CancelCompaction ==
    /\ compacting
    /\ compacting' = FALSE
    /\ unwinding' = unwinding + 1
    /\ UNCHANGED <<clockVars, promptVars, aborted, compactions, crashes>>

\* A compaction completes or fails, or the worker of a cancelled one ends.
CompactionEnds ==
    \/ compacting /\ compacting' = FALSE /\ UNCHANGED unwinding
    \/ unwinding > 0 /\ unwinding' = unwinding - 1 /\ UNCHANGED compacting

\* Mutant: nobody listens to onDidFinishCompaction.
EndCompactionUnheard ==
    /\ CompactionEnds
    /\ UNCHANGED <<promptVars, clockVars, aborted, compactions, crashes>>

\* The finally block of the worker: onDidFinishCompaction.
EndCompaction ==
    /\ CompactionEnds
    /\ IF held = None THEN StartNext(pending, state, current, active, compacting')
                      ELSE UNCHANGED <<state, pending, held>>
    /\ UNCHANGED <<current, followers, clockVars, aborted, compactions, crashes>>

\* Mutant: the reservation survives the restart.
RestartKeepingReservation(n) ==
    /\ crashes < MaxCrashes
    /\ crashes' = crashes + 1
    /\ log' = SubSeq(log, 1, n)
    /\ queued' = {} /\ active' = NoTurn
    /\ state' = [p \in Prompts |-> IF state[p] \in {"new", "settled"} THEN state[p] ELSE "lost"]
    /\ pending' = <<>> /\ held' = None /\ current' = None /\ followers' = {}
    /\ aborted' = FALSE
    /\ compacting' = FALSE /\ unwinding' = 0
    /\ UNCHANGED <<compactions, reserved>>

\* The process stops; the queue is memory only, a running compaction is
\* cancelled by normalizeAfterReplay.
Restart(n) ==
    /\ crashes < MaxCrashes
    /\ crashes' = crashes + 1
    /\ Crash(n)
    /\ state' = [p \in Prompts |-> IF state[p] \in {"new", "settled"} THEN state[p] ELSE "lost"]
    /\ pending' = <<>> /\ held' = None /\ current' = None /\ followers' = {}
    /\ aborted' = FALSE
    /\ compacting' = FALSE /\ unwinding' = 0
    /\ UNCHANGED compactions

QueueInit ==
    /\ Init
    /\ state = [p \in Prompts |-> "new"]
    /\ pending = <<>> /\ held = None /\ current = None /\ followers = {}
    /\ aborted = FALSE
    /\ compacting = FALSE /\ unwinding = 0 /\ compactions = 0 /\ crashes = 0
-----------------------------------------------------------------------------
(***************************************************************************)
(* Every prompt that is not settled is in the place the service looks for  *)
(* it, and in no other (promptService.ts:77-79, 207): a prompt in two      *)
(* places runs twice, one in none keeps its caller waiting for ever.       *)
(***************************************************************************)
NoPromptIsLost ==
    /\ held \notin ToSet(pending)
    /\ \A p \in Prompts :
          /\ (state[p] = "pending") <=> p \in ToSet(pending) \cup {held}
          /\ (state[p] = "running") <=> (current # None /\ current.prompt = p)
          /\ (state[p] = "steered") <=> p \in followers

(***************************************************************************)
(* The current prompt blocks every other until settle: the turn it waits   *)
(* for is still to end (promptService.ts:226, 239), whatever was           *)
(* cancelled, queued or steered meanwhile.                                 *)
(***************************************************************************)
ActiveHasLiveTurn ==
    /\ current # None => current.turn \in queued \cup {active}
    /\ followers # {} => current # None

(***************************************************************************)
(* No prompt waits for nothing: the queue stands still only behind a       *)
(* prompt being launched or run, or until the worker of a compaction ends, *)
(* each of which ends with startNext (promptService.ts:134, 235, 254,      *)
(* 316).                                                                   *)
(***************************************************************************)
NoPromptWaitsForNothing ==
    pending # <<>> => held # None \/ current # None \/ compacting \/ unwinding > 0

(***************************************************************************)
(* The user's prompts keep their order through put-backs, failures,        *)
(* compactions and steers (promptService.ts:133, 209, 212, 221): what is   *)
(* pending is ascending, and behind the prompt being launched or run.      *)
(***************************************************************************)
PromptsInOrder ==
    /\ Ascending(pending)
    /\ held # None => \A i \in 1..Len(pending) : held < pending[i]
    /\ current # None => \A i \in 1..Len(pending) : current.prompt < pending[i]
=============================================================================
