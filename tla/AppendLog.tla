----------------------------- MODULE AppendLog -----------------------------
(* One log of AppendLogStore: records appended to a key are buffered and       *)
(* written in batches by one flush at a time; rewrite replaces the file and    *)
(* keeps what is still buffered; the last release retires the buffer, and a    *)
(* replacement waits until it has been flushed.                                *)
(*                                                                             *)
(* A generation is one LogState of the source.  An owner is one call of        *)
(* ownFlush, that is one promise that state.flushPromise may hold.  Everything *)
(* between two awaits is one step; the completion of a storage call and the    *)
(* code it resumes are one step, because only the writer touches the file.     *)
(* Records are numbered in the order of the append calls; the records a        *)
(* rewrite is given are one value, Replacement.                                *)
EXTENDS Naturals, Sequences, SequencesExt, FiniteSets

CONSTANTS
    MaxRecords,       \* bound: appends
    MaxRewrites,      \* bound: calls of rewrite
    MaxFlushes,       \* bound: calls of flush and read
    MaxGenerations,   \* bound: LogStates one process creates
    MaxHandles,       \* bound: handles on one generation
    MaxFailures,      \* bound: storage calls that fail
    MaxCrashes        \* bound: crashes of the process

ASSUME BoundsAssumption ==
    /\ MaxRecords \in Nat /\ MaxRewrites \in Nat /\ MaxFlushes \in Nat
    /\ MaxGenerations \in Nat \ {0} /\ MaxHandles \in Nat
    /\ MaxFailures \in Nat /\ MaxCrashes \in Nat

Replacement == 0
Generations == 1 .. MaxGenerations

(* A promise is named by what made it: a generation has at most one owner     *)
(* that began as a drain, and rewrites are numbered in the order of the calls. *)
Owners == 1 .. MaxGenerations + MaxRewrites
None == 0
DrainOwner(g) == g

VARIABLES
    lines,     \* the file: its complete lines
    torn,      \* whether the file ends in an incomplete line
    current,   \* the entry of the map logs, None when there is none
    log,       \* the LogStates
    owner,     \* the promises made by ownFlush, "free" once settled
    calls,     \* how often each bounded operation happened
    settled    \* what the callers were told (see NothingSettled)

vars == <<lines, torn, current, log, owner, calls, settled>>

-----------------------------------------------------------------------------
(* The file.  A line appended after an incomplete one continues it: its       *)
(* record is in the file and cannot be parsed.  (An incomplete line that      *)
(* lacks only its newline would be read as its record; the model does not     *)
(* tell it apart.)                                                            *)

Line(r, ok) == [rec |-> r, ok |-> ok]

Written(batch) ==
    [i \in 1 .. Len(batch) |-> Line(batch[i], ~(torn /\ i = 1))]

OnDisk == {lines[i].rec : i \in DOMAIN lines}

(* What read() yields: parseLine drops an incomplete last line and throws on  *)
(* any other line it cannot parse.                                            *)
Readable == \A i \in DOMAIN lines : lines[i].ok

-----------------------------------------------------------------------------
NewLog(ready) ==
    [pending |-> <<>>, flushPromise |-> None, flushScheduled |-> FALSE,
     storageFailure |-> FALSE, cutoverEpoch |-> 0, refCount |-> 0,
     retired |-> FALSE, ready |-> ready, retirement |-> "none", awaits |-> None]

NoLog == [NewLog(None) EXCEPT !.retirement = "absent"]

FreeOwner ==
    [gen |-> None, pc |-> "free", epoch |-> 0, batch |-> 0, prior |-> None,
     promised |-> {}, covered |-> {}, foreign |-> {}]

Exists(g) == log[g].retirement # "absent"

(* `state.ready` has resolved: the retirement of the generation before settled. *)
Ready(g) == log[g].ready # None => log[log[g].ready].retirement = "settled"

(* state(scope, key): the entry of the map, or a replacement of an entry that *)
(* is missing or retired.                                                     *)
Live == current # None /\ ~log[current].retired

Fresh == CHOOSE g \in Generations : ~Exists(g) /\ \A h \in 1 .. g - 1 : Exists(h)

CanState == Live \/ \E g \in Generations : ~Exists(g)

StateOf == IF Live THEN current ELSE Fresh

Logs == IF Live THEN log ELSE [log EXCEPT ![Fresh] = NewLog(current)]

RewriteOwner == MaxGenerations + calls.rewrite + 1

(* A drain starts by reading the epoch and awaiting `ready`. *)
Drain(L, g, promised) ==
    [FreeOwner EXCEPT !.gen = g, !.pc = "ready", !.epoch = L[g].cutoverEpoch,
                      !.promised = promised]

\* Mutant of FlushState: a flush after a failure writes the batch again.
FlushStateRetries(L, g, promised) ==
    \/ /\ L[g].flushPromise # None
       /\ owner' = [owner EXCEPT ![L[g].flushPromise].promised = @ \cup promised]
       /\ log' = L
    \/ /\ L[g].flushPromise = None
       /\ owner' = [owner EXCEPT ![DrainOwner(g)] = Drain(L, g, promised)]
       /\ log' = [L EXCEPT ![g].flushPromise = DrainOwner(g)]

(* flushState on generation g of L; the caller is promised the durability of  *)
(* the given records.  Answers are recorded when the promise settles.         *)
FlushState(L, g, promised) ==
    \/ /\ L[g].flushPromise # None
       /\ owner' = [owner EXCEPT ![L[g].flushPromise].promised = @ \cup promised]
       /\ log' = L
    \/ /\ L[g].flushPromise = None /\ L[g].storageFailure
       /\ owner' = owner
       /\ log' = L
    \/ /\ L[g].flushPromise = None /\ ~L[g].storageFailure
       /\ owner' = [owner EXCEPT ![DrainOwner(g)] = Drain(L, g, promised)]
       /\ log' = [L EXCEPT ![g].flushPromise = DrainOwner(g)]

Count(op) == calls' = [calls EXCEPT ![op] = @ + 1]

(* The caller's side: which records are known durable, which a rewrite        *)
(* replaced, which were buffered at a crash.  `early` are those acknowledged by a    *)
(* flush that a rewrite overtook; `overrun` those a rewrite met in the        *)
(* generation before its own, still on their way to the file.                 *)
NothingSettled ==
    [acked |-> {}, early |-> {}, superseded |-> {}, overrun |-> {}, lost |-> {}]

-----------------------------------------------------------------------------
Init ==
    /\ lines = <<>> /\ torn = FALSE
    /\ current = None
    /\ log = [g \in Generations |-> NoLog]
    /\ owner = [p \in Owners |-> FreeOwner]
    /\ calls = [append |-> 0, rewrite |-> 0, flush |-> 0, failure |-> 0, crash |-> 0]
    /\ settled = NothingSettled

Acquire ==
    /\ CanState
    /\ Logs[StateOf].refCount < MaxHandles
    /\ log' = [Logs EXCEPT ![StateOf].refCount = @ + 1]
    /\ current' = StateOf
    /\ UNCHANGED <<lines, torn, owner, calls, settled>>

\* Mutant of AppendRecord: no microtask is queued.
AppendRecordUnscheduled ==
    /\ calls.append < MaxRecords
    /\ CanState
    /\ log' = [Logs EXCEPT ![StateOf].pending = Append(@, calls.append + 1)]
    /\ current' = StateOf
    /\ Count("append")
    /\ UNCHANGED <<lines, torn, owner, settled>>

(* append: scheduleFlush queues a microtask unless a flush is under way. *)
AppendRecord ==
    /\ calls.append < MaxRecords
    /\ CanState
    /\ log' = [Logs EXCEPT ![StateOf].pending = Append(@, calls.append + 1),
                           ![StateOf].flushScheduled =
                               @ \/ Logs[StateOf].flushPromise = None]
    /\ current' = StateOf
    /\ Count("append")
    /\ UNCHANGED <<lines, torn, owner, settled>>

ScheduledFlush(g) ==
    /\ log[g].flushScheduled
    /\ FlushState([log EXCEPT ![g].flushScheduled = FALSE], g, {})
    /\ UNCHANGED <<lines, torn, current, calls, settled>>

(* flush() takes the entry of the map as it is. *)
Flush ==
    /\ calls.flush < MaxFlushes
    /\ current # None
    /\ FlushState(log, current, ToSet(log[current].pending))
    /\ Count("flush")
    /\ UNCHANGED <<lines, torn, current, settled>>

(* read() flushes first, and makes an entry when there is none. *)
ReadFlush ==
    /\ calls.flush < MaxFlushes
    /\ CanState
    /\ FlushState(Logs, StateOf, ToSet(Logs[StateOf].pending))
    /\ current' = StateOf
    /\ Count("flush")
    /\ UNCHANGED <<lines, torn, settled>>

(* rewrite: takes ownership at once and runs after the flush under way, or    *)
(* after `ready`.  Its records stand for what is in the file and no longer in *)
(* the buffer.                                                                *)
Rewrite ==
    /\ calls.rewrite < MaxRewrites
    /\ CanState
    /\ LET g == StateOf
           retiring == {h \in Generations : Exists(h) /\ h # g /\ log[h].retirement # "settled"}
       IN  /\ owner' = [owner EXCEPT ![RewriteOwner] =
                 [FreeOwner EXCEPT
                     !.gen = g, !.pc = "prior", !.prior = Logs[g].flushPromise,
                     !.covered = OnDisk \ ToSet(Logs[g].pending),
                     !.foreign = UNION {ToSet(log[h].pending) : h \in retiring}]]
           /\ log' = [Logs EXCEPT ![g].cutoverEpoch = @ + 1, ![g].flushPromise = RewriteOwner]
           /\ current' = g
    /\ Count("rewrite")
    /\ UNCHANGED <<lines, torn, settled>>

(* release: the last handle retires the generation and starts its last flush. *)
DropHandle(g) ==
    IF log[g].refCount > 1
    THEN /\ log' = [log EXCEPT ![g].refCount = @ - 1]
         /\ UNCHANGED owner
    ELSE LET p == IF log[g].flushPromise # None THEN log[g].flushPromise
                  ELSE IF log[g].storageFailure THEN None ELSE DrainOwner(g)
         IN  FlushState([log EXCEPT ![g].refCount = @ - 1, ![g].retired = TRUE,
                                    ![g].retirement = "flushing", ![g].awaits = p],
                        g, {})

Release(g) ==
    /\ log[g].refCount > 0
    /\ DropHandle(g)
    /\ UNCHANGED <<lines, torn, current, calls, settled>>

(* settleRetiredState, after its flush settled. *)
RetirementSettles(g) ==
    /\ log[g].retirement = "flushing" /\ log[g].awaits = None
    /\ log' = [log EXCEPT ![g].retirement = "settled"]
    /\ current' = IF current = g THEN None ELSE current
    /\ UNCHANGED <<lines, torn, owner, calls, settled>>

-----------------------------------------------------------------------------
(* The steps of owner p. *)

Mine(p) == log[owner[p].gen]
Cutover(p) == Mine(p).cutoverEpoch # owner[p].epoch

(* The next batch of a drain, or its end. *)
NextBatch(p, pending) ==
    owner' = [owner EXCEPT ![p].pc = IF pending = <<>> THEN "done" ELSE "appending",
                           ![p].batch = Len(pending)]

DrainResumes(p) ==
    /\ owner[p].pc = "ready"
    /\ Ready(owner[p].gen)
    /\ IF Cutover(p) THEN owner' = [owner EXCEPT ![p].pc = "done"]
                     ELSE NextBatch(p, Mine(p).pending)
    /\ UNCHANGED <<lines, torn, current, log, calls, settled>>

\* Mutant of AppendSucceeds: the epoch is not read again after the append.
AppendSucceedsThroughCutover(p) ==
    /\ owner[p].pc = "appending"
    /\ LET pending == Mine(p).pending
           rest == SubSeq(pending, owner[p].batch + 1, Len(pending))
       IN  /\ lines' = lines \o Written(SubSeq(pending, 1, owner[p].batch))
           /\ torn' = FALSE
           /\ log' = [log EXCEPT ![owner[p].gen].pending = rest]
           /\ NextBatch(p, rest)
    /\ UNCHANGED <<current, calls, settled>>

(* The batch is in the file; it leaves the buffer unless a rewrite took over. *)
AppendSucceeds(p) ==
    /\ owner[p].pc = "appending"
    /\ LET pending == Mine(p).pending
           rest == SubSeq(pending, owner[p].batch + 1, Len(pending))
       IN  /\ lines' = lines \o Written(SubSeq(pending, 1, owner[p].batch))
           /\ torn' = FALSE
           /\ IF Cutover(p)
              THEN /\ owner' = [owner EXCEPT ![p].pc = "done"]
                   /\ UNCHANGED log
              ELSE /\ log' = [log EXCEPT ![owner[p].gen].pending = rest]
                   /\ NextBatch(p, rest)
    /\ UNCHANGED <<current, calls, settled>>

(* What a failed or interrupted append leaves: some of the lines, and perhaps *)
(* the beginning of the next one.                                             *)
PartialAppend(p) ==
    \E n \in 0 .. owner[p].batch, tear \in BOOLEAN :
        /\ tear => n < owner[p].batch
        /\ lines' = lines \o Written(SubSeq(Mine(p).pending, 1, n))
        /\ torn' = (tear \/ (torn /\ n = 0))

AppendFails(p) ==
    /\ calls.failure < MaxFailures
    /\ owner[p].pc = "appending"
    /\ PartialAppend(p)
    /\ log' = [log EXCEPT ![owner[p].gen].storageFailure = TRUE]
    /\ owner' = [owner EXCEPT ![p].pc = "failed"]
    /\ Count("failure")
    /\ UNCHANGED <<current, settled>>

\* Mutant of RewriteStarts: the flush under way is not awaited.
RewriteStartsAtOnce(p) ==
    /\ owner[p].pc = "prior"
    /\ owner' = [owner EXCEPT ![p].pc = "writing"]
    /\ UNCHANGED <<lines, torn, current, log, calls, settled>>

RewriteStarts(p) ==
    /\ owner[p].pc = "prior" /\ owner[p].prior = None
    /\ Ready(owner[p].gen)
    /\ owner' = [owner EXCEPT ![p].pc = "writing"]
    /\ UNCHANGED <<lines, torn, current, log, calls, settled>>

(* The rename of the atomic write, and what it means for the records that     *)
(* were in the file.                                                          *)
Replace == lines' = <<Line(Replacement, TRUE)>> /\ torn' = FALSE

Replaced(p) ==
    [settled EXCEPT !.superseded = @ \cup owner[p].covered,
                    !.overrun = @ \cup (owner[p].foreign \cap OnDisk)]

WriteSucceeds(p) ==
    /\ owner[p].pc = "writing"
    /\ Replace /\ settled' = Replaced(p)
    /\ log' = [log EXCEPT ![owner[p].gen].storageFailure = FALSE]
    /\ owner' = [owner EXCEPT ![p].pc = "done"]
    /\ UNCHANGED <<current, calls>>

(* write also throws when the directory cannot be synced after the rename. *)
WriteFails(p) ==
    /\ calls.failure < MaxFailures
    /\ owner[p].pc = "writing"
    /\ \/ Replace /\ settled' = Replaced(p)
       \/ UNCHANGED <<lines, torn, settled>>
    /\ log' = [log EXCEPT ![owner[p].gen].storageFailure = TRUE]
    /\ owner' = [owner EXCEPT ![p].pc = "failed"]
    /\ Count("failure")
    /\ UNCHANGED current

Owns(p) == Mine(p).flushPromise = p

(* finishOwnedFlush: drain again what was appended meanwhile ... *)
DrainAgain(p) ==
    /\ owner[p].pc = "done" /\ Owns(p) /\ Mine(p).pending # <<>>
    /\ owner' = [owner EXCEPT ![p].pc = "ready", ![p].epoch = Mine(p).cutoverEpoch]
    /\ UNCHANGED <<lines, torn, current, log, calls, settled>>

(* ... or give up ownership and settle, which resumes a rewrite or a          *)
(* retirement that waits for this flush.                                      *)
Settle(p) ==
    /\ log' = [g \in Generations |->
                 [log[g] EXCEPT !.flushPromise = IF @ = p THEN None ELSE @,
                                !.awaits = IF @ = p THEN None ELSE @]]
    /\ owner' = [q \in Owners |->
                   IF q = p THEN FreeOwner
                   ELSE [owner[q] EXCEPT !.prior = IF @ = p THEN None ELSE @]]
    /\ settled' = IF owner[p].pc = "failed" THEN settled
                  ELSE IF Owns(p) THEN [settled EXCEPT !.acked = @ \cup owner[p].promised]
                  ELSE [settled EXCEPT !.early = @ \cup owner[p].promised]
    /\ UNCHANGED <<lines, torn, current, calls>>

\* Mutant of OwnerSettles: a failed flush keeps the ownership (no finally).
OwnerSettlesOnSuccess(p) ==
    /\ owner[p].pc = "done" /\ ~(Owns(p) /\ Mine(p).pending # <<>>)
    /\ Settle(p)

OwnerSettles(p) ==
    /\ \/ owner[p].pc = "failed"
       \/ owner[p].pc = "done" /\ ~(Owns(p) /\ Mine(p).pending # <<>>)
    /\ Settle(p)

-----------------------------------------------------------------------------
Buffered == UNION {ToSet(log[g].pending) : g \in Generations}

Forget(s) == [s EXCEPT !.lost = @ \cup Buffered]

(* The process dies; the next one starts with an empty map.  A storage call   *)
(* under way may have had a part of its effect.                               *)
Crash ==
    /\ calls.crash < MaxCrashes
    /\ \/ \E p \in Owners : /\ owner[p].pc = "appending" /\ PartialAppend(p)
                             /\ settled' = Forget(settled)
       \/ \E p \in Owners : /\ owner[p].pc = "writing" /\ Replace
                             /\ settled' = Forget(Replaced(p))
       \/ UNCHANGED <<lines, torn>> /\ settled' = Forget(settled)
    /\ current' = None
    /\ log' = [g \in Generations |-> NoLog]
    /\ owner' = [p \in Owners |-> FreeOwner]
    /\ Count("crash")

OwnerStep(p) ==
    \/ DrainResumes(p) \/ AppendSucceeds(p) \/ AppendFails(p)
    \/ RewriteStarts(p) \/ WriteSucceeds(p) \/ WriteFails(p)
    \/ DrainAgain(p) \/ OwnerSettles(p)

Next ==
    \/ Acquire \/ AppendRecord \/ Flush \/ ReadFlush \/ Rewrite
    \/ \E g \in Generations : Release(g) \/ ScheduledFlush(g) \/ RetirementSettles(g)
    \/ \E p \in Owners : OwnerStep(p)
    \/ Crash

SafetySpec == Init /\ [][Next]_vars

(* Microtasks run and storage calls return: FileStorageService has no call    *)
(* that waits for anything but the file system.                               *)
Spec ==
    /\ SafetySpec
    /\ \A g \in Generations : WF_vars(ScheduledFlush(g)) /\ WF_vars(RetirementSettles(g))
    /\ \A p \in Owners : WF_vars(OwnerStep(p))

-----------------------------------------------------------------------------
Records == 1 .. MaxRecords

TypeOK ==
    /\ lines \in Seq([rec : Records \cup {Replacement}, ok : BOOLEAN])
    /\ torn \in BOOLEAN
    /\ current \in Generations \cup {None}
    /\ \A g \in Generations :
         /\ log[g].pending \in Seq(Records)
         /\ log[g].flushPromise \in Owners \cup {None}
         /\ log[g].flushScheduled \in BOOLEAN
         /\ log[g].storageFailure \in BOOLEAN
         /\ log[g].cutoverEpoch \in 0 .. MaxRewrites
         /\ log[g].refCount \in 0 .. MaxHandles
         /\ log[g].retired \in BOOLEAN
         /\ log[g].ready \in Generations \cup {None}
         /\ log[g].retirement \in {"absent", "none", "flushing", "settled"}
         /\ log[g].awaits \in Owners \cup {None}
    /\ \A p \in Owners :
         /\ owner[p].pc \in {"free", "prior", "writing", "ready", "appending", "done", "failed"}
         /\ owner[p].gen \in Generations \cup {None}
         /\ owner[p].prior \in Owners \cup {None}
         /\ owner[p].epoch \in 0 .. MaxRewrites /\ owner[p].batch \in 0 .. MaxRecords
         /\ owner[p].promised \subseteq Records

(* At most one storage call on the file is under way, across all generations  *)
(* of the buffer and every rewrite: the owner chain (prior, ready) serializes *)
(* them.                                                                      *)
OneWriter ==
    \A p, q \in Owners :
        owner[p].pc \in {"appending", "writing"} /\ owner[q].pc \in {"appending", "writing"}
            => p = q

(* The file holds every record at most once and in the order of the append    *)
(* calls, after replacement records if there are any, whatever fails, is      *)
(* rewritten, retired or restarted: a batch whose fate is unknown is never    *)
(* written again behind itself, and what a generation without a failure still *)
(* has to write comes after everything in the file.                           *)
FileInOrder ==
    /\ \A i, j \in DOMAIN lines : i < j => lines[i].rec < lines[j].rec
    /\ \A g \in Generations : ~log[g].storageFailure =>
           \A r \in ToSet(log[g].pending) \ OnDisk, i \in DOMAIN lines : lines[i].rec < r

(* Every record ever appended is in the file, or was there when a rewrite     *)
(* that replaced it was called, or is still buffered, or was buffered when    *)
(* the process died: the cutover of a rewrite and the hand-over between       *)
(* generations lose nothing else, but for records overrun by a rewrite of a   *)
(* later generation.                                                          *)
NoRecordVanishes ==
    1 .. calls.append
        \subseteq OnDisk \cup settled.superseded \cup Buffered \cup settled.lost \cup settled.overrun

(* A record whose flush resolved without being overtaken by a rewrite is in   *)
(* the file, crashes included, until a rewrite that knew of it replaces it.   *)
AcknowledgedIsDurable ==
    settled.acked \subseteq OnDisk \cup settled.superseded \cup settled.overrun

(* Every buffered record is written in the end, or the generation has failed  *)
(* and says so, or the process died.                                          *)
BufferDrains ==
    \A g \in Generations :
        log[g].pending # <<>> ~> (log[g].pending = <<>> \/ log[g].storageFailure)

(* Every flush and every rewrite settles, also behind a chain of others, and a *)
(* retired generation lets go of the file.                                     *)
FlushesSettle ==
    \A g \in Generations :
        /\ log[g].flushPromise # None ~> log[g].flushPromise = None
        /\ log[g].retirement = "flushing" ~> log[g].retirement # "flushing"

-----------------------------------------------------------------------------
(* Stated by the source and not true of it. *)

(* interface/appendLogStore.ts:18: flush waits for the buffer to settle; so   *)
(* its records are in the file, or replaced, when it resolves.                *)
FlushWaitsForBuffer ==
    settled.early \subseteq OnDisk \cup settled.superseded

(* appendLogStore.ts:7: decoding tolerates crashes.  With a crash as the only *)
(* failure, the log stays readable.                                           *)
CrashesAreTolerated == Readable
=============================================================================
