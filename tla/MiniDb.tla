------------------------------- MODULE MiniDb -------------------------------
(* The durable core of minidb: writes are appended to a log in groups and      *)
(* applied to the store in the same tick; a failed group poisons the log, is   *)
(* rolled back and cut off the file; a compaction writes a snapshot while      *)
(* writers go on and then replaces both files; a reopen replays the log over   *)
(* the snapshot.                                                               *)
(*                                                                             *)
(* Everything between two awaits of I/O is one step: the completion of a       *)
(* system call, the promises it settles and the code they resume.  Every frame *)
(* has length 1, so the torn frame at the end of a partial write is not told   *)
(* apart from none.  set, del and the commands of a batch differ in what they  *)
(* store only: a write is a number, and a delete is one that stores nothing.   *)
(* A crash is one of the process: what reached the page cache survives.        *)
EXTENDS Naturals, Sequences, FiniteSets

CONSTANTS
    Writers,          \* callers of set(); each has one call open at a time
    Keys,
    MaxWrites,        \* bound: calls of set()
    MaxFailures,      \* bound: system calls that fail
    MaxCompactions,   \* bound: compactions started
    MaxCrashes,       \* bound: crashes of the process
    CompactWhileRecovering  \* scope: whether compact() may be called while a
                            \* poisoned log is still being cut

ASSUME MiniDbBounds ==
    /\ CompactWhileRecovering \in BOOLEAN
    /\ MaxWrites \in Nat /\ MaxFailures \in Nat
    /\ MaxCompactions \in Nat /\ MaxCrashes \in Nat

VARIABLES
    store,      \* the records in memory
    wal,        \* the WAL object of the instance
    disk,       \* the files at the paths of the log and the snapshot
    reader,     \* what the descriptors of the value reader still hold
    op,         \* the open calls
    recovery,   \* the recovery of a poisoned log
    disabled,   \* writeDisabled
    compaction, \* the compaction
    told,       \* what callers were told: the newest acknowledged write of
                \* each key, the rejected writes, the number of appends
    used        \* how often each bounded thing happened

vars == <<store, wal, disk, reader, op, recovery, disabled, compaction, told, used>>

NotPoisoned == [poisoned |-> FALSE, failedAtOffset |-> 0]

(* A record of the store: the write it holds (0: none) and where the value is *)
InMemory == [file |-> "memory", off |-> 0]
Absent == [id |-> 0, loc |-> InMemory]
Untouched == [id |-> 0, loc |-> [file |-> "none", off |-> 0]]
NoGroup == [k \in Keys |-> Untouched]

FreshWal(size) ==
    [state |-> "open", size |-> size, nextOffset |-> size, queue |-> <<>>, batch |-> <<>>,
     poison |-> NotPoisoned, queueGroup |-> NoGroup, batchGroup |-> NoGroup]

NoCompaction ==
    [pc |-> "idle", base |-> 0, snap |-> [k \in Keys |-> 0], copied |-> 0,
     tmp |-> <<>>, appended |-> FALSE, rotated |-> FALSE]

SamePath == [walOld |-> FALSE, wal |-> <<>>, snapOld |-> FALSE, snap |-> [k \in Keys |-> 0]]
NoCall == [pc |-> "none", key |-> "none", id |-> 0, retried |-> FALSE]
NoRecovery == [pc |-> "idle", failedAtOffset |-> 0]

Init ==
    /\ store = [k \in Keys |-> Absent]
    /\ wal = FreshWal(0)
    /\ disk = [wal |-> <<>>, snap |-> [k \in Keys |-> 0]]
    /\ reader = SamePath
    /\ op = [w \in Writers |-> NoCall]
    /\ recovery = NoRecovery
    /\ disabled = FALSE
    /\ compaction = NoCompaction
    /\ told = [acked |-> [k \in Keys |-> 0], rejected |-> {}, appends |-> 0]
    /\ used = [writes |-> 0, failures |-> 0, compactions |-> 0, crashes |-> 0]

Spend(what) == used' = [used EXCEPT ![what] = @ + 1]
MayFail == used.failures < MaxFailures

-----------------------------------------------------------------------------
(* The rotation lock is held from the seal to the end of the rotation. *)
Rotating == compaction.pc \in {"drain", "renameSnapshot", "renameWal", "open", "rollForward"}

(* set(): the call waits for the rotation lock, is validated, and may wait    *)
(* for evictions before it commits.                                           *)
Set(w, k) ==
    /\ op[w].pc = "none" /\ used.writes < MaxWrites
    /\ op' = [op EXCEPT ![w] = [NoCall EXCEPT !.key = k, !.pc = IF Rotating THEN "parked" ELSE "admitted"]]
    /\ Spend("writes")
    /\ UNCHANGED <<store, wal, disk, reader, recovery, disabled, compaction, told>>

PassRotationLock(w) ==
    /\ op[w].pc = "parked" /\ ~op[w].retried /\ ~Rotating
    /\ op' = [op EXCEPT ![w].pc = "admitted"]
    /\ UNCHANGED <<store, wal, disk, reader, recovery, disabled, compaction, told, used>>

\* Mutant of Note: the latest capture of a group wins.
NoteLatest(group, k) == [group EXCEPT ![k] = store[k]]

(* groupNoteKey: the earliest capture of a group wins. *)
Note(group, k) == IF group[k] = Untouched THEN [group EXCEPT ![k] = store[k]] ELSE group

(* The frame joins the queue, and the write is applied in the same tick. *)
AppendAndApply(w) ==
    LET k == op[w].key
        id == told.appends + 1
    IN  /\ wal.state = "open" /\ ~wal.poison.poisoned
        /\ wal' = [wal EXCEPT !.queue = Append(@, [id |-> id, key |-> k]),
                              !.nextOffset = @ + 1, !.queueGroup = Note(@, k)]
        /\ store' = [store EXCEPT ![k] = [id |-> id, loc |-> InMemory]]
        /\ op' = [op EXCEPT ![w].pc = "written", ![w].id = id]
        /\ told' = [told EXCEPT !.appends = id]
        /\ UNCHANGED recovery

(* An append refused by a sealed log, or by a closed one in a rotation, is    *)
(* undone in the same drain of microtasks and tried once more.                *)
RetryAfterSeal(w) ==
    /\ \/ wal.state = "sealed" /\ ~wal.poison.poisoned
       \/ wal.state = "closed" /\ Rotating
    /\ ~op[w].retried
    /\ op' = [op EXCEPT ![w].pc = "parked", ![w].retried = TRUE]
    /\ UNCHANGED <<store, wal, told, recovery>>

(* Any other refusal reaches the caller; a poisoned log is recovered again    *)
(* when its recovery has given up.                                            *)
Refuse(w) ==
    /\ \/ wal.state = "closed" /\ (~Rotating \/ op[w].retried)
       \/ wal.state = "sealed" /\ op[w].retried
       \/ wal.state # "closed" /\ wal.poison.poisoned
    /\ op' = [op EXCEPT ![w] = NoCall]
    /\ recovery' = IF wal.state # "closed" /\ wal.poison.poisoned
                   THEN [pc |-> "truncate", failedAtOffset |-> wal.poison.failedAtOffset]
                   ELSE recovery
    /\ UNCHANGED <<store, wal, told>>

Append1(w) == AppendAndApply(w) \/ RetryAfterSeal(w) \/ Refuse(w)

(* The commit body: the gate throws while writes are disabled and waits for a *)
(* recovery in flight; then the frame is appended.                            *)
Commit(w) ==
    /\ \/ op[w].pc = "admitted"
       \/ op[w].pc = "parked" /\ op[w].retried /\ ~Rotating
    /\ \/ /\ disabled
          /\ op' = [op EXCEPT ![w] = NoCall]
          /\ UNCHANGED <<store, wal, recovery, told>>
       \/ /\ ~disabled /\ recovery.pc # "idle"
          /\ op' = [op EXCEPT ![w].pc = "gated"]
          /\ UNCHANGED <<store, wal, recovery, told>>
       \/ ~disabled /\ recovery.pc = "idle" /\ Append1(w)
    /\ UNCHANGED <<disk, reader, disabled, compaction, used>>

CommitAfterRecovery(w) ==
    /\ op[w].pc = "gated" /\ recovery.pc = "idle"
    /\ Append1(w)
    /\ UNCHANGED <<disk, reader, disabled, compaction, used>>

-----------------------------------------------------------------------------
(* Group commit. *)
Writing == wal.batch # <<>>

StartBatch ==
    /\ ~Writing /\ wal.queue # <<>> /\ ~wal.poison.poisoned
    /\ wal' = [wal EXCEPT !.batch = wal.queue, !.queue = <<>>,
                          !.batchGroup = wal.queueGroup, !.queueGroup = NoGroup]
    /\ UNCHANGED <<store, disk, reader, op, recovery, disabled, compaction, told, used>>

Ids(frames) == {frames[i].id : i \in DOMAIN frames}

(* The callers whose frames settle return. *)
Return(ids) == [w \in Writers |-> IF op[w].pc = "written" /\ op[w].id \in ids THEN NoCall ELSE op[w]]

\* Mutant of Publish: the pointer is published over a newer record.
PublishStale(batch, first) ==
    [k \in Keys |->
        IF \E i \in DOMAIN batch : batch[i].key = k
        THEN [store[k] EXCEPT !.loc = [file |-> "wal", off |-> first + (CHOOSE i \in DOMAIN batch : batch[i].key = k) - 1]]
        ELSE store[k]]

(* publishWalRef: a record not overwritten since points to its frame. *)
Publish(batch, first) ==
    [k \in Keys |->
        IF store[k].id \in Ids(batch)
        THEN LET i == CHOOSE j \in DOMAIN batch : batch[j].id = store[k].id
             IN  [store[k] EXCEPT !.loc = [file |-> "wal", off |-> first + i - 1]]
        ELSE store[k]]

NewestOf(k, batch, acked) ==
    LET mine == {batch[i].id : i \in {j \in DOMAIN batch : batch[j].key = k}}
    IN  IF mine = {} THEN acked ELSE CHOOSE id \in mine : \A other \in mine : other <= id

\* Mutant of FirstOffset: the frames queued behind the batch are forgotten.
FirstOffsetOfQueue == wal.nextOffset - Len(wal.batch)

(* The predicted offset of the first frame of the batch. *)
FirstOffset == wal.nextOffset - Len(wal.queue) - Len(wal.batch)

BatchLands ==
    /\ Writing
    /\ disk' = [disk EXCEPT !.wal = @ \o wal.batch]
    /\ wal' = [wal EXCEPT !.batch = <<>>, !.batchGroup = NoGroup, !.size = @ + Len(wal.batch)]
    /\ store' = Publish(wal.batch, FirstOffset)
    /\ op' = Return(Ids(wal.batch))
    /\ told' = [told EXCEPT !.acked = [k \in Keys |-> NewestOf(k, wal.batch, @[k])]]
    /\ UNCHANGED <<reader, recovery, disabled, compaction, used>>

Restore(group, records) == [k \in Keys |-> IF group[k] = Untouched THEN records[k] ELSE group[k]]

\* Mutant of RollBack: the oldest group is rolled back first.
RollBackOldestFirst == Restore(wal.queueGroup, Restore(wal.batchGroup, store))

(* rejectQueued, then the frames of the batch: the newest group first. *)
RollBack == Restore(wal.batchGroup, Restore(wal.queueGroup, store))

\* Mutant of Unacked: only the frames of the batch are rejected.
UnackedBatch == Ids(wal.batch)

Unacked == Ids(wal.batch) \cup Ids(wal.queue)

(* A compaction that awaits the flush gets the failure. *)
FlushThrows ==
    CASE compaction.pc \in {"fence", "preCopy"} -> NoCompaction
      [] compaction.pc = "drain" -> [compaction EXCEPT !.pc = "rollForward"]
      [] OTHER -> compaction

(* Some prefix of the batch reached the file before the write, or the sync    *)
(* after it, failed.                                                          *)
BatchFails ==
    /\ Writing /\ MayFail
    /\ \E n \in 0 .. Len(wal.batch) :
          /\ disk' = [disk EXCEPT !.wal = @ \o SubSeq(wal.batch, 1, n)]
          /\ wal' = [wal EXCEPT !.poison = [poisoned |-> TRUE, failedAtOffset |-> FirstOffset],
                                !.batch = <<>>, !.queue = <<>>, !.size = @ + n,
                                !.batchGroup = NoGroup, !.queueGroup = NoGroup]
    /\ store' = RollBack
    /\ op' = Return(Unacked)
    /\ told' = [told EXCEPT !.rejected = @ \cup Unacked]
    /\ recovery' = [pc |-> "truncate", failedAtOffset |-> FirstOffset]
    /\ compaction' = FlushThrows
    /\ Spend("failures")
    /\ UNCHANGED <<reader, disabled>>

-----------------------------------------------------------------------------
(* recoverWalInPlace.  The truncation targets the path and the refreshed      *)
(* bookkeeping is that of the current log, which is closed while a rotation   *)
(* rolls forward.                                                             *)
Cut ==
    /\ recovery.pc = "truncate"
    /\ disk' = IF recovery.failedAtOffset <= Len(disk.wal)
               THEN [disk EXCEPT !.wal = SubSeq(@, 1, recovery.failedAtOffset)] ELSE disk
    /\ IF wal.state = "closed"
       THEN recovery' = NoRecovery /\ wal' = [wal EXCEPT !.poison = NotPoisoned]
       ELSE recovery' = [recovery EXCEPT !.pc = "refresh"] /\ UNCHANGED wal
    /\ UNCHANGED <<store, reader, op, disabled, compaction, told, used>>

CutFails ==
    /\ recovery.pc = "truncate" /\ MayFail
    /\ disabled' = TRUE /\ recovery' = NoRecovery
    /\ Spend("failures")
    /\ UNCHANGED <<store, wal, disk, reader, op, compaction, told>>

Refresh ==
    /\ recovery.pc = "refresh"
    /\ wal' = [wal EXCEPT !.size = Len(disk.wal), !.nextOffset = Len(disk.wal), !.poison = NotPoisoned]
    /\ recovery' = NoRecovery
    /\ UNCHANGED <<store, disk, reader, op, disabled, compaction, told, used>>

-----------------------------------------------------------------------------
(* Compaction. *)

(* The value a record yields: read through the descriptors when on disk. *)
Read(k) ==
    LET loc == store[k].loc
        file == IF reader.walOld THEN reader.wal ELSE disk.wal
        snap == IF reader.snapOld THEN reader.snap ELSE disk.snap
    IN  CASE loc.file = "memory" -> store[k].id
          [] loc.file = "snapshot" -> snap[k]
          [] loc.file = "wal" -> IF loc.off < Len(file) THEN file[loc.off + 1].id ELSE 0

StartCompaction ==
    /\ compaction.pc = "idle" /\ used.compactions < MaxCompactions
    /\ wal.state = "open" /\ ~wal.poison.poisoned
    /\ CompactWhileRecovering \/ recovery.pc = "idle"
    /\ compaction' = [NoCompaction EXCEPT !.pc = "fence"]
    /\ Spend("compactions")
    /\ UNCHANGED <<store, wal, disk, reader, op, recovery, disabled, told>>

Fence ==
    /\ compaction.pc = "fence" /\ ~Writing /\ ~wal.poison.poisoned
    /\ compaction' = [compaction EXCEPT !.pc = "snapshot", !.base = wal.size, !.copied = wal.size]
    /\ UNCHANGED <<store, wal, disk, reader, op, recovery, disabled, told, used>>

(* writeSnapshot collects the records once its file is open; their values are *)
(* read and written while writers go on, from files no writer changes below   *)
(* the collected offsets.                                                     *)
Collect ==
    /\ compaction.pc = "snapshot"
    /\ compaction' = [compaction EXCEPT !.pc = "write", !.snap = [k \in Keys |-> Read(k)]]
    /\ UNCHANGED <<store, wal, disk, reader, op, recovery, disabled, told, used>>

ToPreCopy == IF wal.poison.poisoned THEN NoCompaction ELSE [compaction EXCEPT !.pc = "preCopy"]

EndSnapshot ==
    /\ compaction.pc = "write"
    /\ compaction' = ToPreCopy
    /\ UNCHANGED <<store, wal, disk, reader, op, recovery, disabled, told, used>>

(* A pass of the pre-copy loop copies the tail so far, unless it is small. *)
StartCopy ==
    /\ compaction.pc = "preCopy" /\ ~Writing /\ wal.size > compaction.copied
    /\ compaction' = [compaction EXCEPT !.pc = "copy", !.appended = TRUE, !.copied = wal.size,
                          !.tmp = @ \o SubSeq(disk.wal, compaction.copied + 1, wal.size)]
    /\ UNCHANGED <<store, wal, disk, reader, op, recovery, disabled, told, used>>

EndCopy ==
    /\ compaction.pc = "copy"
    /\ compaction' = ToPreCopy
    /\ UNCHANGED <<store, wal, disk, reader, op, recovery, disabled, told, used>>

SnapshotFails ==
    /\ compaction.pc \in {"snapshot", "write", "copy"} /\ MayFail
    /\ compaction' = NoCompaction
    /\ Spend("failures")
    /\ UNCHANGED <<store, wal, disk, reader, op, recovery, disabled, told>>

(* The rotation lock is taken and the log sealed in the tick of the last      *)
(* flush of the pre-copy loop.                                                *)
Seal ==
    /\ compaction.pc = "preCopy" /\ ~Writing
    /\ compaction' = [compaction EXCEPT !.pc = "drain"]
    /\ wal' = [wal EXCEPT !.state = "sealed"]
    /\ UNCHANGED <<store, disk, reader, op, recovery, disabled, told, used>>

(* With the log sealed and flushed, the rest of the tail is copied and the    *)
(* log closed.                                                                *)
Drained == compaction.pc = "drain" /\ ~Writing /\ wal.queue = <<>> /\ ~wal.poison.poisoned

\* Mutant of Drain: what a pre-copy pass has copied is taken for the whole tail.
DrainNothing ==
    /\ Drained
    /\ compaction' = [compaction EXCEPT !.pc = "renameSnapshot"]
    /\ wal' = [wal EXCEPT !.state = "closed"]
    /\ UNCHANGED <<store, disk, reader, op, recovery, disabled, told, used>>

Drain ==
    /\ Drained /\ wal.size >= compaction.copied
    /\ compaction' = [compaction EXCEPT !.pc = "renameSnapshot", !.appended = TRUE, !.copied = wal.size,
                          !.tmp = @ \o SubSeq(disk.wal, compaction.copied + 1, wal.size)]
    /\ wal' = [wal EXCEPT !.state = "closed"]
    /\ UNCHANGED <<store, disk, reader, op, recovery, disabled, told, used>>

RenameSnapshot ==
    /\ compaction.pc = "renameSnapshot"
    /\ disk' = [disk EXCEPT !.snap = compaction.snap]
    /\ reader' = IF reader.snapOld THEN reader ELSE [reader EXCEPT !.snapOld = TRUE, !.snap = disk.snap]
    /\ compaction' = [compaction EXCEPT !.pc = "renameWal"]
    /\ UNCHANGED <<store, wal, op, recovery, disabled, told, used>>

RenameWal ==
    /\ compaction.pc = "renameWal"
    /\ disk' = [disk EXCEPT !.wal = compaction.tmp]
    /\ reader' = [reader EXCEPT !.walOld = TRUE, !.wal = disk.wal]
    /\ compaction' = [compaction EXCEPT !.pc = "open", !.rotated = TRUE]
    /\ UNCHANGED <<store, wal, op, recovery, disabled, told, used>>

\* Mutant of RemapLoc: pointers below the fence are shifted as well.
RemapLocAll(loc) ==
    IF loc.file = "wal" THEN [loc EXCEPT !.off = @ - compaction.base] ELSE loc

RemapLoc(loc) ==
    CASE loc.file = "memory" -> loc
      [] loc.file = "wal" /\ loc.off >= compaction.base -> [loc EXCEPT !.off = @ - compaction.base]
      [] OTHER -> [file |-> "snapshot", off |-> 0]

(* A new log at the end of the file; past the commit point the pointers of    *)
(* the store and the descriptors follow, in the same tick.                    *)
Reopened(rotated) ==
    /\ wal' = FreshWal(Len(disk.wal))
    /\ IF rotated
       THEN /\ store' = [k \in Keys |-> [store[k] EXCEPT !.loc = RemapLoc(@)]]
            /\ reader' = SamePath
       ELSE UNCHANGED <<store, reader>>
    /\ compaction' = NoCompaction

OpenFresh ==
    /\ compaction.pc = "open"
    /\ Reopened(TRUE)
    /\ UNCHANGED <<disk, op, recovery, disabled, told, used>>

(* A call of the rotation fails: a copy, the close, a rename, the sync of the *)
(* directory after it or the open of the new log.                             *)
RotationFails ==
    /\ MayFail
    /\ Drained \/ compaction.pc \in {"renameSnapshot", "renameWal", "open"}
    /\ compaction' = [compaction EXCEPT !.pc = "rollForward"]
    /\ Spend("failures")
    /\ UNCHANGED <<store, wal, disk, reader, op, recovery, disabled, told>>

RollForward ==
    /\ compaction.pc = "rollForward"
    /\ Reopened(compaction.rotated)
    /\ UNCHANGED <<disk, op, recovery, disabled, told, used>>

(* Even the replacement cannot be opened: the instance stays without a log. *)
RollForwardFails ==
    /\ compaction.pc = "rollForward" /\ MayFail
    /\ wal' = [wal EXCEPT !.state = "closed"]
    /\ compaction' = NoCompaction
    /\ Spend("failures")
    /\ UNCHANGED <<store, disk, reader, op, recovery, disabled, told>>

-----------------------------------------------------------------------------
(* What recover() makes of the files: the log replayed over the snapshot, the *)
(* last frame of a key winning.                                               *)
Frames(k, log) == {i \in DOMAIN log : log[i].key = k}

Replay(k, log) ==
    IF Frames(k, log) = {} THEN [id |-> disk.snap[k], loc |-> [file |-> "snapshot", off |-> 0]]
    ELSE LET i == CHOOSE j \in Frames(k, log) : \A l \in Frames(k, log) : l <= j
         IN  [id |-> log[i].id, loc |-> [file |-> "wal", off |-> i - 1]]

Recovered(k) == Replay(k, disk.wal)

(* The process dies, after some prefix of the batch in flight was written,    *)
(* and the database is opened again.                                          *)
CrashAndOpen ==
    /\ used.crashes < MaxCrashes
    /\ \E n \in 0 .. Len(wal.batch) :
          LET log == disk.wal \o SubSeq(wal.batch, 1, n)
          IN  /\ disk' = [disk EXCEPT !.wal = log]
              /\ store' = [k \in Keys |-> IF Replay(k, log).id = 0 THEN Absent ELSE Replay(k, log)]
              /\ wal' = FreshWal(Len(log))
    /\ reader' = SamePath
    /\ op' = [w \in Writers |-> NoCall]
    /\ recovery' = NoRecovery /\ disabled' = FALSE /\ compaction' = NoCompaction
    /\ told' = [told EXCEPT !.rejected = {}]
    /\ Spend("crashes")

-----------------------------------------------------------------------------
Writer(w) == (\E k \in Keys : Set(w, k)) \/ PassRotationLock(w) \/ Commit(w) \/ CommitAfterRecovery(w)
Recover == Cut \/ CutFails \/ Refresh
Compact ==
    \/ Fence \/ Collect \/ EndSnapshot \/ StartCopy \/ EndCopy \/ SnapshotFails
    \/ Seal \/ Drain \/ RenameSnapshot \/ RenameWal \/ OpenFresh
    \/ RotationFails \/ RollForward \/ RollForwardFails

Next ==
    \/ \E w \in Writers : Writer(w)
    \/ StartBatch \/ BatchLands \/ BatchFails
    \/ Recover
    \/ StartCompaction \/ Compact
    \/ CrashAndOpen

Spec == Init /\ [][Next]_vars

(* The event loop runs what is ready and every system call returns. *)
FairSpec ==
    /\ Spec
    /\ \A w \in Writers : WF_vars(PassRotationLock(w) \/ Commit(w) \/ CommitAfterRecovery(w))
    /\ WF_vars(StartBatch) /\ WF_vars(BatchLands \/ BatchFails)
    /\ WF_vars(Recover) /\ WF_vars(Compact)

-----------------------------------------------------------------------------
Locs == [file : {"memory", "wal", "snapshot"}, off : Nat]

(* Every pointer of a record is an offset of a file: also after a remap, which *)
(* subtracts the fence.                                                        *)
TypeOK ==
    /\ store \in [Keys -> [id : Nat, loc : Locs]]
    /\ wal.state \in {"open", "sealed", "closed"}
    /\ wal.size \in Nat /\ wal.nextOffset \in Nat
    /\ wal.poison \in [poisoned : BOOLEAN, failedAtOffset : Nat]
    /\ \A q \in {wal.queue, wal.batch, disk.wal, compaction.tmp} : q \in Seq([id : Nat, key : Keys])
    /\ disk.snap \in [Keys -> Nat] /\ compaction.snap \in [Keys -> Nat]
    /\ recovery \in [pc : {"idle", "truncate", "refresh"}, failedAtOffset : Nat]
    /\ disabled \in BOOLEAN
    /\ \A w \in Writers : op[w].pc \in {"none", "parked", "admitted", "gated", "written"}
    /\ told.acked \in [Keys -> Nat] /\ told.rejected \subseteq Nat

(* An acknowledged write survives a crash at any instant, between the two      *)
(* renames of a rotation as well: a reopen finds it or a later write of its    *)
(* key (wal.ts:1-24, compaction.ts:42-53).                                     *)
AckedWritesSurvive == \A k \in Keys : Recovered(k).id >= told.acked[k]

(* Once its caller was told that a write failed, the store no longer holds it, *)
(* however the writes of a key are spread over the groups that failed.         *)
StoreForgetsRejected == \A k \in Keys : store[k].id \notin told.rejected

Quiet == ~Writing /\ wal.queue = <<>> /\ recovery.pc = "idle" /\ ~disabled

(* When the recovery of a poisoned log has ended, the log holds no frame of a  *)
(* rejected write.                                                             *)
RejectedFramesAreCutOff == Quiet => Ids(disk.wal) \cap told.rejected = {}

(* When nothing is in flight a reopen would find what the store holds          *)
(* (mini-db.ts:1043-1051), except where a snapshot resurrects a rejected write *)
(* (see DiskAgreesWithMemory).                                                 *)
MemoryFollowsDisk ==
    Quiet => \A k \in Keys : Recovered(k).id \in told.rejected \/ Recovered(k).id = store[k].id

(* A pointer of the store yields the value of its record through the open      *)
(* descriptors, before, during and after a rotation and after a roll back,     *)
(* with the same exception.                                                    *)
PointersResolve == \A k \in Keys : Read(k) \in told.rejected \/ Read(k) = store[k].id

(* The record of k before the queue was applied, and before the batch was.    *)
Has(frames, k) == \E i \in DOMAIN frames : frames[i].key = k
Latest(k) == IF Has(wal.queue, k) THEN wal.queueGroup[k] ELSE store[k]
Landed(k) == IF Has(wal.batch, k) THEN wal.batchGroup[k] ELSE Latest(k)

Memory == [k \in Keys |-> store[k].id]
Kept == [k \in Keys |-> Landed(k).id]
InFlight == wal.batch \o wal.queue

Durable == INSTANCE DurableStore WITH
    memory <- Memory, kept <- Kept, flight <- InFlight,
    acked <- told.acked, rejected <- told.rejected, accepted <- told.appends

(* The groups, the roll back, the recovery in place, compactions and reopens  *)
(* keep what DurableStore promises: a failure shows exactly what was kept, and *)
(* a crash keeps a prefix of what was in flight across all keys.              *)
ImplementsDurableStore == Durable!Spec

(* Every call returns: no writer is left behind by a rotation that fails, a    *)
(* batch that fails or a recovery.                                             *)
CallsReturn == \A w \in Writers : op[w].pc # "none" ~> op[w].pc = "none"

(* What the comment at mini-db.ts:1043-1051 says of a failed write: once the   *)
(* recovery has ended, "the on-disk tail a reopen would replay and the         *)
(* in-memory state agree again".  The code does not keep it: a snapshot that   *)
(* collected the write before it failed is still published.                    *)
DiskAgreesWithMemory == Quiet => \A k \in Keys : Recovered(k).id = store[k].id
=============================================================================
