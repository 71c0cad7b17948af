---------------------------- MODULE MiniDbProofs ----------------------------
(***************************************************************************)
(* What minidb keeps in memory, for any number of writers, keys, writes,   *)
(* failures, compactions and crashes.                                      *)
(*                                                                         *)
(* The argument.  A failed batch is rolled back with the queue behind it,  *)
(* and each key gets the record it had before the oldest of the two groups *)
(* that touched it.  This record belongs to neither group, because a group *)
(* keeps its earliest capture, and to no group that failed before, because *)
(* the store held none then.  For this the number of a new write must be   *)
(* new: all that memory, the files, the descriptors and a half-built log   *)
(* hold was appended before, a reopen included.  That in turn takes the    *)
(* offsets: a copy of the tail must not read past the end of the file, and *)
(* a pointer must not be negative.                                         *)
(*                                                                         *)
(* Files and memory, where no compaction starts while a poisoned log is    *)
(* cut.  Below, the landed record of a key is what the store held before   *)
(* what is in flight: what a roll back would restore.  Then the log and    *)
(* the snapshot replay, for each key, to its landed record or to a later   *)
(* write that is suspect (rejected, or still in flight); the log is in     *)
(* order of the writes, and of what is rejected it holds at most what is   *)
(* about to be cut off.  Of a compaction: the tail it has copied is the    *)
(* log behind its fence, and a key that has no frame there, or whose       *)
(* pointer is below the fence, has its landed record in the collected      *)
(* snapshot.  So each of the two renames keeps the replay, and the         *)
(* pointers that follow the second one keep their values.                  *)
(*                                                                         *)
(* Last, the durable store that all this implements: what callers see is   *)
(* the store, what is kept are the landed records, what is in flight is    *)
(* the batch and then the queue.  An append accepts, a batch that lands    *)
(* keeps and one that fails rejects; only a crash and its reopen are a     *)
(* restart, and every other step leaves the three as they are.             *)
(***************************************************************************)
EXTENDS MiniDb, WellFoundedInduction, TLAPS

-----------------------------------------------------------------------------
(* Types, with n the number of the last append. *)
Frame(n) == [id : 0..n, key : Keys]
Record(n) == [id : 0..n, loc : Locs]
Captured(n) == Record(n) \cup {Untouched}
Poison == [poisoned : BOOLEAN, failedAtOffset : Nat]
Call == [pc : {"none", "parked", "admitted", "gated", "written"},
         key : Keys \cup {"none"}, id : Nat, retried : BOOLEAN]

Wal(n) ==
    [state : {"open", "sealed", "closed"}, size : Nat, nextOffset : Nat,
     queue : Seq(Frame(n)), batch : Seq(Frame(n)), poison : Poison,
     queueGroup : [Keys -> Captured(n)], batchGroup : [Keys -> Captured(n)]]

Disk(n) == [wal : Seq(Frame(n)), snap : [Keys -> 0..n]]

Reader(n) == [walOld : BOOLEAN, wal : Seq(Frame(n)), snapOld : BOOLEAN, snap : [Keys -> 0..n]]

CompactionPc ==
    {"idle", "fence", "snapshot", "write", "preCopy", "copy", "drain",
     "renameSnapshot", "renameWal", "open", "rollForward"}

Compaction(n) ==
    [pc : CompactionPc, base : Nat, snap : [Keys -> 0..n], copied : Nat,
     tmp : Seq(Frame(n)), appended : BOOLEAN, rotated : BOOLEAN]

Recovery == [pc : {"idle", "truncate", "refresh"}, failedAtOffset : Nat]

Told(n) == [acked : [Keys -> 0..n], rejected : SUBSET (0..n), appends : Nat]

TypedAt(n) ==
    /\ store \in [Keys -> Record(n)]
    /\ wal \in Wal(n)
    /\ disk \in Disk(n)
    /\ reader \in Reader(n)
    /\ compaction \in Compaction(n)
    /\ told \in Told(n)

CallsTyped ==
    /\ op \in [Writers -> Call]
    /\ \A w \in Writers : op[w].pc # "none" => op[w].key \in Keys

TypeInv ==
    /\ TypedAt(told.appends)
    /\ CallsTyped
    /\ recovery \in Recovery
    /\ disabled \in BOOLEAN

-----------------------------------------------------------------------------
(* Offsets.  Frames wait only in a log that is sound and not being cut. *)
Calm ==
    wal.batch # <<>> \/ wal.queue # <<>> =>
        recovery.pc = "idle" /\ ~wal.poison.poisoned /\ wal.state # "closed"

NoEmptyOffset == wal.nextOffset >= Len(wal.queue) + Len(wal.batch)

(* The log does not take its file for longer than it is, unless it is about   *)
(* to be told.                                                                *)
SizeFits ==
    recovery.pc # "refresh" /\ ~wal.poison.poisoned /\ wal.state # "closed"
        => wal.size <= Len(disk.wal)

(* What a compaction has done to the log by each of its phases. *)
Phases ==
    /\ compaction.pc \in {"fence", "snapshot", "write", "copy", "preCopy"} => wal.state = "open"
    /\ compaction.pc = "preCopy" => ~wal.poison.poisoned
    /\ compaction.pc = "drain" => wal.state = "sealed"
    /\ compaction.pc \in {"renameSnapshot", "renameWal", "open"} => wal.state = "closed"
    /\ compaction.pc = "rollForward" =>
           wal.state # "open" /\ wal.queue = <<>> /\ wal.batch = <<>>

(* Nothing behind its fence waits for a compaction while the log is cut. *)
FenceHolds ==
    recovery.pc # "idle" /\ ~wal.poison.poisoned
    /\ compaction.pc \in {"snapshot", "write", "copy", "preCopy", "drain"}
        => wal.size <= compaction.copied

OffsetInv == Calm /\ NoEmptyOffset /\ SizeFits /\ Phases /\ FenceHolds

-----------------------------------------------------------------------------
(* What a roll back would restore. *)
Touched(group, k) == group[k] # Untouched

GroupOK(k) ==
    /\ store[k].id \notin told.rejected
    /\ store[k].id \in Ids(wal.batch) => Touched(wal.batchGroup, k)
    /\ store[k].id \in Ids(wal.queue) => Touched(wal.queueGroup, k)
    /\ Touched(wal.batchGroup, k) =>
           wal.batchGroup[k].id \notin told.rejected \cup Ids(wal.batch) \cup Ids(wal.queue)
    /\ Touched(wal.queueGroup, k) =>
           /\ wal.queueGroup[k].id \notin told.rejected \cup Ids(wal.queue)
           /\ wal.queueGroup[k].id \in Ids(wal.batch) => Touched(wal.batchGroup, k)

RollInv == \A k \in Keys : GroupOK(k)

IInv == TypeInv /\ OffsetInv /\ RollInv

-----------------------------------------------------------------------------
(* Numbers and sequences. *)

\* A set of numbers up to n that is not empty has a greatest element.
LEMMA GreatestNumber ==
    ASSUME NEW n \in Nat, NEW T \in SUBSET (0..n), T # {}
    PROVE  \E x \in T : \A y \in T : y <= x
<1> DEFINE D == {n - t : t \in T}
<1>1. D \in SUBSET Nat /\ D # {}
  <2>1. \A t \in T : n - t \in Nat
        OBVIOUS
  <2>2. D \in SUBSET Nat
        BY <2>1
  <2>3. PICK t \in T : TRUE
        OBVIOUS
  <2>4. n - t \in D
        BY <2>3
  <2> QED BY <2>2, <2>4
<1>2. PICK d \in D : \A y \in D : ~(<<y, d>> \in OpToRel(<, Nat))
      BY <1>1, NatLessThanWellFounded, WFMin, Zenon
<1>3. \A y \in D : ~(y < d)
      BY <1>1, <1>2 DEF OpToRel
<1>4. PICK x \in T : d = n - x
      OBVIOUS
<1>5. \A y \in T : n - y \in D
      OBVIOUS
<1>6. ASSUME NEW y \in T PROVE y <= x
      BY <1>3, <1>4, <1>5, <1>6
<1> QED BY <1>6

\* Logs are joined, extended and cut without a foreign frame.
LEMMA LogType ==
    ASSUME NEW n \in Nat, NEW s \in Seq(Frame(n)), NEW t \in Seq(Frame(n)),
           NEW a \in Nat, NEW b \in Nat, b <= Len(s) \/ b <= a
    PROVE  /\ s \o t \in Seq(Frame(n)) /\ Len(s \o t) = Len(s) + Len(t)
           /\ SubSeq(s, a + 1, b) \in Seq(Frame(n))
<1> DEFINE F == Frame(n)
<1> HIDE DEF F
<1>1. s \in Seq(F) /\ t \in Seq(F)
      BY DEF F
<1>2. s \o t \in Seq(F) /\ Len(s \o t) = Len(s) + Len(t)
      BY <1>1
<1>3. \A i \in (a + 1)..b : s[i] \in F
      BY <1>1
<1>4. SubSeq(s, a + 1, b) \in Seq(F)
      BY <1>1, <1>3
<1> QED BY <1>2, <1>4 DEF F

\* A prefix of a log, and its length.
LEMMA PrefixType ==
    ASSUME NEW n \in Nat, NEW s \in Seq(Frame(n)), NEW b \in 0..Len(s)
    PROVE  SubSeq(s, 1, b) \in Seq(Frame(n)) /\ Len(SubSeq(s, 1, b)) = b
<1> DEFINE F == Frame(n)
<1> HIDE DEF F
<1>1. s \in Seq(F)
      BY DEF F
<1>2. SubSeq(s, 1, b) \in Seq(F) /\ Len(SubSeq(s, 1, b)) = b
      BY <1>1
<1> QED BY <1>2 DEF F

\* What was appended before n was appended before any later number.
LEMMA Monotone ==
    ASSUME NEW n \in Nat, NEW m \in Nat, n <= m
    PROVE  /\ Seq(Frame(n)) \subseteq Seq(Frame(m))
           /\ Record(n) \subseteq Record(m)
           /\ Captured(n) \subseteq Captured(m)
<1>1. Frame(n) \subseteq Frame(m)
      BY DEF Frame
<1>2. Seq(Frame(n)) \subseteq Seq(Frame(m))
  <2> SUFFICES ASSUME NEW s \in Seq(Frame(n)) PROVE s \in Seq(Frame(m))
      OBVIOUS
  <2> DEFINE F == Frame(n)  G == Frame(m)
  <2>1. s \in Seq(F) /\ F \subseteq G
        BY <1>1
  <2> HIDE DEF F, G
  <2>2. s \in Seq(G)
        BY <2>1
  <2> QED BY <2>2 DEF G
<1>3. Record(n) \subseteq Record(m)
      BY DEF Record
<1> QED BY <1>2, <1>3 DEF Captured

-----------------------------------------------------------------------------
(* What the operators of the steps return. *)

\* The parts of the state, one by one.
LEMMA Parts ==
    ASSUME TypeInv, NEW n, n = told.appends
    PROVE  /\ n \in Nat
           /\ store \in [Keys -> Record(n)]
           /\ wal.size \in Nat /\ wal.nextOffset \in Nat
           /\ wal.state \in {"open", "sealed", "closed"}
           /\ wal.queue \in Seq(Frame(n)) /\ wal.batch \in Seq(Frame(n))
           /\ wal.queueGroup \in [Keys -> Captured(n)]
           /\ wal.batchGroup \in [Keys -> Captured(n)]
           /\ wal.poison.poisoned \in BOOLEAN /\ wal.poison.failedAtOffset \in Nat
           /\ disk.wal \in Seq(Frame(n)) /\ disk.snap \in [Keys -> 0..n]
           /\ reader.wal \in Seq(Frame(n)) /\ reader.snap \in [Keys -> 0..n]
           /\ compaction.pc \in CompactionPc
           /\ compaction.base \in Nat /\ compaction.copied \in Nat
           /\ compaction.tmp \in Seq(Frame(n)) /\ compaction.snap \in [Keys -> 0..n]
           /\ recovery.pc \in {"idle", "truncate", "refresh"}
           /\ recovery.failedAtOffset \in Nat
           /\ told.rejected \in SUBSET (0..n) /\ told.acked \in [Keys -> 0..n]
BY DEF TypeInv, TypedAt, Wal, Disk, Reader, Compaction, Recovery, Told, Poison

\* The logs and their lengths.
LEMMA LengthIsNumber == ASSUME NEW S, NEW s \in Seq(S) PROVE Len(s) \in Nat
OBVIOUS

LEMMA Lengths ==
    ASSUME TypeInv, NEW n, n = told.appends
    PROVE  /\ n \in Nat
           /\ disk.wal \in Seq(Frame(n)) /\ reader.wal \in Seq(Frame(n))
           /\ wal.batch \in Seq(Frame(n)) /\ wal.queue \in Seq(Frame(n))
           /\ Len(disk.wal) \in Nat /\ Len(reader.wal) \in Nat
           /\ Len(wal.batch) \in Nat /\ Len(wal.queue) \in Nat
<1>1. /\ n \in Nat
      /\ disk.wal \in Seq(Frame(n)) /\ reader.wal \in Seq(Frame(n))
      /\ wal.batch \in Seq(Frame(n)) /\ wal.queue \in Seq(Frame(n))
      BY Parts
<1> QED BY ONLY <1>1, LengthIsNumber

\* A fresh log holds no frame and has touched nothing.
LEMMA FreshWalType ==
    ASSUME NEW n \in Nat, NEW size \in Nat
    PROVE  FreshWal(size) \in Wal(n)
<1>1. NoGroup \in [Keys -> Captured(n)]
      BY DEF NoGroup, Captured
<1>2. NotPoisoned \in Poison
      BY DEF NotPoisoned, Poison
<1>3. <<>> \in Seq(Frame(n))
      OBVIOUS
<1> QED BY <1>1, <1>2, <1>3 DEF FreshWal, Wal

LEMMA NoCompactionType ==
    ASSUME NEW n \in Nat
    PROVE  NoCompaction \in Compaction(n)
<1>1. <<>> \in Seq(Frame(n)) /\ [k \in Keys |-> 0] \in [Keys -> 0..n]
      OBVIOUS
<1> QED BY <1>1 DEF NoCompaction, Compaction, CompactionPc

LEMMA SamePathType ==
    ASSUME NEW n \in Nat
    PROVE  SamePath \in Reader(n)
<1>1. <<>> \in Seq(Frame(n)) /\ [k \in Keys |-> 0] \in [Keys -> 0..n]
      OBVIOUS
<1> QED BY <1>1 DEF SamePath, Reader

\* The offset of the batch in flight is where its first frame goes.
LEMMA FirstOffsetType ==
    ASSUME TypeInv, NoEmptyOffset
    PROVE  FirstOffset \in Nat
<1> DEFINE q == Len(wal.queue)  b == Len(wal.batch)  o == wal.nextOffset
<1>1. o \in Nat /\ q \in Nat /\ b \in Nat
      BY Parts
<1>2. o >= q + b /\ FirstOffset = o - q - b
      BY DEF FirstOffset, NoEmptyOffset
<1> HIDE DEF q, b, o
<1> QED BY <1>1, <1>2

\* A published pointer changes where a value is, not which value it is.
LEMMA PublishType ==
    ASSUME NEW n \in Nat, store \in [Keys -> Record(n)],
           NEW batch \in Seq(Frame(n)), NEW first \in Nat
    PROVE  /\ Publish(batch, first) \in [Keys -> Record(n)]
           /\ \A k \in Keys : Publish(batch, first)[k].id = store[k].id
<1> SUFFICES ASSUME NEW k \in Keys
             PROVE  /\ Publish(batch, first)[k] \in Record(n)
                    /\ Publish(batch, first)[k].id = store[k].id
    BY DEF Publish
<1>1. store[k] \in Record(n)
      OBVIOUS
<1>2. CASE store[k].id \in Ids(batch)
  <2> DEFINE i == CHOOSE j \in DOMAIN batch : batch[j].id = store[k].id
             loc == [file |-> "wal", off |-> first + i - 1]
  <2>1. i \in DOMAIN batch
        BY <1>2 DEF Ids
  <2>2. i \in Nat /\ i >= 1
        BY <2>1
  <2>3. loc \in Locs
        BY <2>2 DEF Locs
  <2>4. Publish(batch, first)[k] = [store[k] EXCEPT !.loc = loc]
        BY <1>2 DEF Publish
  <2> HIDE DEF loc
  <2> QED BY <1>1, <2>3, <2>4 DEF Record
<1>3. CASE store[k].id \notin Ids(batch)
      BY <1>1, <1>3 DEF Publish
<1> QED BY <1>2, <1>3

\* What a roll back restores was in the store before.
LEMMA RestoreType ==
    ASSUME NEW n \in Nat, NEW records \in [Keys -> Record(n)],
           NEW group \in [Keys -> Captured(n)]
    PROVE  Restore(group, records) \in [Keys -> Record(n)]
BY DEF Restore, Captured

\* A pointer at or behind the fence moves with the tail; one below it now reads
\* the snapshot.
LEMMA RemapLocType ==
    ASSUME TypeInv, NEW loc \in Locs
    PROVE  RemapLoc(loc) \in Locs
<1>1. compaction.base \in Nat
      BY Parts
<1>2. loc.off \in Nat /\ loc.file \in {"memory", "wal", "snapshot"}
      BY DEF Locs
<1>3. CASE loc.file = "wal" /\ loc.off >= compaction.base
  <2>1. loc.off - compaction.base \in Nat
        BY <1>1, <1>2, <1>3
  <2>2. RemapLoc(loc) = [loc EXCEPT !.off = loc.off - compaction.base]
        BY <1>3 DEF RemapLoc
  <2> QED BY <2>1, <2>2 DEF Locs
<1>4. CASE loc.file = "memory"
      BY <1>4 DEF RemapLoc
<1>5. CASE loc.file # "memory" /\ ~(loc.file = "wal" /\ loc.off >= compaction.base)
      BY <1>5 DEF RemapLoc, Locs
<1> QED BY <1>3, <1>4, <1>5

\* A value is one that was appended.
LEMMA ReadType ==
    ASSUME TypeInv, NEW k \in Keys
    PROVE  Read(k) \in 0..told.appends
<1> DEFINE n == told.appends
           file == IF reader.walOld THEN reader.wal ELSE disk.wal
           snap == IF reader.snapOld THEN reader.snap ELSE disk.snap
           loc == store[k].loc
<1>1. /\ n \in Nat /\ store[k] \in Record(n)
      /\ file \in Seq(Frame(n)) /\ snap \in [Keys -> 0..n]
      BY Parts
<1>2. loc.file \in {"memory", "wal", "snapshot"} /\ loc.off \in Nat
      BY <1>1 DEF Record, Locs
<1> HIDE DEF n, file, snap, loc
<1>3. CASE loc.file = "memory"
  <2>1. Read(k) = store[k].id
        BY <1>3 DEF Read, loc
  <2> QED BY <1>1, <2>1 DEF Record, n
<1>4. CASE loc.file = "snapshot"
  <2>1. Read(k) = snap[k]
        BY <1>4 DEF Read, loc, snap
  <2> QED BY <1>1, <2>1 DEF n
<1>5. CASE loc.file = "wal"
  <2>1. Read(k) = IF loc.off < Len(file) THEN file[loc.off + 1].id ELSE 0
        BY <1>5 DEF Read, loc, file
  <2>2. loc.off < Len(file) => file[loc.off + 1] \in Frame(n)
        BY <1>1, <1>2
  <2> QED BY <1>1, <2>1, <2>2 DEF Frame, n
<1> QED BY <1>2, <1>3, <1>4, <1>5

\* What a reopen finds for a key is in the files.
LEMMA ReplayType ==
    ASSUME NEW n \in Nat, disk.snap \in [Keys -> 0..n],
           NEW log \in Seq(Frame(n)), NEW k \in Keys
    PROVE  Replay(k, log) \in Record(n)
<1>1. CASE Frames(k, log) = {}
      BY <1>1 DEF Replay, Record, Locs
<1>2. CASE Frames(k, log) # {}
  <2> DEFINE i == CHOOSE j \in Frames(k, log) : \A l \in Frames(k, log) : l <= j
  <2>1. Frames(k, log) \in SUBSET (0..Len(log)) /\ Len(log) \in Nat
        BY DEF Frames
  <2>2. i \in Frames(k, log)
        BY <1>2, <2>1, GreatestNumber
  <2>3. i \in 1..Len(log)
        BY <2>2 DEF Frames
  <2>4. log[i] \in Frame(n) /\ i - 1 \in Nat
        BY <2>3
  <2>5. Replay(k, log) = [id |-> log[i].id, loc |-> [file |-> "wal", off |-> i - 1]]
        BY <1>2 DEF Replay
  <2> HIDE DEF i
  <2> QED BY <2>4, <2>5 DEF Record, Locs, Frame
<1> QED BY <1>1, <1>2

\* The newest write of a key in a batch is one of its frames.
LEMMA NewestOfType ==
    ASSUME NEW n \in Nat, NEW batch \in Seq(Frame(n)), NEW acked \in 0..n, NEW k \in Keys
    PROVE  NewestOf(k, batch, acked) \in 0..n
<1> DEFINE mine == {batch[i].id : i \in {j \in DOMAIN batch : batch[j].key = k}}
<1>1. mine \in SUBSET (0..n)
  <2>1. \A i \in DOMAIN batch : batch[i] \in Frame(n)
        OBVIOUS
  <2> QED BY <2>1 DEF Frame
<1>2. CASE mine = {}
      BY <1>2 DEF NewestOf
<1>3. CASE mine # {}
  <2>1. (CHOOSE id \in mine : \A other \in mine : other <= id) \in mine
    <3> HIDE DEF mine
    <3> QED BY <1>1, <1>3, GreatestNumber
  <2>2. NewestOf(k, batch, acked) = CHOOSE id \in mine : \A other \in mine : other <= id
        BY <1>3 DEF NewestOf
  <2> QED BY <1>1, <2>1, <2>2
<1> QED BY <1>2, <1>3

-----------------------------------------------------------------------------
(* The types are kept. *)

\* A step that appends nothing keeps the types if it keeps those of the parts.
LEMMA Lift ==
    ASSUME TypeInv, NEW n, n = told.appends,
           store' \in [Keys -> Record(n)], wal' \in Wal(n), disk' \in Disk(n),
           reader' \in Reader(n), compaction' \in Compaction(n),
           told' \in Told(n), told'.appends = n,
           CallsTyped', recovery' \in Recovery, disabled' \in BOOLEAN
    PROVE  TypeInv'
BY DEF TypeInv, TypedAt

\* The calls stay calls when one of them moves on or returns.
LEMMA MoveCall ==
    ASSUME CallsTyped, NEW w \in Writers, NEW c \in Call,
           c.pc # "none" => c.key \in Keys, op' = [op EXCEPT ![w] = c]
    PROVE  CallsTyped'
BY DEF CallsTyped

LEMMA NoCallType == NoCall \in Call /\ NoCall.pc = "none"
BY DEF NoCall, Call

LEMMA ReturnType ==
    ASSUME CallsTyped, NEW ids, op' = Return(ids)
    PROVE  CallsTyped'
<1> DEFINE next(w) == IF op[w].pc = "written" /\ op[w].id \in ids THEN NoCall ELSE op[w]
<1>1. op' = [w \in Writers |-> next(w)]
      BY DEF Return
<1>2. ASSUME NEW w \in Writers
      PROVE  next(w) \in Call /\ (next(w).pc # "none" => next(w).key \in Keys)
      BY NoCallType DEF CallsTyped
<1> HIDE DEF next
<1> QED BY <1>1, <1>2 DEF CallsTyped

\* An append, a retry behind the seal or a refusal.
LEMMA Append1Type ==
    ASSUME TypeInv, NEW w \in Writers, op[w].pc # "none", Append1(w),
           UNCHANGED <<disk, reader, disabled, compaction>>
    PROVE  TypeInv'
<1> DEFINE n == told.appends
           k == op[w].key
<1>1. /\ n \in Nat /\ k \in Keys /\ op[w] \in Call /\ CallsTyped
      /\ wal \in Wal(n) /\ disk \in Disk(n) /\ reader \in Reader(n)
      /\ compaction \in Compaction(n) /\ told \in Told(n) /\ store \in [Keys -> Record(n)]
      /\ recovery \in Recovery /\ disabled \in BOOLEAN
      BY DEF TypeInv, TypedAt, CallsTyped, Told
<1>2. CASE AppendAndApply(w)
  <2> DEFINE m == n + 1
             frame == [id |-> m, key |-> k]
  <2>1. m \in Nat /\ n <= m /\ 0..n \subseteq 0..m /\ m \in 0..m
        BY <1>1
  <2>2. /\ Seq(Frame(n)) \subseteq Seq(Frame(m)) /\ Record(n) \subseteq Record(m)
        /\ Captured(n) \subseteq Captured(m)
        BY <1>1, <2>1, Monotone
  <2>3. frame \in Frame(m) /\ [id |-> m, loc |-> InMemory] \in Record(m)
        BY <1>1, <2>1 DEF Frame, Record, Locs, InMemory
  <2>4. /\ wal' = [wal EXCEPT !.queue = Append(@, frame), !.nextOffset = @ + 1,
                              !.queueGroup = Note(@, k)]
        /\ store' = [store EXCEPT ![k] = [id |-> m, loc |-> InMemory]]
        /\ op' = [op EXCEPT ![w] = [op[w] EXCEPT !.pc = "written", !.id = m]]
        /\ told' = [told EXCEPT !.appends = m]
        /\ recovery' = recovery
        BY <1>1, <1>2 DEF AppendAndApply, CallsTyped, Call
  <2> HIDE DEF m, frame, k
  <2>5. store' \in [Keys -> Record(m)]
        BY <1>1, <2>2, <2>3, <2>4
  <2>6. Append(wal.queue, frame) \in Seq(Frame(m)) /\ wal.batch \in Seq(Frame(m))
    <3> DEFINE q == wal.queue  F == Frame(m)
    <3>1. q \in Seq(F) /\ frame \in F /\ wal.batch \in Seq(F)
          BY <1>1, <2>2, <2>3 DEF Wal
    <3> HIDE DEF q, F
    <3>2. Append(q, frame) \in Seq(F)
          BY <3>1
    <3> QED BY <3>1, <3>2 DEF q, F
  <2>7. Note(wal.queueGroup, k) \in [Keys -> Captured(m)] /\ wal.batchGroup \in [Keys -> Captured(m)]
    <3>1. wal.queueGroup \in [Keys -> Captured(m)] /\ wal.batchGroup \in [Keys -> Captured(m)]
          BY <1>1, <2>2 DEF Wal
    <3>2. store[k] \in Captured(m)
          BY <1>1, <2>2 DEF Captured
    <3> QED BY <3>1, <3>2 DEF Note
  <2>8. wal' \in Wal(m)
    <3>1. wal.nextOffset + 1 \in Nat
          BY <1>1 DEF Wal
    <3> QED BY <1>1, <2>4, <2>6, <2>7, <3>1 DEF Wal
  <2>9. disk' \in Disk(m) /\ reader' \in Reader(m)
        BY <1>1, <2>1, <2>2 DEF Disk, Reader
  <2>10. compaction' \in Compaction(m)
         BY <1>1, <2>1, <2>2 DEF Compaction
  <2>11. told' \in Told(m) /\ told'.appends = m
         BY <1>1, <2>1, <2>4 DEF Told
  <2>12. CallsTyped'
    <3>1. m \in Nat
          BY <2>1
    <3>2. [op[w] EXCEPT !.pc = "written", !.id = m] \in Call
          BY <1>1, <3>1 DEF Call
    <3>3. [op[w] EXCEPT !.pc = "written", !.id = m].key \in Keys
          BY <1>1 DEF Call, k
    <3> QED BY <1>1, <2>4, <3>2, <3>3, MoveCall
  <2> QED BY <1>1, <2>4, <2>5, <2>8, <2>9, <2>10, <2>11, <2>12 DEF TypeInv, TypedAt
<1>3. CASE RetryAfterSeal(w)
  <2> DEFINE c == [op[w] EXCEPT !.pc = "parked", !.retried = TRUE]
  <2>1. op' = [op EXCEPT ![w] = c] /\ UNCHANGED <<store, wal, told, recovery>>
        BY <1>1, <1>3 DEF RetryAfterSeal, CallsTyped, Call
  <2>2. c \in Call /\ c.key \in Keys
        BY <1>1 DEF Call
  <2> HIDE DEF c
  <2>3. CallsTyped'
        BY <1>1, <2>1, <2>2, MoveCall
  <2> QED BY <1>1, <2>1, <2>3, Lift
<1>4. CASE Refuse(w)
  <2>1. op' = [op EXCEPT ![w] = NoCall] /\ UNCHANGED <<store, wal, told>>
        BY <1>4 DEF Refuse
  <2>2. CallsTyped'
        BY <1>1, <2>1, NoCallType, MoveCall
  <2>3. recovery' \in Recovery
    <3>1. wal.poison.failedAtOffset \in Nat
          BY Parts
    <3> QED BY <1>1, <1>4, <3>1 DEF Refuse, Recovery
  <2> QED BY <1>1, <2>1, <2>2, <2>3, Lift
<1> QED BY <1>2, <1>3, <1>4 DEF Append1

\* A log reopened at the end of its file, with the pointers that follow it.
LEMMA ReopenedType ==
    ASSUME TypeInv, NEW n, n = told.appends, NEW rotated \in BOOLEAN, Reopened(rotated)
    PROVE  /\ store' \in [Keys -> Record(n)] /\ wal' \in Wal(n)
           /\ reader' \in Reader(n) /\ compaction' \in Compaction(n)
<1>1. /\ n \in Nat /\ store \in [Keys -> Record(n)] /\ reader \in Reader(n)
      /\ Len(disk.wal) \in Nat
      BY Parts DEF TypeInv, TypedAt
<1>2. wal' \in Wal(n) /\ compaction' \in Compaction(n)
      BY <1>1, FreshWalType, NoCompactionType DEF Reopened
<1>3. reader' \in Reader(n)
      BY <1>1, SamePathType DEF Reopened
<1>4. CASE rotated
  <2>1. \A k \in Keys : [store[k] EXCEPT !.loc = RemapLoc(@)] \in Record(n)
    <3> SUFFICES ASSUME NEW k \in Keys
                 PROVE  [store[k] EXCEPT !.loc = RemapLoc(@)] \in Record(n)
        OBVIOUS
    <3>1. store[k] \in Record(n) /\ store[k].loc \in Locs
          BY <1>1 DEF Record
    <3>2. RemapLoc(store[k].loc) \in Locs
          BY <3>1, RemapLocType
    <3> QED BY <3>1, <3>2 DEF Record
  <2>2. store' = [k \in Keys |-> [store[k] EXCEPT !.loc = RemapLoc(@)]]
        BY <1>4 DEF Reopened
  <2> QED BY <1>2, <1>3, <2>1, <2>2
<1>5. CASE ~rotated
      BY <1>1, <1>2, <1>3, <1>5 DEF Reopened
<1> QED BY <1>4, <1>5

\* The completion of a batch, whether it lands or fails.
LEMMA BatchType ==
    ASSUME TypeInv, NoEmptyOffset, BatchLands \/ BatchFails
    PROVE  TypeInv'
<1> DEFINE n == told.appends
<1>1. /\ n \in Nat /\ CallsTyped
      /\ wal \in Wal(n) /\ disk \in Disk(n) /\ reader \in Reader(n)
      /\ compaction \in Compaction(n) /\ told \in Told(n) /\ store \in [Keys -> Record(n)]
      /\ recovery \in Recovery /\ disabled \in BOOLEAN /\ FirstOffset \in Nat
      BY FirstOffsetType DEF TypeInv, TypedAt, Told
<1>2. /\ wal.batch \in Seq(Frame(n)) /\ wal.queue \in Seq(Frame(n)) /\ disk.wal \in Seq(Frame(n))
      /\ wal.size \in Nat /\ <<>> \in Seq(Frame(n))
      /\ wal.queueGroup \in [Keys -> Captured(n)] /\ wal.batchGroup \in [Keys -> Captured(n)]
      BY <1>1 DEF Wal, Disk
<1>3. NoGroup \in [Keys -> Captured(n)]
      BY DEF NoGroup, Captured
<1>4. CASE BatchLands
  <2>1. disk.wal \o wal.batch \in Seq(Frame(n))
    <3> DEFINE F == Frame(n)
    <3>1. disk.wal \in Seq(F) /\ wal.batch \in Seq(F)
          BY <1>2
    <3> HIDE DEF F
    <3>2. disk.wal \o wal.batch \in Seq(F)
          BY <3>1
    <3> QED BY <3>2 DEF F
  <2>2. disk' \in Disk(n)
        BY <1>1, <1>4, <2>1 DEF BatchLands, Disk
  <2>3. wal' \in Wal(n)
    <3>1. wal.size + Len(wal.batch) \in Nat
          BY <1>2
    <3> QED BY <1>1, <1>2, <1>3, <1>4, <3>1 DEF BatchLands, Wal
  <2>4. store' \in [Keys -> Record(n)]
        BY <1>1, <1>2, <1>4, PublishType DEF BatchLands
  <2>5. told' \in Told(n) /\ told'.appends = n
    <3> DEFINE next == [k \in Keys |-> NewestOf(k, wal.batch, told.acked[k])]
    <3>1. told' = [told EXCEPT !.acked = next]
          BY <1>4 DEF BatchLands
    <3>2. next \in [Keys -> 0..n]
          BY <1>1, <1>2, NewestOfType DEF Told
    <3> HIDE DEF next
    <3> QED BY <1>1, <3>1, <3>2 DEF Told
  <2>6. CallsTyped' /\ UNCHANGED <<reader, recovery, disabled, compaction>>
        BY <1>1, <1>4, ReturnType DEF BatchLands
  <2> QED BY <1>1, <2>2, <2>3, <2>4, <2>5, <2>6, Lift
<1>5. CASE BatchFails
  <2>1. PICK b \in 0..Len(wal.batch) :
              /\ disk' = [disk EXCEPT !.wal = @ \o SubSeq(wal.batch, 1, b)]
              /\ wal' = [wal EXCEPT !.poison = [poisoned |-> TRUE, failedAtOffset |-> FirstOffset],
                                    !.batch = <<>>, !.queue = <<>>, !.size = @ + b,
                                    !.batchGroup = NoGroup, !.queueGroup = NoGroup]
        BY <1>5 DEF BatchFails
  <2>2. disk.wal \o SubSeq(wal.batch, 1, b) \in Seq(Frame(n))
    <3> DEFINE F == Frame(n)  p == SubSeq(wal.batch, 1, b)
    <3>1. disk.wal \in Seq(F) /\ p \in Seq(F)
          BY <1>1, <1>2, <2>1, PrefixType
    <3> HIDE DEF F, p
    <3>2. disk.wal \o p \in Seq(F)
          BY <3>1
    <3> QED BY <3>2 DEF F, p
  <2>3. disk' \in Disk(n)
        BY <1>1, <2>1, <2>2 DEF Disk
  <2>4. wal' \in Wal(n)
    <3>1. wal.size + b \in Nat
          BY <1>2, <2>1
    <3>2. [poisoned |-> TRUE, failedAtOffset |-> FirstOffset] \in Poison
          BY <1>1 DEF Poison
    <3> QED BY <1>1, <1>2, <1>3, <2>1, <3>1, <3>2 DEF Wal
  <2>5. store' \in [Keys -> Record(n)]
        BY <1>1, <1>2, <1>5, RestoreType DEF BatchFails, RollBack
  <2>6. told' \in Told(n) /\ told'.appends = n
    <3>1. Unacked \subseteq 0..n
      <4>1. \A i \in DOMAIN wal.batch : wal.batch[i] \in Frame(n)
            BY <1>2
      <4>2. \A i \in DOMAIN wal.queue : wal.queue[i] \in Frame(n)
            BY <1>2
      <4> QED BY <4>1, <4>2 DEF Unacked, Ids, Frame
    <3>2. told' = [told EXCEPT !.rejected = @ \cup Unacked]
          BY <1>5 DEF BatchFails
    <3>3. told.rejected \cup Unacked \in SUBSET (0..n)
          BY <1>1, <3>1 DEF Told
    <3> QED BY <1>1, <3>2, <3>3 DEF Told
  <2>7. compaction' \in Compaction(n)
    <3>1. compaction' = FlushThrows
          BY <1>5 DEF BatchFails
    <3>2. NoCompaction \in Compaction(n)
          BY <1>1, NoCompactionType
    <3>3. [compaction EXCEPT !.pc = "rollForward"] \in Compaction(n)
          BY <1>1 DEF Compaction, CompactionPc
    <3> QED BY <1>1, <3>1, <3>2, <3>3 DEF FlushThrows
  <2>8. CallsTyped' /\ UNCHANGED <<reader, disabled>>
        BY <1>1, <1>5, ReturnType DEF BatchFails
  <2>9. recovery' \in Recovery
        BY <1>1, <1>5 DEF BatchFails, Recovery
  <2> QED BY <1>1, <2>3, <2>4, <2>5, <2>6, <2>7, <2>8, <2>9, Lift
<1> QED BY <1>4, <1>5

\* A crash leaves what the files hold.
LEMMA CrashType ==
    ASSUME TypeInv, CrashAndOpen
    PROVE  TypeInv'
<1> DEFINE n == told.appends
<1>1. /\ n \in Nat /\ disk \in Disk(n) /\ told \in Told(n)
      /\ wal.batch \in Seq(Frame(n)) /\ disk.wal \in Seq(Frame(n)) /\ disk.snap \in [Keys -> 0..n]
      BY DEF TypeInv, TypedAt, Told, Wal, Disk
<1>2. PICK b \in 0..Len(wal.batch) :
          LET log == disk.wal \o SubSeq(wal.batch, 1, b)
          IN  /\ disk' = [disk EXCEPT !.wal = log]
              /\ store' = [k \in Keys |-> IF Replay(k, log).id = 0 THEN Absent ELSE Replay(k, log)]
              /\ wal' = FreshWal(Len(log))
      BY DEF CrashAndOpen
<1> DEFINE log == disk.wal \o SubSeq(wal.batch, 1, b)
<1>3. log \in Seq(Frame(n))
  <2> DEFINE F == Frame(n)  p == SubSeq(wal.batch, 1, b)
  <2>1. disk.wal \in Seq(F) /\ p \in Seq(F)
        BY <1>1, <1>2, PrefixType
  <2> HIDE DEF F, p
  <2>2. disk.wal \o p \in Seq(F)
        BY <2>1
  <2> QED BY <2>2 DEF F, p
<1>4. /\ disk' = [disk EXCEPT !.wal = log]
      /\ store' = [k \in Keys |-> IF Replay(k, log).id = 0 THEN Absent ELSE Replay(k, log)]
      /\ wal' = FreshWal(Len(log))
      BY <1>2
<1> HIDE DEF log
<1>5. disk' \in Disk(n)
      BY <1>1, <1>3, <1>4 DEF Disk
<1>6. store' \in [Keys -> Record(n)]
  <2>1. Absent \in Record(n)
        BY <1>1 DEF Absent, InMemory, Record, Locs
  <2>2. \A k \in Keys : Replay(k, log) \in Record(n)
        BY <1>1, <1>3, ReplayType
  <2> QED BY <1>4, <2>1, <2>2
<1>7. wal' \in Wal(n)
  <2>1. Len(log) \in Nat
        BY <1>3
  <2> QED BY <1>1, <1>4, <2>1, FreshWalType
<1>8. /\ reader' = SamePath /\ op' = [w \in Writers |-> NoCall]
      /\ recovery' = NoRecovery /\ disabled' = FALSE /\ compaction' = NoCompaction
      /\ told' = [told EXCEPT !.rejected = {}]
      BY DEF CrashAndOpen
<1>9. reader' \in Reader(n) /\ compaction' \in Compaction(n)
      BY <1>1, <1>8, SamePathType, NoCompactionType
<1>10. told' \in Told(n) /\ told'.appends = n
       BY <1>1, <1>8 DEF Told
<1>11. CallsTyped' /\ recovery' \in Recovery /\ disabled' \in BOOLEAN
       BY <1>8, NoCallType DEF CallsTyped, NoRecovery, Recovery
<1> QED BY <1>5, <1>6, <1>7, <1>9, <1>10, <1>11, Lift

\* The tail behind the fence is part of the file, so its copy is made of frames.
LEMMA TailType ==
    ASSUME TypeInv, OffsetInv, NEW n, n = told.appends,
           compaction.pc \in {"preCopy", "drain"}, ~wal.poison.poisoned
    PROVE  compaction.tmp \o SubSeq(disk.wal, compaction.copied + 1, wal.size) \in Seq(Frame(n))
<1> DEFINE F == Frame(n)  tail == SubSeq(disk.wal, compaction.copied + 1, wal.size)
<1>1. /\ n \in Nat /\ disk.wal \in Seq(F) /\ compaction.tmp \in Seq(F)
      /\ wal.size \in Nat /\ compaction.copied \in Nat
      /\ recovery.pc \in {"idle", "truncate", "refresh"}
      BY Parts
<1>2. wal.state # "closed"
      BY DEF OffsetInv, Phases
<1>3. wal.size <= Len(disk.wal) \/ wal.size <= compaction.copied
  <2>1. CASE recovery.pc = "refresh"
        BY <2>1 DEF OffsetInv, FenceHolds
  <2>2. CASE recovery.pc # "refresh"
        BY <1>2, <2>2 DEF OffsetInv, SizeFits
  <2> QED BY <2>1, <2>2
<1>4. tail \in Seq(F)
      BY <1>1, <1>3, LogType
<1> HIDE DEF F, tail
<1>5. compaction.tmp \o tail \in Seq(F)
      BY <1>1, <1>4
<1> QED BY <1>5 DEF F, tail

\* The steps of the recovery in place.
LEMMA RecoverType ==
    ASSUME TypeInv, Recover
    PROVE  TypeInv'
<1> DEFINE n == told.appends
<1>1. /\ n \in Nat /\ CallsTyped
      /\ wal \in Wal(n) /\ disk \in Disk(n) /\ reader \in Reader(n)
      /\ compaction \in Compaction(n) /\ told \in Told(n) /\ store \in [Keys -> Record(n)]
      /\ recovery \in Recovery /\ disabled \in BOOLEAN
      BY DEF TypeInv, TypedAt, Told
<1>2. disk.wal \in Seq(Frame(n)) /\ Len(disk.wal) \in Nat /\ NotPoisoned \in Poison
      BY <1>1 DEF Disk, NotPoisoned, Poison
<1>3. CASE Cut
  <2>1. disk' \in Disk(n)
    <3>1. CASE recovery.failedAtOffset <= Len(disk.wal)
      <4>1. recovery.failedAtOffset \in 0..Len(disk.wal)
            BY <1>1, <1>2, <3>1 DEF Recovery
      <4>2. SubSeq(disk.wal, 1, recovery.failedAtOffset) \in Seq(Frame(n))
            BY <1>1, <1>2, <4>1, PrefixType
      <4> QED BY <1>1, <1>3, <3>1, <4>2 DEF Cut, Disk
    <3>2. CASE ~(recovery.failedAtOffset <= Len(disk.wal))
          BY <1>1, <1>3, <3>2 DEF Cut
    <3> QED BY <3>1, <3>2
  <2>2. wal' \in Wal(n)
        BY <1>1, <1>2, <1>3 DEF Cut, Wal
  <2>3. recovery' \in Recovery
        BY <1>1, <1>3 DEF Cut, Recovery, NoRecovery
  <2>4. CallsTyped' /\ UNCHANGED <<store, reader, disabled, compaction, told>>
        BY <1>1, <1>3 DEF Cut, CallsTyped
  <2> QED BY <1>1, <2>1, <2>2, <2>3, <2>4, Lift
<1>4. CASE CutFails
  <2>1. recovery' \in Recovery /\ disabled' \in BOOLEAN
        BY <1>4 DEF CutFails, Recovery, NoRecovery
  <2>2. CallsTyped' /\ UNCHANGED <<store, wal, disk, reader, compaction, told>>
        BY <1>1, <1>4 DEF CutFails, CallsTyped
  <2> QED BY <1>1, <2>1, <2>2, Lift
<1>5. CASE Refresh
  <2>1. wal' \in Wal(n)
        BY <1>1, <1>2, <1>5 DEF Refresh, Wal
  <2>2. recovery' \in Recovery
        BY <1>5 DEF Refresh, Recovery, NoRecovery
  <2>3. CallsTyped' /\ UNCHANGED <<store, disk, reader, disabled, compaction, told>>
        BY <1>1, <1>5 DEF Refresh, CallsTyped
  <2> QED BY <1>1, <2>1, <2>2, <2>3, Lift
<1> QED BY <1>3, <1>4, <1>5 DEF Recover

\* The steps of a compaction.
LEMMA CompactType ==
    ASSUME TypeInv, OffsetInv, StartCompaction \/ Compact
    PROVE  TypeInv'
<1> DEFINE n == told.appends
<1>1. /\ n \in Nat /\ CallsTyped
      /\ wal \in Wal(n) /\ disk \in Disk(n) /\ reader \in Reader(n)
      /\ compaction \in Compaction(n) /\ told \in Told(n) /\ store \in [Keys -> Record(n)]
      /\ recovery \in Recovery /\ disabled \in BOOLEAN
      BY DEF TypeInv, TypedAt, Told
<1>2. NoCompaction \in Compaction(n)
      BY <1>1, NoCompactionType
<1>3. op' = op => CallsTyped'
      BY <1>1 DEF CallsTyped
<1>4. wal.size \in Nat
      BY <1>1 DEF Wal
<1>5. CASE StartCompaction \/ SnapshotFails \/ RotationFails
  <2>1. compaction' \in Compaction(n)
        BY <1>1, <1>2, <1>5 DEF StartCompaction, SnapshotFails, RotationFails, Compaction, CompactionPc
  <2>2. UNCHANGED <<store, wal, disk, reader, op, recovery, disabled, told>>
        BY <1>5 DEF StartCompaction, SnapshotFails, RotationFails
  <2> QED BY <1>1, <1>3, <2>1, <2>2, Lift
<1>6. CASE Fence
  <2>1. compaction' \in Compaction(n)
        BY <1>1, <1>4, <1>6 DEF Fence, Compaction, CompactionPc
  <2>2. UNCHANGED <<store, wal, disk, reader, op, recovery, disabled, told>>
        BY <1>6 DEF Fence
  <2> QED BY <1>1, <1>3, <2>1, <2>2, Lift
<1>7. CASE Collect
  <2> DEFINE snap == [k \in Keys |-> Read(k)]
  <2>1. compaction' = [compaction EXCEPT !.pc = "write", !.snap = snap]
        BY <1>7 DEF Collect
  <2>2. snap \in [Keys -> 0..n]
        BY ReadType
  <2> HIDE DEF snap
  <2>3. compaction' \in Compaction(n)
        BY <1>1, <2>1, <2>2 DEF Compaction, CompactionPc
  <2>4. UNCHANGED <<store, wal, disk, reader, op, recovery, disabled, told>>
        BY <1>7 DEF Collect
  <2> QED BY <1>1, <1>3, <2>3, <2>4, Lift
<1>8. CASE EndSnapshot \/ EndCopy
  <2>1. compaction' = ToPreCopy
        BY <1>8 DEF EndSnapshot, EndCopy
  <2>2. compaction' \in Compaction(n)
        BY <1>1, <1>2, <2>1 DEF ToPreCopy, Compaction, CompactionPc
  <2>3. UNCHANGED <<store, wal, disk, reader, op, recovery, disabled, told>>
        BY <1>8 DEF EndSnapshot, EndCopy
  <2> QED BY <1>1, <1>3, <2>2, <2>3, Lift
<1>9. CASE StartCopy \/ Drain
  <2> DEFINE tmp == compaction.tmp \o SubSeq(disk.wal, compaction.copied + 1, wal.size)
  <2>1. tmp \in Seq(Frame(n))
    <3>1. compaction.pc \in {"preCopy", "drain"} /\ ~wal.poison.poisoned
          BY <1>9 DEF StartCopy, Drain, Drained, OffsetInv, Phases
    <3> QED BY <3>1, TailType
  <2>2. \E pc \in {"copy", "renameSnapshot"} :
            compaction' = [compaction EXCEPT !.pc = pc, !.appended = TRUE,
                                             !.copied = wal.size, !.tmp = tmp]
        BY <1>9 DEF StartCopy, Drain
  <2> HIDE DEF tmp
  <2>3. compaction' \in Compaction(n)
        BY <1>1, <1>4, <2>1, <2>2 DEF Compaction, CompactionPc
  <2>4. wal' \in Wal(n)
        BY <1>1, <1>9 DEF StartCopy, Drain, Wal
  <2>5. UNCHANGED <<store, disk, reader, op, recovery, disabled, told>>
        BY <1>9 DEF StartCopy, Drain
  <2> QED BY <1>1, <1>3, <2>3, <2>4, <2>5, Lift
<1>10. CASE Seal \/ RollForwardFails
  <2>1. compaction' \in Compaction(n) /\ wal' \in Wal(n)
    <3>1. CASE Seal
          BY <1>1, <3>1 DEF Seal, Wal, Compaction, CompactionPc
    <3>2. CASE RollForwardFails
          BY <1>1, <1>2, <3>2 DEF RollForwardFails, Wal
    <3> QED BY <1>10, <3>1, <3>2
  <2>2. UNCHANGED <<store, disk, reader, op, recovery, disabled, told>>
        BY <1>10 DEF Seal, RollForwardFails
  <2> QED BY <1>1, <1>3, <2>1, <2>2, Lift
<1>11. CASE RenameSnapshot
  <2>1. compaction' \in Compaction(n) /\ disk' \in Disk(n)
        BY <1>1, <1>11 DEF RenameSnapshot, Disk, Compaction, CompactionPc
  <2>2. reader' \in Reader(n)
        BY <1>1, <1>11 DEF RenameSnapshot, Disk, Reader
  <2>3. UNCHANGED <<store, wal, op, recovery, disabled, told>>
        BY <1>11 DEF RenameSnapshot
  <2> QED BY <1>1, <1>3, <2>1, <2>2, <2>3, Lift
<1>12. CASE RenameWal
  <2>1. compaction' \in Compaction(n) /\ disk' \in Disk(n)
        BY <1>1, <1>12 DEF RenameWal, Disk, Compaction, CompactionPc
  <2>2. reader' \in Reader(n)
        BY <1>1, <1>12 DEF RenameWal, Disk, Reader
  <2>3. UNCHANGED <<store, wal, op, recovery, disabled, told>>
        BY <1>12 DEF RenameWal
  <2> QED BY <1>1, <1>3, <2>1, <2>2, <2>3, Lift
<1>13. CASE OpenFresh \/ RollForward
  <2>1. Reopened(TRUE) \/ Reopened(compaction.rotated)
        BY <1>13 DEF OpenFresh, RollForward
  <2>2. compaction.rotated \in BOOLEAN
        BY <1>1 DEF Compaction
  <2>3. /\ store' \in [Keys -> Record(n)] /\ wal' \in Wal(n)
        /\ reader' \in Reader(n) /\ compaction' \in Compaction(n)
        BY <2>1, <2>2, ReopenedType
  <2>4. UNCHANGED <<disk, op, recovery, disabled, told>>
        BY <1>13 DEF OpenFresh, RollForward
  <2> QED BY <1>1, <1>3, <2>3, <2>4, Lift
<1> QED BY <1>5, <1>6, <1>7, <1>8, <1>9, <1>10, <1>11, <1>12, <1>13 DEF Compact

\* Every step keeps the types.
LEMMA NextType ==
    ASSUME TypeInv, OffsetInv, Next
    PROVE  TypeInv'
<1> DEFINE n == told.appends
<1>1. /\ n \in Nat /\ CallsTyped
      /\ wal \in Wal(n) /\ disk \in Disk(n) /\ reader \in Reader(n)
      /\ compaction \in Compaction(n) /\ told \in Told(n) /\ store \in [Keys -> Record(n)]
      /\ recovery \in Recovery /\ disabled \in BOOLEAN
      BY DEF TypeInv, TypedAt, Told
<1>2. ASSUME NEW w \in Writers, NEW c \in Call, c.pc # "none" => c.key \in Keys,
             op' = [op EXCEPT ![w] = c],
             UNCHANGED <<store, wal, disk, reader, recovery, disabled, compaction, told>>
      PROVE  TypeInv'
  <2>1. CallsTyped'
        BY <1>1, <1>2, MoveCall
  <2> QED BY <1>1, <1>2, <2>1, Lift
<1>3. ASSUME NEW w \in Writers, NEW k \in Keys, Set(w, k)
      PROVE  TypeInv'
  <2> DEFINE c == [NoCall EXCEPT !.key = k, !.pc = IF Rotating THEN "parked" ELSE "admitted"]
  <2>1. c \in Call /\ c.key \in Keys
        BY DEF NoCall, Call
  <2>2. op' = [op EXCEPT ![w] = c]
        BY <1>3 DEF Set
  <2>3. UNCHANGED <<store, wal, disk, reader, recovery, disabled, compaction, told>>
        BY <1>3 DEF Set
  <2> HIDE DEF c
  <2> QED BY <1>2, <2>1, <2>2, <2>3
<1>4. ASSUME NEW w \in Writers, op[w].pc # "none", NEW pc \in {"admitted", "gated"},
             op' = [op EXCEPT ![w].pc = pc],
             UNCHANGED <<store, wal, disk, reader, recovery, disabled, compaction, told>>
      PROVE  TypeInv'
  <2> DEFINE c == [op[w] EXCEPT !.pc = pc]
  <2>1. op[w] \in Call /\ op[w].key \in Keys
        BY <1>1, <1>4 DEF CallsTyped
  <2>2. c \in Call /\ c.key \in Keys
        BY <2>1 DEF Call
  <2>3. op' = [op EXCEPT ![w] = c]
        BY <1>1, <1>4 DEF CallsTyped
  <2> HIDE DEF c
  <2> QED BY <1>2, <1>4, <2>2, <2>3
<1>5. ASSUME NEW w \in Writers, PassRotationLock(w)
      PROVE  TypeInv'
      BY <1>4, <1>5 DEF PassRotationLock
<1>6. ASSUME NEW w \in Writers, Commit(w) \/ CommitAfterRecovery(w)
      PROVE  TypeInv'
  <2>1. op[w].pc # "none" /\ UNCHANGED <<disk, reader, disabled, compaction>>
        BY <1>6 DEF Commit, CommitAfterRecovery
  <2>2. CASE Append1(w)
        BY <2>1, <2>2, Append1Type
  <2>3. CASE op' = [op EXCEPT ![w] = NoCall] /\ UNCHANGED <<store, wal, recovery, told>>
        BY <1>2, <2>1, <2>3, NoCallType
  <2>4. CASE op' = [op EXCEPT ![w].pc = "gated"] /\ UNCHANGED <<store, wal, recovery, told>>
        BY <1>4, <2>1, <2>4
  <2> QED BY <1>6, <2>2, <2>3, <2>4 DEF Commit, CommitAfterRecovery
<1>7. CASE StartBatch
  <2>1. NoGroup \in [Keys -> Captured(n)] /\ <<>> \in Seq(Frame(n))
        BY DEF NoGroup, Captured
  <2>2. wal' \in Wal(n)
        BY <1>1, <1>7, <2>1 DEF StartBatch, Wal
  <2>3. CallsTyped' /\ UNCHANGED <<store, disk, reader, recovery, disabled, compaction, told>>
        BY <1>1, <1>7 DEF StartBatch, CallsTyped
  <2> QED BY <1>1, <2>2, <2>3, Lift
<1>8. CASE BatchLands \/ BatchFails
      BY <1>8, BatchType DEF OffsetInv
<1>9. CASE Recover
      BY <1>9, RecoverType
<1>10. CASE StartCompaction \/ Compact
       BY <1>10, CompactType
<1>11. CASE CrashAndOpen
       BY <1>11, CrashType
<1> QED BY <1>3, <1>5, <1>6, <1>7, <1>8, <1>9, <1>10, <1>11 DEF Next, Writer

-----------------------------------------------------------------------------
(* The offsets are kept. *)

\* A step that leaves the log, its file, the recovery and the compaction alone.
LEMMA OffsetsAlone ==
    ASSUME OffsetInv, UNCHANGED <<wal, disk, recovery, compaction>>
    PROVE  OffsetInv'
BY DEF OffsetInv, Calm, NoEmptyOffset, SizeFits, Phases, FenceHolds

\* A writer appends to a sound log only when no recovery is under way.
LEMMA WriterOffsets ==
    ASSUME TypeInv, OffsetInv, NEW w \in Writers, Writer(w)
    PROVE  OffsetInv'
<1>1. CASE \E k \in Keys : Set(w, k)
      BY <1>1, OffsetsAlone DEF Set
<1>2. CASE PassRotationLock(w)
      BY <1>2, OffsetsAlone DEF PassRotationLock
<1>3. CASE Commit(w) \/ CommitAfterRecovery(w)
  <2>1. UNCHANGED <<disk, compaction>>
        BY <1>3 DEF Commit, CommitAfterRecovery
  <2>2. CASE UNCHANGED <<wal, recovery>>
        BY <2>1, <2>2, OffsetsAlone
  <2>3. CASE recovery.pc = "idle" /\ AppendAndApply(w)
    <3> DEFINE frame == [id |-> told.appends + 1, key |-> op[w].key]
               q == wal.queue  b == wal.batch
    <3>1. /\ wal.state = "open" /\ ~wal.poison.poisoned /\ recovery' = recovery
          /\ wal' = [wal EXCEPT !.queue = Append(@, frame), !.nextOffset = @ + 1,
                                !.queueGroup = Note(@, op[w].key)]
          BY <2>3 DEF AppendAndApply
    <3> HIDE DEF frame
    <3>2. wal \in Wal(told.appends)
          BY DEF TypeInv, TypedAt
    <3>3. /\ wal'.state = "open" /\ wal'.poison = wal.poison /\ wal'.size = wal.size
          /\ wal'.batch = b /\ wal'.queue = Append(q, frame) /\ wal'.nextOffset = wal.nextOffset + 1
          BY <3>1, <3>2 DEF Wal
    <3>4. Calm' /\ SizeFits' /\ Phases' /\ FenceHolds'
          BY <2>1, <2>3, <3>1, <3>3
          DEF OffsetInv, Calm, SizeFits, Phases, FenceHolds
    <3>5. NoEmptyOffset'
      <4>1. Len(q) \in Nat /\ Len(b) \in Nat /\ wal.nextOffset \in Nat
            BY Parts
      <4>2. Len(Append(q, frame)) = Len(q) + 1
            BY Parts
      <4>3. wal.nextOffset >= Len(q) + Len(b)
            BY DEF OffsetInv, NoEmptyOffset
      <4>4. wal.nextOffset + 1 >= (Len(q) + 1) + Len(b)
        <5> DEFINE x == Len(q)  y == Len(b)  z == wal.nextOffset
        <5>1. x \in Nat /\ y \in Nat /\ z \in Nat /\ z >= x + y
              BY <4>1, <4>3
        <5> HIDE DEF x, y, z
        <5>2. z + 1 >= (x + 1) + y
              BY <5>1
        <5> QED BY <5>2 DEF x, y, z
      <4>5. Len(wal'.queue) = Len(q) + 1 /\ Len(wal'.batch) = Len(b)
            BY <3>3, <4>2
      <4> HIDE DEF q, b
      <4> QED BY <3>3, <4>4, <4>5 DEF NoEmptyOffset
    <3> QED BY <3>4, <3>5 DEF OffsetInv
  <2>4. CASE Refuse(w)
    <3>1. /\ wal' = wal
          /\ recovery' = IF wal.state # "closed" /\ wal.poison.poisoned
                         THEN [pc |-> "truncate", failedAtOffset |-> wal.poison.failedAtOffset]
                         ELSE recovery
          BY <2>4 DEF Refuse
    <3>2. CASE wal.state # "closed" /\ wal.poison.poisoned
          BY <2>1, <3>1, <3>2 DEF OffsetInv, Calm, NoEmptyOffset, SizeFits, Phases, FenceHolds
    <3>3. CASE ~(wal.state # "closed" /\ wal.poison.poisoned)
          BY <2>1, <3>1, <3>3, OffsetsAlone
    <3> QED BY <3>2, <3>3
  <2> QED BY <1>3, <2>2, <2>3, <2>4
          DEF Commit, CommitAfterRecovery, Append1, RetryAfterSeal
<1> QED BY <1>1, <1>2, <1>3 DEF Writer

\* A batch lands only in a file of the length the log takes it for.
LEMMA BatchOffsets ==
    ASSUME TypeInv, OffsetInv, StartBatch \/ BatchLands \/ BatchFails
    PROVE  OffsetInv'
<1> DEFINE q == wal.queue  b == wal.batch  z == wal.nextOffset
<1>1. /\ wal \in Wal(told.appends) /\ disk \in Disk(told.appends)
      /\ compaction \in Compaction(told.appends)
      BY DEF TypeInv, TypedAt
<1>2. /\ Len(q) \in Nat /\ Len(b) \in Nat /\ z \in Nat /\ wal.size \in Nat
      /\ Len(disk.wal) \in Nat /\ z >= Len(q) + Len(b) /\ Len(<<>>) = 0
  <2>1. /\ Len(q) \in Nat /\ Len(b) \in Nat /\ z \in Nat /\ wal.size \in Nat
        /\ Len(disk.wal) \in Nat
        BY Parts
  <2>2. z >= Len(q) + Len(b)
        BY DEF OffsetInv, NoEmptyOffset
  <2> HIDE DEF q, b, z
  <2> QED BY <2>1, <2>2
<1>3. CASE StartBatch
  <2>1. /\ wal'.state = wal.state /\ wal'.poison = wal.poison /\ wal'.size = wal.size
        /\ wal'.nextOffset = z /\ wal'.batch = q /\ wal'.queue = <<>>
        /\ b = <<>> /\ q # <<>> /\ UNCHANGED <<disk, recovery, compaction>>
        BY <1>1, <1>3 DEF StartBatch, Writing, Wal
  <2>2. Calm' /\ SizeFits' /\ Phases' /\ FenceHolds'
        BY <2>1 DEF OffsetInv, Calm, SizeFits, Phases, FenceHolds
  <2>3. NoEmptyOffset'
        BY <1>2, <2>1 DEF NoEmptyOffset
  <2> QED BY <2>2, <2>3 DEF OffsetInv
<1>4. CASE BatchLands
  <2>1. /\ wal'.state = wal.state /\ wal'.poison = wal.poison /\ wal'.size = wal.size + Len(b)
        /\ wal'.nextOffset = z /\ wal'.batch = <<>> /\ wal'.queue = q
        /\ b # <<>> /\ disk'.wal = disk.wal \o b /\ UNCHANGED <<recovery, compaction>>
        BY <1>1, <1>4 DEF BatchLands, Writing, Wal, Disk
  <2>2. recovery.pc = "idle" /\ ~wal.poison.poisoned /\ wal.state # "closed"
        BY <2>1 DEF OffsetInv, Calm
  <2>3. Calm' /\ Phases' /\ FenceHolds'
        BY <2>1, <2>2 DEF OffsetInv, Calm, Phases, FenceHolds
  <2>4. SizeFits'
    <3>1. Len(disk'.wal) = Len(disk.wal) + Len(b)
          BY <2>1, Parts, LogType
    <3>2. wal.size <= Len(disk.wal)
          BY <2>2 DEF OffsetInv, SizeFits
    <3>3. wal'.size <= Len(disk'.wal)
      <4> DEFINE s == wal.size  d == Len(disk.wal)  x == Len(b)
      <4>1. s \in Nat /\ d \in Nat /\ x \in Nat /\ s <= d
            BY <1>2, <3>2
      <4> HIDE DEF s, d, x
      <4>2. s + x <= d + x
            BY <4>1
      <4> QED BY <2>1, <3>1, <4>2 DEF s, d, x
    <3> QED BY <3>3 DEF SizeFits
  <2>5. NoEmptyOffset'
    <3> HIDE DEF q, b, z
    <3>1. Len(wal'.queue) = Len(q) /\ Len(wal'.batch) = 0 /\ wal'.nextOffset = z
          BY <1>2, <2>1
    <3>2. z >= Len(q) + 0
          BY <1>2
    <3> QED BY <3>1, <3>2 DEF NoEmptyOffset
  <2> QED BY <2>3, <2>4, <2>5 DEF OffsetInv
<1>5. CASE BatchFails
  <2>1. /\ wal'.state = wal.state /\ wal'.poison.poisoned
        /\ wal'.nextOffset = z /\ wal'.batch = <<>> /\ wal'.queue = <<>>
    <3>1. PICK i \in 0..Len(wal.batch) :
              wal' = [wal EXCEPT !.poison = [poisoned |-> TRUE, failedAtOffset |-> FirstOffset],
                                 !.batch = <<>>, !.queue = <<>>, !.size = @ + i,
                                 !.batchGroup = NoGroup, !.queueGroup = NoGroup]
          BY <1>5 DEF BatchFails
    <3> QED BY <1>1, <3>1 DEF Wal
  <2>2. compaction' = FlushThrows
        BY <1>5 DEF BatchFails
  <2>3. Calm' /\ SizeFits' /\ FenceHolds'
        BY <2>1 DEF Calm, SizeFits, FenceHolds
  <2>4. NoEmptyOffset'
        BY <1>2, <2>1 DEF NoEmptyOffset
  <2>5. Phases'
    <3>1. CASE compaction.pc \in {"fence", "preCopy"}
          BY <2>2, <3>1 DEF FlushThrows, NoCompaction, Phases
    <3>2. CASE compaction.pc = "drain"
      <4>1. compaction'.pc = "rollForward"
            BY <1>1, <2>2, <3>2 DEF FlushThrows, Compaction
      <4> QED BY <2>1, <3>2, <4>1 DEF OffsetInv, Phases
    <3>3. CASE compaction.pc \notin {"fence", "preCopy", "drain"}
      <4>1. compaction' = compaction
            BY <2>2, <3>3 DEF FlushThrows
      <4> QED BY <2>1, <3>3, <4>1 DEF OffsetInv, Phases
    <3> QED BY <3>1, <3>2, <3>3
  <2> QED BY <2>3, <2>4, <2>5 DEF OffsetInv
<1> QED BY <1>3, <1>4, <1>5

\* Nothing waits in a log that is being cut, and the log is told its new size.
LEMMA RecoverOffsets ==
    ASSUME TypeInv, OffsetInv, Recover
    PROVE  OffsetInv'
<1>1. wal \in Wal(told.appends) /\ disk \in Disk(told.appends)
      BY DEF TypeInv, TypedAt
<1>2. compaction' = compaction /\ recovery.pc # "idle"
      BY DEF Recover, Cut, CutFails, Refresh
<1>3. wal.batch = <<>> /\ wal.queue = <<>>
      BY <1>2 DEF OffsetInv, Calm
<1>4. /\ Len(disk.wal) \in Nat /\ wal.nextOffset \in Nat
      /\ Len(<<>>) = 0
      BY Parts
<1>5. CASE Cut
  <2>1. /\ wal'.state = wal.state /\ wal'.queue = <<>> /\ wal'.batch = <<>>
        /\ wal'.nextOffset = wal.nextOffset /\ wal'.size = wal.size
        BY <1>1, <1>3, <1>5 DEF Cut, Wal
  <2>2. Calm' /\ NoEmptyOffset'
        BY <1>4, <2>1 DEF Calm, NoEmptyOffset
  <2>3. CASE wal.state = "closed"
    <3>1. recovery'.pc = "idle" /\ ~wal'.poison.poisoned
          BY <1>1, <1>5, <2>3 DEF Cut, Wal, NoRecovery, NotPoisoned
    <3>2. SizeFits' /\ FenceHolds'
          BY <2>1, <2>3, <3>1 DEF SizeFits, FenceHolds
    <3>3. Phases'
          BY <1>2, <2>1, <3>1 DEF OffsetInv, Phases
    <3> QED BY <2>2, <3>2, <3>3 DEF OffsetInv
  <2>4. CASE wal.state # "closed"
    <3>1. wal' = wal /\ recovery' = [recovery EXCEPT !.pc = "refresh"]
          BY <1>5, <2>4 DEF Cut
    <3>2. recovery'.pc = "refresh"
          BY <3>1 DEF TypeInv, Recovery
    <3>3. SizeFits' /\ FenceHolds' /\ Phases'
          BY <1>2, <3>1, <3>2 DEF OffsetInv, SizeFits, FenceHolds, Phases
    <3> QED BY <2>2, <3>3 DEF OffsetInv
  <2> QED BY <2>3, <2>4
<1>6. CASE CutFails
  <2>1. recovery.pc = "truncate" /\ UNCHANGED <<wal, disk>> /\ recovery'.pc = "idle"
        BY <1>6 DEF CutFails, NoRecovery
  <2> QED BY <1>2, <1>3, <2>1 DEF OffsetInv, Calm, NoEmptyOffset, SizeFits, Phases, FenceHolds
<1>7. CASE Refresh
  <2>1. /\ wal'.state = wal.state /\ wal'.queue = <<>> /\ wal'.batch = <<>>
        /\ wal'.nextOffset = Len(disk.wal) /\ wal'.size = Len(disk.wal)
        /\ ~wal'.poison.poisoned /\ recovery'.pc = "idle" /\ disk' = disk
        BY <1>1, <1>3, <1>7 DEF Refresh, Wal, NoRecovery, NotPoisoned
  <2>2. Calm' /\ NoEmptyOffset' /\ SizeFits' /\ FenceHolds'
        BY <1>4, <2>1 DEF Calm, NoEmptyOffset, SizeFits, FenceHolds
  <2>3. Phases'
        BY <1>2, <2>1 DEF OffsetInv, Phases
  <2> QED BY <2>2, <2>3 DEF OffsetInv
<1> QED BY <1>5, <1>6, <1>7 DEF Recover

\* A fresh log of the size of its file.
LEMMA FreshOffsets ==
    ASSUME NEW d \in Nat, d = Len(disk'.wal), wal' = FreshWal(d), compaction' = NoCompaction
    PROVE  OffsetInv'
<1>1. /\ wal'.queue = <<>> /\ wal'.batch = <<>> /\ wal'.size = d /\ wal'.nextOffset = d
      /\ Len(<<>>) = 0 /\ compaction'.pc = "idle"
      BY DEF FreshWal, NoCompaction
<1>2. Calm' /\ NoEmptyOffset' /\ SizeFits' /\ Phases' /\ FenceHolds'
      BY <1>1 DEF Calm, NoEmptyOffset, SizeFits, Phases, FenceHolds
<1> QED BY <1>2 DEF OffsetInv

\* A compaction keeps to the order of its phases.
LEMMA CompactOffsets ==
    ASSUME TypeInv, OffsetInv, StartCompaction \/ Compact
    PROVE  OffsetInv'
<1>1. wal \in Wal(told.appends) /\ compaction \in Compaction(told.appends)
      BY DEF TypeInv, TypedAt
<1>2. wal.size \in Nat /\ compaction.copied \in Nat /\ Len(disk.wal) \in Nat
      BY Parts
<1>3. recovery' = recovery
      BY DEF StartCompaction, Compact, Fence, Collect, EndSnapshot, StartCopy, EndCopy,
             SnapshotFails, Seal, Drain, RenameSnapshot, RenameWal, OpenFresh, RotationFails,
             RollForward, RollForwardFails
<1>4. ASSUME UNCHANGED <<wal, disk>>, Phases', FenceHolds'
      PROVE  OffsetInv'
      BY <1>3, <1>4 DEF OffsetInv, Calm, NoEmptyOffset, SizeFits
<1>5. CASE StartCompaction
  <2>1. UNCHANGED <<wal, disk>> /\ compaction'.pc = "fence" /\ wal.state = "open"
        BY <1>5 DEF StartCompaction, NoCompaction
  <2> QED BY <1>4, <2>1 DEF Phases, FenceHolds
<1>6. CASE Fence
  <2>1. /\ UNCHANGED <<wal, disk>> /\ compaction.pc = "fence"
        /\ compaction'.pc = "snapshot" /\ compaction'.copied = wal.size
        BY <1>1, <1>6 DEF Fence, Compaction
  <2>2. Phases'
        BY <2>1 DEF OffsetInv, Phases
  <2>3. FenceHolds'
        BY <1>2, <2>1 DEF FenceHolds
  <2> QED BY <1>4, <2>1, <2>2, <2>3
<1>7. CASE Collect
  <2>1. /\ UNCHANGED <<wal, disk>> /\ compaction.pc = "snapshot"
        /\ compaction'.pc = "write" /\ compaction'.copied = compaction.copied
        BY <1>1, <1>7 DEF Collect, Compaction
  <2>2. Phases' /\ FenceHolds'
        BY <1>3, <2>1 DEF OffsetInv, Phases, FenceHolds
  <2> QED BY <1>4, <2>1, <2>2
<1>8. CASE EndSnapshot \/ EndCopy
  <2>1. UNCHANGED <<wal, disk>> /\ compaction' = ToPreCopy /\ compaction.pc \in {"write", "copy"}
        BY <1>8 DEF EndSnapshot, EndCopy
  <2>2. CASE wal.poison.poisoned
    <3>1. compaction'.pc = "idle"
          BY <2>1, <2>2 DEF ToPreCopy, NoCompaction
    <3> QED BY <1>4, <2>1, <3>1 DEF Phases, FenceHolds
  <2>3. CASE ~wal.poison.poisoned
    <3>1. compaction'.pc = "preCopy" /\ compaction'.copied = compaction.copied
          BY <1>1, <2>1, <2>3 DEF ToPreCopy, Compaction
    <3>2. Phases' /\ FenceHolds'
          BY <1>3, <2>1, <2>3, <3>1 DEF OffsetInv, Phases, FenceHolds
    <3> QED BY <1>4, <2>1, <3>2
  <2> QED BY <2>2, <2>3
<1>9. CASE StartCopy
  <2>1. /\ UNCHANGED <<wal, disk>> /\ compaction.pc = "preCopy"
        /\ compaction'.pc = "copy" /\ compaction'.copied = wal.size
        BY <1>1, <1>9 DEF StartCopy, Compaction
  <2>2. Phases'
        BY <2>1 DEF OffsetInv, Phases
  <2>3. FenceHolds'
        BY <1>2, <2>1 DEF FenceHolds
  <2> QED BY <1>4, <2>1, <2>2, <2>3
<1>10. CASE SnapshotFails
  <2>1. UNCHANGED <<wal, disk>> /\ compaction'.pc = "idle"
        BY <1>10 DEF SnapshotFails, NoCompaction
  <2> QED BY <1>4, <2>1 DEF Phases, FenceHolds
<1>11. CASE Seal
  <2>1. /\ disk' = disk /\ compaction.pc = "preCopy"
        /\ compaction'.pc = "drain" /\ compaction'.copied = compaction.copied
        BY <1>1, <1>11 DEF Seal, Compaction
  <2>2. /\ wal'.state = "sealed" /\ wal'.queue = wal.queue /\ wal'.batch = wal.batch
        /\ wal'.size = wal.size /\ wal'.nextOffset = wal.nextOffset /\ wal'.poison = wal.poison
        BY <1>1, <1>11 DEF Seal, Wal
  <2>3. wal.state = "open"
        BY <2>1 DEF OffsetInv, Phases
  <2> QED BY <1>3, <2>1, <2>2, <2>3 DEF OffsetInv, Calm, NoEmptyOffset, SizeFits, Phases, FenceHolds
<1>12. CASE Drain
  <2>1. /\ disk' = disk /\ wal.batch = <<>> /\ wal.queue = <<>>
        /\ compaction'.pc = "renameSnapshot"
        BY <1>1, <1>12 DEF Drain, Drained, Writing, Compaction
  <2>2. /\ wal'.state = "closed" /\ wal'.queue = wal.queue /\ wal'.batch = wal.batch
        /\ wal'.size = wal.size /\ wal'.nextOffset = wal.nextOffset /\ wal'.poison = wal.poison
        BY <1>1, <1>12 DEF Drain, Wal
  <2> QED BY <1>3, <2>1, <2>2 DEF OffsetInv, Calm, NoEmptyOffset, SizeFits, Phases, FenceHolds
<1>13. CASE RenameSnapshot
  <2>1. /\ wal' = wal /\ disk'.wal = disk.wal /\ compaction.pc = "renameSnapshot"
        /\ compaction'.pc = "renameWal"
        BY <1>1, <1>13 DEF RenameSnapshot, Compaction, TypeInv, TypedAt, Disk
  <2> QED BY <1>3, <2>1 DEF OffsetInv, Calm, NoEmptyOffset, SizeFits, Phases, FenceHolds
<1>14. CASE RenameWal
  <2>1. wal' = wal /\ compaction.pc = "renameWal" /\ compaction'.pc = "open"
        BY <1>1, <1>14 DEF RenameWal, Compaction
  <2> QED BY <1>3, <2>1 DEF OffsetInv, Calm, NoEmptyOffset, SizeFits, Phases, FenceHolds
<1>15. CASE OpenFresh \/ RollForward
  <2>1. disk' = disk /\ wal' = FreshWal(Len(disk.wal)) /\ compaction' = NoCompaction
        BY <1>15 DEF OpenFresh, RollForward, Reopened
  <2> QED BY <1>2, <2>1, FreshOffsets
<1>16. CASE RotationFails
  <2>1. /\ UNCHANGED <<wal, disk>> /\ compaction'.pc = "rollForward"
        /\ Drained \/ compaction.pc \in {"renameSnapshot", "renameWal", "open"}
        BY <1>1, <1>16 DEF RotationFails, Compaction
  <2>2. wal.state # "open" /\ wal.queue = <<>> /\ wal.batch = <<>>
    <3>1. CASE Drained
          BY <3>1 DEF Drained, Writing, OffsetInv, Phases
    <3>2. CASE compaction.pc \in {"renameSnapshot", "renameWal", "open"}
          BY <3>2 DEF OffsetInv, Phases, Calm
    <3> QED BY <2>1, <3>1, <3>2
  <2>3. Phases' /\ FenceHolds'
        BY <2>1, <2>2 DEF Phases, FenceHolds
  <2> QED BY <1>4, <2>1, <2>3
<1>17. CASE RollForwardFails
  <2>1. disk' = disk /\ compaction.pc = "rollForward" /\ compaction'.pc = "idle"
        BY <1>17 DEF RollForwardFails, NoCompaction
  <2>2. /\ wal'.state = "closed" /\ wal'.queue = wal.queue /\ wal'.batch = wal.batch
        /\ wal'.size = wal.size /\ wal'.nextOffset = wal.nextOffset /\ wal'.poison = wal.poison
        BY <1>1, <1>17 DEF RollForwardFails, Wal
  <2>3. wal.batch = <<>> /\ wal.queue = <<>>
        BY <2>1 DEF OffsetInv, Phases
  <2> QED BY <1>3, <2>1, <2>2, <2>3 DEF OffsetInv, Calm, NoEmptyOffset, SizeFits, Phases, FenceHolds
<1> QED BY <1>5, <1>6, <1>7, <1>8, <1>9, <1>10, <1>11, <1>12, <1>13, <1>14, <1>15, <1>16, <1>17
        DEF Compact

\* Every step keeps the offsets.
LEMMA NextOffsets ==
    ASSUME TypeInv, OffsetInv, Next
    PROVE  OffsetInv'
<1>1. CASE CrashAndOpen
  <2>1. /\ wal' = FreshWal(Len(disk'.wal)) /\ compaction' = NoCompaction
    <3>1. PICK b \in 0..Len(wal.batch) :
            LET log == disk.wal \o SubSeq(wal.batch, 1, b)
            IN  disk' = [disk EXCEPT !.wal = log] /\ wal' = FreshWal(Len(log))
          BY <1>1 DEF CrashAndOpen
    <3> DEFINE log == disk.wal \o SubSeq(wal.batch, 1, b)
    <3>2. disk' = [disk EXCEPT !.wal = log] /\ wal' = FreshWal(Len(log))
          BY <3>1
    <3> HIDE DEF log
    <3>3. disk'.wal = log
          BY <3>2 DEF TypeInv, TypedAt, Disk
    <3> QED BY <1>1, <3>2, <3>3 DEF CrashAndOpen
  <2>2. Len(disk'.wal) \in Nat
    <3>1. TypeInv'
          BY <1>1, CrashType
    <3>2. disk' \in Disk(told'.appends)
          BY <3>1 DEF TypeInv, TypedAt
    <3> QED BY <3>2 DEF Disk
  <2> QED BY <2>1, <2>2, FreshOffsets
<1>2. CASE \E w \in Writers : Writer(w)
      BY <1>2, WriterOffsets
<1>3. CASE StartBatch \/ BatchLands \/ BatchFails
      BY <1>3, BatchOffsets
<1>4. CASE Recover
      BY <1>4, RecoverOffsets
<1>5. CASE StartCompaction \/ Compact
      BY <1>5, CompactOffsets
<1> QED BY <1>1, <1>2, <1>3, <1>4, <1>5 DEF Next

-----------------------------------------------------------------------------
(* What would be restored is kept. *)

\* A step that moves no frame, touches no group and stores no write.
LEMMA RollAlone ==
    ASSUME RollInv, \A k \in Keys : store'[k].id = store[k].id,
           wal'.queue = wal.queue, wal'.batch = wal.batch,
           wal'.queueGroup = wal.queueGroup, wal'.batchGroup = wal.batchGroup,
           told'.rejected = told.rejected
    PROVE  RollInv'
BY DEF RollInv, GroupOK, Touched, Ids

\* With no frame and no group the store need only hold no rejected write.
LEMMA RollFresh ==
    ASSUME wal'.queue = <<>>, wal'.batch = <<>>,
           wal'.queueGroup = NoGroup, wal'.batchGroup = NoGroup,
           \A k \in Keys : store'[k].id \notin told'.rejected
    PROVE  RollInv'
<1>1. Ids(<<>>) = {}
      BY DEF Ids
<1>2. \A k \in Keys : NoGroup[k] = Untouched
      BY DEF NoGroup
<1> SUFFICES ASSUME NEW k \in Keys PROVE GroupOK(k)'
    BY DEF RollInv
<1>3. Ids(wal'.queue) = {} /\ Ids(wal'.batch) = {}
      BY <1>1
<1> QED BY <1>2, <1>3 DEF GroupOK, Touched, Ids

\* Everything in sight was appended before.
LEMMA Old ==
    ASSUME TypeInv, NEW k \in Keys
    PROVE  /\ store[k].id \in 0..told.appends
           /\ Touched(wal.queueGroup, k) => wal.queueGroup[k].id \in 0..told.appends
           /\ Touched(wal.batchGroup, k) => wal.batchGroup[k].id \in 0..told.appends
           /\ Ids(wal.queue) \subseteq 0..told.appends
           /\ Ids(wal.batch) \subseteq 0..told.appends
           /\ told.rejected \subseteq 0..told.appends
           /\ told.appends \in Nat
           /\ store[k] # Untouched
<1> DEFINE n == told.appends
<1>1. /\ n \in Nat /\ store[k] \in Record(n)
      /\ wal.queueGroup[k] \in Captured(n) /\ wal.batchGroup[k] \in Captured(n)
      /\ told.rejected \subseteq 0..n
      BY Parts
<1>2. \A i \in DOMAIN wal.queue : wal.queue[i] \in Frame(n)
      BY Parts
<1>3. \A i \in DOMAIN wal.batch : wal.batch[i] \in Frame(n)
      BY Parts
<1>4. Ids(wal.queue) \subseteq 0..n /\ Ids(wal.batch) \subseteq 0..n
      BY <1>2, <1>3 DEF Ids, Frame
<1>5. store[k] # Untouched
      BY <1>1 DEF Record, Locs, Untouched
<1> QED BY <1>1, <1>4, <1>5 DEF Touched, Captured, Record

\* The new write is in no group, and its group notes what it replaces.
LEMMA AppendRolls ==
    ASSUME TypeInv, RollInv, NEW w \in Writers, op[w].pc # "none", AppendAndApply(w)
    PROVE  RollInv'
<1>0. op[w].key \in Keys
      BY Parts DEF TypeInv, TypedAt, CallsTyped
<1> PICK a \in Keys : a = op[w].key
    BY <1>0
<1> DEFINE m == told.appends + 1
           frame == [id |-> m, key |-> a]
<1>1. a \in Keys /\ wal \in Wal(told.appends) /\ store \in [Keys -> Record(told.appends)]
      /\ wal.queue \in Seq(Frame(told.appends))
      BY Parts DEF TypeInv, TypedAt
<1>2. /\ wal' = [wal EXCEPT !.queue = Append(@, frame), !.nextOffset = @ + 1,
                            !.queueGroup = Note(@, a)]
      /\ store' = [store EXCEPT ![a] = [id |-> m, loc |-> InMemory]]
      /\ told' = [told EXCEPT !.appends = m]
      BY DEF AppendAndApply
<1>3. /\ wal'.batch = wal.batch /\ wal'.batchGroup = wal.batchGroup
      /\ wal'.queueGroup = Note(wal.queueGroup, a) /\ told'.rejected = told.rejected
      BY <1>1, <1>2 DEF Wal, TypeInv, TypedAt, Told
<1>4. Ids(wal'.queue) = Ids(wal.queue) \cup {m}
  <2> DEFINE q == wal.queue  r == Append(q, frame)
  <2>1. wal'.queue = r
        BY <1>1, <1>2 DEF Wal
  <2>2. Len(q) \in Nat /\ DOMAIN q = 1..Len(q)
        BY <1>1
  <2>3. DOMAIN r = 1..(Len(q) + 1) /\ r[Len(q) + 1] = frame /\ \A i \in 1..Len(q) : r[i] = q[i]
        BY <1>1
  <2>4. frame.id = m
        OBVIOUS
  <2> HIDE DEF q, r, frame
  <2>5. DOMAIN r = DOMAIN q \cup {Len(q) + 1}
        BY <2>2, <2>3
  <2>6. Ids(r) = Ids(q) \cup {m}
        BY <2>2, <2>3, <2>4, <2>5 DEF Ids
  <2> QED BY <2>1, <2>6 DEF q
<1>5. m \notin 0..told.appends
      BY Parts
<1> HIDE DEF m
<1>6. ASSUME NEW k \in Keys, k # a
      PROVE  GroupOK(k)'
  <2>1. store'[k] = store[k] /\ wal'.queueGroup[k] = wal.queueGroup[k]
    <3>1. wal.queueGroup \in [Keys -> Captured(told.appends)]
          BY <1>1 DEF Wal
    <3> QED BY <1>1, <1>2, <1>3, <1>6, <3>1 DEF Note
  <2>2. GroupOK(k)
        BY DEF RollInv
  <2>3. store[k].id # m /\ (Touched(wal.queueGroup, k) => wal.queueGroup[k].id # m)
        /\ (Touched(wal.batchGroup, k) => wal.batchGroup[k].id # m)
        BY <1>5, Old
  <2>4. Ids(wal'.batch) = Ids(wal.batch)
        BY <1>3
  <2> QED BY <1>3, <1>4, <2>1, <2>2, <2>3, <2>4 DEF GroupOK, Touched, Ids
<1>7. GroupOK(a)'
  <2>1. store'[a].id = m
        BY <1>1, <1>2
  <2>2. GroupOK(a)
        BY <1>1 DEF RollInv
  <2>3. /\ m \notin told.rejected /\ m \notin Ids(wal.batch)
        /\ Touched(wal.batchGroup, a) => wal.batchGroup[a].id # m
        /\ Touched(wal.queueGroup, a) => wal.queueGroup[a].id # m
        /\ store[a].id # m /\ store[a] # Untouched
        BY <1>1, <1>5, Old
  <2>4. wal'.queueGroup[a] = IF Touched(wal.queueGroup, a) THEN wal.queueGroup[a] ELSE store[a]
    <3>1. wal.queueGroup \in [Keys -> Captured(told.appends)]
          BY <1>1 DEF Wal
    <3> QED BY <1>1, <1>3, <3>1 DEF Note, Touched
  <2>5. Ids(wal'.batch) = Ids(wal.batch)
        BY <1>3
  <2>6. CASE Touched(wal.queueGroup, a)
        BY <1>3, <1>4, <2>1, <2>2, <2>3, <2>4, <2>5, <2>6 DEF GroupOK, Touched, Ids
  <2>7. CASE ~Touched(wal.queueGroup, a)
    <3>1. store[a].id \notin Ids(wal.queue) /\ store[a].id \notin told.rejected
          BY <2>2, <2>7 DEF GroupOK
    <3>2. wal'.queueGroup[a] = store[a]
          BY <2>4, <2>7
    <3> QED BY <1>3, <1>4, <2>1, <2>2, <2>3, <2>5, <3>1, <3>2 DEF GroupOK, Touched, Ids
  <2> QED BY <2>6, <2>7
<1> QED BY <1>6, <1>7 DEF RollInv

\* A failed batch takes the queue with it and restores what neither has written.
LEMMA FailureRolls ==
    ASSUME TypeInv, RollInv, BatchFails
    PROVE  RollInv'
<1>1. PICK b \in 0..Len(wal.batch) :
          wal' = [wal EXCEPT !.poison = [poisoned |-> TRUE, failedAtOffset |-> FirstOffset],
                             !.batch = <<>>, !.queue = <<>>, !.size = @ + b,
                             !.batchGroup = NoGroup, !.queueGroup = NoGroup]
      BY DEF BatchFails
<1>2. /\ wal'.queue = <<>> /\ wal'.batch = <<>>
      /\ wal'.queueGroup = NoGroup /\ wal'.batchGroup = NoGroup
      BY <1>1 DEF TypeInv, TypedAt, Wal
<1>3. store' = RollBack /\ told'.rejected = told.rejected \cup Ids(wal.batch) \cup Ids(wal.queue)
      BY DEF BatchFails, Unacked, TypeInv, TypedAt, Told
<1>4. ASSUME NEW k \in Keys
      PROVE  store'[k].id \notin told'.rejected
  <2>1. GroupOK(k)
        BY DEF RollInv
  <2>2. store'[k] = IF Touched(wal.batchGroup, k) THEN wal.batchGroup[k]
                    ELSE IF Touched(wal.queueGroup, k) THEN wal.queueGroup[k] ELSE store[k]
        BY <1>3 DEF RollBack, Restore, Touched
  <2> QED BY <1>3, <2>1, <2>2 DEF GroupOK
<1> QED BY <1>2, <1>4, RollFresh

\* Every step keeps what would be restored.
LEMMA NextRolls ==
    ASSUME TypeInv, OffsetInv, RollInv, Next
    PROVE  RollInv'
<1>1. wal \in Wal(told.appends) /\ told \in Told(told.appends)
      BY DEF TypeInv, TypedAt
<1>2. wal' = wal /\ store' = store /\ told'.rejected = told.rejected => RollInv'
      BY RollAlone
<1>3. CASE \E w \in Writers : Writer(w)
  <2> SUFFICES ASSUME NEW w \in Writers, Writer(w) PROVE RollInv'
      BY <1>3
  <2>1. CASE op[w].pc # "none" /\ AppendAndApply(w)
        BY <2>1, AppendRolls
  <2>2. CASE ~(op[w].pc # "none" /\ AppendAndApply(w))
    <3>1. UNCHANGED <<wal, store, told>>
          BY <2>2 DEF Writer, Set, PassRotationLock, Commit, CommitAfterRecovery, Append1,
                      RetryAfterSeal, Refuse
    <3> QED BY <1>2, <3>1
  <2> QED BY <2>1, <2>2
<1>4. CASE StartBatch
  <2>1. /\ store' = store /\ told' = told /\ wal.batch = <<>>
        /\ wal'.queue = <<>> /\ wal'.batch = wal.queue
        /\ wal'.queueGroup = NoGroup /\ wal'.batchGroup = wal.queueGroup
        BY <1>1, <1>4 DEF StartBatch, Writing, Wal
  <2>2. Ids(wal'.queue) = {} /\ Ids(wal'.batch) = Ids(wal.queue)
        BY <2>1 DEF Ids
  <2> SUFFICES ASSUME NEW k \in Keys PROVE GroupOK(k)'
      BY DEF RollInv
  <2>3. GroupOK(k) /\ NoGroup[k] = Untouched
        BY DEF RollInv, NoGroup
  <2> QED BY <2>1, <2>2, <2>3 DEF GroupOK, Touched, Ids
<1>5. CASE BatchLands
  <2>1. /\ store' = Publish(wal.batch, FirstOffset) /\ told'.rejected = told.rejected
        /\ wal'.queue = wal.queue /\ wal'.batch = <<>>
        /\ wal'.queueGroup = wal.queueGroup /\ wal'.batchGroup = NoGroup
        BY <1>1, <1>5 DEF BatchLands, Wal, Told
  <2>2. Ids(wal'.batch) = {} /\ Ids(wal'.queue) = Ids(wal.queue)
        BY <2>1 DEF Ids
  <2> SUFFICES ASSUME NEW k \in Keys PROVE GroupOK(k)'
      BY DEF RollInv
  <2>3. GroupOK(k) /\ NoGroup[k] = Untouched
        BY DEF RollInv, NoGroup
  <2>4. store'[k].id = store[k].id
    <3>1. FirstOffset \in Nat
          BY FirstOffsetType DEF OffsetInv
    <3>2. /\ told.appends \in Nat /\ store \in [Keys -> Record(told.appends)]
          /\ wal.batch \in Seq(Frame(told.appends))
          BY Parts
    <3>3. Publish(wal.batch, FirstOffset)[k].id = store[k].id
          BY <3>1, <3>2, PublishType
    <3> QED BY <2>1, <3>3
  <2> QED BY <2>1, <2>2, <2>3, <2>4 DEF GroupOK, Touched, Ids
<1>6. CASE BatchFails
      BY <1>6, FailureRolls
<1>7. CASE Recover
  <2>1. /\ store' = store /\ told' = told /\ wal'.queue = wal.queue /\ wal'.batch = wal.batch
        /\ wal'.queueGroup = wal.queueGroup /\ wal'.batchGroup = wal.batchGroup
        BY <1>1, <1>7 DEF Recover, Cut, CutFails, Refresh, Wal
  <2> QED BY <2>1, RollAlone
<1>8. CASE OpenFresh \/ RollForward
  <2>1. Reopened(TRUE) \/ Reopened(compaction.rotated)
        BY <1>8 DEF OpenFresh, RollForward
  <2>2. \A k \in Keys : store'[k].id = store[k].id
    <3>1. store \in [Keys -> Record(told.appends)]
          BY Parts
    <3> QED BY <2>1, <3>1 DEF Reopened, Record
  <2>3. /\ wal'.queue = <<>> /\ wal'.batch = <<>>
        /\ wal'.queueGroup = NoGroup /\ wal'.batchGroup = NoGroup
        BY <2>1 DEF Reopened, FreshWal
  <2>4. told' = told
        BY <1>8 DEF OpenFresh, RollForward
  <2> QED BY <2>2, <2>3, <2>4, RollFresh DEF RollInv, GroupOK
<1>9. CASE (StartCompaction \/ Compact) /\ ~(OpenFresh \/ RollForward)
  <2>1. /\ store' = store /\ told' = told /\ wal'.queue = wal.queue /\ wal'.batch = wal.batch
        /\ wal'.queueGroup = wal.queueGroup /\ wal'.batchGroup = wal.batchGroup
        BY <1>1, <1>9 DEF StartCompaction, Compact, Fence, Collect, EndSnapshot, StartCopy, EndCopy,
             SnapshotFails, Seal, Drain, RenameSnapshot, RenameWal, RotationFails,
             RollForwardFails, Wal
  <2> QED BY <2>1, RollAlone
<1>10. CASE CrashAndOpen
  <2>1. told'.rejected = {}
        BY <1>1, <1>10 DEF CrashAndOpen, Told
  <2>2. /\ wal'.queue = <<>> /\ wal'.batch = <<>>
        /\ wal'.queueGroup = NoGroup /\ wal'.batchGroup = NoGroup
        BY <1>10 DEF CrashAndOpen, FreshWal
  <2> QED BY <2>1, <2>2, RollFresh
<1> QED BY <1>3, <1>4, <1>5, <1>6, <1>7, <1>8, <1>9, <1>10 DEF Next, Compact

-----------------------------------------------------------------------------
\* Nothing is in the files, in memory or under way.
LEMMA InitOK == Init => IInv
<1> SUFFICES ASSUME Init PROVE IInv
    OBVIOUS
<1>1. told.appends = 0 /\ told.rejected = {} /\ 0 \in Nat /\ <<>> \in Seq(Frame(0))
      BY DEF Init
<1>2. TypedAt(0)
  <2>1. store \in [Keys -> Record(0)]
        BY DEF Init, Absent, InMemory, Record, Locs
  <2>2. wal \in Wal(0) /\ reader \in Reader(0) /\ compaction \in Compaction(0)
        BY FreshWalType, SamePathType, NoCompactionType DEF Init
  <2>3. disk \in Disk(0) /\ told \in Told(0)
        BY <1>1 DEF Init, Disk, Told
  <2> QED BY <2>1, <2>2, <2>3 DEF TypedAt
<1>3. TypeInv
      BY <1>1, <1>2, NoCallType DEF Init, TypeInv, CallsTyped, NoRecovery, Recovery
<1>4. /\ wal.queue = <<>> /\ wal.batch = <<>> /\ wal.size = 0 /\ wal.nextOffset = 0
      /\ wal.queueGroup = NoGroup /\ wal.batchGroup = NoGroup /\ compaction.pc = "idle"
      /\ Len(<<>>) = 0 /\ disk.wal = <<>>
      BY DEF Init, FreshWal, NoCompaction
<1>5. OffsetInv
      BY <1>4 DEF OffsetInv, Calm, NoEmptyOffset, SizeFits, Phases, FenceHolds
<1>6. RollInv
  <2>1. Ids(wal.queue) = {} /\ Ids(wal.batch) = {}
        BY <1>4 DEF Ids
  <2>2. \A k \in Keys : NoGroup[k] = Untouched
        BY DEF NoGroup
  <2> QED BY <1>1, <1>4, <2>1, <2>2 DEF RollInv, GroupOK, Touched
<1> QED BY <1>3, <1>5, <1>6 DEF IInv

LEMMA NextOK == IInv /\ [Next]_vars => IInv'
<1>1. ASSUME IInv, Next PROVE IInv'
      BY <1>1, NextType, NextOffsets, NextRolls DEF IInv
<1>2. ASSUME IInv, UNCHANGED vars PROVE IInv'
  <2>1. UNCHANGED <<store, wal, disk, reader, op, recovery, disabled, compaction, told>>
        BY <1>2 DEF vars
  <2>2. TypeInv'
        BY <1>2, <2>1 DEF IInv, TypeInv, TypedAt, CallsTyped
  <2>3. OffsetInv'
        BY <1>2, <2>1, OffsetsAlone DEF IInv
  <2>4. RollInv'
        BY <1>2, <2>1, RollAlone DEF IInv
  <2> QED BY <2>2, <2>3, <2>4 DEF IInv
<1> QED BY <1>1, <1>2

LEMMA InductiveInvariant == Spec => []IInv
BY InitOK, NextOK, PTL DEF Spec

-----------------------------------------------------------------------------
\* TypeOK: whatever fails, is cut, rotated or restarted, the offsets, pointers and
\* logs of MiniDb stay what they are taken for; no pointer is ever negative.
THEOREM TypeCorrect == Spec => []TypeOK
<1>1. TypeInv => TypeOK
  <2> SUFFICES ASSUME TypeInv PROVE TypeOK
      OBVIOUS
  <2> DEFINE n == told.appends  F == [id : Nat, key : Keys]
  <2>1. n \in Nat /\ 0..n \subseteq Nat
        BY Parts
  <2>2. Frame(n) \subseteq F
        BY <2>1 DEF Frame
  <2>3. \A s \in Seq(Frame(n)) : s \in Seq(F)
    <3> SUFFICES ASSUME NEW s \in Seq(Frame(n)) PROVE s \in Seq(F)
        OBVIOUS
    <3> DEFINE G == Frame(n)
    <3>1. s \in Seq(G) /\ G \subseteq F
          BY <2>2
    <3> HIDE DEF F, G
    <3> QED BY <3>1
  <2>4. store \in [Keys -> [id : Nat, loc : Locs]]
        BY <2>1, Parts DEF Record
  <2>5. \A q \in {wal.queue, wal.batch, disk.wal, compaction.tmp} : q \in Seq(F)
        BY <2>3, Parts
  <2>6. /\ disk.snap \in [Keys -> Nat] /\ compaction.snap \in [Keys -> Nat]
        /\ told.acked \in [Keys -> Nat] /\ told.rejected \subseteq Nat
        BY <2>1, Parts
  <2>7. /\ wal.state \in {"open", "sealed", "closed"}
        /\ wal.size \in Nat /\ wal.nextOffset \in Nat
        BY Parts
  <2>8. wal.poison \in [poisoned : BOOLEAN, failedAtOffset : Nat]
        BY DEF TypeInv, TypedAt, Wal, Poison
  <2>9. /\ recovery \in [pc : {"idle", "truncate", "refresh"}, failedAtOffset : Nat]
        /\ disabled \in BOOLEAN
        /\ \A w \in Writers : op[w].pc \in {"none", "parked", "admitted", "gated", "written"}
        BY DEF TypeInv, Recovery, CallsTyped, Call
  <2> QED BY <2>4, <2>5, <2>6, <2>7, <2>8, <2>9 DEF TypeOK
<1> QED BY <1>1, InductiveInvariant, PTL DEF IInv

\* StoreForgetsRejected: a write whose caller was told that it failed is no longer in
\* memory, for any number of writers and keys and however their writes are spread
\* over the groups that fail.
THEOREM RejectedWritesAreForgotten == Spec => []StoreForgetsRejected
<1>1. RollInv => StoreForgetsRejected
      BY DEF RollInv, GroupOK, StoreForgetsRejected
<1> QED BY <1>1, InductiveInvariant, PTL DEF IInv


-----------------------------------------------------------------------------
(* Disk and memory.                                                           *)

(* The last frame of k among the first n of a log is the i-th. *)
LastAt(log, n, k, i) ==
    /\ i \in 1..n /\ log[i].key = k
    /\ \A j \in 1..n : log[j].key = k => j <= i

NoneIn(log, m, n, k) == \A i \in 1..n : i > m => log[i].key # k

Top(frames, k, id) == \E i \in 1..Len(frames) : LastAt(frames, Len(frames), k, i) /\ frames[i].id = id

Rises(frames) == \A i, j \in DOMAIN frames : i < j => frames[i].id < frames[j].id
Before(left, right) == \A i \in DOMAIN left, j \in DOMAIN right : left[i].id < right[j].id

(* The writes of k that are rejected or may still be. *)
IdsOf(frames, k) == {frames[i].id : i \in {j \in DOMAIN frames : frames[j].key = k}}
Flying(k) == IdsOf(wal.batch, k) \cup IdsOf(wal.queue, k)
Suspects(k) == told.rejected \cup Flying(k)

(* A file may hold the landed write of a key, or a later one that is suspect. *)
Fits(id, rec, suspects) == id = rec.id \/ (id > rec.id /\ id \in suspects)

(* A replay of the first n frames of a log, over a snapshot that holds id. *)
FilesFit(k, log, n, id, rec, suspects) ==
    /\ \A i \in 1..n : LastAt(log, n, k, i) => Fits(log[i].id, rec, suspects)
    /\ NoneIn(log, 0, n, k) => Fits(id, rec, suspects)

PointsTo(log, n, id, rec, suspects) ==
    /\ rec.loc.file = "wal" => rec.loc.off < n /\ log[rec.loc.off + 1].id = rec.id
    /\ rec.loc.file = "snapshot" => Fits(id, rec, suspects)

(* A snapshot that will replace the frames up to base. *)
Below(loc, base) == loc.file = "snapshot" \/ (loc.file = "wal" /\ loc.off < base)

SnapFits(k, log, base, n, id, rec, suspects) ==
    NoneIn(log, base, n, k) \/ Below(rec.loc, base) => Fits(id, rec, suspects)

(* How far the log is sound: what follows is to be cut off. *)
SoundEnd ==
    IF wal.poison.poisoned THEN wal.poison.failedAtOffset
    ELSE IF recovery.pc = "truncate" THEN recovery.failedAtOffset ELSE Len(disk.wal)

(* The log and the snapshot the pointers of the store are about. *)
ReadLog == IF reader.walOld THEN reader.wal ELSE disk.wal
ReadEnd == IF reader.walOld THEN Len(reader.wal) ELSE SoundEnd
ReadSnap == IF reader.snapOld THEN reader.snap ELSE disk.snap

(* Numbers rise from the log over the batch to the queue. *)
Order ==
    /\ Rises(disk.wal) /\ Rises(wal.batch) /\ Rises(wal.queue)
    /\ Before(disk.wal, wal.batch) /\ Before(disk.wal, wal.queue) /\ Before(wal.batch, wal.queue)

Sizes ==
    /\ recovery.pc # "refresh" /\ wal.state # "closed" => wal.size = Len(disk.wal)
    /\ ~wal.poison.poisoned /\ wal.state # "closed" =>
           wal.nextOffset = wal.size + Len(wal.queue) + Len(wal.batch)

Recovering ==
    /\ SoundEnd \in 0..Len(disk.wal)
    /\ recovery.pc = "truncate" /\ wal.poison.poisoned =>
           recovery.failedAtOffset = wal.poison.failedAtOffset
    /\ recovery.pc = "refresh" => SoundEnd = Len(disk.wal)
    /\ wal.poison.poisoned /\ recovery.pc = "idle" => disabled

(* A compaction past its fence sees no log that is being cut. *)
Compacting ==
    /\ compaction.pc \in {"fence", "preCopy", "drain", "renameSnapshot", "renameWal", "open"} =>
           recovery.pc = "idle" /\ ~wal.poison.poisoned
    /\ compaction.pc \in {"snapshot", "write", "copy"} =>
           recovery.pc = "idle" \/ wal.poison.poisoned
    /\ compaction.pc \in {"renameSnapshot", "renameWal", "open", "rollForward"} =>
           wal.batch = <<>> /\ wal.queue = <<>>
    /\ compaction.pc = "open" => compaction.rotated
    /\ compaction.rotated =>
           /\ compaction.pc \in {"open", "rollForward"}
           /\ reader.walOld
    /\ reader.walOld =>
           /\ wal.state = "closed" /\ recovery.pc = "idle" /\ ~wal.poison.poisoned
           /\ compaction.pc = "idle" \/ compaction.rotated

CopyPc == {"snapshot", "write", "preCopy", "copy", "drain", "renameSnapshot", "renameWal"}

Copied ==
    /\ compaction.pc \in CopyPc =>
           /\ compaction.base <= compaction.copied /\ compaction.copied <= SoundEnd
           /\ compaction.tmp = SubSeq(disk.wal, compaction.base + 1, compaction.copied)
    /\ compaction.pc = "fence" => compaction.tmp = <<>>
    /\ compaction.pc \in {"renameSnapshot", "renameWal"} => compaction.copied = Len(disk.wal)
    /\ compaction.pc = "renameWal" \/ compaction.rotated => disk.snap = compaction.snap
    /\ compaction.rotated =>
           /\ compaction.base <= Len(reader.wal)
           /\ disk.wal = SubSeq(reader.wal, compaction.base + 1, Len(reader.wal))

(* What is rejected is not in flight, and on disk only where it will be cut off *)
(* or where writes are disabled.                                                *)
NotRejected ==
    /\ (Ids(wal.batch) \cup Ids(wal.queue)) \cap told.rejected = {}
    /\ ~disabled => \A i \in 1..SoundEnd : disk.wal[i].id \notin told.rejected
    /\ \A i \in 1..Len(disk.wal) : i > SoundEnd =>
          disk.wal[i].id \in told.rejected /\ Landed(disk.wal[i].key).id < disk.wal[i].id

Flight(k) ==
    /\ Has(wal.queue, k) <=> Touched(wal.queueGroup, k)
    /\ Has(wal.batch, k) <=> Touched(wal.batchGroup, k)
    /\ Has(wal.queue, k) => Top(wal.queue, k, store[k].id) /\ store[k].loc = InMemory
    /\ Has(wal.batch, k) => Top(wal.batch, k, Latest(k).id) /\ Latest(k).loc = InMemory
    /\ \A id \in Flying(k) : Landed(k).id < id

OnDisk(k) ==
    /\ FilesFit(k, disk.wal, SoundEnd, disk.snap[k], Landed(k), Suspects(k))
    /\ PointsTo(ReadLog, ReadEnd, ReadSnap[k], Landed(k), Suspects(k))
    /\ told.acked[k] <= Landed(k).id

Collected(k) ==
    compaction.pc \in CopyPc \ {"snapshot"} \/ compaction.rotated =>
        SnapFits(k, ReadLog, compaction.base, ReadEnd, compaction.snap[k], Landed(k), Suspects(k))

KeysInv == \A k \in Keys : Flight(k) /\ OnDisk(k) /\ Collected(k)

ControlInv == Sizes /\ Recovering /\ Compacting /\ Copied
DataInv == Order /\ NotRejected /\ KeysInv
DiskInv == ControlInv /\ DataInv

\* The log of an instance keeps its frames and groups.
SameWal ==
    /\ wal'.queue = wal.queue /\ wal'.batch = wal.batch
    /\ wal'.queueGroup = wal.queueGroup /\ wal'.batchGroup = wal.batchGroup

-----------------------------------------------------------------------------
(* The last frame of a key.                                                    *)

\* A key that has a frame among the first n has a last one, and only one.
LEMMA LastExists ==
    ASSUME NEW n \in Nat, NEW log, NEW k, ~NoneIn(log, 0, n, k)
    PROVE  \E i \in 1..n : LastAt(log, n, k, i)
<1> DEFINE T == {i \in 1..n : log[i].key = k}
<1>1. T \in SUBSET (0..n) /\ T # {}
      BY DEF NoneIn
<1>2. PICK i \in T : \A j \in T : j <= i
      BY <1>1, GreatestNumber
<1>3. LastAt(log, n, k, i)
      BY <1>2 DEF LastAt
<1> QED BY <1>2, <1>3

LEMMA LastIsOne ==
    ASSUME NEW n \in Nat, NEW log, NEW k, NEW i, NEW j, LastAt(log, n, k, i), LastAt(log, n, k, j)
    PROVE  i = j
BY DEF LastAt

\* Only the first n frames count, and frames of other keys behind them do not.
LEMMA LastAgrees ==
    ASSUME NEW n \in Nat, NEW m \in Nat, n <= m, NEW log, NEW log2, NEW k,
           \A i \in 1..n : log2[i] = log[i], NoneIn(log2, n, m, k)
    PROVE  /\ \A i : LastAt(log2, m, k, i) <=> LastAt(log, n, k, i)
           /\ \A b \in Nat : NoneIn(log2, b, m, k) <=> NoneIn(log, b, n, k)
<1>1. ASSUME NEW i \in 1..m PROVE i > n => log2[i].key # k
      BY DEF NoneIn
<1>2. 1..n \subseteq 1..m
      OBVIOUS
<1>3. ASSUME NEW i PROVE LastAt(log2, m, k, i) <=> LastAt(log, n, k, i)
  <2>1. ASSUME LastAt(log2, m, k, i) PROVE LastAt(log, n, k, i)
    <3>1. i \in 1..n
          BY <1>1, <2>1 DEF LastAt
    <3>2. \A j \in 1..n : log[j].key = k => j <= i
          BY <1>2, <2>1 DEF LastAt
    <3> QED BY <2>1, <3>1, <3>2 DEF LastAt
  <2>2. ASSUME LastAt(log, n, k, i) PROVE LastAt(log2, m, k, i)
    <3>1. i \in 1..n /\ i \in 1..m /\ log2[i].key = k
          BY <1>2, <2>2 DEF LastAt
    <3>2. ASSUME NEW j \in 1..m, log2[j].key = k PROVE j <= i
      <4>1. j \in 1..n
            BY <1>1, <3>2
      <4> QED BY <2>2, <3>2, <4>1 DEF LastAt
    <3> QED BY <3>1, <3>2 DEF LastAt
  <2> QED BY <2>1, <2>2
<1>4. ASSUME NEW b \in Nat PROVE NoneIn(log2, b, m, k) <=> NoneIn(log, b, n, k)
  <2>1. ASSUME NoneIn(log2, b, m, k) PROVE NoneIn(log, b, n, k)
        BY <1>2, <2>1 DEF NoneIn
  <2>2. ASSUME NoneIn(log, b, n, k), NEW i \in 1..m, i > b PROVE log2[i].key # k
    <3>1. CASE i \in 1..n
          BY <2>2, <3>1 DEF NoneIn
    <3>2. CASE i \notin 1..n
          BY <1>1, <3>2
    <3> QED BY <3>1, <3>2
  <2> QED BY <2>1, <2>2 DEF NoneIn
<1> QED BY <1>3, <1>4

\* Nothing lies between a point of a log and itself.
LEMMA NoneInSame == \A log, k : \A n \in Nat : NoneIn(log, n, n, k)
BY DEF NoneIn

-----------------------------------------------------------------------------
(* What files hold, when they and what is suspect change.                      *)

\* What is held stays fit when more writes become suspect, of files that grow by
\* frames of other keys as well.
LEMMA FitsMore ==
    ASSUME NEW id, NEW rec, NEW S, NEW T, S \subseteq T, Fits(id, rec, S)
    PROVE  Fits(id, rec, T)
BY DEF Fits

LEMMA FilesFitKept ==
    ASSUME NEW n \in Nat, NEW m \in Nat, n <= m, NEW log, NEW log2, NEW k,
           \A i \in 1..n : log2[i] = log[i], NoneIn(log2, n, m, k),
           NEW id, NEW rec, NEW S, NEW T, S \subseteq T,
           FilesFit(k, log, n, id, rec, S)
    PROVE  FilesFit(k, log2, m, id, rec, T)
<1>1. ASSUME NEW i \in 1..m, LastAt(log2, m, k, i) PROVE Fits(log2[i].id, rec, T)
  <2>1. LastAt(log, n, k, i)
        BY <1>1, LastAgrees
  <2>2. i \in 1..n
        BY <2>1 DEF LastAt
  <2>3. Fits(log[i].id, rec, S)
        BY <2>1, <2>2 DEF FilesFit
  <2> QED BY <2>2, <2>3, FitsMore
<1>2. ASSUME NoneIn(log2, 0, m, k) PROVE Fits(id, rec, T)
  <2>1. NoneIn(log, 0, n, k)
        BY <1>2, LastAgrees
  <2> QED BY <2>1, FitsMore DEF FilesFit
<1> QED BY <1>1, <1>2 DEF FilesFit

LEMMA PointsToKept ==
    ASSUME NEW n \in Nat, NEW m \in Nat, n <= m, NEW log, NEW log2,
           \A i \in 1..n : log2[i] = log[i],
           NEW id, NEW rec, rec.loc.off \in Nat, NEW S, NEW T, S \subseteq T,
           PointsTo(log, n, id, rec, S)
    PROVE  PointsTo(log2, m, id, rec, T)
<1>1. ASSUME rec.loc.file = "wal" PROVE rec.loc.off < m /\ log2[rec.loc.off + 1].id = rec.id
  <2>1. rec.loc.off < n /\ log[rec.loc.off + 1].id = rec.id
        BY <1>1 DEF PointsTo
  <2>2. rec.loc.off + 1 \in 1..n
        BY <2>1
  <2> QED BY <2>1, <2>2
<1> QED BY <1>1, FitsMore DEF PointsTo

LEMMA SnapFitsKept ==
    ASSUME NEW n \in Nat, NEW m \in Nat, n <= m, NEW log, NEW log2, NEW k, NEW base \in Nat,
           \A i \in 1..n : log2[i] = log[i], NoneIn(log2, n, m, k),
           NEW id, NEW rec, NEW S, NEW T, S \subseteq T,
           SnapFits(k, log, base, n, id, rec, S)
    PROVE  SnapFits(k, log2, base, m, id, rec, T)
<1>1. NoneIn(log2, base, m, k) => NoneIn(log, base, n, k)
      BY LastAgrees
<1> QED BY <1>1, FitsMore DEF SnapFits

-----------------------------------------------------------------------------
(* The landed record of a key.                                                 *)

\* The landed record is a record, wherever it comes from.
LEMMA LandedType ==
    ASSUME TypeInv, NEW k \in Keys, Flight(k)
    PROVE  /\ Landed(k) \in Record(told.appends) /\ Latest(k) \in Record(told.appends)
           /\ Landed(k).id \in Nat /\ Landed(k).loc \in Locs
           /\ Latest(k).id \in Nat
<1> DEFINE n == told.appends
<1>1. /\ n \in Nat /\ store[k] \in Record(n)
      /\ wal.queueGroup[k] \in Captured(n) /\ wal.batchGroup[k] \in Captured(n)
      BY Parts
<1> HIDE DEF n
<1>2. Latest(k) \in Record(n)
      BY <1>1 DEF Latest, Flight, Touched, Captured
<1>3. Landed(k) \in Record(n)
      BY <1>1, <1>2 DEF Landed, Flight, Touched, Captured
<1> QED BY <1>1, <1>2, <1>3 DEF Record, n

\* Frames and groups that stay, with the records: so do the landed records.
LEMMA LandedAlone ==
    ASSUME SameWal, NEW k, store'[k] = store[k], told.rejected \subseteq told'.rejected
    PROVE  /\ Landed(k)' = Landed(k) /\ Suspects(k) \subseteq Suspects(k)'
           /\ Latest(k)' = Latest(k) /\ Flying(k)' = Flying(k)
           /\ Flight(k) => Flight(k)'
<1>1. Has(wal.queue, k)' <=> Has(wal.queue, k)
      BY DEF SameWal, Has
<1>2. Has(wal.batch, k)' <=> Has(wal.batch, k)
      BY DEF SameWal, Has
<1>3. Latest(k)' = Latest(k)
      BY <1>1 DEF SameWal, Latest
<1>4. Landed(k)' = Landed(k)
      BY <1>2, <1>3 DEF SameWal, Landed
<1>5. Flying(k)' = Flying(k)
      BY DEF SameWal, Flying
<1>6. Suspects(k) \subseteq Suspects(k)'
      BY <1>5 DEF Suspects
<1>7. Flight(k) => Flight(k)'
  <2> SUFFICES ASSUME Flight(k) PROVE Flight(k)'
      OBVIOUS
  <2>1. Touched(wal'.queueGroup, k) <=> Touched(wal.queueGroup, k)
        BY DEF SameWal
  <2>2. Touched(wal'.batchGroup, k) <=> Touched(wal.batchGroup, k)
        BY DEF SameWal
  <2>3. Top(wal'.queue, k, store'[k].id) <=> Top(wal.queue, k, store[k].id)
        BY DEF SameWal
  <2>4. \A id : Top(wal'.batch, k, id) <=> Top(wal.batch, k, id)
        BY DEF SameWal
  <2>5. Has(wal'.queue, k) <=> Has(wal.queue, k)
        BY DEF SameWal
  <2>6. Has(wal'.batch, k) <=> Has(wal.batch, k)
        BY DEF SameWal
  <2> QED BY <1>3, <1>4, <1>5, <2>1, <2>2, <2>3, <2>4, <2>5, <2>6 DEF Flight
<1> QED BY <1>3, <1>4, <1>5, <1>6, <1>7

\* The files as far as the records of k depend on them: they may grow by frames of
\* other keys.
FilesKept(k) ==
    /\ SoundEnd' \in Nat /\ SoundEnd <= SoundEnd'
    /\ \A i \in 1..SoundEnd : disk'.wal[i] = disk.wal[i]
    /\ NoneIn(disk'.wal, SoundEnd, SoundEnd', k)
    /\ disk'.snap[k] = disk.snap[k]
    /\ ReadEnd' \in Nat /\ ReadEnd <= ReadEnd'
    /\ \A i \in 1..ReadEnd : ReadLog'[i] = ReadLog[i]
    /\ NoneIn(ReadLog', ReadEnd, ReadEnd', k)
    /\ ReadSnap'[k] = ReadSnap[k]

\* A key whose landed record and files are kept stays on disk.
LEMMA OnDiskKept ==
    ASSUME TypeInv, Recovering, NEW k \in Keys, Flight(k), OnDisk(k),
           Landed(k)' = Landed(k), Suspects(k) \subseteq Suspects(k)',
           FilesKept(k), told'.acked[k] = told.acked[k]
    PROVE  OnDisk(k)'
<1>1. PICK n, m, log, log2, id, rec, S, T :
          /\ n = SoundEnd /\ m = SoundEnd' /\ log = disk.wal /\ log2 = disk'.wal
          /\ id = disk.snap[k] /\ rec = Landed(k) /\ S = Suspects(k) /\ T = Suspects(k)'
      OBVIOUS
<1>2. PICK rn, rm, rlog, rlog2, rid :
          /\ rn = ReadEnd /\ rm = ReadEnd' /\ rlog = ReadLog /\ rlog2 = ReadLog'
          /\ rid = ReadSnap[k]
      OBVIOUS
<1>3. /\ n \in Nat /\ rn \in Nat /\ rec.loc.off \in Nat
      /\ n \in Nat /\ m \in Nat /\ n <= m /\ S \subseteq T
      /\ \A i \in 1..n : log2[i] = log[i]
      /\ NoneIn(log2, n, m, k)
      /\ rm \in Nat /\ rn <= rm
      /\ \A i \in 1..rn : rlog2[i] = rlog[i]
  <2>1. SoundEnd \in Nat
        BY Parts DEF SoundEnd
  <2>2. ReadEnd \in Nat
        BY <2>1, Parts DEF ReadEnd
  <2>3. rec.loc.off \in Nat
        BY <1>1, LandedType DEF Locs
  <2> QED BY <1>1, <1>2, <2>1, <2>2, <2>3 DEF FilesKept
<1>4. FilesFit(k, log, n, id, rec, S) /\ PointsTo(rlog, rn, rid, rec, S)
      BY <1>1, <1>2 DEF OnDisk
<1>5. FilesFit(k, log2, m, id, rec, T) /\ PointsTo(rlog2, rm, rid, rec, T)
  <2>1. FilesFit(k, log2, m, id, rec, T)
    <3>1. n \in Nat /\ m \in Nat /\ n <= m /\ S \subseteq T
          BY <1>3
    <3>2. (\A i \in 1..n : log2[i] = log[i]) /\ NoneIn(log2, n, m, k)
          BY <1>3
    <3>3. FilesFit(k, log, n, id, rec, S)
          BY <1>4
    <3> QED BY ONLY <3>1, <3>2, <3>3, FilesFitKept
  <2>2. PointsTo(rlog2, rm, rid, rec, T)
    <3>1. rn \in Nat /\ rm \in Nat /\ rn <= rm /\ S \subseteq T /\ rec.loc.off \in Nat
          BY <1>3
    <3>2. \A i \in 1..rn : rlog2[i] = rlog[i]
          BY <1>3
    <3>3. PointsTo(rlog, rn, rid, rec, S)
          BY <1>4
    <3>4. ASSUME rec.loc.file = "wal" PROVE rec.loc.off < rm /\ rlog2[rec.loc.off + 1].id = rec.id
      <4>1. rec.loc.off < rn /\ rlog[rec.loc.off + 1].id = rec.id
            BY ONLY <3>3, <3>4 DEF PointsTo
      <4>2. rec.loc.off + 1 \in 1..rn
            BY ONLY <3>1, <4>1
      <4> QED BY ONLY <3>1, <3>2, <4>1, <4>2
    <3>5. rec.loc.file = "snapshot" => Fits(rid, rec, T)
          BY ONLY <3>1, <3>3, FitsMore DEF PointsTo
    <3> QED BY ONLY <3>4, <3>5 DEF PointsTo
  <2> QED BY <2>1, <2>2
<1>6. /\ disk'.snap[k] = id /\ ReadSnap'[k] = rid /\ Landed(k)' = rec
      /\ told'.acked[k] <= Landed(k).id
      BY <1>1, <1>2 DEF FilesKept, OnDisk
<1>7. FilesFit(k, disk'.wal, SoundEnd', disk'.snap[k], Landed(k)', Suspects(k)')
      BY <1>1, <1>5, <1>6
<1>8. PointsTo(ReadLog', ReadEnd', ReadSnap'[k], Landed(k)', Suspects(k)')
      BY <1>1, <1>2, <1>5, <1>6
<1> QED BY <1>6, <1>7, <1>8 DEF OnDisk

\* So does what a snapshot has collected of it.
LEMMA CollectedKept ==
    ASSUME TypeInv, NEW k \in Keys, Collected(k),
           Landed(k)' = Landed(k), Suspects(k) \subseteq Suspects(k)', FilesKept(k),
           compaction'.pc \in CopyPc \ {"snapshot"} \/ compaction'.rotated =>
               /\ compaction.pc \in CopyPc \ {"snapshot"} \/ compaction.rotated
               /\ compaction'.base = compaction.base /\ compaction'.snap = compaction.snap
    PROVE  Collected(k)'
<1> SUFFICES ASSUME compaction'.pc \in CopyPc \ {"snapshot"} \/ compaction'.rotated
             PROVE  SnapFits(k, ReadLog, compaction.base, ReadEnd, compaction.snap[k], Landed(k), Suspects(k))'
    BY DEF Collected
<1>1. PICK rn, rm, rlog, rlog2, base, id, rec, S, T :
          /\ rn = ReadEnd /\ rm = ReadEnd' /\ rlog = ReadLog /\ rlog2 = ReadLog'
          /\ base = compaction.base /\ id = compaction.snap[k] /\ rec = Landed(k)
          /\ S = Suspects(k) /\ T = Suspects(k)'
      OBVIOUS
<1>2. /\ rn \in Nat /\ base \in Nat /\ rm \in Nat /\ rn <= rm /\ S \subseteq T
      /\ \A i \in 1..rn : rlog2[i] = rlog[i]
      /\ NoneIn(rlog2, rn, rm, k)
  <2>1. ReadEnd \in Nat
        BY Parts DEF ReadEnd, SoundEnd
  <2>2. rn \in Nat /\ base \in Nat /\ S \subseteq T
        BY <1>1, <2>1, Parts
  <2>3. /\ rm \in Nat /\ rn <= rm /\ NoneIn(rlog2, rn, rm, k)
        /\ \A i \in 1..rn : rlog2[i] = rlog[i]
        BY <1>1 DEF FilesKept
  <2> QED BY <2>2, <2>3
<1>3. SnapFits(k, rlog, base, rn, id, rec, S)
      BY <1>1 DEF Collected
<1>4. SnapFits(k, rlog2, base, rm, id, rec, T)
      BY ONLY <1>2, <1>3, SnapFitsKept
<1>5. compaction'.base = base /\ compaction'.snap[k] = id /\ Landed(k)' = rec
      BY <1>1
<1> QED BY <1>1, <1>4, <1>5

-----------------------------------------------------------------------------
(* How far the log is sound, and what a compaction has copied.                 *)

\* Where the sound part of the log ends is an offset.
LEMMA SoundType ==
    ASSUME TypeInv
    PROVE  SoundEnd \in Nat /\ ReadEnd \in Nat /\ Len(disk.wal) \in Nat
<1>1. SoundEnd \in Nat
      BY Parts DEF SoundEnd
<1> QED BY <1>1, Lengths DEF ReadEnd

\* A log and what is appended to it.
LEMMA Extended ==
    ASSUME NEW n \in Nat, NEW s \in Seq(Frame(n)), NEW t \in Seq(Frame(n))
    PROVE  /\ s \o t \in Seq(Frame(n)) /\ Len(s \o t) = Len(s) + Len(t)
           /\ \A i \in 1..Len(s) : (s \o t)[i] = s[i]
           /\ \A i \in 1..Len(t) : (s \o t)[Len(s) + i] = t[i]
           /\ \A i \in 1..Len(s \o t) : i > Len(s) => i - Len(s) \in 1..Len(t) /\ (s \o t)[i] = t[i - Len(s)]
<1> DEFINE F == Frame(n)
<1> HIDE DEF F
<1>1. s \in Seq(F) /\ t \in Seq(F)
      BY DEF F
<1>2. s \o t \in Seq(F) /\ Len(s \o t) = Len(s) + Len(t)
      BY <1>1
<1>3. \A i \in 1..Len(s) : (s \o t)[i] = s[i]
      BY <1>1
<1>4. \A i \in 1..Len(t) : (s \o t)[Len(s) + i] = t[i]
      BY <1>1
<1>5. \A i \in 1..Len(s \o t) : i > Len(s) => i - Len(s) \in 1..Len(t) /\ (s \o t)[i] = t[i - Len(s)]
      BY <1>1, <1>2
<1> QED BY <1>2, <1>3, <1>4, <1>5 DEF F

\* Logs of the same frames are the same.
LEMMA SameFrames ==
    ASSUME NEW F, NEW u \in Seq(F), NEW v \in Seq(F), Len(u) = Len(v),
           \A i \in 1..Len(v) : u[i] = v[i]
    PROVE  u = v
OBVIOUS

\* Two pieces of a log that meet.
LEMMA Joined ==
    ASSUME NEW n \in Nat, NEW s \in Seq(Frame(n)), NEW a \in Nat, NEW b \in Nat, NEW c \in Nat,
           a <= b, b <= c, c <= Len(s)
    PROVE  SubSeq(s, a + 1, b) \o SubSeq(s, b + 1, c) = SubSeq(s, a + 1, c)
<1> DEFINE F == Frame(n)  x == SubSeq(s, a + 1, b)  y == SubSeq(s, b + 1, c)  z == SubSeq(s, a + 1, c)
<1> HIDE DEF F
<1>1. s \in Seq(F) /\ Len(s) \in Nat /\ \A i \in 1..Len(s) : s[i] \in F
      BY DEF F
<1>0. a <= c /\ c - a \in Nat /\ b - a \in Nat /\ c - b \in Nat /\ (b - a) + (c - b) = c - a
      OBVIOUS
<1>2. /\ x \in Seq(F) /\ Len(x) = b - a
      /\ \A i \in 1..(b - a) : x[i] = s[a + i]
      BY <1>1
<1>3. /\ y \in Seq(F) /\ Len(y) = c - b
      /\ \A i \in 1..(c - b) : y[i] = s[b + i]
      BY <1>1
<1>4. /\ z \in Seq(F) /\ Len(z) = c - a
      /\ \A i \in 1..(c - a) : z[i] = s[a + i]
      BY <1>0, <1>1
<1> HIDE DEF x, y, z
<1>5. x \o y \in Seq(F) /\ Len(x \o y) = c - a
  <2>1. x \in Seq(Frame(n)) /\ y \in Seq(Frame(n))
        BY <1>2, <1>3 DEF F
  <2>2. x \o y \in Seq(F) /\ Len(x \o y) = Len(x) + Len(y)
        BY ONLY n \in Nat, <2>1, Extended DEF F
  <2>3. Len(x) + Len(y) = c - a
        BY ONLY <1>0, <1>2, <1>3
  <2> QED BY ONLY <2>2, <2>3
<1>6. ASSUME NEW i \in 1..(c - a) PROVE (x \o y)[i] = z[i]
  <2>0. x \in Seq(F) /\ y \in Seq(F) /\ z[i] = s[a + i]
        BY <1>2, <1>3, <1>4
  <2>1. CASE i <= b - a
    <3>1. (x \o y)[i] = x[i] /\ i \in 1..(b - a)
          BY <1>0, <1>2, <2>0, <2>1
    <3> QED BY <1>2, <2>0, <3>1
  <2>2. CASE i > b - a
    <3>1. (x \o y)[i] = y[i - (b - a)]
      <4>1. x \in Seq(Frame(n)) /\ y \in Seq(Frame(n))
            BY <2>0 DEF F
      <4>2. i \in 1..Len(x \o y) /\ i > Len(x) /\ Len(x) = b - a
            BY <1>2, <1>5, <2>2
      <4>3. (x \o y)[i] = y[i - Len(x)]
            BY ONLY n \in Nat, <4>1, <4>2, Extended
      <4> QED BY ONLY <4>2, <4>3
    <3>2. i - (b - a) \in 1..(c - b)
          BY <2>2
    <3>3. y[i - (b - a)] = s[b + (i - (b - a))]
          BY <1>3, <3>2
    <3>4. b + (i - (b - a)) = a + i
          OBVIOUS
    <3> QED BY ONLY <2>0, <3>1, <3>3, <3>4
  <2>3. i <= b - a \/ i > b - a
        BY ONLY <1>0, i \in 1..(c - a)
  <2> QED BY ONLY <2>1, <2>2, <2>3
<1>7. x \o y = z
  <2>1. Len(z) = c - a /\ z \in Seq(F)
        BY <1>4
  <2>2. x \o y \in Seq(F) /\ Len(x \o y) = Len(z) /\ \A i \in 1..Len(z) : (x \o y)[i] = z[i]
        BY <1>5, <1>6, <2>1
  <2>3. PICK u : u = x \o y
        OBVIOUS
  <2>4. u \in Seq(F) /\ Len(u) = Len(z) /\ \A i \in 1..Len(z) : u[i] = z[i]
        BY ONLY <2>2, <2>3
  <2>5. u = z
        BY ONLY <2>1, <2>4, SameFrames
  <2> QED BY ONLY <2>3, <2>5
<1> QED BY <1>7 DEF x, y, z

\* A piece of a log does not depend on what follows it.
LEMMA PieceKept ==
    ASSUME NEW n \in Nat, NEW s \in Seq(Frame(n)), NEW t \in Seq(Frame(n)), NEW a \in Nat, NEW b \in Nat,
           b <= Len(s), b <= Len(t), \A i \in 1..b : t[i] = s[i]
    PROVE  SubSeq(t, a + 1, b) = SubSeq(s, a + 1, b)
<1> DEFINE F == Frame(n)
<1> HIDE DEF F
<1>1. /\ s \in Seq(F) /\ \A i \in 1..Len(s) : s[i] \in F
      /\ t \in Seq(F) /\ \A i \in 1..Len(t) : t[i] \in F
      BY DEF F
<1>2. \A i \in (a + 1)..b : t[i] = s[i]
      OBVIOUS
<1> QED BY <1>1, <1>2

\* What is left of a log that was cut.
LEMMA Prefixed ==
    ASSUME NEW n \in Nat, NEW s \in Seq(Frame(n)), NEW b \in Nat, b <= Len(s)
    PROVE  /\ SubSeq(s, 1, b) \in Seq(Frame(n)) /\ Len(SubSeq(s, 1, b)) = b
           /\ \A i \in 1..b : SubSeq(s, 1, b)[i] = s[i]
<1> DEFINE F == Frame(n)
<1> HIDE DEF F
<1>1. s \in Seq(F) /\ \A i \in 1..Len(s) : s[i] \in F
      BY DEF F
<1>2. SubSeq(s, 1, b) \in Seq(F) /\ Len(SubSeq(s, 1, b)) = b
      BY <1>1
<1>3. \A i \in 1..b : SubSeq(s, 1, b)[i] = s[i]
      BY <1>1
<1> QED BY <1>2, <1>3 DEF F

\* What a state where nothing waits and nothing is being cut or compacted needs.
LEMMA FreshControl ==
    ASSUME NEW d \in Nat, d = Len(disk'.wal), wal' = FreshWal(d), compaction' = NoCompaction,
           reader' = SamePath, recovery'.pc = "idle"
    PROVE  ControlInv' /\ SoundEnd' = d
<1>1. /\ wal'.queue = <<>> /\ wal'.batch = <<>> /\ wal'.size = d /\ wal'.nextOffset = d
      /\ Len(<<>>) = 0 /\ compaction'.pc = "idle" /\ ~compaction'.rotated
      /\ ~wal'.poison.poisoned /\ ~reader'.walOld /\ recovery'.pc = "idle"
      BY DEF FreshWal, NoCompaction, SamePath, NoRecovery, NotPoisoned
<1>2. SoundEnd' = d
      BY <1>1 DEF SoundEnd
<1>3. Sizes' /\ Recovering' /\ Compacting' /\ Copied'
      BY <1>1, <1>2 DEF Sizes, Recovering, Compacting, Copied, CopyPc
<1> QED BY <1>2, <1>3 DEF ControlInv

\* A writer waits or appends to a sound log; a refused one restarts the recovery
\* of a log that is poisoned already.
LEMMA WriterControl ==
    ASSUME TypeInv, OffsetInv, ControlInv, NEW w \in Writers, Writer(w)
    PROVE  ControlInv' /\ SoundEnd' = SoundEnd
<1>1. ASSUME UNCHANGED <<wal, disk, reader, recovery, disabled, compaction>>
      PROVE  ControlInv' /\ SoundEnd' = SoundEnd
  <2>1. SoundEnd' = SoundEnd
        BY <1>1 DEF SoundEnd
  <2>2. Sizes' /\ Recovering' /\ Compacting'
        BY <1>1, <2>1 DEF ControlInv, Sizes, Recovering, Compacting
  <2>3. Copied'
        BY <1>1, <2>1 DEF ControlInv, Copied
  <2> QED BY <2>1, <2>2, <2>3 DEF ControlInv
<1>2. CASE \E k \in Keys : Set(w, k)
      BY <1>1, <1>2 DEF Set
<1>3. CASE PassRotationLock(w)
      BY <1>1, <1>3 DEF PassRotationLock
<1>4. CASE Commit(w) \/ CommitAfterRecovery(w)
  <2>1. UNCHANGED <<disk, reader, disabled, compaction>>
        BY <1>4 DEF Commit, CommitAfterRecovery
  <2>2. CASE UNCHANGED <<wal, recovery>>
        BY <1>1, <2>1, <2>2
  <2>3. CASE recovery.pc = "idle" /\ AppendAndApply(w)
    <3> DEFINE frame == [id |-> told.appends + 1, key |-> op[w].key]
               q == wal.queue  b == wal.batch
    <3>1. /\ wal.state = "open" /\ ~wal.poison.poisoned /\ recovery' = recovery
          /\ wal' = [wal EXCEPT !.queue = Append(@, frame), !.nextOffset = @ + 1,
                                !.queueGroup = Note(@, op[w].key)]
          BY <2>3 DEF AppendAndApply
    <3> HIDE DEF frame
    <3>2. wal \in Wal(told.appends)
          BY DEF TypeInv, TypedAt
    <3>3. /\ wal'.state = "open" /\ wal'.poison = wal.poison /\ wal'.size = wal.size
          /\ wal'.batch = b /\ wal'.queue = Append(q, frame) /\ wal'.nextOffset = wal.nextOffset + 1
          BY <3>1, <3>2 DEF Wal
    <3>4. compaction.pc \notin {"renameSnapshot", "renameWal", "open", "rollForward"}
          BY <3>1 DEF OffsetInv, Phases
    <3>5. SoundEnd' = SoundEnd
          BY <2>1, <3>1, <3>3 DEF SoundEnd
    <3>6. Recovering' /\ Compacting'
          BY <2>1, <3>1, <3>3, <3>4, <3>5 DEF ControlInv, Recovering, Compacting
    <3>7. Copied'
          BY <2>1, <3>5 DEF ControlInv, Copied
    <3>8. Sizes'
      <4>1. Len(q) \in Nat /\ Len(b) \in Nat /\ wal.nextOffset \in Nat /\ wal.size \in Nat
            BY Parts
      <4>2. Len(Append(q, frame)) = Len(q) + 1
            BY Parts
      <4>3. wal.nextOffset = wal.size + Len(q) + Len(b) /\ wal.size = Len(disk.wal)
            BY <2>3, <3>1 DEF ControlInv, Sizes
      <4>4. wal.nextOffset + 1 = wal.size + (Len(q) + 1) + Len(b)
        <5> DEFINE x == Len(q)  y == Len(b)  z == wal.nextOffset  s == wal.size
        <5>1. x \in Nat /\ y \in Nat /\ z \in Nat /\ s \in Nat /\ z = s + x + y
              BY <4>1, <4>3
        <5> HIDE DEF x, y, z, s
        <5>2. z + 1 = s + (x + 1) + y
              BY <5>1
        <5> QED BY <5>2 DEF x, y, z, s
      <4>5. Len(wal'.queue) = Len(q) + 1 /\ Len(wal'.batch) = Len(b)
            BY <3>3, <4>2
      <4> HIDE DEF q, b
      <4> QED BY <2>1, <3>3, <4>3, <4>4, <4>5 DEF Sizes
    <3> QED BY <3>5, <3>6, <3>7, <3>8 DEF ControlInv
  <2>4. CASE recovery.pc = "idle" /\ Refuse(w)
    <3>1. /\ wal' = wal
          /\ recovery' = IF wal.state # "closed" /\ wal.poison.poisoned
                         THEN [pc |-> "truncate", failedAtOffset |-> wal.poison.failedAtOffset]
                         ELSE recovery
          BY <2>4 DEF Refuse
    <3>2. CASE wal.state # "closed" /\ wal.poison.poisoned
      <4>1. recovery'.pc = "truncate" /\ recovery'.failedAtOffset = wal.poison.failedAtOffset
            BY <3>1, <3>2
      <4>2. SoundEnd' = SoundEnd
            BY <2>1, <3>1, <3>2, <4>1 DEF SoundEnd
      <4>3. Sizes'
            BY <2>1, <2>4, <3>1, <3>2, <4>1 DEF ControlInv, Sizes
      <4>5. Recovering'
            BY <2>1, <3>1, <3>2, <4>1, <4>2 DEF ControlInv, Recovering
      <4>6. Compacting'
            BY <2>1, <3>1, <3>2, <4>1 DEF ControlInv, Compacting
      <4>4. Copied'
            BY <2>1, <4>2 DEF ControlInv, Copied
      <4> QED BY <4>2, <4>3, <4>4, <4>5, <4>6 DEF ControlInv
    <3>3. CASE ~(wal.state # "closed" /\ wal.poison.poisoned)
          BY <1>1, <2>1, <3>1, <3>3
    <3> QED BY <3>2, <3>3
  <2> QED BY <1>4, <2>2, <2>3, <2>4
          DEF Commit, CommitAfterRecovery, Append1, RetryAfterSeal
<1> QED BY <1>2, <1>3, <1>4 DEF Writer

-----------------------------------------------------------------------------
(* What the steps of a batch do, field by field.                               *)

\* The first frame of a batch in flight goes to the end of the file.
LEMMA FirstIsEnd ==
    ASSUME TypeInv, OffsetInv, Sizes, Writing
    PROVE  /\ recovery.pc = "idle" /\ ~wal.poison.poisoned /\ wal.state # "closed"
           /\ FirstOffset = Len(disk.wal) /\ SoundEnd = Len(disk.wal)
           /\ wal.size = Len(disk.wal)
<1>1. recovery.pc = "idle" /\ ~wal.poison.poisoned /\ wal.state # "closed"
      BY DEF OffsetInv, Calm, Writing
<1>2. wal.nextOffset = wal.size + Len(wal.queue) + Len(wal.batch) /\ wal.size = Len(disk.wal)
      BY <1>1 DEF Sizes
<1>3. wal.size \in Nat /\ Len(wal.queue) \in Nat /\ Len(wal.batch) \in Nat
      BY Parts
<1>4. FirstOffset = wal.size
  <2> DEFINE s == wal.size  q == Len(wal.queue)  b == Len(wal.batch)
  <2>1. FirstOffset = (s + q + b) - q - b
        BY <1>2 DEF FirstOffset
  <2>2. s \in Nat /\ q \in Nat /\ b \in Nat
        BY <1>3
  <2> HIDE DEF s, q, b
  <2>3. (s + q + b) - q - b = s
        BY <2>2
  <2> QED BY <2>1, <2>3 DEF s
<1>5. SoundEnd = Len(disk.wal)
      BY <1>1 DEF SoundEnd
<1> QED BY <1>1, <1>2, <1>4, <1>5

\* What the steps of a batch assign.
LEMMA LandsEffect ==
    ASSUME TypeInv, BatchLands
    PROVE  /\ Writing
           /\ wal'.state = wal.state /\ wal'.poison = wal.poison /\ wal'.size = wal.size + Len(wal.batch)
           /\ wal'.nextOffset = wal.nextOffset /\ wal'.batch = <<>> /\ wal'.queue = wal.queue
           /\ wal'.queueGroup = wal.queueGroup /\ wal'.batchGroup = NoGroup
           /\ disk'.wal = disk.wal \o wal.batch /\ disk'.snap = disk.snap
           /\ store' = Publish(wal.batch, FirstOffset)
           /\ told'.rejected = told.rejected
           /\ \A k \in Keys : told'.acked[k] = NewestOf(k, wal.batch, told.acked[k])
           /\ UNCHANGED <<reader, recovery, disabled, compaction>>
<1>1. /\ wal \in Wal(told.appends) /\ disk \in Disk(told.appends) /\ told \in Told(told.appends)
      BY DEF TypeInv, TypedAt
<1>2. /\ wal'.state = wal.state /\ wal'.poison = wal.poison /\ wal'.size = wal.size + Len(wal.batch)
      /\ wal'.nextOffset = wal.nextOffset /\ wal'.batch = <<>> /\ wal'.queue = wal.queue
      /\ wal'.queueGroup = wal.queueGroup /\ wal'.batchGroup = NoGroup
      BY <1>1 DEF BatchLands, Wal
<1>3. disk'.wal = disk.wal \o wal.batch /\ disk'.snap = disk.snap
      BY <1>1 DEF BatchLands, Disk
<1>4. told'.rejected = told.rejected
      BY <1>1 DEF BatchLands, Told
<1>5. \A k \in Keys : told'.acked[k] = NewestOf(k, wal.batch, told.acked[k])
  <2>1. told' = [told EXCEPT !.acked = [k \in Keys |-> NewestOf(k, wal.batch, told.acked[k])]]
        BY DEF BatchLands
  <2>2. told'.acked = [k \in Keys |-> NewestOf(k, wal.batch, told.acked[k])]
        BY <1>1, <2>1 DEF Told
  <2> QED BY <2>2
<1> QED BY <1>2, <1>3, <1>4, <1>5 DEF BatchLands

LEMMA FailsEffect ==
    ASSUME TypeInv, BatchFails
    PROVE  /\ Writing
           /\ wal'.state = wal.state /\ wal'.poison.poisoned /\ wal'.poison.failedAtOffset = FirstOffset
           /\ wal'.batch = <<>> /\ wal'.queue = <<>>
           /\ wal'.queueGroup = NoGroup /\ wal'.batchGroup = NoGroup
           /\ \E n \in 0..Len(wal.batch) :
                 wal'.size = wal.size + n /\ disk'.wal = disk.wal \o SubSeq(wal.batch, 1, n)
           /\ disk'.snap = disk.snap
           /\ store' = RollBack
           /\ told'.rejected = told.rejected \cup Unacked /\ told'.acked = told.acked
           /\ recovery'.pc = "truncate" /\ recovery'.failedAtOffset = FirstOffset
           /\ compaction' = FlushThrows
           /\ UNCHANGED <<reader, disabled>>
<1>1. /\ wal \in Wal(told.appends) /\ disk \in Disk(told.appends) /\ told \in Told(told.appends)
      BY DEF TypeInv, TypedAt
<1>2. PICK n \in 0..Len(wal.batch) :
          /\ disk' = [disk EXCEPT !.wal = @ \o SubSeq(wal.batch, 1, n)]
          /\ wal' = [wal EXCEPT !.poison = [poisoned |-> TRUE, failedAtOffset |-> FirstOffset],
                                !.batch = <<>>, !.queue = <<>>, !.size = @ + n,
                                !.batchGroup = NoGroup, !.queueGroup = NoGroup]
      BY DEF BatchFails
<1>3. /\ wal'.state = wal.state /\ wal'.poison.poisoned /\ wal'.poison.failedAtOffset = FirstOffset
      /\ wal'.batch = <<>> /\ wal'.queue = <<>> /\ wal'.size = wal.size + n
      /\ wal'.queueGroup = NoGroup /\ wal'.batchGroup = NoGroup
      BY <1>1, <1>2 DEF Wal
<1>4. disk'.wal = disk.wal \o SubSeq(wal.batch, 1, n) /\ disk'.snap = disk.snap
      BY <1>1, <1>2 DEF Disk
<1>5. told'.rejected = told.rejected \cup Unacked /\ told'.acked = told.acked
      BY <1>1 DEF BatchFails, Told
<1>6. /\ recovery'.pc = "truncate" /\ recovery'.failedAtOffset = FirstOffset
      /\ compaction' = FlushThrows /\ store' = RollBack /\ Writing
      /\ UNCHANGED <<reader, disabled>>
      BY DEF BatchFails
<1> QED BY <1>3, <1>4, <1>5, <1>6

LEMMA StartEffect ==
    ASSUME TypeInv, StartBatch
    PROVE  /\ wal.batch = <<>> /\ wal.queue # <<>>
           /\ wal'.state = wal.state /\ wal'.poison = wal.poison /\ wal'.size = wal.size
           /\ wal'.nextOffset = wal.nextOffset /\ wal'.batch = wal.queue /\ wal'.queue = <<>>
           /\ wal'.batchGroup = wal.queueGroup /\ wal'.queueGroup = NoGroup
           /\ UNCHANGED <<store, disk, reader, recovery, disabled, compaction, told>>
<1>1. wal \in Wal(told.appends)
      BY DEF TypeInv, TypedAt
<1> QED BY <1>1 DEF StartBatch, Writing, Wal

\* What was copied does not depend on what follows the sound part of the log.
LEMMA CopyKept ==
    ASSUME TypeInv, Recovering, Copied, compaction.pc \in CopyPc,
           disk'.wal \in Seq(Frame(told.appends)), SoundEnd <= Len(disk'.wal),
           \A i \in 1..SoundEnd : disk'.wal[i] = disk.wal[i]
    PROVE  /\ compaction.base <= compaction.copied
           /\ compaction.copied <= SoundEnd
           /\ compaction.tmp = SubSeq(disk'.wal, compaction.base + 1, compaction.copied)
<1>1. PICK n, s, t, a, b, e :
          /\ n = told.appends /\ s = disk.wal /\ t = disk'.wal
          /\ a = compaction.base /\ b = compaction.copied /\ e = SoundEnd
      OBVIOUS
<1>2. /\ n \in Nat /\ s \in Seq(Frame(n)) /\ t \in Seq(Frame(n)) /\ a \in Nat /\ b \in Nat
      /\ e \in Nat /\ Len(s) \in Nat /\ Len(t) \in Nat
  <2>1. disk.wal \in Seq(Frame(told.appends)) /\ Len(disk'.wal) \in Nat
        BY Parts
  <2> QED BY <1>1, <2>1, Parts, SoundType
<1>3. a <= b /\ b <= e /\ e <= Len(s) /\ e <= Len(t) /\ \A i \in 1..e : t[i] = s[i]
  <2>1. a <= b /\ b <= e
        BY <1>1 DEF Copied
  <2>2. e <= Len(s)
        BY <1>1 DEF Recovering
  <2> QED BY <1>1, <2>1, <2>2
<1>4. b <= Len(s) /\ b <= Len(t) /\ \A i \in 1..b : t[i] = s[i]
      BY ONLY <1>2, <1>3
<1>5. SubSeq(t, a + 1, b) = SubSeq(s, a + 1, b)
      BY ONLY <1>2, <1>4, PieceKept
<1>6. compaction.tmp = SubSeq(s, a + 1, b)
      BY <1>1 DEF Copied
<1> QED BY <1>1, <1>3, <1>5, <1>6

\* A batch lands where it was predicted to, and what a failed one left is cut off there.
LEMMA BatchControl ==
    ASSUME TypeInv, OffsetInv, ControlInv, StartBatch \/ BatchLands \/ BatchFails
    PROVE  ControlInv'
<1> DEFINE q == wal.queue  b == wal.batch  z == wal.nextOffset
<1>1. /\ wal.size \in Nat /\ Len(q) \in Nat /\ Len(b) \in Nat /\ z \in Nat /\ Len(disk.wal) \in Nat
      /\ disk.wal \in Seq(Frame(told.appends)) /\ b \in Seq(Frame(told.appends))
      /\ compaction.base \in Nat /\ compaction.copied \in Nat /\ told.appends \in Nat
      BY Parts
<1>2. CASE StartBatch
  <2>1. /\ b = <<>> /\ q # <<>>
        /\ wal'.state = wal.state /\ wal'.poison = wal.poison /\ wal'.size = wal.size
        /\ wal'.nextOffset = z /\ wal'.batch = q /\ wal'.queue = <<>>
        /\ UNCHANGED <<disk, reader, recovery, disabled, compaction>>
        BY <1>2, StartEffect
  <2>2. SoundEnd' = SoundEnd
        BY <2>1 DEF SoundEnd
  <2>3. Sizes'
    <3>1. Len(b) = 0 /\ Len(wal'.queue) = 0 /\ Len(wal'.batch) = Len(q)
          BY <2>1
    <3>2. wal.size + 0 + Len(q) = wal.size + Len(q) + 0
          BY <1>1
    <3> HIDE DEF q, b, z
    <3>3. ~wal.poison.poisoned /\ wal.state # "closed" => z = wal.size + Len(q) + Len(b)
          BY DEF ControlInv, Sizes, q, b, z
    <3>4. ~wal.poison.poisoned /\ wal.state # "closed" => z = wal.size + 0 + Len(q)
          BY <3>1, <3>2, <3>3
    <3>5. recovery.pc # "refresh" /\ wal.state # "closed" => wal.size = Len(disk.wal)
          BY DEF ControlInv, Sizes
    <3> QED BY <2>1, <3>1, <3>4, <3>5 DEF Sizes
  <2>4. Recovering'
        BY <2>1, <2>2 DEF ControlInv, Recovering
  <2>5. Compacting'
        BY <2>1 DEF ControlInv, Compacting
  <2>6. Copied'
        BY <2>1, <2>2 DEF ControlInv, Copied
  <2> QED BY <2>3, <2>4, <2>5, <2>6 DEF ControlInv
<1>3. CASE BatchLands
  <2>1. /\ wal'.state = wal.state /\ wal'.poison = wal.poison /\ wal'.size = wal.size + Len(b)
        /\ wal'.nextOffset = z /\ wal'.batch = <<>> /\ wal'.queue = q
        /\ disk'.wal = disk.wal \o b /\ disk'.snap = disk.snap /\ b # <<>>
        /\ UNCHANGED <<reader, recovery, disabled, compaction>>
        BY <1>3, LandsEffect DEF Writing
  <2>2. /\ recovery.pc = "idle" /\ ~wal.poison.poisoned /\ wal.state # "closed"
        /\ FirstOffset = Len(disk.wal) /\ SoundEnd = Len(disk.wal)
        /\ wal.size = Len(disk.wal)
        BY <2>1, FirstIsEnd DEF Writing, ControlInv
  <2>3. /\ Len(disk'.wal) = Len(disk.wal) + Len(b) /\ disk'.wal \in Seq(Frame(told.appends))
        /\ \A i \in 1..Len(disk.wal) : disk'.wal[i] = disk.wal[i]
    <3>1. PICK n, s, t : n = told.appends /\ s = disk.wal /\ t = wal.batch
          OBVIOUS
    <3>2. n \in Nat /\ s \in Seq(Frame(n)) /\ t \in Seq(Frame(n))
          BY <1>1, <3>1
    <3>3. /\ s \o t \in Seq(Frame(n)) /\ Len(s \o t) = Len(s) + Len(t)
          /\ \A i \in 1..Len(s) : (s \o t)[i] = s[i]
          BY ONLY <3>2, Extended
    <3> QED BY <2>1, <3>1, <3>3
  <2>4. SoundEnd' = Len(disk'.wal)
        BY <2>1, <2>2 DEF SoundEnd
  <2>41. Len(disk.wal) <= Len(disk'.wal) /\ Len(disk'.wal) \in Nat
    <3> DEFINE x == Len(disk.wal)  y == Len(b)  s == Len(disk'.wal)
    <3>1. x \in Nat /\ y \in Nat /\ s = x + y
          BY <1>1, <2>3
    <3> HIDE DEF x, y, s
    <3>2. x <= s /\ s \in Nat
          BY <3>1
    <3> QED BY <3>2 DEF x, s
  <2>5. Sizes'
    <3>1. Len(wal'.queue) = Len(q) /\ Len(wal'.batch) = 0
          BY <2>1
    <3>2. z = wal.size + Len(q) + Len(b)
          BY <2>2 DEF ControlInv, Sizes
    <3>3. z = (wal.size + Len(b)) + Len(q) + 0
      <4> DEFINE x == Len(q)  y == Len(b)  s == wal.size
      <4>1. x \in Nat /\ y \in Nat /\ s \in Nat /\ z = s + x + y
            BY <1>1, <3>2
      <4> HIDE DEF x, y, s, z
      <4>2. z = (s + y) + x + 0
            BY <4>1
      <4> QED BY <4>2 DEF x, y, s
    <3> HIDE DEF q, b, z
    <3>4. wal'.size = Len(disk'.wal)
          BY <2>1, <2>2, <2>3 DEF b
    <3>5. wal'.nextOffset = wal'.size + Len(wal'.queue) + Len(wal'.batch)
          BY <2>1, <3>1, <3>3
    <3> QED BY <3>4, <3>5 DEF Sizes
  <2>6. Recovering'
    <3>1. SoundEnd' \in 0..Len(disk'.wal)
          BY ONLY <2>4, <2>41
    <3>2. recovery'.pc = "idle" /\ ~wal'.poison.poisoned
          BY <2>1, <2>2
    <3> QED BY ONLY <3>1, <3>2 DEF Recovering
  <2>7. compaction.pc \notin {"renameSnapshot", "renameWal", "open", "rollForward"} /\ ~compaction.rotated
        BY <2>1 DEF ControlInv, Compacting
  <2>8. Compacting'
        BY <2>1, <2>2, <2>7 DEF ControlInv, Compacting
  <2>9. Copied'
    <3>1. SoundEnd <= Len(disk'.wal)
          BY <2>2, <2>41
    <3>2. ASSUME compaction.pc \in CopyPc
          PROVE  /\ compaction.base <= compaction.copied /\ compaction.copied <= SoundEnd
                 /\ compaction.tmp = SubSeq(disk'.wal, compaction.base + 1, compaction.copied)
          BY <2>2, <2>3, <3>1, <3>2, CopyKept DEF ControlInv
    <3>3. ASSUME compaction.pc \in CopyPc PROVE compaction.copied <= SoundEnd'
          BY <1>1, <2>2, <2>4, <2>41, <3>2, <3>3
    <3>4. compaction.pc = "fence" => compaction.tmp = <<>>
          BY DEF ControlInv, Copied
    <3> QED BY <2>1, <2>7, <3>2, <3>3, <3>4 DEF Copied
  <2> QED BY <2>5, <2>6, <2>8, <2>9 DEF ControlInv
<1>4. CASE BatchFails
  <2>1. /\ wal'.state = wal.state /\ wal'.poison.poisoned /\ wal'.poison.failedAtOffset = FirstOffset
        /\ wal'.batch = <<>> /\ wal'.queue = <<>> /\ b # <<>>
        /\ recovery'.pc = "truncate" /\ recovery'.failedAtOffset = FirstOffset
        /\ compaction' = FlushThrows
        /\ UNCHANGED <<reader, disabled>>
        BY <1>4, FailsEffect DEF Writing
  <2>2. PICK n \in 0..Len(wal.batch) :
            wal'.size = wal.size + n /\ disk'.wal = disk.wal \o SubSeq(wal.batch, 1, n)
        BY <1>4, FailsEffect
  <2>3. /\ recovery.pc = "idle" /\ ~wal.poison.poisoned /\ wal.state # "closed"
        /\ FirstOffset = Len(disk.wal) /\ SoundEnd = Len(disk.wal)
        /\ wal.size = Len(disk.wal)
        BY <2>1, FirstIsEnd DEF Writing, ControlInv
  <2>4. /\ Len(disk'.wal) = Len(disk.wal) + n /\ disk'.wal \in Seq(Frame(told.appends))
        /\ \A i \in 1..Len(disk.wal) : disk'.wal[i] = disk.wal[i]
    <3>1. SubSeq(b, 1, n) \in Seq(Frame(told.appends)) /\ Len(SubSeq(b, 1, n)) = n
          BY <1>1, PrefixType
    <3>2. PICK m, s, t : m = told.appends /\ s = disk.wal /\ t = SubSeq(b, 1, n)
          OBVIOUS
    <3>3. m \in Nat /\ s \in Seq(Frame(m)) /\ t \in Seq(Frame(m)) /\ Len(t) = n
          BY <1>1, <3>1, <3>2
    <3>4. /\ s \o t \in Seq(Frame(m)) /\ Len(s \o t) = Len(s) + Len(t)
          /\ \A i \in 1..Len(s) : (s \o t)[i] = s[i]
          BY ONLY <3>3, Extended
    <3> QED BY <2>2, <3>2, <3>3, <3>4
  <2>5. SoundEnd' = Len(disk.wal)
        BY <2>1, <2>3 DEF SoundEnd
  <2>6. Sizes'
        BY <2>1, <2>2, <2>3, <2>4 DEF Sizes
  <2>7. Recovering'
        BY <1>1, <2>1, <2>4, <2>5 DEF Recovering
  <2>8. /\ compaction.pc \notin {"renameSnapshot", "renameWal", "open", "rollForward"}
        /\ ~compaction.rotated /\ ~reader.walOld
        BY <2>1, <2>3 DEF ControlInv, Compacting
  <2>9. \/ compaction'.pc = "idle" /\ ~compaction'.rotated
        \/ compaction'.pc = "rollForward" /\ ~compaction'.rotated
        \/ compaction' = compaction /\ compaction.pc \in {"idle", "snapshot", "write", "copy"}
    <3>1. CASE compaction.pc \in {"fence", "preCopy"}
          BY <2>1, <3>1 DEF FlushThrows, NoCompaction
    <3>2. CASE compaction.pc = "drain"
      <4>1. compaction \in Compaction(told.appends)
            BY DEF TypeInv, TypedAt
      <4> QED BY <2>1, <2>8, <3>2, <4>1 DEF FlushThrows, Compaction
    <3>3. CASE compaction.pc \notin {"fence", "preCopy", "drain"}
      <4>1. compaction.pc \in {"idle", "snapshot", "write", "copy"}
            BY <2>8, <3>3, Parts DEF CompactionPc
      <4> QED BY <2>1, <3>3, <4>1 DEF FlushThrows
    <3> QED BY <3>1, <3>2, <3>3
  <2>10. Compacting'
         BY <2>1, <2>8, <2>9 DEF Compacting
  <2>11. Copied'
    <3>1. SoundEnd <= Len(disk'.wal)
          BY <1>1, <2>3, <2>4
    <3>2. ASSUME compaction.pc \in CopyPc
          PROVE  /\ compaction.base <= compaction.copied /\ compaction.copied <= Len(disk.wal)
                 /\ compaction.tmp = SubSeq(disk'.wal, compaction.base + 1, compaction.copied)
          BY <2>3, <2>4, <3>1, <3>2, CopyKept DEF ControlInv
    <3>3. CASE compaction' = compaction
          BY <2>5, <2>8, <2>9, <3>2, <3>3 DEF Copied
    <3>4. CASE compaction'.pc \in {"idle", "rollForward"} /\ ~compaction'.rotated
          BY <3>4 DEF Copied, CopyPc
    <3> QED BY <2>9, <3>3, <3>4
  <2> QED BY <2>6, <2>7, <2>10, <2>11 DEF ControlInv
<1> QED BY <1>2, <1>3, <1>4

-----------------------------------------------------------------------------
(* What the steps of a recovery do.                                            *)

\* What the steps of a recovery assign.
LEMMA CutEffect ==
    ASSUME TypeInv, OffsetInv, Recovering, Cut
    PROVE  /\ recovery.pc = "truncate" /\ wal.batch = <<>> /\ wal.queue = <<>>
           /\ SoundEnd \in 0..Len(disk.wal) /\ recovery.failedAtOffset = SoundEnd
           /\ disk'.wal = SubSeq(disk.wal, 1, SoundEnd) /\ disk'.snap = disk.snap
           /\ disk'.wal \in Seq(Frame(told.appends)) /\ Len(disk'.wal) = SoundEnd
           /\ \A i \in 1..SoundEnd : disk'.wal[i] = disk.wal[i]
           /\ wal'.state = wal.state /\ wal'.size = wal.size /\ wal'.nextOffset = wal.nextOffset
           /\ wal'.batch = <<>> /\ wal'.queue = <<>> /\ SameWal
           /\ wal.state = "closed" => recovery'.pc = "idle" /\ ~wal'.poison.poisoned
           /\ wal.state # "closed" =>
                  /\ recovery'.pc = "refresh" /\ recovery'.failedAtOffset = SoundEnd
                  /\ wal'.poison = wal.poison
           /\ SoundEnd' = SoundEnd
           /\ UNCHANGED <<store, reader, disabled, compaction, told>>
<1>1. /\ wal \in Wal(told.appends) /\ disk \in Disk(told.appends) /\ recovery \in Recovery
      BY DEF TypeInv, TypedAt
<1>2. recovery.pc = "truncate"
      BY DEF Cut
<1>3. wal.batch = <<>> /\ wal.queue = <<>>
      BY <1>2 DEF OffsetInv, Calm
<1>4. recovery.failedAtOffset = SoundEnd
      BY <1>2 DEF Recovering, SoundEnd
<1>5. SoundEnd \in 0..Len(disk.wal) /\ SoundEnd \in Nat /\ SoundEnd <= Len(disk.wal)
      BY SoundType DEF Recovering
<1>6. disk' = [disk EXCEPT !.wal = SubSeq(@, 1, SoundEnd)]
      BY <1>4, <1>5 DEF Cut
<1>7. disk'.wal = SubSeq(disk.wal, 1, SoundEnd) /\ disk'.snap = disk.snap
      BY <1>1, <1>6 DEF Disk
<1>8. /\ disk'.wal \in Seq(Frame(told.appends)) /\ Len(disk'.wal) = SoundEnd
      /\ \A i \in 1..SoundEnd : disk'.wal[i] = disk.wal[i]
  <2>1. PICK n, s, e : n = told.appends /\ s = disk.wal /\ e = SoundEnd
        OBVIOUS
  <2>2. n \in Nat /\ s \in Seq(Frame(n)) /\ e \in Nat /\ e <= Len(s)
        BY <1>5, <2>1, Parts
  <2>3. /\ SubSeq(s, 1, e) \in Seq(Frame(n)) /\ Len(SubSeq(s, 1, e)) = e
        /\ \A i \in 1..e : SubSeq(s, 1, e)[i] = s[i]
        BY ONLY <2>2, Prefixed
  <2> QED BY <1>7, <2>1, <2>3
<1>9. CASE wal.state = "closed"
  <2>1. recovery' = NoRecovery /\ wal' = [wal EXCEPT !.poison = NotPoisoned]
        BY <1>9 DEF Cut
  <2>2. /\ wal'.state = wal.state /\ wal'.size = wal.size /\ wal'.nextOffset = wal.nextOffset
        /\ wal'.batch = wal.batch /\ wal'.queue = wal.queue
        /\ wal'.queueGroup = wal.queueGroup /\ wal'.batchGroup = wal.batchGroup
        /\ recovery'.pc = "idle" /\ ~wal'.poison.poisoned
        BY <1>1, <2>1 DEF Wal, NoRecovery, NotPoisoned
  <2>3. SoundEnd' = SoundEnd
        BY <1>8, <2>2 DEF SoundEnd
  <2> QED BY <1>2, <1>3, <1>4, <1>5, <1>7, <1>8, <1>9, <2>2, <2>3 DEF Cut, SameWal
<1>10. CASE wal.state # "closed"
  <2>1. recovery' = [recovery EXCEPT !.pc = "refresh"] /\ wal' = wal
        BY <1>10 DEF Cut
  <2>2. recovery'.pc = "refresh" /\ recovery'.failedAtOffset = SoundEnd
        BY <1>1, <1>4, <2>1 DEF Recovery
  <2>3. SoundEnd' = SoundEnd
    <3>1. CASE wal.poison.poisoned
          BY <2>1, <3>1 DEF SoundEnd
    <3>2. CASE ~wal.poison.poisoned
          BY <1>8, <2>1, <2>2, <3>2 DEF SoundEnd
    <3> QED BY <3>1, <3>2
  <2> QED BY <1>2, <1>3, <1>4, <1>5, <1>7, <1>8, <1>10, <2>1, <2>2, <2>3 DEF Cut, SameWal
<1> QED BY <1>9, <1>10

LEMMA RefreshEffect ==
    ASSUME TypeInv, OffsetInv, Recovering, Refresh
    PROVE  /\ recovery.pc = "refresh" /\ wal.batch = <<>> /\ wal.queue = <<>>
           /\ wal'.state = wal.state /\ wal'.size = Len(disk.wal) /\ wal'.nextOffset = Len(disk.wal)
           /\ wal'.batch = <<>> /\ wal'.queue = <<>> /\ SameWal
           /\ recovery'.pc = "idle" /\ ~wal'.poison.poisoned
           /\ SoundEnd = Len(disk.wal) /\ SoundEnd' = SoundEnd
           /\ UNCHANGED <<store, disk, reader, disabled, compaction, told>>
<1>1. wal \in Wal(told.appends)
      BY DEF TypeInv, TypedAt
<1>2. recovery.pc = "refresh" /\ UNCHANGED <<store, disk, reader, disabled, compaction, told>>
      BY DEF Refresh
<1>3. wal.batch = <<>> /\ wal.queue = <<>>
      BY <1>2 DEF OffsetInv, Calm
<1>4. /\ wal'.state = wal.state /\ wal'.size = Len(disk.wal) /\ wal'.nextOffset = Len(disk.wal)
      /\ wal'.batch = wal.batch /\ wal'.queue = wal.queue
      /\ wal'.queueGroup = wal.queueGroup /\ wal'.batchGroup = wal.batchGroup
      /\ recovery'.pc = "idle" /\ ~wal'.poison.poisoned
      BY <1>1 DEF Refresh, Wal, NoRecovery, NotPoisoned
<1>5. SoundEnd = Len(disk.wal)
      BY <1>2 DEF Recovering
<1>6. SoundEnd' = SoundEnd
      BY <1>2, <1>4, <1>5 DEF SoundEnd
<1> QED BY <1>2, <1>3, <1>4, <1>5, <1>6 DEF SameWal

LEMMA CutFailsEffect ==
    ASSUME TypeInv, OffsetInv, Recovering, CutFails
    PROVE  /\ recovery.pc = "truncate" /\ wal.batch = <<>> /\ wal.queue = <<>>
           /\ recovery'.pc = "idle" /\ disabled'
           /\ wal.poison.poisoned => SoundEnd' = SoundEnd
           /\ ~wal.poison.poisoned => SoundEnd' = Len(disk.wal)
           /\ UNCHANGED <<store, wal, disk, reader, compaction, told>>
<1>1. /\ recovery.pc = "truncate" /\ UNCHANGED <<store, wal, disk, reader, compaction, told>>
      /\ disabled' /\ recovery'.pc = "idle"
      BY DEF CutFails, NoRecovery
<1>2. wal.batch = <<>> /\ wal.queue = <<>>
      BY <1>1 DEF OffsetInv, Calm
<1>3. wal.poison.poisoned => SoundEnd' = SoundEnd
      BY <1>1 DEF SoundEnd
<1>4. ~wal.poison.poisoned => SoundEnd' = Len(disk.wal)
      BY <1>1 DEF SoundEnd
<1> QED BY <1>1, <1>2, <1>3, <1>4

\* A recovery cuts the log where it was sound, and below no offset a compaction has
\* copied up to.
LEMMA RecoverControl ==
    ASSUME TypeInv, OffsetInv, ControlInv, Recover
    PROVE  ControlInv'
<1>1. /\ compaction.base \in Nat /\ compaction.copied \in Nat /\ told.appends \in Nat
      /\ SoundEnd \in 0..Len(disk.wal) /\ Len(disk.wal) \in Nat /\ SoundEnd \in Nat
      /\ SoundEnd <= Len(disk.wal) /\ disk.wal \in Seq(Frame(told.appends))
  <2>1. SoundEnd \in 0..Len(disk.wal) /\ SoundEnd \in Nat /\ Len(disk.wal) \in Nat
        BY SoundType DEF ControlInv, Recovering
  <2>2. SoundEnd <= Len(disk.wal)
        BY ONLY <2>1
  <2> QED BY <2>1, <2>2, Parts
<1>2. /\ compaction' = compaction /\ reader' = reader
      /\ compaction.pc \notin {"fence", "preCopy", "drain", "renameSnapshot", "renameWal", "open"}
      /\ ~compaction.rotated /\ ~reader.walOld
  <2>1. recovery.pc # "idle" /\ UNCHANGED <<compaction, reader>>
        BY DEF Recover, Cut, CutFails, Refresh
  <2>2. ~reader.walOld
        BY <2>1 DEF ControlInv, Compacting
  <2>3. ~compaction.rotated
        BY <2>2 DEF ControlInv, Compacting
  <2> QED BY <2>1, <2>2, <2>3 DEF ControlInv, Compacting
<1>3. compaction.pc \in {"snapshot", "write", "copy"} => recovery.pc = "idle" \/ wal.poison.poisoned
      BY DEF ControlInv, Compacting
<1>4. ASSUME SoundEnd' \in Nat, SoundEnd <= SoundEnd', SoundEnd' <= Len(disk'.wal),
             disk'.wal \in Seq(Frame(told.appends)),
             \A i \in 1..SoundEnd : disk'.wal[i] = disk.wal[i]
      PROVE  Copied'
  <2>1. SoundEnd <= Len(disk'.wal)
    <3>1. Len(disk'.wal) \in Nat
          BY <1>4
    <3> QED BY <1>1, <1>4, <3>1
  <2>2. ASSUME compaction.pc \in CopyPc
        PROVE  /\ compaction.base <= compaction.copied /\ compaction.copied <= SoundEnd
               /\ compaction.tmp = SubSeq(disk'.wal, compaction.base + 1, compaction.copied)
        BY <1>4, <2>1, <2>2, CopyKept DEF ControlInv
  <2>3. ASSUME compaction.pc \in CopyPc PROVE compaction.copied <= SoundEnd'
        BY <1>1, <1>4, <2>2, <2>3
  <2> QED BY <1>2, <2>2, <2>3 DEF Copied
<1>5. CASE Cut
  <2>1. /\ recovery.pc = "truncate"
        /\ recovery.failedAtOffset = SoundEnd
        /\ disk'.wal \in Seq(Frame(told.appends)) /\ Len(disk'.wal) = SoundEnd
        /\ \A i \in 1..SoundEnd : disk'.wal[i] = disk.wal[i]
        /\ wal'.state = wal.state /\ wal'.size = wal.size /\ wal'.nextOffset = wal.nextOffset
        /\ wal'.batch = <<>> /\ wal'.queue = <<>> /\ wal.batch = <<>> /\ wal.queue = <<>>
        /\ wal.state = "closed" => recovery'.pc = "idle" /\ ~wal'.poison.poisoned
        /\ wal.state # "closed" =>
               /\ recovery'.pc = "refresh" /\ recovery'.failedAtOffset = SoundEnd
               /\ wal'.poison = wal.poison
        /\ SoundEnd' = SoundEnd
        BY <1>5, CutEffect DEF ControlInv
  <2>2. Sizes'
    <3>1. CASE wal.state = "closed"
          BY <2>1, <3>1 DEF Sizes
    <3>2. CASE wal.state # "closed"
          BY <2>1, <3>2 DEF ControlInv, Sizes
    <3> QED BY <3>1, <3>2
  <2>3. Recovering'
    <3>1. SoundEnd' \in 0..Len(disk'.wal)
          BY <1>1, <2>1
    <3>2. CASE wal.state = "closed"
          BY <2>1, <3>1, <3>2 DEF Recovering
    <3>3. CASE wal.state # "closed"
          BY <2>1, <3>1, <3>3 DEF Recovering
    <3> QED BY <3>2, <3>3
  <2>4. Compacting'
    <3>1. CASE wal.state = "closed"
          BY <1>2, <2>1, <3>1 DEF Compacting
    <3>2. CASE wal.state # "closed"
          BY <1>2, <1>3, <2>1, <3>2 DEF Compacting
    <3> QED BY <3>1, <3>2
  <2>5. SoundEnd' \in Nat /\ SoundEnd <= SoundEnd' /\ SoundEnd' <= Len(disk'.wal)
        BY <1>1, <2>1
  <2>6. Copied'
        BY <1>4, <2>1, <2>5
  <2> QED BY <2>2, <2>3, <2>4, <2>6 DEF ControlInv
<1>6. CASE CutFails
  <2>1. /\ recovery.pc = "truncate" /\ wal.batch = <<>> /\ wal.queue = <<>>
        /\ recovery'.pc = "idle" /\ disabled' /\ disk' = disk /\ wal' = wal
        /\ wal.poison.poisoned => SoundEnd' = SoundEnd
        /\ ~wal.poison.poisoned => SoundEnd' = Len(disk.wal)
        BY <1>6, CutFailsEffect DEF ControlInv
  <2>2. SoundEnd' \in Nat /\ SoundEnd <= SoundEnd' /\ SoundEnd' <= Len(disk'.wal) /\ SoundEnd' \in 0..Len(disk'.wal)
    <3>1. CASE wal.poison.poisoned
          BY <1>1, <2>1, <3>1
    <3>2. CASE ~wal.poison.poisoned
          BY <1>1, <2>1, <3>2
    <3> QED BY <3>1, <3>2
  <2>3. Sizes'
        BY <2>1 DEF ControlInv, Sizes
  <2>4. Recovering'
        BY <2>1, <2>2 DEF Recovering
  <2>5. Compacting'
        BY <1>2, <2>1 DEF Compacting
  <2>6. Copied'
    <3>1. disk'.wal = disk.wal
          BY <2>1
    <3> QED BY <1>1, <1>4, <2>2, <3>1
  <2> QED BY <2>3, <2>4, <2>5, <2>6 DEF ControlInv
<1>7. CASE Refresh
  <2>1. /\ wal'.state = wal.state /\ wal'.size = Len(disk.wal) /\ wal'.nextOffset = Len(disk.wal)
        /\ wal'.batch = <<>> /\ wal'.queue = <<>>
        /\ recovery'.pc = "idle" /\ ~wal'.poison.poisoned
        /\ SoundEnd = Len(disk.wal) /\ SoundEnd' = SoundEnd /\ disk' = disk
        BY <1>7, RefreshEffect DEF ControlInv
  <2>2. SoundEnd' \in Nat /\ SoundEnd <= SoundEnd' /\ SoundEnd' <= Len(disk'.wal) /\ SoundEnd' \in 0..Len(disk'.wal)
        BY <1>1, <2>1
  <2>3. Sizes'
    <3>1. Len(wal'.queue) = 0 /\ Len(wal'.batch) = 0
          BY <2>1
    <3>2. Len(disk.wal) + 0 + 0 = Len(disk.wal)
          BY <1>1
    <3> QED BY <2>1, <3>1, <3>2 DEF Sizes
  <2>4. Recovering'
        BY <2>1, <2>2 DEF Recovering
  <2>5. Compacting'
        BY <1>2, <2>1 DEF Compacting
  <2>6. Copied'
    <3>1. disk'.wal = disk.wal
          BY <2>1
    <3> QED BY <1>1, <1>4, <2>2, <3>1
  <2> QED BY <2>3, <2>4, <2>5, <2>6 DEF ControlInv
<1> QED BY <1>5, <1>6, <1>7 DEF Recover

-----------------------------------------------------------------------------
(* What the steps of a compaction do.                                          *)

\* The steps that leave the files, the records and the descriptors alone.
CopyStep ==
    \/ StartCompaction \/ Fence \/ Collect \/ EndSnapshot \/ StartCopy \/ EndCopy
    \/ SnapshotFails \/ Seal \/ Drain \/ RotationFails \/ RollForwardFails

\* They touch neither files nor records.
LEMMA CopyStepEffect ==
    ASSUME TypeInv, OffsetInv, CopyStep
    PROVE  /\ UNCHANGED <<store, disk, reader, recovery, disabled, told>>
           /\ wal'.size = wal.size /\ wal'.nextOffset = wal.nextOffset /\ wal'.poison = wal.poison
           /\ SameWal /\ SoundEnd' = SoundEnd
           /\ wal'.state = wal.state \/ wal'.state = "closed" \/ (wal.state = "open" /\ wal'.state = "sealed")
           /\ Sizes => Sizes'
           /\ Recovering => Recovering'
<1>1. wal \in Wal(told.appends)
      BY DEF TypeInv, TypedAt
<1>2. UNCHANGED <<store, disk, reader, recovery, disabled, told>>
      BY DEF CopyStep, StartCompaction, Fence, Collect, EndSnapshot, StartCopy, EndCopy,
             SnapshotFails, Seal, Drain, RotationFails, RollForwardFails
<1>3. CASE wal' = wal
  <2>1. SameWal /\ SoundEnd' = SoundEnd
        BY <1>2, <1>3 DEF SameWal, SoundEnd
  <2>2. Sizes => Sizes'
        BY <1>2, <1>3 DEF Sizes
  <2>3. Recovering => Recovering'
        BY <1>2, <1>3, <2>1 DEF Recovering
  <2> QED BY <1>2, <1>3, <2>1, <2>2, <2>3
<1>4. CASE \/ wal' = [wal EXCEPT !.state = "closed"]
           \/ wal.state = "open" /\ wal' = [wal EXCEPT !.state = "sealed"]
  <2>1. /\ wal'.size = wal.size /\ wal'.nextOffset = wal.nextOffset /\ wal'.poison = wal.poison
        /\ wal'.batch = wal.batch /\ wal'.queue = wal.queue
        /\ wal'.queueGroup = wal.queueGroup /\ wal'.batchGroup = wal.batchGroup
        /\ wal'.state = "closed" \/ (wal.state = "open" /\ wal'.state = "sealed")
        BY <1>1, <1>4 DEF Wal
  <2>2. SoundEnd' = SoundEnd
        BY <1>2, <2>1 DEF SoundEnd
  <2>3. Sizes => Sizes'
        BY <1>2, <2>1 DEF Sizes
  <2>4. Recovering => Recovering'
        BY <1>2, <2>1, <2>2 DEF Recovering
  <2> QED BY <1>2, <2>1, <2>2, <2>3, <2>4 DEF SameWal
<1>5. CASE Seal
  <2>1. wal.state = "open"
        BY <1>5 DEF Seal, OffsetInv, Phases
  <2> QED BY <1>4, <1>5, <2>1 DEF Seal
<1> QED BY <1>3, <1>4, <1>5
        DEF CopyStep, StartCompaction, Fence, Collect, EndSnapshot, StartCopy, EndCopy,
            SnapshotFails, Drain, RotationFails, RollForwardFails

\* What these steps do to the record of the compaction.
SameCopy ==
    /\ compaction'.base = compaction.base /\ compaction'.copied = compaction.copied
    /\ compaction'.tmp = compaction.tmp /\ compaction'.rotated = compaction.rotated

MoreCopied ==
    /\ compaction'.base = compaction.base /\ compaction'.copied = wal.size
    /\ compaction'.tmp = compaction.tmp \o SubSeq(disk.wal, compaction.copied + 1, wal.size)
    /\ compaction'.rotated = compaction.rotated /\ compaction'.snap = compaction.snap

ToFence ==
    /\ compaction'.pc = "fence" /\ ~compaction'.rotated /\ compaction'.tmp = <<>>
    /\ wal.state = "open" /\ ~wal.poison.poisoned /\ recovery.pc = "idle"

ToSnapshot ==
    /\ compaction.pc = "fence" /\ compaction'.pc = "snapshot"
    /\ compaction'.base = wal.size /\ compaction'.copied = wal.size
    /\ compaction'.tmp = compaction.tmp /\ compaction'.rotated = compaction.rotated

ToWrite ==
    /\ compaction.pc = "snapshot" /\ compaction'.pc = "write" /\ SameCopy
    /\ \A k \in Keys : compaction'.snap[k] = Read(k)

BackToPreCopy ==
    /\ compaction.pc \in {"write", "copy"} /\ compaction'.pc = "preCopy" /\ SameCopy
    /\ compaction'.snap = compaction.snap /\ ~wal.poison.poisoned

ToCopy ==
    /\ compaction.pc = "preCopy" /\ compaction'.pc = "copy"
    /\ wal.size > compaction.copied /\ MoreCopied

ToDrain ==
    /\ compaction.pc = "preCopy" /\ compaction'.pc = "drain" /\ SameCopy
    /\ compaction'.snap = compaction.snap

ToRename ==
    /\ compaction.pc = "drain" /\ compaction'.pc = "renameSnapshot"
    /\ wal.batch = <<>> /\ wal.queue = <<>> /\ wal.size >= compaction.copied /\ MoreCopied

ToRollForward ==
    /\ compaction.pc \in {"drain", "renameSnapshot", "renameWal", "open"}
    /\ compaction'.pc = "rollForward" /\ wal.batch = <<>> /\ wal.queue = <<>>
    /\ compaction'.base = compaction.base /\ compaction'.rotated = compaction.rotated
    /\ compaction'.snap = compaction.snap

Ended == compaction'.pc = "idle" /\ ~compaction'.rotated

\* Whatever phase such a step leads to, the compaction stays as it should.
LEMMA CopyPhase ==
    ASSUME TypeInv, OffsetInv, Compacting, CopyStep, ~CompactWhileRecovering
    PROVE  \/ ToFence \/ ToSnapshot \/ ToWrite \/ BackToPreCopy \/ ToCopy
           \/ ToDrain \/ ToRename \/ ToRollForward \/ Ended
<1>1. compaction \in Compaction(told.appends)
      BY DEF TypeInv, TypedAt
<1>2. NoCompaction.pc = "idle" /\ ~NoCompaction.rotated
      BY DEF NoCompaction
<1>3. CASE StartCompaction
      BY <1>3 DEF StartCompaction, NoCompaction, ToFence
<1>4. CASE Fence
      BY <1>1, <1>4 DEF Fence, Compaction, ToSnapshot
<1>5. CASE Collect
  <2>1. compaction' = [compaction EXCEPT !.pc = "write", !.snap = [k \in Keys |-> Read(k)]]
        BY <1>5 DEF Collect
  <2>2. compaction'.snap = [k \in Keys |-> Read(k)]
        BY <1>1, <2>1 DEF Compaction
  <2>3. /\ compaction'.pc = "write"
        /\ compaction'.base = compaction.base /\ compaction'.copied = compaction.copied
        /\ compaction'.tmp = compaction.tmp /\ compaction'.rotated = compaction.rotated
        BY <1>1, <2>1 DEF Compaction
  <2>4. \A k \in Keys : compaction'.snap[k] = Read(k)
        BY <2>2
  <2> QED BY <1>5, <2>3, <2>4 DEF Collect, ToWrite, SameCopy
<1>6. CASE EndSnapshot \/ EndCopy
  <2>1. compaction' = ToPreCopy /\ compaction.pc \in {"write", "copy"} /\ wal' = wal
        BY <1>6 DEF EndSnapshot, EndCopy
  <2>2. CASE wal.poison.poisoned
        BY <1>2, <2>1, <2>2 DEF ToPreCopy, Ended
  <2>3. CASE ~wal.poison.poisoned
        BY <1>1, <2>1, <2>3 DEF ToPreCopy, Compaction, BackToPreCopy, SameCopy
  <2> QED BY <2>2, <2>3
<1>7. CASE StartCopy
      BY <1>1, <1>7 DEF StartCopy, Compaction, ToCopy, MoreCopied
<1>8. CASE SnapshotFails
      BY <1>2, <1>8 DEF SnapshotFails, Ended
<1>9. CASE Seal
      BY <1>1, <1>9 DEF Seal, Compaction, ToDrain, SameCopy
<1>10. CASE Drain
      BY <1>1, <1>10 DEF Drain, Drained, Writing, Compaction, ToRename, MoreCopied
<1>11. CASE RotationFails
  <2>1. compaction' = [compaction EXCEPT !.pc = "rollForward"] /\ wal' = wal
        BY <1>11 DEF RotationFails
  <2>2. /\ compaction'.pc = "rollForward" /\ compaction'.base = compaction.base
        /\ compaction'.rotated = compaction.rotated /\ compaction'.snap = compaction.snap
        BY <1>1, <2>1 DEF Compaction
  <2>3. /\ wal.batch = <<>> /\ wal.queue = <<>>
        /\ compaction.pc \in {"drain", "renameSnapshot", "renameWal", "open"}
        BY <1>11 DEF RotationFails, Drained, Writing, Compacting
  <2> QED BY <2>2, <2>3 DEF ToRollForward
<1>12. CASE RollForwardFails
      BY <1>2, <1>12 DEF RollForwardFails, Ended
<1> QED BY <1>3, <1>4, <1>5, <1>6, <1>7, <1>8, <1>9, <1>10, <1>11, <1>12 DEF CopyStep

\* A copy takes the log up to its end.
LEMMA CopiedNow ==
    ASSUME compaction'.pc \in CopyPc \ {"renameWal"}, ~compaction'.rotated,
           compaction'.base <= compaction'.copied, compaction'.copied <= SoundEnd',
           compaction'.tmp = SubSeq(disk'.wal, compaction'.base + 1, compaction'.copied),
           compaction'.pc = "renameSnapshot" => compaction'.copied = Len(disk'.wal)
    PROVE  Copied'
BY DEF Copied, CopyPc

\* A compaction takes its fence and copies the tail from a log that is sound.
LEMMA CopyStepControl ==
    ASSUME TypeInv, OffsetInv, ControlInv, CopyStep, ~CompactWhileRecovering
    PROVE  ControlInv'
<1>1. /\ UNCHANGED <<store, disk, reader, recovery, disabled, told>>
      /\ wal'.size = wal.size /\ wal'.poison = wal.poison
      /\ wal'.batch = wal.batch /\ wal'.queue = wal.queue /\ SoundEnd' = SoundEnd
      /\ wal'.state = wal.state \/ wal'.state = "closed" \/ (wal.state = "open" /\ wal'.state = "sealed")
      /\ Sizes' /\ Recovering'
      BY CopyStepEffect DEF ControlInv, SameWal
<1>2. /\ Sizes /\ Recovering /\ Compacting /\ Copied
      BY DEF ControlInv
<1>3. /\ compaction.base \in Nat /\ compaction.copied \in Nat /\ wal.size \in Nat
      /\ Len(disk.wal) \in Nat /\ disk.wal \in Seq(Frame(told.appends)) /\ told.appends \in Nat
      /\ compaction.tmp \in Seq(Frame(told.appends))
      BY Parts
<1>4. ASSUME recovery.pc = "idle", ~wal.poison.poisoned PROVE SoundEnd = Len(disk.wal)
      BY <1>4 DEF SoundEnd
<1>5. ASSUME recovery.pc = "idle", ~wal.poison.poisoned, wal.state # "closed"
      PROVE  wal.size = Len(disk.wal)
      BY <1>2, <1>5 DEF Sizes
<1>6. ASSUME compaction.copied <= wal.size, compaction.pc \in CopyPc,
             recovery.pc = "idle", ~wal.poison.poisoned, wal.size = Len(disk.wal)
      PROVE  /\ compaction.base <= wal.size
             /\ compaction.tmp \o SubSeq(disk.wal, compaction.copied + 1, wal.size)
                    = SubSeq(disk.wal, compaction.base + 1, wal.size)
  <2>1. compaction.base <= compaction.copied /\ compaction.tmp = SubSeq(disk.wal, compaction.base + 1, compaction.copied)
        BY <1>2, <1>6 DEF Copied
  <2>2. PICK n, s, a, b, c :
            /\ n = told.appends /\ s = disk.wal
            /\ a = compaction.base /\ b = compaction.copied /\ c = wal.size
        OBVIOUS
  <2>3. /\ n \in Nat /\ s \in Seq(Frame(n)) /\ a \in Nat /\ b \in Nat /\ c \in Nat
        /\ a <= b /\ b <= c /\ c <= Len(s)
        BY <1>3, <1>6, <2>1, <2>2
  <2>4. SubSeq(s, a + 1, b) \o SubSeq(s, b + 1, c) = SubSeq(s, a + 1, c) /\ a <= c
        BY ONLY <2>3, Joined
  <2> QED BY <2>1, <2>2, <2>4
<1>7. Compacting' /\ Copied'
  <2>1. CASE ToFence
    <3>1. ~reader.walOld
          BY <1>2, <2>1 DEF Compacting, ToFence
    <3>2. Compacting'
          BY <1>1, <2>1, <3>1 DEF Compacting, ToFence
    <3>3. Copied'
          BY <2>1 DEF Copied, CopyPc, ToFence
    <3> QED BY <3>2, <3>3
  <2>2. CASE ToSnapshot
    <3>1. /\ recovery.pc = "idle" /\ ~wal.poison.poisoned /\ ~compaction.rotated /\ ~reader.walOld
          BY <1>2, <2>2 DEF Compacting, ToSnapshot
    <3>2. wal.state = "open"
          BY <2>2 DEF OffsetInv, Phases, ToSnapshot
    <3>3. wal.size = Len(disk.wal) /\ SoundEnd = Len(disk.wal)
          BY <1>4, <1>5, <3>1, <3>2
    <3>4. Compacting'
          BY <1>1, <2>2, <3>1 DEF Compacting, ToSnapshot
    <3>5. compaction.tmp = SubSeq(disk.wal, wal.size + 1, wal.size)
      <4>1. compaction.tmp = <<>>
            BY <1>2, <2>2 DEF Copied, ToSnapshot
      <4>2. SubSeq(disk.wal, wal.size + 1, wal.size) = <<>>
            BY <1>3
      <4> QED BY <4>1, <4>2
    <3>6. Copied'
          BY <1>1, <1>3, <2>2, <3>1, <3>3, <3>5, CopiedNow DEF CopyPc, ToSnapshot
    <3> QED BY <3>4, <3>6
  <2>3. CASE ToWrite
    <3>1. ~compaction.rotated /\ ~reader.walOld
          BY <1>2, <2>3 DEF Compacting, ToWrite, SameCopy
    <3>2. Compacting'
          BY <1>1, <1>2, <2>3, <3>1 DEF Compacting, ToWrite, SameCopy
    <3>3. Copied'
          BY <1>1, <1>2, <2>3, <3>1 DEF Copied, CopyPc, ToWrite, SameCopy
    <3> QED BY <3>2, <3>3
  <2>4. CASE BackToPreCopy
    <3>1. ~compaction.rotated /\ ~reader.walOld
          BY <1>2, <2>4 DEF Compacting, BackToPreCopy, SameCopy
    <3>2. Compacting'
          BY <1>1, <1>2, <2>4, <3>1 DEF Compacting, BackToPreCopy, SameCopy
    <3>3. Copied'
          BY <1>1, <1>2, <2>4, <3>1 DEF Copied, CopyPc, BackToPreCopy, SameCopy
    <3> QED BY <3>2, <3>3
  <2>5. CASE ToCopy
    <3>1. ~compaction.rotated /\ ~reader.walOld /\ recovery.pc = "idle" /\ ~wal.poison.poisoned
          BY <1>2, <2>5 DEF Compacting, ToCopy, MoreCopied
    <3>2. wal.state = "open"
          BY <2>5 DEF OffsetInv, Phases, ToCopy, MoreCopied
    <3>3. wal.size = Len(disk.wal) /\ SoundEnd = Len(disk.wal)
          BY <1>4, <1>5, <3>1, <3>2
    <3>4. Compacting'
          BY <1>1, <1>2, <2>5, <3>1 DEF Compacting, ToCopy, MoreCopied
    <3>5. compaction.copied <= wal.size /\ compaction.pc \in CopyPc
          BY <1>3, <2>5 DEF CopyPc, ToCopy, MoreCopied
    <3>6. compaction.base <= wal.size /\ compaction'.tmp = SubSeq(disk.wal, compaction.base + 1, wal.size)
          BY <1>6, <2>5, <3>1, <3>3, <3>5 DEF ToCopy, MoreCopied
    <3>7. Copied'
      <4>1. /\ compaction'.pc \in CopyPc \ {"renameWal"} /\ ~compaction'.rotated
            /\ compaction'.base = compaction.base /\ compaction'.copied = wal.size
            BY <2>5, <3>1 DEF CopyPc, ToCopy, MoreCopied
      <4>2. disk'.wal = disk.wal /\ SoundEnd' = wal.size /\ wal.size <= SoundEnd' /\ wal.size = Len(disk'.wal)
            BY <1>1, <1>3, <3>3
      <4>3. compaction'.tmp = SubSeq(disk'.wal, compaction'.base + 1, compaction'.copied)
            BY <3>6, <4>1, <4>2
      <4> QED BY <3>6, <4>1, <4>2, <4>3, CopiedNow
    <3> QED BY <3>4, <3>7
  <2>6. CASE ToDrain
    <3>1. ~compaction.rotated /\ ~reader.walOld
          BY <1>2, <2>6 DEF Compacting, ToDrain, SameCopy
    <3>2. Compacting'
          BY <1>1, <1>2, <2>6, <3>1 DEF Compacting, ToDrain, SameCopy
    <3>3. Copied'
          BY <1>1, <1>2, <2>6, <3>1 DEF Copied, CopyPc, ToDrain, SameCopy
    <3> QED BY <3>2, <3>3
  <2>7. CASE ToRename
    <3>1. ~compaction.rotated /\ ~reader.walOld /\ recovery.pc = "idle" /\ ~wal.poison.poisoned
          BY <1>2, <2>7 DEF Compacting, ToRename, MoreCopied
    <3>2. wal.state = "sealed"
          BY <2>7 DEF OffsetInv, Phases, ToRename, MoreCopied
    <3>3. wal.size = Len(disk.wal) /\ SoundEnd = Len(disk.wal)
          BY <1>4, <1>5, <3>1, <3>2
    <3>4. Compacting'
          BY <1>1, <1>2, <2>7, <3>1 DEF Compacting, ToRename, MoreCopied
    <3>5. compaction.copied <= wal.size /\ compaction.pc \in CopyPc
          BY <1>3, <2>7 DEF CopyPc, ToRename, MoreCopied
    <3>6. compaction.base <= wal.size /\ compaction'.tmp = SubSeq(disk.wal, compaction.base + 1, wal.size)
          BY <1>6, <2>7, <3>1, <3>3, <3>5 DEF ToRename, MoreCopied
    <3>7. Copied'
      <4>1. /\ compaction'.pc \in CopyPc \ {"renameWal"} /\ ~compaction'.rotated
            /\ compaction'.base = compaction.base /\ compaction'.copied = wal.size
            BY <2>7, <3>1 DEF CopyPc, ToRename, MoreCopied
      <4>2. disk'.wal = disk.wal /\ SoundEnd' = wal.size /\ wal.size <= SoundEnd' /\ wal.size = Len(disk'.wal)
            BY <1>1, <1>3, <3>3
      <4>3. compaction'.tmp = SubSeq(disk'.wal, compaction'.base + 1, compaction'.copied)
            BY <3>6, <4>1, <4>2
      <4> QED BY <3>6, <4>1, <4>2, <4>3, CopiedNow
    <3> QED BY <3>4, <3>7
  <2>8. CASE ToRollForward
    <3>1. Compacting'
          BY <1>1, <1>2, <2>8 DEF Compacting, ToRollForward
    <3>2. Copied'
          BY <1>1, <1>2, <2>8 DEF Copied, CopyPc, ToRollForward
    <3> QED BY <3>1, <3>2
  <2>9. CASE Ended
    <3>1. reader.walOld => wal'.state = "closed"
          BY <1>1, <1>2 DEF Compacting
    <3>2. Compacting'
          BY <1>1, <1>2, <2>9, <3>1 DEF Compacting, Ended
    <3>3. Copied'
          BY <2>9 DEF Copied, CopyPc, Ended
    <3> QED BY <3>2, <3>3
  <2> QED BY <1>2, <2>1, <2>2, <2>3, <2>4, <2>5, <2>6, <2>7, <2>8, <2>9, CopyPhase
<1> QED BY <1>1, <1>7 DEF ControlInv

\* What the two renames of a rotation assign.
LEMMA RenameSnapshotEffect ==
    ASSUME TypeInv, OffsetInv, ControlInv, RenameSnapshot
    PROVE  /\ compaction.pc = "renameSnapshot" /\ wal.batch = <<>> /\ wal.queue = <<>>
           /\ recovery.pc = "idle" /\ ~wal.poison.poisoned /\ wal.state = "closed"
           /\ disk'.wal = disk.wal /\ disk'.snap = compaction.snap
           /\ ~reader.walOld /\ ~reader'.walOld /\ SoundEnd = Len(disk.wal) /\ SoundEnd' = SoundEnd
           /\ ReadLog' = ReadLog /\ ReadEnd' = ReadEnd /\ ReadSnap' = ReadSnap
           /\ compaction'.pc = "renameWal" /\ ~compaction.rotated /\ ~compaction'.rotated
           /\ compaction'.base = compaction.base /\ compaction'.copied = compaction.copied
           /\ compaction'.tmp = compaction.tmp /\ compaction'.snap = compaction.snap
           /\ UNCHANGED <<store, wal, recovery, disabled, told>>
<1>1. compaction \in Compaction(told.appends) /\ disk \in Disk(told.appends) /\ reader \in Reader(told.appends)
      BY DEF TypeInv, TypedAt
<1>2. compaction.pc = "renameSnapshot" /\ UNCHANGED <<store, wal, recovery, disabled, told>>
      BY DEF RenameSnapshot
<1>3. /\ compaction'.pc = "renameWal" /\ compaction'.rotated = compaction.rotated
      /\ compaction'.base = compaction.base /\ compaction'.copied = compaction.copied
      /\ compaction'.tmp = compaction.tmp /\ compaction'.snap = compaction.snap
      BY <1>1 DEF RenameSnapshot, Compaction
<1>4. disk'.wal = disk.wal /\ disk'.snap = compaction.snap
      BY <1>1 DEF RenameSnapshot, Disk
<1>5. /\ wal.batch = <<>> /\ wal.queue = <<>> /\ wal.state = "closed"
      /\ recovery.pc = "idle" /\ ~wal.poison.poisoned /\ ~compaction.rotated /\ ~reader.walOld
      BY <1>2 DEF ControlInv, Compacting, OffsetInv, Phases
<1>6. /\ reader'.walOld = reader.walOld /\ reader'.wal = reader.wal
      /\ reader'.snapOld /\ reader'.snap = ReadSnap
      BY <1>1 DEF RenameSnapshot, Reader, ReadSnap
<1>7. SoundEnd = Len(disk.wal) /\ SoundEnd' = SoundEnd
      BY <1>2, <1>4, <1>5 DEF SoundEnd
<1>8. ReadLog' = ReadLog /\ ReadEnd' = ReadEnd /\ ReadSnap' = ReadSnap
      BY <1>4, <1>5, <1>6, <1>7 DEF ReadLog, ReadEnd, ReadSnap
<1> QED BY <1>2, <1>3, <1>4, <1>5, <1>6, <1>7, <1>8

LEMMA RenameWalEffect ==
    ASSUME TypeInv, OffsetInv, ControlInv, RenameWal
    PROVE  /\ compaction.pc = "renameWal" /\ wal.batch = <<>> /\ wal.queue = <<>>
           /\ recovery.pc = "idle" /\ ~wal.poison.poisoned /\ wal.state = "closed"
           /\ disk'.snap = disk.snap /\ disk.snap = compaction.snap
           /\ compaction.base <= Len(disk.wal)
           /\ disk'.wal = SubSeq(disk.wal, compaction.base + 1, Len(disk.wal))
           /\ ~reader.walOld /\ reader'.walOld /\ reader'.wal = disk.wal
           /\ SoundEnd = Len(disk.wal) /\ SoundEnd' = Len(disk'.wal)
           /\ ReadLog = disk.wal /\ ReadLog' = disk.wal /\ ReadEnd = Len(disk.wal) /\ ReadEnd' = ReadEnd
           /\ ReadSnap' = ReadSnap
           /\ compaction'.pc = "open" /\ ~compaction.rotated /\ compaction'.rotated
           /\ compaction'.base = compaction.base /\ compaction'.snap = compaction.snap
           /\ UNCHANGED <<store, wal, recovery, disabled, told>>
<1>1. compaction \in Compaction(told.appends) /\ disk \in Disk(told.appends) /\ reader \in Reader(told.appends)
      BY DEF TypeInv, TypedAt
<1>2. compaction.pc = "renameWal" /\ UNCHANGED <<store, wal, recovery, disabled, told>>
      BY DEF RenameWal
<1>3. /\ compaction'.pc = "open" /\ compaction'.rotated
      /\ compaction'.base = compaction.base /\ compaction'.snap = compaction.snap
      BY <1>1 DEF RenameWal, Compaction
<1>4. disk'.wal = compaction.tmp /\ disk'.snap = disk.snap
      BY <1>1 DEF RenameWal, Disk
<1>5. /\ wal.batch = <<>> /\ wal.queue = <<>> /\ wal.state = "closed"
      /\ recovery.pc = "idle" /\ ~wal.poison.poisoned /\ ~compaction.rotated /\ ~reader.walOld
      BY <1>2 DEF ControlInv, Compacting, OffsetInv, Phases
<1>6. /\ compaction.base <= compaction.copied /\ compaction.copied = Len(disk.wal)
      /\ compaction.tmp = SubSeq(disk.wal, compaction.base + 1, compaction.copied)
      /\ disk.snap = compaction.snap
      BY <1>2 DEF ControlInv, Copied, CopyPc
<1>7. /\ reader'.walOld /\ reader'.wal = disk.wal
      /\ reader'.snapOld = reader.snapOld /\ reader'.snap = reader.snap
      BY <1>1 DEF RenameWal, Reader
<1>8. SoundEnd = Len(disk.wal) /\ SoundEnd' = Len(disk'.wal)
      BY <1>2, <1>5 DEF SoundEnd
<1>9. /\ ReadLog = disk.wal /\ ReadLog' = disk.wal /\ ReadEnd = Len(disk.wal) /\ ReadEnd' = ReadEnd
      /\ ReadSnap' = ReadSnap
      BY <1>4, <1>5, <1>7, <1>8 DEF ReadLog, ReadEnd, ReadSnap
<1> QED BY <1>2, <1>3, <1>4, <1>5, <1>6, <1>7, <1>8, <1>9

\* The renames keep the compaction as it should be.
LEMMA RenameControl ==
    ASSUME TypeInv, OffsetInv, ControlInv, RenameSnapshot \/ RenameWal
    PROVE  ControlInv'
<1>1. /\ compaction.base \in Nat /\ compaction.copied \in Nat
      /\ Len(disk.wal) \in Nat /\ disk.wal \in Seq(Frame(told.appends)) /\ told.appends \in Nat
      BY Parts
<1>2. /\ Sizes /\ Recovering /\ Compacting /\ Copied
      BY DEF ControlInv
<1>3. CASE RenameSnapshot
  <2>1. /\ compaction.pc = "renameSnapshot" /\ wal.batch = <<>> /\ wal.queue = <<>>
        /\ recovery.pc = "idle" /\ ~wal.poison.poisoned /\ wal.state = "closed"
        /\ disk'.wal = disk.wal /\ disk'.snap = compaction.snap
        /\ ~reader'.walOld /\ SoundEnd = Len(disk.wal) /\ SoundEnd' = SoundEnd
        /\ compaction'.pc = "renameWal" /\ ~compaction'.rotated
        /\ compaction'.base = compaction.base /\ compaction'.copied = compaction.copied
        /\ compaction'.tmp = compaction.tmp /\ compaction'.snap = compaction.snap
        /\ UNCHANGED <<store, wal, recovery, disabled, told>>
        BY <1>3, RenameSnapshotEffect
  <2>2. Sizes'
        BY <2>1 DEF Sizes
  <2>3. Recovering'
        BY <1>1, <2>1 DEF Recovering
  <2>4. Compacting'
        BY <2>1 DEF Compacting
  <2>5. Copied'
        BY <1>2, <2>1 DEF Copied, CopyPc
  <2> QED BY <2>2, <2>3, <2>4, <2>5 DEF ControlInv
<1>4. CASE RenameWal
  <2>1. /\ wal.batch = <<>> /\ wal.queue = <<>>
        /\ recovery.pc = "idle" /\ ~wal.poison.poisoned /\ wal.state = "closed"
        /\ disk'.snap = disk.snap /\ disk.snap = compaction.snap
        /\ compaction.base <= Len(disk.wal)
        /\ disk'.wal = SubSeq(disk.wal, compaction.base + 1, Len(disk.wal))
        /\ reader'.walOld /\ reader'.wal = disk.wal
        /\ SoundEnd' = Len(disk'.wal)
        /\ compaction'.pc = "open" /\ compaction'.rotated
        /\ compaction'.base = compaction.base /\ compaction'.snap = compaction.snap
        /\ UNCHANGED <<store, wal, recovery, disabled, told>>
        BY <1>4, RenameWalEffect
  <2>2. Len(disk'.wal) \in Nat
    <3>1. disk'.wal \in Seq(Frame(told.appends))
      <4>1. PICK n, s, a, b : n = told.appends /\ s = disk.wal /\ a = compaction.base /\ b = Len(disk.wal)
            OBVIOUS
      <4>2. n \in Nat /\ s \in Seq(Frame(n)) /\ a \in Nat /\ b \in Nat /\ b <= Len(s)
            BY <1>1, <4>1
      <4>3. SubSeq(s, a + 1, b) \in Seq(Frame(n))
            BY ONLY <4>2, LogType
      <4> QED BY <2>1, <4>1, <4>3
    <3> QED BY <3>1
  <2>3. Sizes'
        BY <2>1 DEF Sizes
  <2>4. Recovering'
    <3>0. SoundEnd' = Len(disk'.wal)
          BY <2>1
    <3>1. SoundEnd' \in 0..Len(disk'.wal)
          BY ONLY <2>2, <3>0
    <3>2. recovery'.pc = "idle" /\ ~wal'.poison.poisoned
          BY <2>1
    <3> QED BY ONLY <3>1, <3>2 DEF Recovering
  <2>5. Compacting'
        BY <2>1 DEF Compacting
  <2>6. Copied'
        BY <2>1 DEF Copied, CopyPc
  <2> QED BY <2>3, <2>4, <2>5, <2>6 DEF ControlInv
<1> QED BY <1>3, <1>4

\* The new log after a rotation: the pointers and the descriptors follow.
Follows == (OpenFresh \/ RollForward) /\ compaction.rotated

\* The new log after a rotation that failed before its commit point.
Resumes == RollForward /\ ~compaction.rotated

\* What the new log, and a reopen after a crash, find and assign.
LEMMA FollowsEffect ==
    ASSUME TypeInv, OffsetInv, ControlInv, Follows
    PROVE  /\ wal.batch = <<>> /\ wal.queue = <<>> /\ recovery.pc = "idle" /\ ~wal.poison.poisoned
           /\ reader.walOld /\ compaction.base <= Len(reader.wal)
           /\ disk.wal = SubSeq(reader.wal, compaction.base + 1, Len(reader.wal))
           /\ disk.snap = compaction.snap
           /\ SoundEnd = Len(disk.wal) /\ SoundEnd' = Len(disk.wal)
           /\ ReadLog = reader.wal /\ ReadEnd = Len(reader.wal)
           /\ ReadLog' = disk.wal /\ ReadEnd' = Len(disk.wal) /\ ReadSnap' = disk.snap
           /\ wal' = FreshWal(Len(disk.wal)) /\ compaction' = NoCompaction /\ reader' = SamePath
           /\ store' = [k \in Keys |-> [store[k] EXCEPT !.loc = RemapLoc(@)]]
           /\ UNCHANGED <<disk, recovery, disabled, told>>
           /\ ControlInv'
<1>1. compaction.rotated = TRUE /\ compaction.pc \in {"open", "rollForward"}
  <2>1. compaction \in Compaction(told.appends)
        BY DEF TypeInv, TypedAt
  <2> QED BY <2>1 DEF Follows, OpenFresh, RollForward, Compaction
<1>2. Reopened(TRUE) /\ UNCHANGED <<disk, recovery, disabled, told>>
      BY <1>1 DEF Follows, OpenFresh, RollForward
<1>3. /\ wal' = FreshWal(Len(disk.wal)) /\ compaction' = NoCompaction /\ reader' = SamePath
      /\ store' = [k \in Keys |-> [store[k] EXCEPT !.loc = RemapLoc(@)]]
      BY <1>2 DEF Reopened
<1>4. /\ wal.batch = <<>> /\ wal.queue = <<>> /\ reader.walOld
      /\ recovery.pc = "idle" /\ ~wal.poison.poisoned
      BY <1>1 DEF ControlInv, Compacting
<1>5. /\ compaction.base <= Len(reader.wal) /\ disk.snap = compaction.snap
      /\ disk.wal = SubSeq(reader.wal, compaction.base + 1, Len(reader.wal))
      BY <1>1 DEF ControlInv, Copied
<1>6. SoundEnd = Len(disk.wal)
      BY <1>4 DEF SoundEnd
<1>7. ControlInv' /\ SoundEnd' = Len(disk.wal)
  <2>1. Len(disk.wal) \in Nat /\ Len(disk.wal) = Len(disk'.wal) /\ recovery'.pc = "idle"
        BY <1>2, <1>4, Parts
  <2> QED BY <1>3, <2>1, FreshControl
<1>8. ReadLog = reader.wal /\ ReadEnd = Len(reader.wal)
      BY <1>4 DEF ReadLog, ReadEnd
<1>9. ReadLog' = disk.wal /\ ReadEnd' = Len(disk.wal) /\ ReadSnap' = disk.snap
  <2>1. ~reader'.walOld /\ ~reader'.snapOld /\ disk' = disk
        BY <1>2, <1>3 DEF SamePath
  <2> QED BY <1>7, <2>1 DEF ReadLog, ReadEnd, ReadSnap
<1> QED BY <1>2, <1>3, <1>4, <1>5, <1>6, <1>7, <1>8, <1>9

LEMMA ResumesEffect ==
    ASSUME TypeInv, OffsetInv, ControlInv, Resumes
    PROVE  /\ wal.batch = <<>> /\ wal.queue = <<>> /\ ~reader.walOld
           /\ wal' = FreshWal(Len(disk.wal)) /\ compaction' = NoCompaction
           /\ \/ SoundEnd' = SoundEnd
              \/ SoundEnd' = Len(disk.wal) /\ disabled
           /\ UNCHANGED <<store, disk, reader, recovery, disabled, told>>
           /\ ControlInv'
<1>1. compaction.rotated = FALSE /\ compaction.pc = "rollForward"
  <2>1. compaction \in Compaction(told.appends)
        BY DEF TypeInv, TypedAt
  <2> QED BY <2>1 DEF Resumes, RollForward, Compaction
<1>2. Reopened(FALSE) /\ UNCHANGED <<disk, recovery, disabled, told>>
      BY <1>1 DEF Resumes, RollForward
<1>3. /\ wal' = FreshWal(Len(disk.wal)) /\ compaction' = NoCompaction /\ reader' = reader /\ store' = store
      BY <1>2 DEF Reopened
<1>4. wal.batch = <<>> /\ wal.queue = <<>> /\ ~reader.walOld
      BY <1>1 DEF ControlInv, Compacting
<1>5. /\ wal'.queue = <<>> /\ wal'.batch = <<>> /\ wal'.size = Len(disk.wal)
      /\ wal'.nextOffset = Len(disk.wal) /\ ~wal'.poison.poisoned /\ wal'.state = "open"
      /\ compaction'.pc = "idle" /\ ~compaction'.rotated
      BY <1>3 DEF FreshWal, NoCompaction, NotPoisoned
<1>6. SoundEnd' = IF recovery.pc = "truncate" THEN recovery.failedAtOffset ELSE Len(disk.wal)
      BY <1>2, <1>5 DEF SoundEnd
<1>7. Recovering
      BY DEF ControlInv
<1>8. \/ SoundEnd' = SoundEnd
      \/ SoundEnd' = Len(disk.wal) /\ disabled
  <2>1. CASE ~wal.poison.poisoned
        BY <1>6, <2>1 DEF SoundEnd
  <2>2. CASE wal.poison.poisoned /\ recovery.pc = "truncate"
        BY <1>6, <1>7, <2>2 DEF SoundEnd, Recovering
  <2>3. CASE wal.poison.poisoned /\ recovery.pc = "refresh"
        BY <1>6, <1>7, <2>3 DEF Recovering
  <2>4. CASE wal.poison.poisoned /\ recovery.pc = "idle"
        BY <1>6, <1>7, <2>4 DEF Recovering
  <2> QED BY <2>1, <2>2, <2>3, <2>4, Parts
<1>9. Sizes'
  <2>1. Len(wal'.queue) = 0 /\ Len(wal'.batch) = 0 /\ Len(disk.wal) + 0 + 0 = Len(disk.wal)
        BY <1>5, Parts
  <2> QED BY <1>2, <1>5, <2>1 DEF Sizes
<1>10. Recovering'
  <2>1. SoundEnd \in 0..Len(disk.wal) /\ Len(disk.wal) \in Nat
        BY <1>7, Parts DEF Recovering
  <2>2. SoundEnd' \in 0..Len(disk.wal)
        BY <1>8, <2>1
  <2> QED BY <1>2, <1>5, <1>6, <2>2 DEF Recovering
<1>11. Compacting'
  <2>1. ~reader'.walOld
        BY <1>3, <1>4
  <2> QED BY <1>5, <2>1 DEF Compacting
<1>12. Copied'
       BY <1>5 DEF Copied, CopyPc
<1>13. ControlInv'
       BY <1>9, <1>10, <1>11, <1>12 DEF ControlInv
<1> QED BY <1>2, <1>3, <1>4, <1>8, <1>13

LEMMA CrashEffect ==
    ASSUME TypeInv, CrashAndOpen
    PROVE  /\ \E n \in 0..Len(wal.batch) : disk'.wal = disk.wal \o SubSeq(wal.batch, 1, n)
           /\ \A k \in Keys : store'[k] = IF Replay(k, disk'.wal).id = 0 THEN Absent ELSE Replay(k, disk'.wal)
           /\ disk'.snap = disk.snap /\ wal' = FreshWal(Len(disk'.wal))
           /\ disk'.wal \in Seq(Frame(told.appends))
           /\ reader' = SamePath /\ recovery' = NoRecovery /\ ~disabled' /\ compaction' = NoCompaction
           /\ told'.rejected = {} /\ told'.acked = told.acked
           /\ ControlInv' /\ SoundEnd' = Len(disk'.wal)
<1>1. disk \in Disk(told.appends) /\ told \in Told(told.appends)
      BY DEF TypeInv, TypedAt
<1>2. PICK n \in 0..Len(wal.batch) :
          LET log == disk.wal \o SubSeq(wal.batch, 1, n)
          IN  /\ disk' = [disk EXCEPT !.wal = log]
              /\ store' = [k \in Keys |-> IF Replay(k, log).id = 0 THEN Absent ELSE Replay(k, log)]
              /\ wal' = FreshWal(Len(log))
      BY DEF CrashAndOpen
<1>3. disk'.wal = disk.wal \o SubSeq(wal.batch, 1, n) /\ disk'.snap = disk.snap
      BY <1>1, <1>2 DEF Disk
<1>4. wal' = FreshWal(Len(disk'.wal))
      BY <1>2, <1>3
<1>5. \A k \in Keys : store'[k] = IF Replay(k, disk'.wal).id = 0 THEN Absent ELSE Replay(k, disk'.wal)
      BY <1>2, <1>3
<1>6. disk'.wal \in Seq(Frame(told.appends))
  <2>1. SubSeq(wal.batch, 1, n) \in Seq(Frame(told.appends))
        BY Parts, PrefixType
  <2>2. PICK m, s, t : m = told.appends /\ s = disk.wal /\ t = SubSeq(wal.batch, 1, n)
        OBVIOUS
  <2>3. m \in Nat /\ s \in Seq(Frame(m)) /\ t \in Seq(Frame(m))
        BY <2>1, <2>2, Parts
  <2>4. s \o t \in Seq(Frame(m))
        BY ONLY <2>3, Extended
  <2> QED BY <1>3, <2>2, <2>4
<1>7. /\ reader' = SamePath /\ recovery' = NoRecovery /\ ~disabled' /\ compaction' = NoCompaction
      /\ told'.rejected = {} /\ told'.acked = told.acked
      BY <1>1 DEF CrashAndOpen, Told
<1>8. ControlInv' /\ SoundEnd' = Len(disk'.wal)
  <2>1. Len(disk'.wal) \in Nat /\ recovery'.pc = "idle"
        BY <1>6, <1>7 DEF NoRecovery
  <2> QED BY <1>4, <1>7, <2>1, FreshControl
<1> QED BY <1>3, <1>4, <1>5, <1>6, <1>7, <1>8

\* The sizes, the recovery and the copied tail stay as they should, whatever step is
\* taken.
LEMMA NextControl ==
    ASSUME TypeInv, OffsetInv, ControlInv, Next, ~CompactWhileRecovering
    PROVE  ControlInv'
<1>1. CASE \E w \in Writers : Writer(w)
      BY <1>1, WriterControl
<1>2. CASE StartBatch \/ BatchLands \/ BatchFails
      BY <1>2, BatchControl
<1>3. CASE Recover
      BY <1>3, RecoverControl
<1>4. CASE CopyStep
      BY <1>4, CopyStepControl
<1>5. CASE RenameSnapshot \/ RenameWal
      BY <1>5, RenameControl
<1>6. CASE OpenFresh \/ RollForward
  <2>1. CASE Follows
        BY <2>1, FollowsEffect
  <2>2. CASE Resumes
        BY <2>2, ResumesEffect
  <2>3. OpenFresh => compaction.rotated
        BY DEF OpenFresh, ControlInv, Compacting
  <2> QED BY <1>6, <2>1, <2>2, <2>3 DEF Follows, Resumes
<1>7. CASE CrashAndOpen
      BY <1>7, CrashEffect
<1> QED BY <1>1, <1>2, <1>3, <1>4, <1>5, <1>6, <1>7 DEF Next, Compact, CopyStep

-----------------------------------------------------------------------------
(* Steps that keep what is landed.                                             *)

\* With nothing in flight, what is landed is what the store holds.
LEMMA NoFrames ==
    ASSUME NEW k
    PROVE  /\ wal.batch = <<>> /\ wal.queue = <<>> =>
                  /\ Landed(k) = store[k] /\ Flying(k) = {} /\ Suspects(k) = told.rejected
           /\ wal'.batch = <<>> /\ wal'.queue = <<>> =>
                  /\ Landed(k)' = store'[k] /\ Flying(k)' = {} /\ Suspects(k)' = told'.rejected
<1>1. ~Has(<<>>, k) /\ IdsOf(<<>>, k) = {}
      BY DEF Has, IdsOf
<1>2. ASSUME wal.batch = <<>>, wal.queue = <<>>
      PROVE  Landed(k) = store[k] /\ Flying(k) = {} /\ Suspects(k) = told.rejected
      BY <1>1, <1>2 DEF Landed, Latest, Flying, Suspects
<1>3. ASSUME wal'.batch = <<>>, wal'.queue = <<>>
      PROVE  Landed(k)' = store'[k] /\ Flying(k)' = {} /\ Suspects(k)' = told'.rejected
      BY <1>1, <1>3 DEF Landed, Latest, Flying, Suspects
<1> QED BY <1>2, <1>3

\* With no frame in flight, no group has touched a key.
LEMMA FlightFresh ==
    ASSUME NEW k \in Keys, wal'.batch = <<>>, wal'.queue = <<>>,
           wal'.batchGroup = NoGroup, wal'.queueGroup = NoGroup
    PROVE  Flight(k)'
<1>1. ~Has(<<>>, k) /\ IdsOf(<<>>, k) = {}
      BY DEF Has, IdsOf
<1>2. ~Touched(NoGroup, k)
      BY DEF Touched, NoGroup
<1>3. Flying(k)' = {}
      BY <1>1 DEF Flying
<1> QED BY <1>1, <1>2, <1>3 DEF Flight

\* The new log of a reopened file.
LEMMA FreshWalFields ==
    ASSUME NEW n, wal' = FreshWal(n)
    PROVE  /\ wal'.batch = <<>> /\ wal'.queue = <<>>
           /\ wal'.batchGroup = NoGroup /\ wal'.queueGroup = NoGroup
           /\ wal'.state = "open" /\ ~wal'.poison.poisoned
BY DEF FreshWal, NotPoisoned

\* The log is the same or a part of it, and nothing that was sound is lost.
KeepsSound ==
    /\ disk'.snap = disk.snap /\ SoundEnd' = SoundEnd /\ reader' = reader
    /\ disk'.wal \in Seq(Frame(told.appends))
    /\ Len(disk'.wal) <= Len(disk.wal) /\ SoundEnd <= Len(disk'.wal)
    /\ \A i \in 1..Len(disk'.wal) : disk'.wal[i] = disk.wal[i]

\* Files nobody touches, and a log cut down to its sound part, keep what is sound.
LEMMA SameFiles ==
    ASSUME TypeInv, Recovering, UNCHANGED <<disk, reader>>, SoundEnd' = SoundEnd
    PROVE  KeepsSound
<1>1. SoundEnd \in 0..Len(disk.wal) /\ Len(disk.wal) \in Nat /\ disk.wal \in Seq(Frame(told.appends))
      BY Parts DEF Recovering
<1>2. SoundEnd <= Len(disk.wal) /\ Len(disk.wal) <= Len(disk.wal)
      BY ONLY <1>1
<1>3. disk'.wal = disk.wal /\ disk'.snap = disk.snap
      OBVIOUS
<1> QED BY <1>1, <1>2, <1>3 DEF KeepsSound

LEMMA SoundKept ==
    ASSUME TypeInv, Recovering, KeepsSound, NEW k
    PROVE  FilesKept(k)
<1>1. SoundEnd \in Nat /\ ReadEnd \in Nat
      BY SoundType
<1>2. /\ disk'.snap = disk.snap /\ SoundEnd' = SoundEnd /\ reader' = reader
      /\ SoundEnd <= Len(disk'.wal)
      /\ \A i \in 1..Len(disk'.wal) : disk'.wal[i] = disk.wal[i]
      /\ Len(disk'.wal) \in Nat
      BY DEF KeepsSound
<1>3. \A i \in 1..SoundEnd : disk'.wal[i] = disk.wal[i]
      BY <1>1, <1>2
<1>4. ReadEnd' = ReadEnd /\ ReadSnap'[k] = ReadSnap[k]
      BY <1>2 DEF ReadEnd, ReadSnap
<1>5. \A i \in 1..ReadEnd : ReadLog'[i] = ReadLog[i]
  <2>1. CASE reader.walOld
        BY <1>2, <2>1 DEF ReadLog, ReadEnd
  <2>2. CASE ~reader.walOld
        BY <1>2, <1>3, <2>2 DEF ReadLog, ReadEnd
  <2> QED BY <2>1, <2>2
<1>6. NoneIn(disk'.wal, SoundEnd, SoundEnd', k) /\ NoneIn(ReadLog', ReadEnd, ReadEnd', k)
  <2>1. PICK n, m, s, t : n = SoundEnd /\ m = ReadEnd /\ s = disk'.wal /\ t = ReadLog'
        OBVIOUS
  <2>2. n \in Nat /\ m \in Nat
        BY <1>1, <2>1
  <2>3. NoneIn(s, n, n, k) /\ NoneIn(t, m, m, k)
        BY ONLY <2>2, NoneInSame
  <2> QED BY <1>2, <1>4, <2>1, <2>3
<1>7. SoundEnd <= SoundEnd' /\ ReadEnd <= ReadEnd' /\ SoundEnd' \in Nat /\ ReadEnd' \in Nat
      BY <1>1, <1>2, <1>4
<1> QED BY <1>2, <1>3, <1>4, <1>5, <1>6, <1>7 DEF FilesKept

\* Frames of a part of a log are in order, as those of the log are.
LEMMA OrderOfPart ==
    ASSUME NEW n \in Nat, NEW s \in Seq(Frame(n)), NEW t \in Seq(Frame(n)), NEW b, NEW q,
           Len(t) <= Len(s), \A i \in 1..Len(t) : t[i] = s[i],
           Rises(s), Before(s, b), Before(s, q)
    PROVE  Rises(t) /\ Before(t, b) /\ Before(t, q)
<1> DEFINE F == Frame(n)
<1> HIDE DEF F
<1>1. /\ DOMAIN s = 1..Len(s) /\ DOMAIN t = 1..Len(t) /\ Len(s) \in Nat /\ Len(t) \in Nat
      BY DEF F
<1>2. DOMAIN t \subseteq DOMAIN s
      BY <1>1
<1>3. \A i \in DOMAIN t : t[i] = s[i]
      BY <1>1
<1>4. Rises(t)
      BY <1>2, <1>3 DEF Rises
<1>5. Before(t, b) /\ Before(t, q)
      BY <1>2, <1>3 DEF Before
<1> QED BY <1>4, <1>5

\* A step that keeps what is sound and moves no record keeps data in order.
LEMMA SoundStep ==
    ASSUME TypeInv, ControlInv, DataInv, SameWal, KeepsSound, UNCHANGED <<store, told>>,
           disabled => disabled',
           \A k \in Keys : Collected(k)' \/
               (compaction'.pc \in CopyPc \ {"snapshot"} \/ compaction'.rotated =>
                   /\ compaction.pc \in CopyPc \ {"snapshot"} \/ compaction.rotated
                   /\ compaction'.base = compaction.base /\ compaction'.snap = compaction.snap)
    PROVE  DataInv'
<1>1. /\ Order /\ NotRejected /\ KeysInv /\ Recovering
      BY DEF DataInv, ControlInv
<1>2. /\ wal'.batch = wal.batch /\ wal'.queue = wal.queue
      /\ wal'.batchGroup = wal.batchGroup /\ wal'.queueGroup = wal.queueGroup
      BY DEF SameWal
<1>3. /\ SoundEnd' = SoundEnd /\ SoundEnd \in Nat /\ SoundEnd <= Len(disk'.wal)
      /\ disk'.wal \in Seq(Frame(told.appends)) /\ Len(disk'.wal) \in Nat
      /\ Len(disk'.wal) <= Len(disk.wal) /\ Len(disk.wal) \in Nat
      /\ \A i \in 1..Len(disk'.wal) : disk'.wal[i] = disk.wal[i]
      BY SoundType DEF KeepsSound
<1>5. Order'
  <2>1. PICK n, s, t, b, q :
            /\ n = told.appends /\ s = disk.wal /\ t = disk'.wal /\ b = wal.batch /\ q = wal.queue
        OBVIOUS
  <2>2. /\ n \in Nat /\ s \in Seq(Frame(n)) /\ t \in Seq(Frame(n))
        /\ Len(t) <= Len(s) /\ \A i \in 1..Len(t) : t[i] = s[i]
        BY <1>3, <2>1, Parts
  <2>3. Rises(s) /\ Before(s, b) /\ Before(s, q)
        BY <1>1, <2>1 DEF Order
  <2>4. Rises(t) /\ Before(t, b) /\ Before(t, q)
        BY ONLY <2>2, <2>3, OrderOfPart
  <2> QED BY <1>1, <1>2, <2>1, <2>4 DEF Order
<1>6. NotRejected'
  <2>1. 1..SoundEnd \subseteq 1..Len(disk'.wal) /\ 1..Len(disk'.wal) \subseteq 1..Len(disk.wal)
        BY <1>3
  <2>2. (Ids(wal'.batch) \cup Ids(wal'.queue)) \cap told'.rejected = {}
        BY <1>1, <1>2 DEF NotRejected
  <2>3. ~disabled' => \A i \in 1..SoundEnd' : disk'.wal[i].id \notin told'.rejected
        BY <1>1, <1>3, <2>1 DEF NotRejected
  <2>5. ASSUME NEW i \in 1..Len(disk'.wal), i > SoundEnd'
        PROVE  (disk.wal[i].id \in told.rejected /\ Landed(disk.wal[i].key).id < disk.wal[i].id)'
    <3>1. i \in 1..Len(disk.wal) /\ i > SoundEnd /\ disk'.wal[i] = disk.wal[i]
          BY <1>3, <2>1, <2>5
    <3>2. disk.wal[i].id \in told.rejected /\ Landed(disk.wal[i].key).id < disk.wal[i].id
          BY <1>1, <3>1 DEF NotRejected
    <3>3. PICK key : key = disk.wal[i].key
          OBVIOUS
    <3>4. Landed(key)' = Landed(key)
          BY LandedAlone
    <3>5. (disk.wal[i].key)' = key
          BY <3>1, <3>3
    <3>6. Landed(disk.wal[i].key)' = Landed(key)'
          BY <3>5
    <3> QED BY <3>1, <3>2, <3>3, <3>4, <3>6
  <2> QED BY <2>2, <2>3, <2>5 DEF NotRejected
<1>7. KeysInv'
  <2> SUFFICES ASSUME NEW k \in Keys PROVE Flight(k)' /\ OnDisk(k)' /\ Collected(k)'
      BY DEF KeysInv
  <2>1. Flight(k) /\ OnDisk(k) /\ Collected(k)
        BY <1>1 DEF KeysInv
  <2>2. Landed(k)' = Landed(k) /\ Suspects(k) \subseteq Suspects(k)' /\ Flight(k)'
        BY <2>1, LandedAlone
  <2>3. FilesKept(k)
        BY <1>1, SoundKept
  <2>4. OnDisk(k)'
        BY <1>1, <2>1, <2>2, <2>3, OnDiskKept
  <2>5. Collected(k)'
        BY <2>1, <2>2, <2>3, CollectedKept
  <2> QED BY <2>2, <2>4, <2>5
<1> QED BY <1>5, <1>6, <1>7 DEF DataInv

\* A record collected by a compaction is one the files hold, or one in flight.
LEMMA CollectFits ==
    ASSUME TypeInv, ControlInv, RollInv, NEW k \in Keys, Flight(k), OnDisk(k),
           compaction.pc = "snapshot"
    PROVE  Fits(Read(k), Landed(k), Suspects(k))
<1>1. ~reader.walOld
      BY DEF ControlInv, Compacting
<1>2. /\ ReadLog = disk.wal /\ ReadEnd = SoundEnd
      /\ SoundEnd \in Nat /\ SoundEnd <= Len(disk.wal) /\ Len(disk.wal) \in Nat
  <2>1. SoundEnd \in 0..Len(disk.wal) /\ Len(disk.wal) \in Nat
        BY Parts DEF ControlInv, Recovering
  <2>2. SoundEnd \in Nat /\ SoundEnd <= Len(disk.wal)
        BY ONLY <2>1
  <2> QED BY <1>1, <2>1, <2>2 DEF ReadLog, ReadEnd
<1>3. store[k] \in Record(told.appends)
      BY Parts
<1>4. CASE store[k].id # Landed(k).id
  <2>1. Has(wal.queue, k) \/ Has(wal.batch, k)
        BY <1>4 DEF Landed, Latest
  <2>2. store[k].loc = InMemory /\ store[k].id \in Flying(k)
    <3>1. ASSUME Has(wal.queue, k) PROVE store[k].loc = InMemory /\ store[k].id \in Flying(k)
      <4>1. Top(wal.queue, k, store[k].id) /\ store[k].loc = InMemory
            BY <3>1 DEF Flight
      <4>2. PICK i \in 1..Len(wal.queue) : LastAt(wal.queue, Len(wal.queue), k, i) /\ wal.queue[i].id = store[k].id
            BY <4>1 DEF Top
      <4>3. wal.queue[i].key = k /\ i \in DOMAIN wal.queue
            BY <4>2, Parts DEF LastAt
      <4> QED BY <4>1, <4>2, <4>3 DEF Flying, IdsOf
    <3>2. ASSUME Has(wal.batch, k), ~Has(wal.queue, k) PROVE store[k].loc = InMemory /\ store[k].id \in Flying(k)
      <4>1. Latest(k) = store[k]
            BY <3>2 DEF Latest
      <4>2. Top(wal.batch, k, store[k].id) /\ store[k].loc = InMemory
            BY <3>2, <4>1 DEF Flight
      <4>3. PICK i \in 1..Len(wal.batch) : LastAt(wal.batch, Len(wal.batch), k, i) /\ wal.batch[i].id = store[k].id
            BY <4>2 DEF Top
      <4>4. wal.batch[i].key = k /\ i \in DOMAIN wal.batch
            BY <4>3, Parts DEF LastAt
      <4> QED BY <4>2, <4>3, <4>4 DEF Flying, IdsOf
    <3> QED BY <2>1, <3>1, <3>2
  <2>3. Read(k) = store[k].id
        BY <2>2 DEF Read, InMemory
  <2>4. Landed(k).id < store[k].id
        BY <2>2 DEF Flight
  <2>5. Landed(k).id \in Nat /\ store[k].id \in Nat
        BY <1>3, LandedType DEF Record
  <2> QED BY <2>2, <2>3, <2>4, <2>5 DEF Fits, Suspects
<1>5. CASE store[k].id = Landed(k).id
  <2>1. CASE store[k].loc.file = "memory"
        BY <1>5, <2>1 DEF Read, Fits
  <2>2. CASE store[k].loc.file # "memory"
    <3>1. store[k] = Landed(k)
      <4>1. ~Has(wal.queue, k)
            BY <2>2 DEF Flight, InMemory
      <4>2. Latest(k) = store[k]
            BY <4>1 DEF Latest
      <4>3. ~Has(wal.batch, k)
            BY <2>2, <4>2 DEF Flight, InMemory
      <4> QED BY <4>2, <4>3 DEF Landed
    <3>2. PointsTo(disk.wal, SoundEnd, ReadSnap[k], store[k], Suspects(k))
          BY <1>2, <3>1 DEF OnDisk
    <3>3. store[k].loc \in Locs
          BY <1>3 DEF Record
    <3>4. CASE store[k].loc.file = "wal"
      <4>1. store[k].loc.off < SoundEnd /\ disk.wal[store[k].loc.off + 1].id = store[k].id
            BY <3>2, <3>4 DEF PointsTo
      <4>2. store[k].loc.off < Len(disk.wal)
            BY <1>2, <3>3, <4>1 DEF Locs
      <4>3. Read(k) = store[k].id
            BY <1>1, <3>4, <4>1, <4>2 DEF Read
      <4> QED BY <1>5, <4>3 DEF Fits
    <3>5. CASE store[k].loc.file = "snapshot"
      <4>1. Read(k) = ReadSnap[k]
            BY <3>5 DEF Read, ReadSnap
      <4>2. Fits(ReadSnap[k], store[k], Suspects(k))
            BY <3>2, <3>5 DEF PointsTo
      <4> QED BY <3>1, <4>1, <4>2
    <3> QED BY <2>2, <3>3, <3>4, <3>5 DEF Locs
  <2> QED BY <2>1, <2>2
<1> QED BY <1>4, <1>5

\* The steps of a compaction before its renames, and those that give it up.
LEMMA CopyStepData ==
    ASSUME TypeInv, OffsetInv, RollInv, ControlInv, DataInv, CopyStep, ~CompactWhileRecovering
    PROVE  DataInv'
<1>1. /\ UNCHANGED <<store, disk, reader, recovery, disabled, told>>
      /\ SameWal /\ SoundEnd' = SoundEnd
      BY CopyStepEffect
<1>2. KeepsSound
      BY <1>1, SameFiles DEF ControlInv
<1>3. Compacting /\ KeysInv
      BY DEF ControlInv, DataInv
<1>4. ASSUME NEW k \in Keys
      PROVE  Collected(k)' \/
               (compaction'.pc \in CopyPc \ {"snapshot"} \/ compaction'.rotated =>
                   /\ compaction.pc \in CopyPc \ {"snapshot"} \/ compaction.rotated
                   /\ compaction'.base = compaction.base /\ compaction'.snap = compaction.snap)
  <2>1. CASE ToFence \/ ToSnapshot
    <3>1. ~compaction'.rotated
          BY <1>3, <2>1 DEF ToFence, ToSnapshot, Compacting
    <3> QED BY <2>1, <3>1 DEF ToFence, ToSnapshot, CopyPc
  <2>2. CASE ToWrite
    <3>1. Fits(Read(k), Landed(k), Suspects(k))
          BY <1>3, <2>2, CollectFits DEF ToWrite, KeysInv
    <3>2. Landed(k)' = Landed(k) /\ Suspects(k) \subseteq Suspects(k)'
          BY <1>1, LandedAlone
    <3>3. Fits(Read(k), Landed(k), Suspects(k)')
      <4>1. PICK id, rec, S, T : id = Read(k) /\ rec = Landed(k) /\ S = Suspects(k) /\ T = Suspects(k)'
            OBVIOUS
      <4>2. S \subseteq T /\ Fits(id, rec, S)
            BY <3>1, <3>2, <4>1
      <4>3. Fits(id, rec, T)
            BY ONLY <4>2, FitsMore
      <4> QED BY <4>1, <4>3
    <3>4. compaction'.snap[k] = Read(k)
          BY <2>2 DEF ToWrite
    <3>5. Fits(compaction'.snap[k], Landed(k)', Suspects(k)')
          BY <3>2, <3>3, <3>4
    <3>6. SnapFits(k, ReadLog', compaction'.base, ReadEnd', compaction'.snap[k], Landed(k)', Suspects(k)')
          BY <3>5 DEF SnapFits
    <3> QED BY <3>6 DEF Collected
  <2>3. CASE BackToPreCopy \/ ToCopy \/ ToDrain \/ ToRename
        BY <2>3 DEF BackToPreCopy, ToCopy, ToDrain, ToRename, SameCopy, MoreCopied, CopyPc
  <2>4. CASE ToRollForward
        BY <1>3, <2>4 DEF ToRollForward, Compacting, CopyPc
  <2>5. CASE Ended
        BY <2>5 DEF Ended, CopyPc
  <2> QED BY <1>3, <2>1, <2>2, <2>3, <2>4, <2>5, CopyPhase
<1> QED BY <1>1, <1>2, <1>4, SoundStep

\* The cut of a log stops where it was sound.
LEMMA CutData ==
    ASSUME TypeInv, OffsetInv, ControlInv, DataInv, Cut \/ Refresh
    PROVE  DataInv'
<1>1. Recovering
      BY DEF ControlInv
<1>2. KeepsSound /\ SameWal /\ UNCHANGED <<store, disabled, compaction, told>>
  <2>1. CASE Cut
    <3>1. /\ SoundEnd \in 0..Len(disk.wal) /\ disk'.snap = disk.snap
          /\ disk'.wal \in Seq(Frame(told.appends)) /\ Len(disk'.wal) = SoundEnd
          /\ \A i \in 1..SoundEnd : disk'.wal[i] = disk.wal[i]
          /\ SameWal /\ SoundEnd' = SoundEnd
          /\ UNCHANGED <<store, reader, disabled, compaction, told>>
          BY <1>1, <2>1, CutEffect
    <3>2. SoundEnd \in Nat /\ Len(disk.wal) \in Nat
          BY SoundType
    <3>3. Len(disk'.wal) <= Len(disk.wal) /\ SoundEnd <= Len(disk'.wal)
          BY <3>1, <3>2
    <3> QED BY <3>1, <3>3 DEF KeepsSound
  <2>2. CASE Refresh
    <3>1. SameWal /\ SoundEnd' = SoundEnd /\ UNCHANGED <<store, disk, reader, disabled, compaction, told>>
          BY <1>1, <2>2, RefreshEffect
    <3> QED BY <1>1, <3>1, SameFiles
  <2> QED BY <2>1, <2>2
<1> QED BY <1>2, SoundStep

\* With writes disabled the rest of the log counts as well: what it holds of a key is
\* rejected and newer than what landed.
LEMMA GrownStep ==
    ASSUME TypeInv, ControlInv, DataInv, UNCHANGED <<store, disk, reader, told>>,
           wal.batch = <<>>, wal.queue = <<>>, wal'.batch = <<>>, wal'.queue = <<>>,
           \A k \in Keys : Flight(k)', ~reader.walOld,
           disabled', SoundEnd' = Len(disk.wal),
           compaction'.pc \notin CopyPc \ {"snapshot"}, ~compaction'.rotated
    PROVE  DataInv'
<1>1. Order /\ NotRejected /\ KeysInv /\ Recovering
      BY DEF DataInv, ControlInv
<1>2. /\ SoundEnd \in Nat /\ SoundEnd <= Len(disk.wal) /\ Len(disk.wal) \in Nat
  <2>1. SoundEnd \in 0..Len(disk.wal) /\ Len(disk.wal) \in Nat
        BY <1>1, Parts DEF Recovering
  <2> QED BY ONLY <2>1
<1>3. Order'
      BY <1>1 DEF Order
<1>4. NotRejected'
  <2>1. (Ids(wal'.batch) \cup Ids(wal'.queue)) \cap told'.rejected = {}
        BY DEF Ids
  <2>2. ASSUME NEW i \in 1..Len(disk.wal) PROVE ~(i > SoundEnd')
        BY <1>2
  <2>3. disk'.wal = disk.wal
        OBVIOUS
  <2> QED BY <2>1, <2>2, <2>3 DEF NotRejected
<1>5. ASSUME NEW k \in Keys PROVE OnDisk(k)' /\ Collected(k)'
  <2>1. /\ OnDisk(k) /\ Landed(k) = store[k] /\ Landed(k)' = Landed(k)
        /\ Suspects(k) = told.rejected /\ Suspects(k)' = told.rejected
        BY <1>1, NoFrames DEF KeysInv
  <2>2. PICK n, m, log, id, rec, S :
            /\ n = SoundEnd /\ m = Len(disk.wal) /\ log = disk.wal
            /\ id = disk.snap[k] /\ rec = Landed(k) /\ S = told.rejected
        OBVIOUS
  <2>3. /\ n \in Nat /\ m \in Nat /\ n <= m /\ FilesFit(k, log, n, id, rec, S)
        /\ PointsTo(log, n, ReadSnap[k], rec, S)
    <3>1. ReadLog = disk.wal /\ ReadEnd = SoundEnd
          BY DEF ReadLog, ReadEnd
    <3> QED BY <1>2, <2>1, <2>2, <3>1 DEF OnDisk
  <2>4. ASSUME NEW i \in 1..m, i > n, log[i].key = k
        PROVE  log[i].id \in S /\ rec.id < log[i].id
        BY <1>1, <2>2, <2>4 DEF NotRejected
  <2>5. rec.id \in Nat /\ rec.loc.off \in Nat
        BY <1>1, <2>2, LandedType DEF KeysInv, Locs
  <2>6. FilesFit(k, log, m, id, rec, S)
    <3>1. CASE NoneIn(log, n, m, k)
          BY ONLY <2>3, <3>1, FilesFitKept
    <3>2. CASE ~NoneIn(log, n, m, k)
      <4>1. PICK j \in 1..m : j > n /\ log[j].key = k
            BY <3>2 DEF NoneIn
      <4>2. ~NoneIn(log, 0, m, k)
            BY <4>1 DEF NoneIn
      <4>3. ASSUME NEW i \in 1..m, LastAt(log, m, k, i) PROVE Fits(log[i].id, rec, S)
        <5>1. j <= i /\ log[i].key = k
              BY <4>1, <4>3 DEF LastAt
        <5>2. i > n
              BY <2>3, <4>1, <5>1
        <5>3. log[i].id \in S /\ rec.id < log[i].id
              BY <2>4, <5>1, <5>2
        <5>4. log[i].id \in Nat
          <6>1. S \subseteq Nat
                BY <2>2, Parts
          <6> QED BY <5>3, <6>1
        <5> QED BY <2>5, <5>3, <5>4 DEF Fits
      <4> QED BY <4>2, <4>3 DEF FilesFit
    <3> QED BY <3>1, <3>2
  <2>7. PointsTo(log, m, ReadSnap[k], rec, S)
    <3>1. PICK rid : rid = ReadSnap[k]
          OBVIOUS
    <3>2. PointsTo(log, n, rid, rec, S)
          BY <2>3, <3>1
    <3>3. S \subseteq S /\ \A i \in 1..n : log[i] = log[i]
          OBVIOUS
    <3>4. PointsTo(log, m, rid, rec, S)
          BY ONLY <2>3, <2>5, <3>2, <3>3, PointsToKept
    <3> QED BY <3>1, <3>4
  <2>8. OnDisk(k)'
    <3>1. ReadLog' = log /\ ReadEnd' = m /\ ReadSnap'[k] = ReadSnap[k]
          BY <2>2 DEF ReadLog, ReadEnd, ReadSnap
    <3>2. FilesFit(k, disk'.wal, SoundEnd', disk'.snap[k], Landed(k)', Suspects(k)')
          BY <2>1, <2>2, <2>6
    <3>3. PointsTo(ReadLog', ReadEnd', ReadSnap'[k], Landed(k)', Suspects(k)')
          BY <2>1, <2>2, <2>7, <3>1
    <3>4. told'.acked[k] <= Landed(k)'.id
          BY <2>1 DEF OnDisk
    <3> QED BY <3>2, <3>3, <3>4 DEF OnDisk
  <2>9. Collected(k)'
        BY DEF Collected
  <2> QED BY <2>8, <2>9
<1>6. KeysInv'
      BY <1>5 DEF KeysInv
<1> QED BY <1>3, <1>4, <1>6 DEF DataInv

\* A cut that fails disables writes, and a rotation that failed before its commit
\* point resumes with the log as it was.
LEMMA CutFailsData ==
    ASSUME TypeInv, OffsetInv, ControlInv, DataInv, CutFails
    PROVE  DataInv'
<1>1. /\ recovery.pc = "truncate" /\ wal.batch = <<>> /\ wal.queue = <<>>
      /\ disabled'
      /\ wal.poison.poisoned => SoundEnd' = SoundEnd
      /\ ~wal.poison.poisoned => SoundEnd' = Len(disk.wal)
      /\ UNCHANGED <<store, wal, disk, reader, compaction, told>>
      BY CutFailsEffect DEF ControlInv
<1>2. Compacting /\ Recovering /\ KeysInv
      BY DEF ControlInv, DataInv
<1>3. SameWal
      BY <1>1 DEF SameWal
<1>4. CASE wal.poison.poisoned
  <2>1. KeepsSound
        BY <1>1, <1>2, <1>4, SameFiles
  <2> QED BY <1>1, <1>3, <2>1, SoundStep
<1>5. CASE ~wal.poison.poisoned
  <2>1. ~reader.walOld
        BY <1>1, <1>2 DEF Compacting
  <2>2. ~compaction.rotated
        BY <1>2, <2>1 DEF Compacting
  <2>3. compaction.pc \notin CopyPc
        BY <1>1, <1>2, <1>5 DEF Compacting, CopyPc
  <2>4. ASSUME NEW k \in Keys PROVE Flight(k)'
        BY <1>1, <1>2, <1>3, LandedAlone DEF KeysInv
  <2> QED BY <1>1, <1>5, <2>1, <2>2, <2>3, <2>4, GrownStep
<1> QED BY <1>4, <1>5

LEMMA ResumesData ==
    ASSUME TypeInv, OffsetInv, ControlInv, DataInv, Resumes
    PROVE  DataInv'
<1>1. /\ wal.batch = <<>> /\ wal.queue = <<>> /\ ~reader.walOld
      /\ wal' = FreshWal(Len(disk.wal)) /\ compaction' = NoCompaction
      /\ \/ SoundEnd' = SoundEnd
         \/ SoundEnd' = Len(disk.wal) /\ disabled
      /\ UNCHANGED <<store, disk, reader, recovery, disabled, told>>
      BY ResumesEffect
<1>2. /\ wal'.batch = <<>> /\ wal'.queue = <<>>
      /\ wal'.batchGroup = NoGroup /\ wal'.queueGroup = NoGroup
      BY <1>1, FreshWalFields
<1>3. compaction'.pc \notin CopyPc /\ ~compaction'.rotated
      BY <1>1 DEF NoCompaction, CopyPc
<1>4. ASSUME NEW k \in Keys PROVE Flight(k)'
      BY <1>2, FlightFresh
<1>5. CASE SoundEnd' = Len(disk.wal) /\ disabled
  <2>1. disabled'
        BY <1>1, <1>5
  <2> QED BY <1>1, <1>2, <1>3, <1>4, <1>5, <2>1, GrownStep
<1>6. CASE SoundEnd' = SoundEnd
  <2>1. KeepsSound
        BY <1>1, <1>6, SameFiles DEF ControlInv
  <2>2. SameWal
    <3>1. ASSUME NEW k \in Keys PROVE wal.batchGroup[k] = NoGroup[k] /\ wal.queueGroup[k] = NoGroup[k]
      <4>1. Flight(k)
            BY DEF DataInv, KeysInv
      <4>2. ~Has(<<>>, k)
            BY DEF Has
      <4>3. ~Touched(wal.batchGroup, k) /\ ~Touched(wal.queueGroup, k)
            BY <1>1, <4>1, <4>2 DEF Flight
      <4> QED BY <4>3 DEF Touched, NoGroup
    <3>2. /\ wal.batchGroup \in [Keys -> Captured(told.appends)]
          /\ wal.queueGroup \in [Keys -> Captured(told.appends)]
          BY Parts
    <3>3. NoGroup = [k \in Keys |-> NoGroup[k]]
          BY DEF NoGroup
    <3>4. wal.batchGroup = NoGroup /\ wal.queueGroup = NoGroup
          BY <3>1, <3>2, <3>3
    <3> QED BY <1>1, <1>2, <3>4 DEF SameWal
  <2> QED BY <1>1, <1>3, <2>1, <2>2, SoundStep
<1> QED BY <1>1, <1>5, <1>6

-----------------------------------------------------------------------------
(* A new write.                                                                *)

\* A queue with one more frame.
LEMMA Appended ==
    ASSUME NEW n \in Nat, NEW s \in Seq(Frame(n)), NEW m, NEW frame \in Frame(m)
    PROVE  /\ Len(Append(s, frame)) = Len(s) + 1
           /\ DOMAIN Append(s, frame) = 1..(Len(s) + 1) /\ DOMAIN s = 1..Len(s)
           /\ \A i \in 1..Len(s) : Append(s, frame)[i] = s[i]
           /\ Append(s, frame)[Len(s) + 1] = frame
           /\ Len(s) \in Nat
<1> DEFINE F == Frame(n)
<1> HIDE DEF F
<1>1. s \in Seq(F)
      BY DEF F
<1> QED BY <1>1

\* What an append and its write to the store assign.
LEMMA AppendEffect ==
    ASSUME TypeInv, NEW w \in Writers, op[w].pc # "none", AppendAndApply(w),
           NEW a, a = op[w].key, NEW m, m = told.appends + 1, NEW frame, frame = [id |-> m, key |-> a]
    PROVE  /\ a \in Keys /\ m \in Nat /\ frame \in Frame(m) /\ frame.id = m /\ frame.key = a
           /\ wal.state = "open" /\ ~wal.poison.poisoned
           /\ wal'.state = wal.state /\ wal'.poison = wal.poison
           /\ wal'.batch = wal.batch /\ wal'.queue = Append(wal.queue, frame)
           /\ wal'.batchGroup = wal.batchGroup /\ wal'.queueGroup = Note(wal.queueGroup, a)
           /\ store' = [store EXCEPT ![a] = [id |-> m, loc |-> InMemory]]
           /\ told'.acked = told.acked /\ told'.rejected = told.rejected
           /\ recovery' = recovery
<1>1. wal \in Wal(told.appends) /\ told \in Told(told.appends) /\ told.appends \in Nat
      BY DEF TypeInv, TypedAt, Told
<1>2. a \in Keys
      BY DEF TypeInv, CallsTyped
<1>3. wal' = [wal EXCEPT !.queue = Append(@, frame), !.nextOffset = @ + 1, !.queueGroup = Note(@, a)]
      BY DEF AppendAndApply
<1>4. /\ wal'.state = wal.state /\ wal'.poison = wal.poison
      /\ wal'.batch = wal.batch /\ wal'.queue = Append(wal.queue, frame)
      /\ wal'.batchGroup = wal.batchGroup /\ wal'.queueGroup = Note(wal.queueGroup, a)
      BY <1>1, <1>3 DEF Wal
<1>5. told'.acked = told.acked /\ told'.rejected = told.rejected
      BY <1>1 DEF AppendAndApply, Told
<1>6. /\ wal.state = "open" /\ ~wal.poison.poisoned /\ recovery' = recovery
      /\ store' = [store EXCEPT ![a] = [id |-> m, loc |-> InMemory]]
      BY DEF AppendAndApply
<1>7. frame \in Frame(m) /\ m \in Nat
      BY <1>1, <1>2 DEF Frame
<1> QED BY <1>2, <1>4, <1>5, <1>6, <1>7

\* Every frame is older than a new write.
LEMMA AppendOrder ==
    ASSUME TypeInv, Order, disk' = disk, wal'.batch = wal.batch,
           NEW m, m = told.appends + 1, NEW frame \in Frame(m), frame.id = m,
           wal'.queue = Append(wal.queue, frame)
    PROVE  Order'
<1>1. PICK n, s, b, q, t :
          n = told.appends /\ s = disk.wal /\ b = wal.batch /\ q = wal.queue /\ t = wal'.queue
      OBVIOUS
<1>2. /\ n \in Nat /\ s \in Seq(Frame(n)) /\ b \in Seq(Frame(n)) /\ q \in Seq(Frame(n)) /\ m = n + 1
      BY <1>1, Parts
<1>3. /\ DOMAIN t = 1..(Len(q) + 1) /\ DOMAIN q = 1..Len(q) /\ Len(q) \in Nat
      /\ \A i \in 1..Len(q) : t[i] = q[i]
      /\ t[Len(q) + 1] = frame
  <2>1. t = Append(q, frame)
        BY <1>1
  <2> QED BY ONLY <1>2, <2>1, frame \in Frame(m), Appended
<1>4. ASSUME NEW x \in Seq(Frame(n)), NEW i \in DOMAIN x PROVE x[i].id \in Nat /\ x[i].id < m
  <2>1. x[i] \in Frame(n)
        BY <1>4
  <2> QED BY <1>2, <2>1 DEF Frame
<1>5. Rises(s) /\ Rises(b) /\ Rises(q) /\ Before(s, b) /\ Before(s, q) /\ Before(b, q)
      BY <1>1 DEF Order
<1>6. ASSUME NEW j \in DOMAIN t
      PROVE  (j \in DOMAIN q /\ t[j] = q[j]) \/ (j = Len(q) + 1 /\ t[j].id = m)
  <2>1. j \in 1..Len(q) \/ j = Len(q) + 1
        BY <1>3
  <2> QED BY <1>3, <2>1
<1>7. Rises(t)
  <2> SUFFICES ASSUME NEW i \in DOMAIN t, NEW j \in DOMAIN t, i < j PROVE t[i].id < t[j].id
      BY DEF Rises
  <2>1. i \in DOMAIN q /\ t[i] = q[i]
        BY <1>3
  <2>2. CASE j \in DOMAIN q /\ t[j] = q[j]
        BY <1>5, <2>1, <2>2 DEF Rises
  <2>3. CASE j = Len(q) + 1 /\ t[j].id = m
        BY <1>2, <1>4, <2>1, <2>3
  <2> QED BY <1>6, <2>2, <2>3
<1>8. ASSUME NEW x \in Seq(Frame(n)), Before(x, q) PROVE Before(x, t)
  <2> SUFFICES ASSUME NEW i \in DOMAIN x, NEW j \in DOMAIN t PROVE x[i].id < t[j].id
      BY DEF Before
  <2>1. CASE j \in DOMAIN q /\ t[j] = q[j]
        BY <1>8, <2>1 DEF Before
  <2>2. CASE j = Len(q) + 1 /\ t[j].id = m
        BY <1>4, <2>2
  <2> QED BY <1>6, <2>1, <2>2
<1>9. Before(s, t) /\ Before(b, t)
      BY <1>2, <1>5, <1>8
<1> QED BY <1>1, <1>5, <1>7, <1>9 DEF Order

\* A group remembers the record a new write replaces, so nothing that landed changes.
LEMMA AppendFlight ==
    ASSUME TypeInv, NEW k \in Keys, Flight(k),
           wal'.batch = wal.batch, wal'.batchGroup = wal.batchGroup,
           NEW a \in Keys, NEW m, m = told.appends + 1, NEW frame \in Frame(m), frame.id = m, frame.key = a,
           wal'.queue = Append(wal.queue, frame), wal'.queueGroup = Note(wal.queueGroup, a),
           store' = [store EXCEPT ![a] = [id |-> m, loc |-> InMemory]],
           told'.rejected = told.rejected
    PROVE  Flight(k)' /\ Landed(k)' = Landed(k) /\ Suspects(k) \subseteq Suspects(k)'
<1>0. PICK n, q, t : n = told.appends /\ q = wal.queue /\ t = wal'.queue
      OBVIOUS
<1>1. /\ n \in Nat /\ q \in Seq(Frame(n)) /\ m = n + 1 /\ t = Append(q, frame)
      BY <1>0, Parts
<1>2. /\ DOMAIN t = 1..(Len(q) + 1) /\ DOMAIN q = 1..Len(q) /\ Len(q) \in Nat /\ Len(t) = Len(q) + 1
      /\ \A i \in 1..Len(q) : t[i] = q[i]
      /\ t[Len(q) + 1] = frame
  <2> QED BY ONLY <1>1, frame \in Frame(m), Appended
<1>3. store \in [Keys -> Record(n)] /\ wal.queueGroup \in [Keys -> Captured(n)]
      BY <1>0, Parts
<1>4. Has(wal'.batch, k) <=> Has(wal.batch, k)
      OBVIOUS
<1>5. IdsOf(wal'.batch, k) = IdsOf(wal.batch, k)
      OBVIOUS
<1>6. CASE k # a
  <2>1. store'[k] = store[k] /\ wal'.queueGroup[k] = wal.queueGroup[k]
        BY <1>3, <1>6 DEF Note
  <2>2. \A j \in DOMAIN t : t[j].key = k => j \in DOMAIN q /\ t[j] = q[j]
        BY <1>2, <1>6
  <2>3. Has(t, k) <=> Has(q, k)
        BY <1>2, <2>2 DEF Has
  <2>4. IdsOf(t, k) = IdsOf(q, k)
    <3>1. {j \in DOMAIN t : t[j].key = k} = {j \in DOMAIN q : q[j].key = k}
          BY <1>2, <2>2
    <3>2. \A j \in {j \in DOMAIN t : t[j].key = k} : t[j].id = q[j].id
          BY <2>2
    <3> QED BY <3>1, <3>2 DEF IdsOf
  <2>5. \A id : Top(q, k, id) => Top(t, k, id)
    <3> SUFFICES ASSUME NEW id, Top(q, k, id) PROVE Top(t, k, id)
        OBVIOUS
    <3>1. PICK i \in 1..Len(q) : LastAt(q, Len(q), k, i) /\ q[i].id = id
          BY DEF Top
    <3>2. i \in 1..Len(t) /\ t[i] = q[i]
          BY <1>2
    <3>3. \A j \in 1..Len(t) : t[j].key = k => j <= i
          BY <1>2, <2>2, <3>1 DEF LastAt
    <3>4. LastAt(t, Len(t), k, i)
          BY <3>1, <3>2, <3>3 DEF LastAt
    <3> QED BY <3>1, <3>2, <3>4 DEF Top
  <2>6. Latest(k)' = Latest(k)
        BY <1>0, <2>1, <2>3 DEF Latest
  <2>7. Landed(k)' = Landed(k)
        BY <1>4, <2>6 DEF Landed
  <2>8. Flying(k)' = Flying(k)
        BY <1>0, <1>5, <2>4 DEF Flying
  <2>9. Suspects(k)' = Suspects(k)
        BY <2>8 DEF Suspects
  <2>10. Flight(k)'
    <3>1. Has(wal'.queue, k) <=> Touched(wal'.queueGroup, k)
          BY <1>0, <2>1, <2>3 DEF Flight, Touched
    <3>2. Has(wal'.batch, k) <=> Touched(wal'.batchGroup, k)
          BY DEF Flight
    <3>3. Has(wal'.queue, k) => Top(wal'.queue, k, store'[k].id) /\ store'[k].loc = InMemory
          BY <1>0, <2>1, <2>3, <2>5 DEF Flight
    <3>4. Has(wal'.batch, k) => Top(wal'.batch, k, Latest(k)'.id) /\ Latest(k)'.loc = InMemory
          BY <2>6 DEF Flight
    <3>5. \A id \in Flying(k)' : Landed(k)'.id < id
          BY <2>7, <2>8 DEF Flight
    <3> QED BY <3>1, <3>2, <3>3, <3>4, <3>5 DEF Flight
  <2> QED BY <2>7, <2>9, <2>10
<1>7. CASE k = a
  <2>1. store'[k] = [id |-> m, loc |-> InMemory]
        BY <1>3, <1>7
  <2>2. t[Len(q) + 1].key = k /\ Len(q) + 1 \in DOMAIN t /\ Len(q) + 1 \in 1..Len(t) /\ t[Len(q) + 1].id = m
        BY <1>2, <1>7
  <2>3. Has(t, k)
        BY <2>2 DEF Has
  <2>4. Top(t, k, m)
    <3>1. LastAt(t, Len(t), k, Len(q) + 1)
          BY <1>2, <2>2 DEF LastAt
    <3> QED BY <2>2, <3>1 DEF Top
  <2>5. store[k] # Untouched
    <3>1. store[k].loc.file # "none"
          BY <1>3 DEF Record, Locs
    <3> QED BY <3>1 DEF Untouched
  <2>6. wal'.queueGroup[k] = Latest(k) /\ Touched(wal'.queueGroup, k)
    <3>1. CASE Touched(wal.queueGroup, k)
          BY <1>0, <1>3, <1>7, <3>1 DEF Note, Touched, Flight, Latest
    <3>2. CASE ~Touched(wal.queueGroup, k)
      <4>1. wal'.queueGroup[k] = store[k]
            BY <1>3, <1>7, <3>2 DEF Note, Touched
      <4> QED BY <2>5, <3>2, <4>1 DEF Touched, Flight, Latest
    <3> QED BY <3>1, <3>2
  <2>7. Latest(k)' = Latest(k)
        BY <1>0, <2>3, <2>6 DEF Latest
  <2>8. Landed(k)' = Landed(k)
        BY <1>4, <2>7 DEF Landed
  <2>9. IdsOf(t, k) = IdsOf(q, k) \cup {m}
    <3>1. ASSUME NEW id \in IdsOf(t, k) PROVE id \in IdsOf(q, k) \cup {m}
      <4>1. PICK j \in DOMAIN t : t[j].key = k /\ t[j].id = id
            BY <3>1 DEF IdsOf
      <4>2. CASE j \in DOMAIN q
        <5>1. q[j].key = k /\ q[j].id = id
              BY <1>2, <4>1, <4>2
        <5> QED BY <4>2, <5>1 DEF IdsOf
      <4>3. CASE j \notin DOMAIN q
        <5>1. j = Len(q) + 1
              BY <1>2, <4>3
        <5> QED BY <2>2, <4>1, <5>1
      <4> QED BY <4>2, <4>3
    <3>2. ASSUME NEW id \in IdsOf(q, k) PROVE id \in IdsOf(t, k)
      <4>1. PICK j \in DOMAIN q : q[j].key = k /\ q[j].id = id
            BY <3>2 DEF IdsOf
      <4>2. j \in DOMAIN t /\ t[j] = q[j]
            BY <1>2
      <4> QED BY <4>1, <4>2 DEF IdsOf
    <3>3. m \in IdsOf(t, k)
          BY <2>2 DEF IdsOf
    <3> QED BY <3>1, <3>2, <3>3
  <2>10. Flying(k)' = Flying(k) \cup {m}
         BY <1>0, <1>5, <2>9 DEF Flying
  <2>11. Suspects(k) \subseteq Suspects(k)'
         BY <2>10 DEF Suspects
  <2>12. Landed(k).id < m
    <3>1. Landed(k).id \in 0..n
          BY <1>0, LandedType DEF Record
    <3> QED BY <1>1, <3>1
  <2>13. Flight(k)'
    <3>1. Has(wal'.queue, k) <=> Touched(wal'.queueGroup, k)
          BY <1>0, <2>3, <2>6
    <3>2. Has(wal'.batch, k) <=> Touched(wal'.batchGroup, k)
          BY DEF Flight
    <3>3. Top(wal'.queue, k, store'[k].id) /\ store'[k].loc = InMemory
          BY <1>0, <2>1, <2>4
    <3>4. Has(wal'.batch, k) => Top(wal'.batch, k, Latest(k)'.id) /\ Latest(k)'.loc = InMemory
          BY <2>7 DEF Flight
    <3>5. \A id \in Flying(k)' : Landed(k)'.id < id
          BY <2>8, <2>10, <2>12 DEF Flight
    <3> QED BY <3>1, <3>2, <3>3, <3>4, <3>5 DEF Flight
  <2> QED BY <2>8, <2>11, <2>13
<1> QED BY <1>6, <1>7

\* A writer that appends or waits keeps what is landed.
LEMMA WriterData ==
    ASSUME TypeInv, OffsetInv, ControlInv, DataInv, NEW w \in Writers, Writer(w)
    PROVE  DataInv'
<1>1. Order /\ NotRejected /\ KeysInv /\ Recovering /\ Compacting
      BY DEF DataInv, ControlInv
<1>2. SoundEnd' = SoundEnd
      BY WriterControl
<1>3. UNCHANGED <<disk, reader, disabled, compaction>>
      BY DEF Writer, Set, PassRotationLock, Commit, CommitAfterRecovery
<1>4. KeepsSound
      BY <1>1, <1>2, <1>3, SameFiles
<1>5. ASSUME UNCHANGED <<store, wal, told>> PROVE DataInv'
  <2>1. SameWal
        BY <1>5 DEF SameWal
  <2> QED BY <1>3, <1>4, <1>5, <2>1, SoundStep
<1>6. CASE \E k \in Keys : Set(w, k)
      BY <1>5, <1>6 DEF Set
<1>7. CASE PassRotationLock(w)
      BY <1>5, <1>7 DEF PassRotationLock
<1>8. CASE Commit(w) \/ CommitAfterRecovery(w)
  <2>1. CASE UNCHANGED <<store, wal, told>>
        BY <1>5, <2>1
  <2>2. CASE op[w].pc # "none" /\ recovery.pc = "idle" /\ AppendAndApply(w)
    <3>1. PICK a, m, frame : a = op[w].key /\ m = told.appends + 1 /\ frame = [id |-> m, key |-> a]
          OBVIOUS
    <3>2. /\ a \in Keys /\ m \in Nat /\ frame \in Frame(m) /\ frame.id = m /\ frame.key = a
          /\ wal.state = "open" /\ ~wal.poison.poisoned
          /\ wal'.batch = wal.batch /\ wal'.queue = Append(wal.queue, frame)
          /\ wal'.batchGroup = wal.batchGroup /\ wal'.queueGroup = Note(wal.queueGroup, a)
          /\ store' = [store EXCEPT ![a] = [id |-> m, loc |-> InMemory]]
          /\ told'.acked = told.acked /\ told'.rejected = told.rejected
          BY <2>2, <3>1, AppendEffect
    <3>3. Order'
          BY <1>1, <1>3, <3>1, <3>2, AppendOrder
    <3>4. SoundEnd = Len(disk.wal) /\ Len(disk.wal) \in Nat
          BY <2>2, <3>2, SoundType DEF SoundEnd
    <3>5. NotRejected'
      <4>1. Ids(wal'.queue) \subseteq Ids(wal.queue) \cup {m}
        <5>1. PICK n, q, t : n = told.appends /\ q = wal.queue /\ t = wal'.queue
              OBVIOUS
        <5>2. n \in Nat /\ q \in Seq(Frame(n)) /\ t = Append(q, frame) /\ frame \in Frame(m) /\ frame.id = m
              BY <3>2, <5>1, Parts
        <5>3. /\ DOMAIN t = 1..(Len(q) + 1) /\ DOMAIN q = 1..Len(q) /\ Len(q) \in Nat
              /\ \A i \in 1..Len(q) : t[i] = q[i]
              /\ t[Len(q) + 1] = frame
              BY ONLY <5>2, Appended
        <5>4. ASSUME NEW j \in DOMAIN t PROVE t[j].id \in Ids(q) \cup {m}
          <6>1. CASE j \in DOMAIN q
                BY <5>3, <6>1 DEF Ids
          <6>2. CASE j \notin DOMAIN q
            <7>1. j = Len(q) + 1
                  BY <5>3, <6>2
            <7> QED BY <5>2, <5>3, <7>1
          <6> QED BY <6>1, <6>2
        <5> QED BY <5>1, <5>4 DEF Ids
      <4>2. m \notin told.rejected
            BY <3>1, Parts
      <4>3. (Ids(wal'.batch) \cup Ids(wal'.queue)) \cap told'.rejected = {}
            BY <1>1, <3>2, <4>1, <4>2 DEF NotRejected
      <4>4. ~disabled' => \A i \in 1..SoundEnd' : disk'.wal[i].id \notin told'.rejected
            BY <1>1, <1>2, <1>3, <3>2 DEF NotRejected
      <4>5. ASSUME NEW i \in 1..Len(disk'.wal) PROVE ~(i > SoundEnd')
            BY <1>2, <1>3, <3>4
      <4> QED BY <4>3, <4>4, <4>5 DEF NotRejected
    <3>6. KeysInv'
      <4> SUFFICES ASSUME NEW k \in Keys PROVE Flight(k)' /\ OnDisk(k)' /\ Collected(k)'
          BY DEF KeysInv
      <4>1. Flight(k) /\ OnDisk(k) /\ Collected(k)
            BY <1>1 DEF KeysInv
      <4>2. Flight(k)' /\ Landed(k)' = Landed(k) /\ Suspects(k) \subseteq Suspects(k)'
            BY <3>1, <3>2, <4>1, AppendFlight
      <4>3. FilesKept(k)
            BY <1>1, <1>4, SoundKept
      <4>4. OnDisk(k)'
            BY <1>1, <3>2, <4>1, <4>2, <4>3, OnDiskKept
      <4>5. Collected(k)'
            BY <1>3, <4>1, <4>2, <4>3, CollectedKept
      <4> QED BY <4>2, <4>4, <4>5
    <3> QED BY <3>3, <3>5, <3>6 DEF DataInv
  <2>3. op[w].pc # "none"
        BY <1>8 DEF Commit, CommitAfterRecovery
  <2> QED BY <1>8, <2>1, <2>2, <2>3
          DEF Commit, CommitAfterRecovery, Append1, RetryAfterSeal, Refuse
<1> QED BY <1>6, <1>7, <1>8 DEF Writer

-----------------------------------------------------------------------------
(* A batch in flight, landing or failing.                                      *)

\* A batch that starts takes the queue as it is.
LEMMA StartData ==
    ASSUME TypeInv, ControlInv, DataInv, StartBatch
    PROVE  DataInv'
<1>1. /\ wal.batch = <<>> /\ wal.queue # <<>>
      /\ wal'.poison = wal.poison /\ wal'.batch = wal.queue /\ wal'.queue = <<>>
      /\ wal'.batchGroup = wal.queueGroup /\ wal'.queueGroup = NoGroup
      /\ UNCHANGED <<store, disk, reader, recovery, disabled, compaction, told>>
      BY StartEffect
<1>2. Order /\ NotRejected /\ KeysInv /\ Recovering
      BY DEF DataInv, ControlInv
<1>3. SoundEnd' = SoundEnd
      BY <1>1 DEF SoundEnd
<1>4. Order'
  <2>1. \A s : Before(s, <<>>) /\ Before(<<>>, s)
        BY DEF Before
  <2>2. Rises(<<>>)
        BY DEF Rises
  <2> QED BY <1>1, <1>2, <2>1, <2>2 DEF Order
<1>5. ASSUME NEW k
      PROVE  /\ ~Has(<<>>, k) /\ IdsOf(<<>>, k) = {}
             /\ Landed(k) = Latest(k) /\ Latest(k)' = store[k] /\ Landed(k)' = Landed(k)
             /\ Flying(k)' = Flying(k) /\ Suspects(k)' = Suspects(k)
  <2>1. ~Has(<<>>, k) /\ IdsOf(<<>>, k) = {}
        BY DEF Has, IdsOf
  <2>2. Landed(k) = Latest(k)
        BY <1>1, <2>1 DEF Landed
  <2>3. Latest(k)' = store[k]
        BY <1>1, <2>1 DEF Latest
  <2>4. Landed(k)' = Latest(k)
        BY <1>1, <2>3 DEF Landed, Latest
  <2>5. Flying(k)' = Flying(k)
        BY <1>1, <2>1 DEF Flying
  <2>6. Suspects(k)' = Suspects(k)
        BY <1>1, <2>5 DEF Suspects
  <2> QED BY <2>1, <2>2, <2>3, <2>4, <2>5, <2>6
<1>6. NotRejected'
  <2>1. Ids(wal'.batch) \cup Ids(wal'.queue) = Ids(wal.batch) \cup Ids(wal.queue)
        BY <1>1 DEF Ids
  <2>2. (Ids(wal'.batch) \cup Ids(wal'.queue)) \cap told'.rejected = {}
        BY <1>1, <1>2, <2>1 DEF NotRejected
  <2>3. ~disabled' => \A i \in 1..SoundEnd' : disk'.wal[i].id \notin told'.rejected
        BY <1>1, <1>2, <1>3 DEF NotRejected
  <2>4. ASSUME NEW i \in 1..Len(disk'.wal), i > SoundEnd'
        PROVE  (disk.wal[i].id \in told.rejected /\ Landed(disk.wal[i].key).id < disk.wal[i].id)'
    <3>1. i \in 1..Len(disk.wal) /\ i > SoundEnd /\ disk'.wal[i] = disk.wal[i]
          BY <1>1, <1>3, <2>4
    <3>2. disk.wal[i].id \in told.rejected /\ Landed(disk.wal[i].key).id < disk.wal[i].id
          BY <1>2, <3>1 DEF NotRejected
    <3>3. PICK key : key = disk.wal[i].key
          OBVIOUS
    <3>4. Landed(key)' = Landed(key)
          BY <1>5
    <3>5. (disk.wal[i].key)' = key
          BY <3>1, <3>3
    <3>6. Landed(disk.wal[i].key)' = Landed(key)'
          BY <3>5
    <3> QED BY <1>1, <3>1, <3>2, <3>3, <3>4, <3>6
  <2> QED BY <2>2, <2>3, <2>4 DEF NotRejected
<1>7. KeysInv'
  <2> SUFFICES ASSUME NEW k \in Keys PROVE Flight(k)' /\ OnDisk(k)' /\ Collected(k)'
      BY DEF KeysInv
  <2>1. Flight(k) /\ OnDisk(k) /\ Collected(k)
        BY <1>2 DEF KeysInv
  <2>2. /\ ~Has(<<>>, k) /\ IdsOf(<<>>, k) = {}
        /\ Landed(k) = Latest(k) /\ Latest(k)' = store[k] /\ Landed(k)' = Landed(k)
        /\ Flying(k)' = Flying(k) /\ Suspects(k)' = Suspects(k)
        BY <1>5
  <2>3. FilesKept(k)
    <3>1. KeepsSound
          BY <1>1, <1>2, <1>3, SameFiles
    <3> QED BY <1>2, <3>1, SoundKept
  <2>4. Flight(k)'
    <3>1. ~Touched(NoGroup, k)
          BY DEF Touched, NoGroup
    <3>2. Has(wal'.queue, k) <=> Touched(wal'.queueGroup, k)
          BY <1>1, <2>2, <3>1
    <3>3. Has(wal'.batch, k) <=> Touched(wal'.batchGroup, k)
          BY <1>1, <2>1 DEF Flight
    <3>4. ~Has(wal'.queue, k)
          BY <1>1, <2>2
    <3>5. Has(wal'.batch, k) => Top(wal'.batch, k, Latest(k)'.id) /\ Latest(k)'.loc = InMemory
          BY <1>1, <2>1, <2>2 DEF Flight
    <3>6. \A id \in Flying(k)' : Landed(k)'.id < id
          BY <2>1, <2>2 DEF Flight
    <3> QED BY <3>2, <3>3, <3>4, <3>5, <3>6 DEF Flight
  <2>5. OnDisk(k)'
    <3>1. Suspects(k) \subseteq Suspects(k)' /\ told'.acked[k] = told.acked[k]
          BY <1>1, <2>2
    <3> QED BY <1>2, <2>1, <2>2, <2>3, <3>1, OnDiskKept
  <2>6. Collected(k)'
    <3>1. Suspects(k) \subseteq Suspects(k)'
          BY <2>2
    <3> QED BY <1>1, <2>1, <2>2, <2>3, <3>1, CollectedKept
  <2> QED BY <2>4, <2>5, <2>6
<1> QED BY <1>4, <1>6, <1>7 DEF DataInv

\* A log in order with the batch behind it is in order.
LEMMA OrderJoined ==
    ASSUME NEW n \in Nat, NEW s \in Seq(Frame(n)), NEW b \in Seq(Frame(n)), NEW q \in Seq(Frame(n)),
           Rises(s), Rises(b), Before(s, b), Before(s, q), Before(b, q)
    PROVE  Rises(s \o b) /\ Before(s \o b, q)
<1> DEFINE t == s \o b
<1>1. /\ t \in Seq(Frame(n)) /\ Len(t) = Len(s) + Len(b)
      /\ \A i \in 1..Len(s) : t[i] = s[i]
      /\ \A i \in 1..Len(t) : i > Len(s) => i - Len(s) \in 1..Len(b) /\ t[i] = b[i - Len(s)]
      BY Extended
<1> HIDE DEF t
<1>2. /\ DOMAIN s = 1..Len(s) /\ DOMAIN b = 1..Len(b) /\ DOMAIN t = 1..Len(t)
      /\ Len(s) \in Nat /\ Len(b) \in Nat /\ Len(t) \in Nat
      BY <1>1
<1>3. ASSUME NEW i \in DOMAIN t
      PROVE  (i \in DOMAIN s /\ t[i] = s[i])
             \/ (i > Len(s) /\ i - Len(s) \in DOMAIN b /\ t[i] = b[i - Len(s)])
  <2>1. CASE i <= Len(s)
        BY <1>1, <1>2, <2>1
  <2>2. CASE i > Len(s)
        BY <1>1, <1>2, <2>2
  <2> QED BY <1>2, <2>1, <2>2
<1>4. Rises(t)
  <2> SUFFICES ASSUME NEW i \in DOMAIN t, NEW j \in DOMAIN t, i < j PROVE t[i].id < t[j].id
      BY DEF Rises
  <2>1. CASE i \in DOMAIN s /\ t[i] = s[i] /\ j \in DOMAIN s /\ t[j] = s[j]
        BY <2>1 DEF Rises
  <2>2. CASE i \in DOMAIN s /\ t[i] = s[i] /\ j > Len(s) /\ j - Len(s) \in DOMAIN b /\ t[j] = b[j - Len(s)]
        BY <2>2 DEF Before
  <2>3. CASE i > Len(s) /\ i - Len(s) \in DOMAIN b /\ t[i] = b[i - Len(s)]
    <3>1. j > Len(s)
          BY <1>2, <2>3
    <3>2. j - Len(s) \in DOMAIN b /\ t[j] = b[j - Len(s)]
          BY <1>1, <1>2, <3>1
    <3>3. i - Len(s) < j - Len(s)
          BY <1>2
    <3> QED BY <2>3, <3>2, <3>3 DEF Rises
  <2> QED BY <1>3, <2>1, <2>2, <2>3
<1>5. Before(t, q)
  <2> SUFFICES ASSUME NEW i \in DOMAIN t, NEW j \in DOMAIN q PROVE t[i].id < q[j].id
      BY DEF Before
  <2> QED BY <1>3 DEF Before
<1> QED BY <1>4, <1>5 DEF t

\* A record is given a pointer when the batch holds its write, and only then.
LEMMA Published ==
    ASSUME NEW k \in Keys, NEW batch, NEW first
    PROVE  /\ store[k].id \notin Ids(batch) => Publish(batch, first)[k] = store[k]
           /\ \A i \in DOMAIN batch :
                 Rises(batch) /\ DOMAIN batch \subseteq Nat /\ batch[i].id = store[k].id /\ store[k].id \in Nat =>
                     Publish(batch, first)[k]
                         = [store[k] EXCEPT !.loc = [file |-> "wal", off |-> first + i - 1]]
<1>1. store[k].id \notin Ids(batch) => Publish(batch, first)[k] = store[k]
      BY DEF Publish
<1>2. ASSUME NEW i \in DOMAIN batch, Rises(batch), DOMAIN batch \subseteq Nat,
             batch[i].id = store[k].id, store[k].id \in Nat
      PROVE  Publish(batch, first)[k] = [store[k] EXCEPT !.loc = [file |-> "wal", off |-> first + i - 1]]
  <2>1. store[k].id \in Ids(batch)
        BY <1>2 DEF Ids
  <2>2. \A j \in DOMAIN batch : batch[j].id = store[k].id => j = i
    <3> SUFFICES ASSUME NEW j \in DOMAIN batch, batch[j].id = store[k].id, j # i PROVE FALSE
        OBVIOUS
    <3>1. j < i \/ i < j
          BY <1>2
    <3>2. batch[j].id < batch[i].id \/ batch[i].id < batch[j].id
          BY <1>2, <3>1 DEF Rises
    <3> QED BY <1>2, <3>2
  <2>3. (CHOOSE j \in DOMAIN batch : batch[j].id = store[k].id) = i
        BY <1>2, <2>2
  <2> QED BY <2>1, <2>3 DEF Publish
<1> QED BY <1>1, <1>2

\* What every key needs to know of a batch that lands.
Lands ==
    /\ SoundEnd = Len(disk.wal) /\ SoundEnd' = Len(disk'.wal) /\ FirstOffset = Len(disk.wal)
    /\ ~reader.walOld /\ ~compaction.rotated /\ UNCHANGED <<reader, compaction>>
    /\ disk'.wal = disk.wal \o wal.batch /\ disk'.snap = disk.snap
    /\ disk'.wal \in Seq(Frame(told.appends)) /\ Len(disk'.wal) = Len(disk.wal) + Len(wal.batch)
    /\ \A i \in 1..Len(disk.wal) : disk'.wal[i] = disk.wal[i]
    /\ \A i \in 1..Len(wal.batch) : disk'.wal[Len(disk.wal) + i] = wal.batch[i]
    /\ \A i \in 1..Len(disk'.wal) : i > Len(disk.wal) =>
          i - Len(disk.wal) \in 1..Len(wal.batch) /\ disk'.wal[i] = wal.batch[i - Len(disk.wal)]
    /\ wal'.batch = <<>> /\ wal'.queue = wal.queue
    /\ wal'.queueGroup = wal.queueGroup /\ wal'.batchGroup = NoGroup
    /\ store' = Publish(wal.batch, FirstOffset)
    /\ told'.rejected = told.rejected
    /\ \A k \in Keys : told'.acked[k] = NewestOf(k, wal.batch, told.acked[k])

\* The definition above is what the step does.
LEMMA LandsFacts ==
    ASSUME TypeInv, OffsetInv, ControlInv, BatchLands
    PROVE  Lands
<1>1. /\ Writing
      /\ wal'.poison = wal.poison
      /\ wal'.batch = <<>> /\ wal'.queue = wal.queue
      /\ wal'.queueGroup = wal.queueGroup /\ wal'.batchGroup = NoGroup
      /\ disk'.wal = disk.wal \o wal.batch /\ disk'.snap = disk.snap
      /\ store' = Publish(wal.batch, FirstOffset)
      /\ told'.rejected = told.rejected
      /\ \A k \in Keys : told'.acked[k] = NewestOf(k, wal.batch, told.acked[k])
      /\ UNCHANGED <<reader, recovery, disabled, compaction>>
      BY LandsEffect
<1>2. /\ recovery.pc = "idle" /\ ~wal.poison.poisoned /\ wal.state # "closed"
      /\ FirstOffset = Len(disk.wal) /\ SoundEnd = Len(disk.wal)
      BY <1>1, FirstIsEnd DEF ControlInv
<1>3. ~reader.walOld /\ ~compaction.rotated
      BY <1>2 DEF ControlInv, Compacting
<1>4. SoundEnd' = Len(disk'.wal)
      BY <1>1, <1>2 DEF SoundEnd
<1>5. /\ disk'.wal \in Seq(Frame(told.appends)) /\ Len(disk'.wal) = Len(disk.wal) + Len(wal.batch)
      /\ \A i \in 1..Len(disk.wal) : disk'.wal[i] = disk.wal[i]
      /\ \A i \in 1..Len(wal.batch) : disk'.wal[Len(disk.wal) + i] = wal.batch[i]
      /\ \A i \in 1..Len(disk'.wal) : i > Len(disk.wal) =>
            i - Len(disk.wal) \in 1..Len(wal.batch) /\ disk'.wal[i] = wal.batch[i - Len(disk.wal)]
  <2>1. PICK n, s, t : n = told.appends /\ s = disk.wal /\ t = wal.batch
        OBVIOUS
  <2>2. n \in Nat /\ s \in Seq(Frame(n)) /\ t \in Seq(Frame(n))
        BY <2>1, Parts
  <2>3. /\ s \o t \in Seq(Frame(n)) /\ Len(s \o t) = Len(s) + Len(t)
        /\ \A i \in 1..Len(s) : (s \o t)[i] = s[i]
        /\ \A i \in 1..Len(t) : (s \o t)[Len(s) + i] = t[i]
        /\ \A i \in 1..Len(s \o t) : i > Len(s) => i - Len(s) \in 1..Len(t) /\ (s \o t)[i] = t[i - Len(s)]
        BY ONLY <2>2, Extended
  <2> QED BY <1>1, <2>1, <2>3
<1> QED BY <1>1, <1>2, <1>3, <1>4, <1>5 DEF Lands

\* A key the batch does not write.
LEMMA LandsOther ==
    ASSUME TypeInv, Recovering, RollInv, Order, NEW k \in Keys, Flight(k), OnDisk(k), Collected(k),
           Lands, ~Has(wal.batch, k)
    PROVE  Flight(k)' /\ OnDisk(k)' /\ Collected(k)'
<1>1. store[k].id \notin Ids(wal.batch)
      BY DEF RollInv, GroupOK, Flight
<1>2. store'[k] = store[k]
      BY <1>1, Published DEF Lands
<1>3. ~Has(<<>>, k) /\ IdsOf(<<>>, k) = {} /\ ~Touched(NoGroup, k)
      BY DEF Has, IdsOf, Touched, NoGroup
<1>4. IdsOf(wal.batch, k) = {}
      BY DEF IdsOf, Has
<1>5. /\ wal'.batch = <<>> /\ wal'.queue = wal.queue
      /\ wal'.queueGroup = wal.queueGroup /\ wal'.batchGroup = NoGroup
      /\ told'.rejected = told.rejected
      BY DEF Lands
<1>6. Latest(k)' = Latest(k)
      BY <1>2, <1>5 DEF Latest
<1>7. Landed(k)' = Landed(k)
      BY <1>3, <1>5, <1>6 DEF Landed
<1>8. Flying(k)' = Flying(k)
      BY <1>3, <1>4, <1>5 DEF Flying
<1>9. Suspects(k)' = Suspects(k)
      BY <1>5, <1>8 DEF Suspects
<1>10. Flight(k)'
  <2>1. Has(wal'.queue, k) <=> Touched(wal'.queueGroup, k)
        BY <1>5 DEF Flight
  <2>2. ~Has(wal'.batch, k) /\ ~Touched(wal'.batchGroup, k)
        BY <1>3, <1>5
  <2>3. Has(wal'.queue, k) => Top(wal'.queue, k, store'[k].id) /\ store'[k].loc = InMemory
        BY <1>2, <1>5 DEF Flight
  <2>4. \A id \in Flying(k)' : Landed(k)'.id < id
        BY <1>7, <1>8 DEF Flight
  <2> QED BY <2>1, <2>2, <2>3, <2>4 DEF Flight
<1>11. NoneIn(disk'.wal, Len(disk.wal), Len(disk'.wal), k)
  <2> SUFFICES ASSUME NEW i \in 1..Len(disk'.wal), i > Len(disk.wal) PROVE disk'.wal[i].key # k
      BY DEF NoneIn
  <2>1. i - Len(disk.wal) \in 1..Len(wal.batch) /\ disk'.wal[i] = wal.batch[i - Len(disk.wal)]
        BY DEF Lands
  <2>2. DOMAIN wal.batch = 1..Len(wal.batch)
        BY Parts
  <2> QED BY <2>1, <2>2 DEF Has
<1>12. FilesKept(k)
  <2>1. Len(disk.wal) \in Nat /\ Len(disk'.wal) \in Nat /\ Len(disk.wal) <= Len(disk'.wal)
    <3>1. PICK x, y, z : x = Len(disk.wal) /\ y = Len(wal.batch) /\ z = Len(disk'.wal)
          OBVIOUS
    <3>2. x \in Nat /\ y \in Nat /\ z = x + y
          BY <3>1, Parts DEF Lands
    <3>3. z \in Nat /\ x <= z
          BY ONLY <3>2
    <3> QED BY <3>1, <3>2, <3>3
  <2>2. /\ ReadEnd = Len(disk.wal) /\ ReadEnd' = Len(disk'.wal)
        /\ ReadLog = disk.wal /\ ReadLog' = disk'.wal /\ ReadSnap'[k] = ReadSnap[k]
        BY DEF Lands, ReadEnd, ReadLog, ReadSnap
  <2>3. /\ SoundEnd = Len(disk.wal) /\ SoundEnd' = Len(disk'.wal) /\ disk'.snap[k] = disk.snap[k]
        /\ \A i \in 1..Len(disk.wal) : disk'.wal[i] = disk.wal[i]
        BY DEF Lands
  <2> QED BY <1>11, <2>1, <2>2, <2>3 DEF FilesKept
<1>13. told'.acked[k] = told.acked[k]
  <2>1. {j \in DOMAIN wal.batch : wal.batch[j].key = k} = {}
        BY DEF Has
  <2>2. NewestOf(k, wal.batch, told.acked[k]) = told.acked[k]
        BY <2>1 DEF NewestOf
  <2> QED BY <2>2 DEF Lands
<1>14. Suspects(k) \subseteq Suspects(k)'
       BY <1>9
<1>15. OnDisk(k)'
       BY <1>7, <1>12, <1>13, <1>14, OnDiskKept
<1>16. Collected(k)'
  <2>1. compaction' = compaction
        BY DEF Lands
  <2> QED BY <1>7, <1>12, <1>14, <2>1, CollectedKept
<1> QED BY <1>10, <1>15, <1>16

\* The last frame of a key in a batch is its newest.
LEMMA TopIsNewest ==
    ASSUME NEW n \in Nat, NEW b \in Seq(Frame(n)), Rises(b), NEW k, NEW i \in 1..Len(b),
           LastAt(b, Len(b), k, i), NEW acked
    PROVE  /\ \A id \in IdsOf(b, k) : id <= b[i].id
           /\ NewestOf(k, b, acked) = b[i].id
           /\ b[i].id \in Nat /\ b[i].id \in Ids(b)
<1>1. DOMAIN b = 1..Len(b) /\ Len(b) \in Nat /\ \A j \in 1..Len(b) : b[j].id \in Nat
  <2>1. DOMAIN b = 1..Len(b) /\ Len(b) \in Nat /\ \A j \in 1..Len(b) : b[j] \in Frame(n)
        OBVIOUS
  <2>2. Frame(n) \subseteq [id : Nat, key : Keys]
        BY DEF Frame
  <2> QED BY <2>1, <2>2
<1>2. ASSUME NEW j \in DOMAIN b, b[j].key = k PROVE b[j].id <= b[i].id
  <2>1. j <= i
        BY <1>1, <1>2 DEF LastAt
  <2>2. CASE j = i
        BY <1>1, <2>2
  <2>3. CASE j # i
    <3>1. j < i
          BY <1>1, <2>1, <2>3
    <3>2. b[j].id < b[i].id
          BY <1>1, <3>1 DEF Rises
    <3> QED BY <1>1, <3>2
  <2> QED BY <2>2, <2>3
<1>3. \A id \in IdsOf(b, k) : id <= b[i].id
      BY <1>2 DEF IdsOf
<1>4. b[i].id \in IdsOf(b, k) /\ IdsOf(b, k) \subseteq Nat
      BY <1>1 DEF LastAt, IdsOf
<1>5. NewestOf(k, b, acked) = b[i].id
  <2>1. PICK mine : mine = IdsOf(b, k)
        OBVIOUS
  <2>2. mine = {b[j].id : j \in {l \in DOMAIN b : b[l].key = k}}
        BY <2>1 DEF IdsOf
  <2>3. NewestOf(k, b, acked) = IF mine = {} THEN acked ELSE CHOOSE id \in mine : \A other \in mine : other <= id
        BY <2>2 DEF NewestOf
  <2>4. PICK top : top = b[i].id
        OBVIOUS
  <2>5. top \in mine /\ mine \subseteq Nat /\ \A other \in mine : other <= top
        BY <1>3, <1>4, <2>1, <2>4
  <2>6. \A id \in mine : (\A other \in mine : other <= id) => id = top
        BY <2>5
  <2>7. (CHOOSE id \in mine : \A other \in mine : other <= id) = top
        BY <2>5, <2>6
  <2> QED BY <2>3, <2>4, <2>5, <2>7
<1>6. b[i].id \in Ids(b)
      BY <1>1 DEF Ids
<1> QED BY <1>1, <1>3, <1>5, <1>6

\* A key the batch writes: its last frame is now the last of the log.
LEMMA LandsMine ==
    ASSUME TypeInv, Copied, Order, NEW k \in Keys, Flight(k), Lands, Has(wal.batch, k)
    PROVE  Flight(k)' /\ OnDisk(k)' /\ Collected(k)'
<1>1. /\ wal'.batch = <<>> /\ wal'.queue = wal.queue
      /\ wal'.queueGroup = wal.queueGroup /\ wal'.batchGroup = NoGroup
      /\ ReadLog' = disk'.wal /\ ReadEnd' = Len(disk'.wal) /\ SoundEnd' = Len(disk'.wal)
      BY DEF Lands, ReadLog, ReadEnd
<1>2. ~Has(<<>>, k) /\ IdsOf(<<>>, k) = {} /\ ~Touched(NoGroup, k)
      BY DEF Has, IdsOf, Touched, NoGroup
<1>3. PICK i \in 1..Len(wal.batch) :
          /\ LastAt(wal.batch, Len(wal.batch), k, i) /\ wal.batch[i].id = Latest(k).id
          /\ Latest(k).loc = InMemory
      BY DEF Flight, Top
<1>4. PICK n, batch, queue, top, first :
          /\ n = told.appends /\ batch = wal.batch /\ queue = wal.queue
          /\ top = wal.batch[i].id /\ first = Len(disk.wal)
      OBVIOUS
<1>5. /\ n \in Nat /\ batch \in Seq(Frame(n)) /\ queue \in Seq(Frame(n)) /\ first \in Nat
      /\ Len(batch) \in Nat /\ DOMAIN batch = 1..Len(batch)
  <2>1. n \in Nat /\ batch \in Seq(Frame(n)) /\ queue \in Seq(Frame(n)) /\ disk.wal \in Seq(Frame(n))
        BY <1>4, Parts
  <2>2. first \in Nat
        BY <1>4, <2>1
  <2> QED BY ONLY <2>1, <2>2
<1>6. Rises(batch) /\ Before(batch, queue)
      BY <1>4 DEF Order
<1>7. /\ NewestOf(k, batch, told.acked[k]) = top /\ top \in Nat /\ top \in Ids(batch)
  <2>1. LastAt(batch, Len(batch), k, i) /\ top = batch[i].id /\ i \in 1..Len(batch)
        BY <1>3, <1>4
  <2>2. PICK acked : acked = told.acked[k]
        OBVIOUS
  <2>3. NewestOf(k, batch, acked) = batch[i].id /\ batch[i].id \in Nat /\ batch[i].id \in Ids(batch)
        BY ONLY <1>5, <1>6, <2>1, TopIsNewest
  <2> QED BY <2>1, <2>2, <2>3
<1>8. ASSUME NEW id \in Ids(queue) PROVE top < id /\ id \notin Ids(batch)
  <2>1. PICK q \in DOMAIN queue : queue[q].id = id
        BY <1>8 DEF Ids
  <2>2. ASSUME NEW j \in DOMAIN batch PROVE batch[j].id < id
        BY <1>6, <2>1, <2>2 DEF Before
  <2>3. \A j \in DOMAIN batch : batch[j].id \in Nat
    <3>1. \A j \in DOMAIN batch : batch[j] \in Frame(n)
          BY <1>5
    <3> QED BY <1>5, <3>1 DEF Frame
  <2>4. i \in DOMAIN batch /\ top = batch[i].id
        BY <1>4, <1>5
  <2>5. top < id
        BY <2>2, <2>4
  <2>6. id \notin Ids(batch)
    <3> SUFFICES ASSUME NEW j \in DOMAIN batch, batch[j].id = id PROVE FALSE
        BY DEF Ids
    <3> QED BY <2>2, <2>3
  <2> QED BY <2>5, <2>6
<1>9. ASSUME Has(wal.queue, k)
      PROVE  store'[k] = store[k] /\ store[k].id \in Ids(wal.queue)
  <2>1. Top(wal.queue, k, store[k].id)
        BY <1>9 DEF Flight
  <2>2. store[k].id \in Ids(wal.queue)
    <3>1. DOMAIN wal.queue = 1..Len(wal.queue)
          BY Parts
    <3> QED BY <2>1, <3>1 DEF Top, Ids
  <2>3. store[k].id \notin Ids(wal.batch)
        BY <1>4, <1>8, <2>2
  <2> QED BY <2>2, <2>3, Published DEF Lands
<1>10. /\ Landed(k)'.id = top
       /\ \/ Landed(k)'.loc = InMemory
          \/ Landed(k)'.loc = [file |-> "wal", off |-> first + i - 1]
  <2>1. Landed(k)' = Latest(k)'
        BY <1>1, <1>2 DEF Landed, Latest
  <2>2. CASE Has(wal.queue, k)
    <3>1. Latest(k)' = Latest(k)
          BY <1>1, <2>2 DEF Latest
    <3> QED BY <1>3, <1>4, <2>1, <3>1
  <2>3. CASE ~Has(wal.queue, k)
    <3>1. Latest(k) = store[k] /\ Latest(k)' = store'[k]
          BY <1>1, <2>3 DEF Latest
    <3>2. store[k].id = top
          BY <1>3, <1>4, <3>1
    <3>3. store'[k] = Publish(batch, first)[k]
          BY <1>4 DEF Lands
    <3>4. DOMAIN batch \subseteq Nat /\ i \in DOMAIN batch /\ batch[i].id = top
          BY <1>4, <1>5
    <3>5. Publish(batch, first)[k] = [store[k] EXCEPT !.loc = [file |-> "wal", off |-> first + i - 1]]
          BY <1>6, <1>7, <3>2, <3>4, Published
    <3>6. store[k] \in Record(n)
          BY <1>4, Parts
    <3>7. store'[k].id = store[k].id /\ store'[k].loc = [file |-> "wal", off |-> first + i - 1]
      <4>1. PICK r : r = store[k]
            OBVIOUS
      <4>2. r \in [id : 0..n, loc : Locs]
            BY <3>6, <4>1 DEF Record
      <4>3. store'[k] = [r EXCEPT !.loc = [file |-> "wal", off |-> first + i - 1]]
            BY <3>3, <3>5, <4>1
      <4> QED BY <4>1, <4>2, <4>3
    <3> QED BY <2>1, <3>1, <3>2, <3>7
  <2> QED BY <2>2, <2>3
<1>11. Flying(k)' = IdsOf(wal.queue, k)
       BY <1>1, <1>2 DEF Flying
<1>12. Flight(k)'
  <2>1. Has(wal'.queue, k) <=> Touched(wal'.queueGroup, k)
        BY <1>1 DEF Flight
  <2>2. ~Has(wal'.batch, k) /\ ~Touched(wal'.batchGroup, k)
        BY <1>1, <1>2
  <2>3. Has(wal'.queue, k) => Top(wal'.queue, k, store'[k].id) /\ store'[k].loc = InMemory
        BY <1>1, <1>9 DEF Flight
  <2>4. ASSUME NEW id \in Flying(k)' PROVE Landed(k)'.id < id
    <3>1. id \in Ids(queue)
          BY <1>4, <1>11, <2>4 DEF IdsOf, Ids
    <3> QED BY <1>8, <1>10, <3>1
  <2> QED BY <2>1, <2>2, <2>3, <2>4 DEF Flight
<1>13. PICK log, len : log = disk'.wal /\ len = Len(disk'.wal)
       OBVIOUS
<1>14. /\ len = first + Len(batch) /\ len \in Nat
       /\ first + i \in 1..len /\ log[first + i].key = k /\ log[first + i].id = top
  <2>1. len = first + Len(batch) /\ log[first + i] = batch[i]
        BY <1>4, <1>13 DEF Lands
  <2>2. batch[i].key = k /\ batch[i].id = top /\ i \in 1..Len(batch)
        BY <1>3, <1>4 DEF LastAt
  <2>3. first + i \in 1..len /\ len \in Nat
        BY <1>5, <2>1, <2>2
  <2> QED BY <2>1, <2>2, <2>3
<1>15. LastAt(log, len, k, first + i)
  <2> SUFFICES ASSUME NEW j \in 1..len, log[j].key = k PROVE j <= first + i
      BY <1>14 DEF LastAt
  <2>1. CASE j <= first
        BY <1>5, <2>1
  <2>2. CASE j > first
    <3>1. j - first \in 1..Len(batch) /\ log[j] = batch[j - first]
          BY <1>4, <1>13, <2>2 DEF Lands
    <3>2. batch[j - first].key = k
          BY <3>1
    <3>3. j - first <= i
          BY <1>3, <1>4, <3>1, <3>2 DEF LastAt
    <3> QED BY <1>5, <3>3
  <2> QED BY <1>5, <2>1, <2>2
<1>16. FilesFit(k, disk'.wal, SoundEnd', disk'.snap[k], Landed(k)', Suspects(k)')
  <2>1. ASSUME NEW j \in 1..len, LastAt(log, len, k, j) PROVE log[j].id = Landed(k)'.id
    <3>1. j = first + i
          BY <1>14, <1>15, <2>1, LastIsOne
    <3> QED BY <1>10, <1>14, <3>1
  <2>2. ~NoneIn(log, 0, len, k)
        BY <1>14 DEF NoneIn
  <2> QED BY <1>1, <1>13, <2>1, <2>2 DEF FilesFit, Fits
<1>17. PointsTo(ReadLog', ReadEnd', ReadSnap'[k], Landed(k)', Suspects(k)')
  <2>1. first + i - 1 < len /\ (first + i - 1) + 1 = first + i
    <3>1. i \in 1..Len(batch)
          BY <1>4
    <3>2. PICK l : l = Len(batch)
          OBVIOUS
    <3> QED BY ONLY <1>5, <1>14, <3>1, <3>2
  <2>2. Landed(k)'.loc.file = "wal" => Landed(k)'.loc.off = first + i - 1
        BY <1>10 DEF InMemory
  <2>3. Landed(k)'.loc.file # "snapshot"
        BY <1>10 DEF InMemory
  <2> QED BY <1>1, <1>10, <1>13, <1>14, <2>1, <2>2, <2>3 DEF PointsTo
<1>18. OnDisk(k)'
  <2>1. told'.acked[k] = top
        BY <1>4, <1>7 DEF Lands
  <2>2. told'.acked[k] <= Landed(k)'.id
        BY <1>7, <1>10, <2>1
  <2> QED BY <1>16, <1>17, <2>2 DEF OnDisk
<1>19. Collected(k)'
  <2> SUFFICES ASSUME compaction'.pc \in CopyPc \ {"snapshot"} \/ compaction'.rotated
               PROVE  SnapFits(k, ReadLog, compaction.base, ReadEnd, compaction.snap[k], Landed(k), Suspects(k))'
      BY DEF Collected
  <2>1. compaction' = compaction /\ compaction.pc \in CopyPc
        BY DEF Lands
  <2>2. PICK base : base = compaction.base
        OBVIOUS
  <2>3. base \in Nat /\ base <= first
    <3>1. /\ compaction.base \in Nat /\ compaction.copied \in Nat
          /\ compaction.base <= compaction.copied /\ compaction.copied <= first
          BY <1>4, <2>1, Parts DEF Copied, Lands
    <3> QED BY <1>5, <2>2, <3>1
  <2>4. ~NoneIn(log, base, len, k)
    <3>1. first + i > base
          BY <1>5, <2>3
    <3> QED BY <1>14, <3>1 DEF NoneIn
  <2>5. ~Below(Landed(k)'.loc, base)
    <3>1. ~(first + i - 1 < base)
          BY <1>5, <2>3
    <3> QED BY <1>10, <3>1 DEF Below, InMemory
  <2> QED BY <1>1, <1>13, <2>1, <2>2, <2>4, <2>5 DEF SnapFits
<1> QED BY <1>12, <1>18, <1>19

\* A batch that lands.
LEMMA LandsData ==
    ASSUME TypeInv, OffsetInv, RollInv, ControlInv, DataInv, BatchLands
    PROVE  DataInv'
<1>1. Order /\ NotRejected /\ KeysInv /\ Recovering /\ Copied
      BY DEF DataInv, ControlInv
<1>2. Lands
      BY LandsFacts
<1>3. /\ wal'.batch = <<>> /\ wal'.queue = wal.queue /\ disabled' = disabled
      /\ told'.rejected = told.rejected /\ disk'.wal = disk.wal \o wal.batch
      /\ SoundEnd' = Len(disk'.wal)
      BY <1>2, LandsEffect DEF Lands
<1>4. Order'
  <2>1. PICK n, s, b, q : n = told.appends /\ s = disk.wal /\ b = wal.batch /\ q = wal.queue
        OBVIOUS
  <2>2. n \in Nat /\ s \in Seq(Frame(n)) /\ b \in Seq(Frame(n)) /\ q \in Seq(Frame(n))
        BY <2>1, Parts
  <2>3. Rises(s) /\ Rises(b) /\ Before(s, b) /\ Before(s, q) /\ Before(b, q) /\ Rises(q)
        BY <1>1, <2>1 DEF Order
  <2>4. Rises(s \o b) /\ Before(s \o b, q)
        BY ONLY <2>2, <2>3, OrderJoined
  <2>5. \A t : Before(t, <<>>) /\ Before(<<>>, t)
        BY DEF Before
  <2>6. Rises(<<>>)
        BY DEF Rises
  <2> QED BY <1>3, <2>1, <2>3, <2>4, <2>5, <2>6 DEF Order
<1>5. NotRejected'
  <2>1. (Ids(wal'.batch) \cup Ids(wal'.queue)) \cap told'.rejected = {}
    <3>1. Ids(<<>>) = {}
          BY DEF Ids
    <3> QED BY <1>1, <1>3, <3>1 DEF NotRejected
  <2>2. ASSUME ~disabled', NEW i \in 1..SoundEnd' PROVE disk'.wal[i].id \notin told'.rejected
    <3>1. CASE i <= Len(disk.wal)
      <4>1. i \in 1..Len(disk.wal) /\ disk'.wal[i] = disk.wal[i] /\ SoundEnd = Len(disk.wal)
            BY <1>2, <1>3, <3>1, SoundType DEF Lands
      <4> QED BY <1>1, <1>3, <2>2, <4>1 DEF NotRejected
    <3>2. CASE i > Len(disk.wal)
      <4>1. i - Len(disk.wal) \in 1..Len(wal.batch) /\ disk'.wal[i] = wal.batch[i - Len(disk.wal)]
            BY <1>2, <1>3, <3>2 DEF Lands
      <4>2. DOMAIN wal.batch = 1..Len(wal.batch)
            BY Parts
      <4>3. disk'.wal[i].id \in Ids(wal.batch)
            BY <4>1, <4>2 DEF Ids
      <4> QED BY <1>1, <1>3, <4>3 DEF NotRejected
    <3>3. Len(disk.wal) \in Nat
          BY SoundType
    <3> QED BY <3>1, <3>2, <3>3
  <2>3. ~\E i \in 1..Len(disk'.wal) : i > SoundEnd'
    <3>1. Len(disk'.wal) \in Nat
      <4>1. disk'.wal \in Seq(Frame(told.appends))
            BY <1>2 DEF Lands
      <4> QED BY <4>1
    <3>2. PICK len, end : len = Len(disk'.wal) /\ end = SoundEnd'
          OBVIOUS
    <3>3. len \in Nat /\ end = len
          BY <1>3, <3>1, <3>2
    <3>4. ~\E i \in 1..len : i > end
          BY ONLY <3>3
    <3> QED BY <3>2, <3>4
  <2> QED BY <2>1, <2>2, <2>3 DEF NotRejected
<1>6. KeysInv'
  <2> SUFFICES ASSUME NEW k \in Keys PROVE Flight(k)' /\ OnDisk(k)' /\ Collected(k)'
      BY DEF KeysInv
  <2>1. Flight(k) /\ OnDisk(k) /\ Collected(k)
        BY <1>1 DEF KeysInv
  <2>2. CASE Has(wal.batch, k)
        BY <1>1, <1>2, <2>1, <2>2, LandsMine
  <2>3. CASE ~Has(wal.batch, k)
        BY <1>1, <1>2, <2>1, <2>3, LandsOther
  <2> QED BY <2>2, <2>3
<1> QED BY <1>4, <1>5, <1>6 DEF DataInv

\* A batch that fails: the roll back leaves what is landed, and the compaction that
\* awaits the flush is given up.
LEMMA FailsFacts ==
    ASSUME TypeInv, OffsetInv, ControlInv, BatchFails
    PROVE  /\ recovery.pc = "idle" /\ wal.state # "closed" /\ ~reader.walOld
           /\ SoundEnd = Len(disk.wal) /\ SoundEnd' = SoundEnd
           /\ \/ compaction'.pc \in {"idle", "rollForward"} /\ ~compaction'.rotated
              \/ compaction' = compaction
<1>1. /\ Writing /\ wal'.poison.poisoned /\ wal'.poison.failedAtOffset = FirstOffset
      /\ compaction' = FlushThrows
      BY FailsEffect
<1>2. /\ recovery.pc = "idle" /\ ~wal.poison.poisoned /\ wal.state # "closed"
      /\ FirstOffset = Len(disk.wal) /\ SoundEnd = Len(disk.wal)
      BY <1>1, FirstIsEnd DEF ControlInv
<1>3. SoundEnd' = SoundEnd
      BY <1>1, <1>2 DEF SoundEnd
<1>4. ~reader.walOld /\ ~compaction.rotated
      BY <1>2 DEF ControlInv, Compacting
<1>5. \/ compaction'.pc \in {"idle", "rollForward"} /\ ~compaction'.rotated
      \/ compaction' = compaction
  <2>1. CASE compaction.pc \in {"fence", "preCopy"}
        BY <1>1, <2>1 DEF FlushThrows, NoCompaction
  <2>2. CASE compaction.pc = "drain"
    <3>1. compaction \in Compaction(told.appends)
          BY DEF TypeInv, TypedAt
    <3> QED BY <1>1, <1>4, <2>2, <3>1 DEF FlushThrows, Compaction
  <2>3. CASE compaction.pc \notin {"fence", "preCopy", "drain"}
        BY <1>1, <2>3 DEF FlushThrows
  <2> QED BY <2>1, <2>2, <2>3
<1> QED BY <1>2, <1>3, <1>4, <1>5

\* The roll back restores of each key the record that had landed.
LEMMA FailsLanded ==
    ASSUME NEW k \in Keys, Flight(k), store' = RollBack, wal'.batch = <<>>, wal'.queue = <<>>
    PROVE  Landed(k)' = Landed(k)
<1>1. Landed(k)' = store'[k]
      BY NoFrames
<1>2. store'[k] = Landed(k)
  <2>1. store'[k] = IF wal.batchGroup[k] = Untouched
                    THEN IF wal.queueGroup[k] = Untouched THEN store[k] ELSE wal.queueGroup[k]
                    ELSE wal.batchGroup[k]
        BY DEF RollBack, Restore
  <2>2. Has(wal.queue, k) <=> wal.queueGroup[k] # Untouched
        BY DEF Flight, Touched
  <2>3. Has(wal.batch, k) <=> wal.batchGroup[k] # Untouched
        BY DEF Flight, Touched
  <2> QED BY <2>1, <2>2, <2>3 DEF Landed, Latest
<1> QED BY <1>1, <1>2

\* A log that some prefix of the batch in flight has reached.
LEMMA GrownLog ==
    ASSUME TypeInv, Order, NEW n \in 0..Len(wal.batch), disk'.wal = disk.wal \o SubSeq(wal.batch, 1, n)
    PROVE  /\ Len(disk'.wal) \in Nat /\ Rises(disk'.wal)
           /\ \A i \in 1..Len(disk.wal) : disk'.wal[i] = disk.wal[i]
           /\ \A i \in 1..Len(disk'.wal) : i > Len(disk.wal) =>
                 \E j \in DOMAIN wal.batch : disk'.wal[i] = wal.batch[j]
           /\ Len(disk.wal) <= Len(disk'.wal)
<1>5. PICK m, s, b, p, t :
          /\ m = told.appends /\ s = disk.wal /\ b = wal.batch
          /\ p = SubSeq(wal.batch, 1, n) /\ t = disk'.wal
      OBVIOUS
<1>6. /\ m \in Nat /\ s \in Seq(Frame(m)) /\ b \in Seq(Frame(m)) /\ p \in Seq(Frame(m))
      /\ Len(p) = n /\ n <= Len(b) /\ n \in Nat /\ t = s \o p
      /\ \A i \in 1..n : p[i] = b[i]
  <2>1. m \in Nat /\ s \in Seq(Frame(m)) /\ b \in Seq(Frame(m)) /\ Len(b) \in Nat
        BY <1>5, Parts
  <2>2. n \in Nat /\ n <= Len(b)
        BY <1>5, <2>1
  <2>3. /\ SubSeq(b, 1, n) \in Seq(Frame(m)) /\ Len(SubSeq(b, 1, n)) = n
        /\ \A i \in 1..n : SubSeq(b, 1, n)[i] = b[i]
        BY ONLY <2>1, <2>2, Prefixed
  <2> QED BY <1>5, <2>1, <2>2, <2>3
<1>7. /\ t \in Seq(Frame(m)) /\ Len(t) = Len(s) + n
      /\ \A i \in 1..Len(s) : t[i] = s[i]
      /\ \A i \in 1..Len(t) : i > Len(s) => i - Len(s) \in 1..n /\ t[i] = p[i - Len(s)]
      /\ Len(s) \in Nat /\ Len(t) \in Nat
  <2>1. /\ t \in Seq(Frame(m)) /\ Len(t) = Len(s) + Len(p)
        /\ \A i \in 1..Len(s) : t[i] = s[i]
        /\ \A i \in 1..Len(t) : i > Len(s) => i - Len(s) \in 1..Len(p) /\ t[i] = p[i - Len(s)]
        BY ONLY <1>6, Extended
  <2>2. Len(s) \in Nat /\ Len(t) \in Nat
        BY <1>6, <2>1
  <2> QED BY ONLY <1>6, <2>1, <2>2
<1>8. Rises(s) /\ Rises(b) /\ Before(s, b)
      BY <1>5 DEF Order
<1>9. DOMAIN p = 1..n /\ DOMAIN p \subseteq DOMAIN b /\ DOMAIN s = 1..Len(s)
  <2>1. PICK l : l = Len(b)
        OBVIOUS
  <2>2. DOMAIN p = 1..n /\ DOMAIN b = 1..l /\ n <= l /\ l \in Nat
        BY <1>6, <2>1
  <2>3. 1..n \subseteq 1..l
        BY ONLY <2>2, <1>6
  <2> QED BY <1>6, <2>2, <2>3
<1>10. Rises(t)
  <2>1. Rises(p)
        BY <1>6, <1>8, <1>9 DEF Rises
  <2>2. Before(s, p)
        BY <1>6, <1>8, <1>9 DEF Before
  <2>3. \A x : Before(x, <<>>) /\ Before(<<>>, x)
        BY DEF Before
  <2>4. Rises(<<>>)
        BY DEF Rises
  <2>5. <<>> \in Seq(Frame(m))
        OBVIOUS
  <2>6. Rises(s \o p)
    <3>1. Before(s, <<>>) /\ Before(p, <<>>)
          BY <2>3
    <3>2. Rises(s \o p)
          BY ONLY <1>6, <1>8, <2>1, <2>2, <2>5, <3>1, OrderJoined
    <3> QED BY <3>2
  <2> QED BY <1>6, <2>6
<1>11. ASSUME NEW i \in 1..Len(t), i > Len(s) PROVE \E j \in DOMAIN b : t[i] = b[j]
  <2>1. i - Len(s) \in 1..n /\ t[i] = p[i - Len(s)]
        BY <1>7, <1>11
  <2>2. i - Len(s) \in DOMAIN b /\ t[i] = b[i - Len(s)]
        BY <1>6, <1>9, <2>1
  <2> QED BY <2>2
<1>12. Len(s) <= Len(t)
  <2>1. PICK x, y : x = Len(s) /\ y = Len(t)
        OBVIOUS
  <2> QED BY ONLY <1>6, <1>7, <2>1
<1> QED BY <1>5, <1>7, <1>10, <1>11, <1>12

\* A batch that fails makes its writes and those of the queue suspect for good.
LEMMA FailsData ==
    ASSUME TypeInv, OffsetInv, ControlInv, DataInv, BatchFails
    PROVE  DataInv'
<1>1. Order /\ NotRejected /\ KeysInv /\ Recovering
      BY DEF DataInv, ControlInv
<1>2. /\ wal'.batch = <<>> /\ wal'.queue = <<>>
      /\ wal'.queueGroup = NoGroup /\ wal'.batchGroup = NoGroup
      /\ disk'.snap = disk.snap /\ store' = RollBack
      /\ told'.rejected = told.rejected \cup Unacked /\ told'.acked = told.acked
      /\ reader' = reader /\ disabled' = disabled
      BY FailsEffect
<1>3. PICK n \in 0..Len(wal.batch) : disk'.wal = disk.wal \o SubSeq(wal.batch, 1, n)
      BY FailsEffect
<1>4. /\ ~reader.walOld /\ SoundEnd = Len(disk.wal) /\ SoundEnd' = SoundEnd
      /\ \/ compaction'.pc \in {"idle", "rollForward"} /\ ~compaction'.rotated
         \/ compaction' = compaction
      BY FailsFacts
<1>5. PICK m, s, b, t : m = told.appends /\ s = disk.wal /\ b = wal.batch /\ t = disk'.wal
      OBVIOUS
<1>6. m \in Nat /\ s \in Seq(Frame(m)) /\ b \in Seq(Frame(m))
      BY <1>5, Parts
<1>7. /\ Rises(t) /\ Len(t) \in Nat /\ Len(s) \in Nat /\ DOMAIN s = 1..Len(s)
      /\ \A i \in 1..Len(s) : t[i] = s[i]
      /\ \A i \in 1..Len(t) : i > Len(s) => \E j \in DOMAIN b : t[i] = b[j]
  <2>1. Len(s) \in Nat /\ DOMAIN s = 1..Len(s)
        BY <1>6
  <2> QED BY <1>1, <1>3, <1>5, <2>1, GrownLog
<1>8. Before(s, b)
      BY <1>1, <1>5 DEF Order
<1>10. Order'
  <2>1. \A x : Before(x, <<>>) /\ Before(<<>>, x)
        BY DEF Before
  <2>2. Rises(<<>>)
        BY DEF Rises
  <2> QED BY <1>2, <1>5, <1>7, <2>1, <2>2 DEF Order
<1>11. Ids(b) \subseteq told'.rejected /\ \A i \in DOMAIN b : b[i].id \in Ids(b)
       BY <1>2, <1>5 DEF Unacked, Ids
<1>12. NotRejected'
  <2>1. (Ids(wal'.batch) \cup Ids(wal'.queue)) \cap told'.rejected = {}
    <3>1. Ids(<<>>) = {}
          BY DEF Ids
    <3> QED BY <1>2, <3>1
  <2>2. ASSUME ~disabled', NEW i \in 1..SoundEnd' PROVE disk'.wal[i].id \notin told'.rejected
    <3>1. i \in 1..Len(s) /\ t[i] = s[i] /\ i \in DOMAIN s
          BY <1>4, <1>5, <1>7, <2>2
    <3>2. s[i].id \notin told.rejected
          BY <1>1, <1>2, <1>4, <1>5, <2>2, <3>1 DEF NotRejected
    <3>3. s[i].id \notin Ids(b)
      <4> SUFFICES ASSUME NEW j \in DOMAIN b, b[j].id = s[i].id PROVE FALSE
          BY DEF Ids
      <4>1. s[i].id < b[j].id
            BY <1>8, <3>1 DEF Before
      <4>2. s[i] \in Frame(m)
            BY <1>6, <3>1
      <4>3. s[i].id \in Nat
            BY <1>6, <4>2 DEF Frame
      <4> QED BY <4>1, <4>3
    <3>4. s[i].id \notin Ids(wal.queue)
      <4>1. Before(s, wal.queue)
            BY <1>1, <1>5 DEF Order
      <4> SUFFICES ASSUME NEW j \in DOMAIN wal.queue, wal.queue[j].id = s[i].id PROVE FALSE
          BY DEF Ids
      <4>2. s[i].id < wal.queue[j].id
            BY <3>1, <4>1 DEF Before
      <4>3. s[i] \in Frame(m)
            BY <1>6, <3>1
      <4>4. s[i].id \in Nat
            BY <1>6, <4>3 DEF Frame
      <4> QED BY <4>2, <4>4
    <3> QED BY <1>2, <1>5, <3>1, <3>2, <3>3, <3>4 DEF Unacked
  <2>3. ASSUME NEW i \in 1..Len(disk'.wal), i > SoundEnd'
        PROVE  (disk.wal[i].id \in told.rejected /\ Landed(disk.wal[i].key).id < disk.wal[i].id)'
    <3>1. i \in 1..Len(t) /\ i > Len(s)
          BY <1>4, <1>5, <2>3
    <3>2. PICK j \in DOMAIN b : t[i] = b[j]
          BY <1>7, <3>1
    <3>3. PICK key, id : key = b[j].key /\ id = b[j].id
          OBVIOUS
    <3>4. key \in Keys
      <4>1. b[j] \in Frame(m)
            BY <1>6
      <4> QED BY <3>3, <4>1 DEF Frame
    <3>5. Flight(key)
          BY <1>1, <3>4 DEF KeysInv
    <3>6. id \in Flying(key)
          BY <1>5, <3>3 DEF Flying, IdsOf
    <3>7. Landed(key).id < id
          BY <3>5, <3>6 DEF Flight
    <3>8. Landed(key)' = Landed(key)
          BY <1>2, <3>4, <3>5, FailsLanded
    <3>9. (disk.wal[i].key)' = key /\ (disk.wal[i].id)' = id
          BY <1>5, <3>2, <3>3
    <3>10. Landed(disk.wal[i].key)' = Landed(key)'
          BY <3>9
    <3>11. id \in told'.rejected
          BY <1>11, <3>3
    <3> QED BY <3>7, <3>8, <3>9, <3>10, <3>11
  <2> QED BY <2>1, <2>2, <2>3 DEF NotRejected
<1>13. KeysInv'
  <2> SUFFICES ASSUME NEW k \in Keys PROVE Flight(k)' /\ OnDisk(k)' /\ Collected(k)'
      BY DEF KeysInv
  <2>1. Flight(k) /\ OnDisk(k) /\ Collected(k)
        BY <1>1 DEF KeysInv
  <2>2. Flight(k)'
        BY <1>2, FlightFresh
  <2>3. Landed(k)' = Landed(k)
        BY <1>2, <2>1, FailsLanded
  <2>4. Suspects(k) \subseteq Suspects(k)'
    <3>1. Suspects(k)' = told'.rejected
          BY <1>2, NoFrames
    <3>2. Flying(k) \subseteq Unacked
          BY DEF Flying, IdsOf, Unacked, Ids
    <3> QED BY <1>2, <3>1, <3>2 DEF Suspects
  <2>5. FilesKept(k)
    <3>1. PICK len, log, log2 : len = SoundEnd /\ log = disk.wal /\ log2 = disk'.wal
          OBVIOUS
    <3>2. /\ len \in Nat /\ \A i \in 1..len : log2[i] = log[i]
          BY <1>4, <1>5, <1>7, <3>1
    <3>3. NoneIn(log2, len, len, k) /\ len <= len
          BY ONLY <3>2, NoneInSame
    <3>4. /\ SoundEnd = len /\ SoundEnd' = len /\ ReadEnd = len /\ ReadEnd' = len
          /\ ReadLog = log /\ ReadLog' = log2
          BY <1>2, <1>4, <3>1 DEF ReadEnd, ReadLog
    <3>5. disk'.snap[k] = disk.snap[k] /\ ReadSnap'[k] = ReadSnap[k]
          BY <1>2 DEF ReadSnap
    <3> QED BY <3>1, <3>2, <3>3, <3>4, <3>5 DEF FilesKept
  <2>6. OnDisk(k)'
    <3>1. told'.acked[k] = told.acked[k]
          BY <1>2
    <3> QED BY <1>1, <2>1, <2>3, <2>4, <2>5, <3>1, OnDiskKept
  <2>7. Collected(k)'
    <3>1. compaction'.pc \in CopyPc \ {"snapshot"} \/ compaction'.rotated => compaction' = compaction
          BY <1>4 DEF CopyPc
    <3>2. compaction'.pc \in CopyPc \ {"snapshot"} \/ compaction'.rotated =>
              /\ compaction.pc \in CopyPc \ {"snapshot"} \/ compaction.rotated
              /\ compaction'.base = compaction.base /\ compaction'.snap = compaction.snap
          BY <3>1
    <3> QED BY <2>1, <2>3, <2>4, <2>5, <3>2, CollectedKept
  <2> QED BY <2>2, <2>6, <2>7
<1> QED BY <1>10, <1>12, <1>13 DEF DataInv

-----------------------------------------------------------------------------
(* The rotation.                                                               *)

\* What a compaction keeps of a log: the frames behind its fence.
LEMMA TailOf ==
    ASSUME NEW n \in Nat, NEW s \in Seq(Frame(n)), NEW base \in Nat, base <= Len(s),
           NEW t, t = SubSeq(s, base + 1, Len(s))
    PROVE  /\ t \in Seq(Frame(n)) /\ Len(t) = Len(s) - base /\ Len(t) \in Nat /\ base + Len(t) = Len(s)
           /\ DOMAIN t = 1..Len(t)
           /\ \A i \in 1..Len(t) : base + i \in 1..Len(s) /\ t[i] = s[base + i]
<1> DEFINE F == Frame(n)
<1> HIDE DEF F
<1>1. s \in Seq(F) /\ Len(s) \in Nat /\ \A i \in 1..Len(s) : s[i] \in F
      BY DEF F
<1>2. PICK l : l = Len(s)
      OBVIOUS
<1>3. /\ t \in Seq(F) /\ Len(t) = l - base
      /\ \A i \in 1..(l - base) : t[i] = s[base + i]
      BY <1>1, <1>2
<1>4. l - base \in Nat /\ base + (l - base) = l /\ \A i \in 1..(l - base) : base + i \in 1..l
      BY ONLY <1>1, <1>2, base \in Nat, base <= Len(s)
<1>5. DOMAIN t = 1..Len(t)
      BY ONLY <1>3
<1>6. PICK m : m = Len(t)
      OBVIOUS
<1>7. m = l - base /\ m \in Nat /\ base + m = l
      BY ONLY <1>3, <1>4, <1>6
<1>8. \A i \in 1..m : base + i \in 1..l /\ t[i] = s[base + i]
      BY ONLY <1>3, <1>4, <1>7
<1>9. t \in Seq(Frame(n))
      BY <1>3 DEF F
<1> QED BY ONLY <1>2, <1>5, <1>6, <1>7, <1>8, <1>9

\* The tail of a log in order is in order.
LEMMA TailRises ==
    ASSUME NEW n \in Nat, NEW s \in Seq(Frame(n)), NEW base \in Nat, base <= Len(s),
           NEW t, t = SubSeq(s, base + 1, Len(s)), Rises(s)
    PROVE  Rises(t)
<1>1. /\ DOMAIN t = 1..Len(t) /\ Len(t) \in Nat
      /\ \A i \in 1..Len(t) : base + i \in 1..Len(s) /\ t[i] = s[base + i]
      BY TailOf
<1>2. DOMAIN s = 1..Len(s)
      OBVIOUS
<1> SUFFICES ASSUME NEW i \in DOMAIN t, NEW j \in DOMAIN t, i < j PROVE t[i].id < t[j].id
    BY DEF Rises
<1>3. base + i \in DOMAIN s /\ base + j \in DOMAIN s /\ t[i] = s[base + i] /\ t[j] = s[base + j]
      BY <1>1, <1>2
<1>4. base + i < base + j
      BY <1>1
<1> QED BY <1>3, <1>4 DEF Rises

\* The tail over the new snapshot replays as the whole log over the old one.
LEMMA TailFits ==
    ASSUME NEW n \in Nat, NEW s \in Seq(Frame(n)), NEW base \in Nat, base <= Len(s),
           NEW t, t = SubSeq(s, base + 1, Len(s)), NEW k, NEW old, NEW new, NEW rec, NEW S,
           FilesFit(k, s, Len(s), old, rec, S), SnapFits(k, s, base, Len(s), new, rec, S)
    PROVE  FilesFit(k, t, Len(t), new, rec, S)
<1>1. PICK l, m : l = Len(s) /\ m = Len(t)
      OBVIOUS
<1>2. /\ m \in Nat /\ l \in Nat /\ base + m = l
      /\ \A i \in 1..m : base + i \in 1..l /\ t[i] = s[base + i]
  <2>1. /\ Len(t) \in Nat /\ base + Len(t) = Len(s)
        /\ \A i \in 1..Len(t) : base + i \in 1..Len(s) /\ t[i] = s[base + i]
        BY TailOf
  <2> QED BY <1>1, <2>1
<1>3. ASSUME NEW j \in 1..l, j > base PROVE j - base \in 1..m /\ t[j - base] = s[j]
  <2>1. j - base \in 1..m /\ base + (j - base) = j
        BY ONLY <1>2, <1>3, base \in Nat
  <2>2. t[j - base] = s[base + (j - base)]
        BY <1>2, <2>1
  <2> QED BY <2>1, <2>2
<1>4. ASSUME NEW i \in 1..m, LastAt(t, m, k, i) PROVE Fits(t[i].id, rec, S)
  <2>1. base + i \in 1..l /\ t[i] = s[base + i] /\ s[base + i].key = k
        BY <1>2, <1>4 DEF LastAt
  <2>2. ASSUME NEW j \in 1..l, s[j].key = k PROVE j <= base + i
    <3>1. CASE j <= base
          BY <3>1
    <3>2. CASE j > base
      <4>1. j - base \in 1..m /\ t[j - base].key = k
            BY <1>3, <2>2, <3>2
      <4>2. j - base <= i
            BY <1>4, <4>1 DEF LastAt
      <4> QED BY <4>2
    <3> QED BY <3>1, <3>2
  <2>3. LastAt(s, l, k, base + i)
        BY <2>1, <2>2 DEF LastAt
  <2>4. Fits(s[base + i].id, rec, S)
        BY <1>1, <2>1, <2>3 DEF FilesFit
  <2> QED BY <2>1, <2>4
<1>5. ASSUME NoneIn(t, 0, m, k) PROVE Fits(new, rec, S)
  <2>1. NoneIn(s, base, l, k)
    <3> SUFFICES ASSUME NEW j \in 1..l, j > base PROVE s[j].key # k
        BY DEF NoneIn
    <3>1. j - base \in 1..m /\ t[j - base] = s[j]
          BY <1>3
    <3>2. PICK i : i = j - base
          OBVIOUS
    <3>3. i \in 1..m /\ i > 0
          BY ONLY <1>2, <3>1, <3>2
    <3> QED BY <1>5, <3>1, <3>2, <3>3 DEF NoneIn
  <2> QED BY <1>1, <2>1 DEF SnapFits
<1> QED BY <1>1, <1>4, <1>5 DEF FilesFit

\* The new snapshot under the whole log: the frames behind the fence win, and of a
\* key that has none the snapshot holds what is landed.
LEMMA RenameSnapshotData ==
    ASSUME TypeInv, OffsetInv, ControlInv, DataInv, RenameSnapshot
    PROVE  DataInv'
<1>1. /\ compaction.pc = "renameSnapshot"
      /\ disk'.wal = disk.wal /\ disk'.snap = compaction.snap
      /\ ~reader.walOld /\ SoundEnd = Len(disk.wal) /\ SoundEnd' = SoundEnd
      /\ ReadLog' = ReadLog /\ ReadEnd' = ReadEnd /\ ReadSnap' = ReadSnap
      /\ compaction'.base = compaction.base /\ compaction'.snap = compaction.snap
      /\ UNCHANGED <<store, wal, disabled, told>>
      BY RenameSnapshotEffect
<1>2. Order /\ NotRejected /\ KeysInv
      BY DEF DataInv
<1>3. SameWal
      BY <1>1 DEF SameWal
<1>4. ASSUME NEW k
      PROVE  Landed(k)' = Landed(k) /\ Suspects(k)' = Suspects(k) /\ (Flight(k) => Flight(k)')
  <2>1. Landed(k)' = Landed(k) /\ Flying(k)' = Flying(k) /\ (Flight(k) => Flight(k)')
        BY <1>1, <1>3, LandedAlone
  <2> QED BY <1>1, <2>1 DEF Suspects
<1>5. Order'
      BY <1>1, <1>2 DEF Order
<1>6. NotRejected'
  <2>1. ~\E i \in 1..Len(disk'.wal) : i > SoundEnd'
    <3>1. PICK len, end : len = Len(disk'.wal) /\ end = SoundEnd'
          OBVIOUS
    <3>2. len \in Nat /\ end = len
          BY <1>1, <3>1, SoundType
    <3>3. ~\E i \in 1..len : i > end
          BY ONLY <3>2
    <3> QED BY <3>1, <3>3
  <2>2. (Ids(wal'.batch) \cup Ids(wal'.queue)) \cap told'.rejected = {}
        BY <1>1, <1>2 DEF NotRejected
  <2>3. ~disabled' => \A i \in 1..SoundEnd' : disk'.wal[i].id \notin told'.rejected
        BY <1>1, <1>2 DEF NotRejected
  <2> QED BY <2>1, <2>2, <2>3 DEF NotRejected
<1>7. KeysInv'
  <2> SUFFICES ASSUME NEW k \in Keys PROVE Flight(k)' /\ OnDisk(k)' /\ Collected(k)'
      BY DEF KeysInv
  <2>1. Flight(k) /\ OnDisk(k) /\ Collected(k)
        BY <1>2 DEF KeysInv
  <2>2. Landed(k)' = Landed(k) /\ Suspects(k)' = Suspects(k) /\ Flight(k)'
        BY <1>4, <2>1
  <2>3. PICK log, n, base, old, new, rec, S :
            /\ log = disk.wal /\ n = SoundEnd /\ base = compaction.base /\ old = disk.snap[k]
            /\ new = compaction.snap[k] /\ rec = Landed(k) /\ S = Suspects(k)
        OBVIOUS
  <2>4. SnapFits(k, log, base, n, new, rec, S)
        BY <1>1, <2>1, <2>3 DEF Collected, CopyPc, ReadLog, ReadEnd
  <2>5. FilesFit(k, log, n, old, rec, S)
        BY <2>1, <2>3 DEF OnDisk
  <2>6. FilesFit(k, log, n, new, rec, S)
    <3>1. NoneIn(log, 0, n, k) => NoneIn(log, base, n, k)
      <4>1. base \in Nat
            BY <2>3, Parts
      <4> QED BY <4>1 DEF NoneIn
    <3> QED BY <2>4, <2>5, <3>1 DEF FilesFit, SnapFits
  <2>7. OnDisk(k)'
    <3>1. FilesFit(k, disk'.wal, SoundEnd', disk'.snap[k], Landed(k)', Suspects(k)')
          BY <1>1, <2>2, <2>3, <2>6
    <3>2. PointsTo(ReadLog', ReadEnd', ReadSnap'[k], Landed(k)', Suspects(k)')
          BY <1>1, <2>1, <2>2 DEF OnDisk
    <3>3. told'.acked[k] <= Landed(k)'.id
          BY <1>1, <2>1, <2>2 DEF OnDisk
    <3> QED BY <3>1, <3>2, <3>3 DEF OnDisk
  <2>8. Collected(k)'
    <3>1. SnapFits(k, ReadLog, compaction.base, ReadEnd, compaction.snap[k], Landed(k), Suspects(k))
          BY <1>1, <2>1 DEF Collected, CopyPc
    <3>2. SnapFits(k, ReadLog', compaction'.base, ReadEnd', compaction'.snap[k], Landed(k)', Suspects(k)')
          BY <1>1, <2>2, <3>1
    <3> QED BY <3>2 DEF Collected
  <2> QED BY <2>2, <2>7, <2>8
<1> QED BY <1>5, <1>6, <1>7 DEF DataInv

\* The tail replaces the log.
LEMMA RenameWalData ==
    ASSUME TypeInv, OffsetInv, ControlInv, DataInv, RenameWal
    PROVE  DataInv'
<1>1. /\ compaction.pc = "renameWal" /\ wal.batch = <<>> /\ wal.queue = <<>>
      /\ disk'.snap = disk.snap /\ disk.snap = compaction.snap
      /\ compaction.base <= Len(disk.wal)
      /\ disk'.wal = SubSeq(disk.wal, compaction.base + 1, Len(disk.wal))
      /\ SoundEnd = Len(disk.wal) /\ SoundEnd' = Len(disk'.wal)
      /\ ReadLog = disk.wal /\ ReadLog' = disk.wal /\ ReadEnd = Len(disk.wal) /\ ReadEnd' = ReadEnd
      /\ ReadSnap' = ReadSnap
      /\ compaction'.base = compaction.base /\ compaction'.snap = compaction.snap
      /\ UNCHANGED <<store, wal, disabled, told>>
      BY RenameWalEffect
<1>2. Order /\ NotRejected /\ KeysInv
      BY DEF DataInv
<1>3. SameWal
      BY <1>1 DEF SameWal
<1>4. ASSUME NEW k
      PROVE  Landed(k)' = Landed(k) /\ Suspects(k)' = Suspects(k) /\ (Flight(k) => Flight(k)')
  <2>1. Landed(k)' = Landed(k) /\ Flying(k)' = Flying(k) /\ (Flight(k) => Flight(k)')
        BY <1>1, <1>3, LandedAlone
  <2> QED BY <1>1, <2>1 DEF Suspects
<1>5. PICK n, s, base, t : n = told.appends /\ s = disk.wal /\ base = compaction.base /\ t = disk'.wal
      OBVIOUS
<1>6. n \in Nat /\ s \in Seq(Frame(n)) /\ base \in Nat /\ base <= Len(s) /\ t = SubSeq(s, base + 1, Len(s))
      BY <1>1, <1>5, Parts
<1>7. /\ Len(t) \in Nat
      /\ \A i \in 1..Len(t) : base + i \in 1..Len(s) /\ t[i] = s[base + i]
      BY ONLY <1>6, TailOf
<1>8. Order'
  <2>1. Rises(s)
        BY <1>2, <1>5 DEF Order
  <2>2. Rises(t)
        BY ONLY <1>6, <2>1, TailRises
  <2>3. \A x : Before(x, <<>>) /\ Before(<<>>, x)
        BY DEF Before
  <2>4. Rises(<<>>)
        BY DEF Rises
  <2> QED BY <1>1, <1>5, <2>2, <2>3, <2>4 DEF Order
<1>9. NotRejected'
  <2>1. ~\E i \in 1..Len(disk'.wal) : i > SoundEnd'
    <3>1. PICK len, end : len = Len(disk'.wal) /\ end = SoundEnd'
          OBVIOUS
    <3>2. len \in Nat /\ end = len
          BY <1>1, <1>5, <1>7, <3>1
    <3>3. ~\E i \in 1..len : i > end
          BY ONLY <3>2
    <3> QED BY <3>1, <3>3
  <2>2. (Ids(wal'.batch) \cup Ids(wal'.queue)) \cap told'.rejected = {}
        BY <1>1, <1>2 DEF NotRejected
  <2>3. ASSUME ~disabled', NEW i \in 1..SoundEnd' PROVE disk'.wal[i].id \notin told'.rejected
    <3>1. i \in 1..Len(t)
          BY <1>1, <1>5, <2>3
    <3>2. base + i \in 1..Len(s) /\ t[i] = s[base + i]
          BY <1>7, <3>1
    <3>3. s[base + i].id \notin told.rejected
          BY <1>1, <1>2, <1>5, <2>3, <3>2 DEF NotRejected
    <3> QED BY <1>1, <1>5, <3>2, <3>3
  <2> QED BY <2>1, <2>2, <2>3 DEF NotRejected
<1>10. KeysInv'
  <2> SUFFICES ASSUME NEW k \in Keys PROVE Flight(k)' /\ OnDisk(k)' /\ Collected(k)'
      BY DEF KeysInv
  <2>1. Flight(k) /\ OnDisk(k) /\ Collected(k)
        BY <1>2 DEF KeysInv
  <2>2. Landed(k)' = Landed(k) /\ Suspects(k)' = Suspects(k) /\ Flight(k)'
        BY <1>4, <2>1
  <2>3. PICK old, new, rec, S :
            /\ old = disk.snap[k] /\ new = compaction.snap[k] /\ rec = Landed(k) /\ S = Suspects(k)
        OBVIOUS
  <2>4. SnapFits(k, s, base, Len(s), new, rec, S)
        BY <1>1, <1>5, <2>1, <2>3 DEF Collected, CopyPc
  <2>5. FilesFit(k, s, Len(s), old, rec, S)
        BY <1>1, <1>5, <2>1, <2>3 DEF OnDisk
  <2>6. FilesFit(k, t, Len(t), new, rec, S)
        BY ONLY <1>6, <2>4, <2>5, TailFits
  <2>7. OnDisk(k)'
    <3>1. FilesFit(k, disk'.wal, SoundEnd', disk'.snap[k], Landed(k)', Suspects(k)')
          BY <1>1, <1>5, <2>2, <2>3, <2>6
    <3>2. PointsTo(ReadLog', ReadEnd', ReadSnap'[k], Landed(k)', Suspects(k)')
          BY <1>1, <2>1, <2>2 DEF OnDisk
    <3>3. told'.acked[k] <= Landed(k)'.id
          BY <1>1, <2>1, <2>2 DEF OnDisk
    <3> QED BY <3>1, <3>2, <3>3 DEF OnDisk
  <2>8. Collected(k)'
    <3>1. SnapFits(k, ReadLog, compaction.base, ReadEnd, compaction.snap[k], Landed(k), Suspects(k))
          BY <1>1, <2>1 DEF Collected, CopyPc
    <3>2. SnapFits(k, ReadLog', compaction'.base, ReadEnd', compaction'.snap[k], Landed(k)', Suspects(k)')
          BY <1>1, <2>2, <3>1
    <3> QED BY <3>2 DEF Collected
  <2> QED BY <2>2, <2>7, <2>8
<1> QED BY <1>8, <1>9, <1>10 DEF DataInv

Remapped(rec) == [rec EXCEPT !.loc = RemapLoc(@)]

TailAt(n, s, base, t) ==
    /\ n \in Nat /\ s \in Seq(Frame(n)) /\ base \in Nat /\ base <= Len(s) /\ base = compaction.base
    /\ t = SubSeq(s, base + 1, Len(s))

\* The pointer of a record after the rotation, in the tail or in the new snapshot.
LEMMA RemapPoints ==
    ASSUME NEW n, NEW s, NEW base, NEW t, TailAt(n, s, base, t), NEW k, NEW old, NEW new, NEW S,
           NEW rec, rec \in Record(n), NEW rec2, rec2 = Remapped(rec),
           PointsTo(s, Len(s), old, rec, S), SnapFits(k, s, base, Len(s), new, rec, S)
    PROVE  rec2.id = rec.id /\ PointsTo(t, Len(t), new, rec2, S)
<1>0. /\ n \in Nat /\ s \in Seq(Frame(n)) /\ base \in Nat /\ base <= Len(s) /\ base = compaction.base
      /\ t = SubSeq(s, base + 1, Len(s))
      BY DEF TailAt
<1>1. PICK loc, id : loc = rec.loc /\ id = rec.id
      OBVIOUS
<1>2. n \in Nat /\ base \in Nat /\ loc \in Locs /\ rec \in [id : 0..n, loc : Locs]
      BY <1>0, <1>1 DEF Record
<1>3. rec2.id = id /\ rec2.loc = RemapLoc(loc)
      BY <1>1, <1>2 DEF Remapped
<1>4. /\ Len(t) = Len(s) - base /\ base <= Len(s) /\ Len(s) \in Nat
      /\ \A i \in 1..Len(t) : base + i \in 1..Len(s) /\ t[i] = s[base + i]
  <2>1. base <= Len(s) /\ t = SubSeq(s, base + 1, Len(s)) /\ Len(s) \in Nat
        BY <1>0
  <2>2. /\ Len(t) = Len(s) - base
        /\ \A i \in 1..Len(t) : base + i \in 1..Len(s) /\ t[i] = s[base + i]
    <3>1. s \in Seq(Frame(n)) /\ n \in Nat /\ base \in Nat
          BY <1>0
    <3> QED BY ONLY <2>1, <3>1, TailOf
  <2> QED BY <2>1, <2>2
<1>5. Below(loc, base) => Fits(new, rec, S)
      BY <1>1 DEF SnapFits
<1>6. Fits(new, rec, S) => Fits(new, rec2, S)
      BY <1>1, <1>3 DEF Fits
<1>7. CASE loc.file = "wal" /\ loc.off >= base
  <2>1. rec2.loc = [loc EXCEPT !.off = @ - base]
        BY <1>0, <1>1, <1>3, <1>7 DEF RemapLoc
  <2>2. rec2.loc.file = "wal" /\ rec2.loc.off = loc.off - base
        BY <1>2, <1>7, <2>1 DEF Locs
  <2>3. loc.off < Len(s) /\ s[loc.off + 1].id = id /\ loc.off \in Nat
        BY <1>1, <1>2, <1>7 DEF PointsTo, Locs
  <2>4. PICK off, l, m : off = loc.off /\ l = Len(s) /\ m = Len(t)
        OBVIOUS
  <2>5. off \in Nat /\ off < l /\ off >= base /\ l \in Nat /\ m = l - base
        BY <1>4, <1>7, <2>3, <2>4
  <2>6. off - base < m /\ (off - base) + 1 \in 1..m /\ base + ((off - base) + 1) = off + 1
        BY ONLY <1>2, <2>5
  <2>7. t[(off - base) + 1] = s[off + 1]
    <3>1. t[(off - base) + 1] = s[base + ((off - base) + 1)]
          BY <1>4, <2>4, <2>6
    <3> QED BY ONLY <2>6, <3>1
  <2> QED BY <1>1, <1>3, <2>2, <2>3, <2>4, <2>6, <2>7 DEF PointsTo
<1>8. CASE loc.file = "wal" /\ ~(loc.off >= base)
  <2>1. rec2.loc = [file |-> "snapshot", off |-> 0]
        BY <1>0, <1>1, <1>3, <1>8 DEF RemapLoc
  <2>2. Below(loc, base)
        BY <1>2, <1>8 DEF Below, Locs
  <2> QED BY <1>1, <1>3, <1>5, <1>6, <2>1, <2>2 DEF PointsTo
<1>9. CASE loc.file = "snapshot"
  <2>1. rec2.loc = [file |-> "snapshot", off |-> 0]
        BY <1>3, <1>9 DEF RemapLoc
  <2>2. Below(loc, base)
        BY <1>9 DEF Below
  <2> QED BY <1>1, <1>3, <1>5, <1>6, <2>1, <2>2 DEF PointsTo
<1>10. CASE loc.file = "memory"
  <2>1. rec2.loc = loc
        BY <1>3, <1>10 DEF RemapLoc
  <2> QED BY <1>1, <1>3, <1>10, <2>1 DEF PointsTo
<1> QED BY <1>2, <1>7, <1>8, <1>9, <1>10 DEF Locs

\* The store and the readers follow to the new files.
LEMMA FollowsData ==
    ASSUME TypeInv, OffsetInv, ControlInv, DataInv, Follows
    PROVE  DataInv'
<1>1. /\ wal.batch = <<>> /\ wal.queue = <<>>
      /\ compaction.base <= Len(reader.wal)
      /\ disk.wal = SubSeq(reader.wal, compaction.base + 1, Len(reader.wal))
      /\ disk.snap = compaction.snap
      /\ SoundEnd = Len(disk.wal) /\ SoundEnd' = Len(disk.wal)
      /\ ReadLog = reader.wal /\ ReadEnd = Len(reader.wal)
      /\ ReadLog' = disk.wal /\ ReadEnd' = Len(disk.wal) /\ ReadSnap' = disk.snap
      /\ wal' = FreshWal(Len(disk.wal)) /\ compaction' = NoCompaction
      /\ store' = [k \in Keys |-> [store[k] EXCEPT !.loc = RemapLoc(@)]]
      /\ UNCHANGED <<disk, disabled, told>>
      BY FollowsEffect
<1>2. Order /\ NotRejected /\ KeysInv
      BY DEF DataInv
<1>3. /\ wal'.batch = <<>> /\ wal'.queue = <<>>
      /\ wal'.batchGroup = NoGroup /\ wal'.queueGroup = NoGroup
      BY <1>1, FreshWalFields
<1>4. Order'
      BY <1>1, <1>2, <1>3 DEF Order
<1>5. NotRejected'
  <2>1. ~\E i \in 1..Len(disk'.wal) : i > SoundEnd'
    <3>1. PICK len, end : len = Len(disk'.wal) /\ end = SoundEnd'
          OBVIOUS
    <3>2. len \in Nat /\ end = len
          BY <1>1, <3>1, SoundType
    <3>3. ~\E i \in 1..len : i > end
          BY ONLY <3>2
    <3> QED BY <3>1, <3>3
  <2>2. (Ids(wal'.batch) \cup Ids(wal'.queue)) \cap told'.rejected = {}
        BY <1>1, <1>2, <1>3 DEF NotRejected
  <2>3. ~disabled' => \A i \in 1..SoundEnd' : disk'.wal[i].id \notin told'.rejected
        BY <1>1, <1>2 DEF NotRejected
  <2> QED BY <2>1, <2>2, <2>3 DEF NotRejected
<1>6. KeysInv'
  <2> SUFFICES ASSUME NEW k \in Keys PROVE Flight(k)' /\ OnDisk(k)' /\ Collected(k)'
      BY DEF KeysInv
  <2>1. Flight(k) /\ OnDisk(k) /\ Collected(k)
        BY <1>2 DEF KeysInv
  <2>2. Flight(k)'
        BY <1>3, FlightFresh
  <2>3. PICK n, base, s, t, old, new, rec, rec2, S :
            /\ n = told.appends /\ base = compaction.base /\ s = reader.wal /\ t = disk.wal /\ old = ReadSnap[k]
            /\ new = disk.snap[k] /\ rec = store[k] /\ rec2 = store'[k] /\ S = told.rejected
        OBVIOUS
  <2>4. Landed(k) = rec /\ Suspects(k) = S /\ Landed(k)' = rec2 /\ Suspects(k)' = S
        BY <1>1, <1>3, <2>3, NoFrames
  <2>5. /\ TailAt(n, s, base, t)
        /\ rec \in Record(n) /\ rec2 = Remapped(rec)
        BY <1>1, <2>3, Parts DEF Remapped, TailAt
  <2>6. /\ PointsTo(s, Len(s), old, rec, S)
        /\ SnapFits(k, s, base, Len(s), new, rec, S)
        /\ FilesFit(k, t, Len(t), new, rec, S)
        /\ told.acked[k] <= rec.id
    <3>1. compaction.rotated /\ compaction.snap[k] = new
          BY <1>1, <2>3 DEF Follows
    <3>2. SnapFits(k, ReadLog, compaction.base, ReadEnd, compaction.snap[k], Landed(k), Suspects(k))
          BY <2>1, <3>1 DEF Collected
    <3>3. /\ PointsTo(ReadLog, ReadEnd, ReadSnap[k], Landed(k), Suspects(k))
          /\ FilesFit(k, disk.wal, SoundEnd, disk.snap[k], Landed(k), Suspects(k))
          /\ told.acked[k] <= Landed(k).id
          BY <2>1 DEF OnDisk
    <3> QED BY <1>1, <2>3, <2>4, <3>1, <3>2, <3>3
  <2>7. rec2.id = rec.id /\ PointsTo(t, Len(t), new, rec2, S)
        BY ONLY <2>5, <2>6, RemapPoints
  <2>8. FilesFit(k, t, Len(t), new, rec2, S)
        BY <2>6, <2>7 DEF FilesFit, Fits
  <2>9. OnDisk(k)'
        BY <1>1, <2>3, <2>4, <2>6, <2>7, <2>8 DEF OnDisk
  <2>10. Collected(k)'
        BY <1>1 DEF Collected, NoCompaction, CopyPc
  <2> QED BY <2>2, <2>9, <2>10
<1> QED BY <1>4, <1>5, <1>6 DEF DataInv

-----------------------------------------------------------------------------
(* A reopen.                                                                   *)

\* What a replay finds of a key: its last frame, or else the snapshot.
LEMMA ReplayFinds ==
    ASSUME NEW n \in Nat, NEW log \in Seq(Frame(n)), NEW k
    PROVE  /\ \A i : LastAt(log, Len(log), k, i) =>
                 Replay(k, log) = [id |-> log[i].id, loc |-> [file |-> "wal", off |-> i - 1]]
           /\ NoneIn(log, 0, Len(log), k) =>
                 Replay(k, log) = [id |-> disk.snap[k], loc |-> [file |-> "snapshot", off |-> 0]]
           /\ NoneIn(log, 0, Len(log), k) \/ \E i \in 1..Len(log) : LastAt(log, Len(log), k, i)
<1>1. DOMAIN log = 1..Len(log) /\ Len(log) \in Nat
      OBVIOUS
<1>2. Frames(k, log) = {i \in 1..Len(log) : log[i].key = k}
      BY <1>1 DEF Frames
<1>3. ASSUME NEW i, LastAt(log, Len(log), k, i)
      PROVE  Replay(k, log) = [id |-> log[i].id, loc |-> [file |-> "wal", off |-> i - 1]]
  <2>1. PICK T : T = Frames(k, log)
        OBVIOUS
  <2>2. i \in T /\ T \subseteq Nat /\ \A j \in T : j <= i
        BY <1>1, <1>2, <1>3, <2>1 DEF LastAt
  <2>3. \A j \in T : (\A l \in T : l <= j) => j = i
        BY <2>2
  <2>4. (CHOOSE j \in T : \A l \in T : l <= j) = i
        BY <2>2, <2>3
  <2>5. T # {}
        BY <2>2
  <2> QED BY <2>1, <2>4, <2>5 DEF Replay
<1>4. ASSUME NoneIn(log, 0, Len(log), k)
      PROVE  Replay(k, log) = [id |-> disk.snap[k], loc |-> [file |-> "snapshot", off |-> 0]]
  <2>1. Frames(k, log) = {}
        BY <1>1, <1>2, <1>4 DEF NoneIn
  <2> QED BY <2>1 DEF Replay
<1>5. NoneIn(log, 0, Len(log), k) \/ \E i \in 1..Len(log) : LastAt(log, Len(log), k, i)
      BY <1>1, LastExists
<1> QED BY <1>3, <1>4, <1>5

\* The log, or the log with frames of the batch in flight behind it.
Reached(log) ==
    /\ log \in Seq(Frame(told.appends)) /\ Len(log) \in Nat /\ Len(disk.wal) <= Len(log)
    /\ \A i \in 1..Len(disk.wal) : log[i] = disk.wal[i]
    /\ \A i \in 1..Len(log) : i > Len(disk.wal) => \E j \in DOMAIN wal.batch : log[i] = wal.batch[j]

\* A reopen finds what is landed or what is newer, whatever part of the batch in
\* flight reached the file.
LEMMA ReplayCovers ==
    ASSUME TypeInv, Recovering, NotRejected, NEW k \in Keys, Flight(k), OnDisk(k), NEW t, Reached(t)
    PROVE  Landed(k).id <= Replay(k, t).id
<1>1. PICK m, s, b, end, rec, S :
          /\ m = told.appends /\ s = disk.wal /\ b = wal.batch
          /\ end = SoundEnd /\ rec = Landed(k) /\ S = Suspects(k)
      OBVIOUS
<1>2. /\ m \in Nat /\ t \in Seq(Frame(m)) /\ s \in Seq(Frame(m)) /\ Len(s) \in Nat
      /\ end \in Nat /\ end <= Len(s) /\ rec.id \in Nat
  <2>1. m \in Nat /\ t \in Seq(Frame(m)) /\ s \in Seq(Frame(m)) /\ Len(s) \in Nat
    <3>1. t \in Seq(Frame(m))
          BY <1>1 DEF Reached
    <3> QED BY <1>1, <3>1, Lengths
  <2>2. end \in 0..Len(s)
        BY <1>1 DEF Recovering
  <2>3. rec.id \in Nat
        BY <1>1, LandedType
  <2>4. end \in Nat /\ end <= Len(s)
        BY ONLY <2>1, <2>2
  <2> QED BY <2>1, <2>3, <2>4
<1>3. /\ Len(t) \in Nat /\ Len(s) <= Len(t)
      /\ \A i \in 1..Len(s) : t[i] = s[i]
      /\ \A i \in 1..Len(t) : i > Len(s) => \E j \in DOMAIN b : t[i] = b[j]
      BY <1>1 DEF Reached
<1>4. FilesFit(k, s, end, disk.snap[k], rec, S)
      BY <1>1 DEF OnDisk
<1>5. PICK ls, lt : ls = Len(s) /\ lt = Len(t)
      OBVIOUS
<1>6. ls \in Nat /\ lt \in Nat /\ ls <= lt /\ end <= ls /\ end \in Nat /\ 1..end \subseteq 1..ls /\ 1..end \subseteq 1..lt
  <2>1. ls \in Nat /\ lt \in Nat /\ ls <= lt /\ end <= ls /\ end \in Nat
        BY <1>2, <1>3, <1>5
  <2> QED BY ONLY <2>1
<1>7. \A i \in 1..end : t[i] = s[i]
      BY <1>3, <1>5, <1>6
<1>8. ASSUME NEW id \in Nat, Fits(id, rec, S) PROVE id >= rec.id
      BY <1>2, <1>8 DEF Fits
<1>9. CASE NoneIn(t, 0, lt, k)
  <2>1. NoneIn(s, 0, end, k)
        BY <1>6, <1>7, <1>9 DEF NoneIn
  <2>2. disk.snap[k] \in Nat
        BY Parts
  <2>3. disk.snap[k] >= rec.id
        BY <1>4, <1>8, <2>1, <2>2 DEF FilesFit
  <2>4. Replay(k, t).id = disk.snap[k]
        BY <1>2, <1>5, <1>9, ReplayFinds
  <2> QED BY <1>1, <1>2, <2>2, <2>3, <2>4
<1>10. ASSUME NEW i \in 1..lt, LastAt(t, lt, k, i)
       PROVE  rec.id <= Replay(k, t).id
  <2>1. Replay(k, t).id = t[i].id
        BY <1>2, <1>5, <1>10, ReplayFinds
  <2>2. t[i].key = k
        BY <1>10 DEF LastAt
  <2>3. CASE i <= end
    <3>1. i \in 1..end /\ t[i] = s[i]
          BY <1>6, <1>7, <2>3
    <3>2. LastAt(s, end, k, i)
          BY <1>6, <1>7, <1>10, <3>1 DEF LastAt
    <3>3. t[i].id \in Nat
      <4>1. t[i] \in Frame(m)
            BY <1>2, <1>5
      <4> QED BY <1>2, <4>1 DEF Frame
    <3>4. t[i].id >= rec.id
      <4>1. Fits(s[i].id, rec, S)
            BY <1>4, <3>1, <3>2 DEF FilesFit
      <4> QED BY <1>8, <3>1, <3>3, <4>1
    <3> QED BY <1>2, <2>1, <3>3, <3>4
  <2>4. CASE i > end /\ i <= ls
    <3>1. i \in 1..ls
          BY <1>6, <2>4
    <3>2. s[i].key = k /\ t[i] = s[i]
          BY <1>3, <1>5, <2>2, <3>1
    <3>3. Landed(disk.wal[i].key).id < disk.wal[i].id
          BY <1>1, <1>5, <2>4, <3>1 DEF NotRejected
    <3>4. rec.id < s[i].id
          BY <1>1, <3>2, <3>3
    <3>5. s[i].id \in Nat
      <4>1. s[i] \in Frame(m)
            BY <1>2, <1>5, <3>1
      <4> QED BY <1>2, <4>1 DEF Frame
    <3> QED BY <1>2, <2>1, <3>2, <3>4, <3>5
  <2>5. CASE i > ls
    <3>1. PICK j \in DOMAIN b : t[i] = b[j]
          BY <1>3, <1>5, <2>5
    <3>2. t[i].id \in Flying(k)
          BY <1>1, <2>2, <3>1 DEF Flying, IdsOf
    <3>3. rec.id < t[i].id
          BY <1>1, <3>2 DEF Flight
    <3>4. t[i].id \in Nat
      <4>1. t[i] \in Frame(m)
            BY <1>2, <1>5
      <4> QED BY <1>2, <4>1 DEF Frame
    <3> QED BY <1>2, <2>1, <3>3, <3>4
  <2> QED BY <1>6, <2>3, <2>4, <2>5
<1>11. NoneIn(t, 0, lt, k) \/ \E i \in 1..lt : LastAt(t, lt, k, i)
       BY <1>2, <1>5, ReplayFinds
<1> QED BY <1>1, <1>9, <1>10, <1>11

\* The record a replay yields is what the files hold.
LEMMA ReplayFits ==
    ASSUME NEW n \in Nat, NEW log \in Seq(Frame(n)), disk.snap \in [Keys -> 0..n], NEW k \in Keys,
           NEW rec, rec = IF Replay(k, log).id = 0 THEN Absent ELSE Replay(k, log), NEW S
    PROVE  /\ rec.id = Replay(k, log).id
           /\ FilesFit(k, log, Len(log), disk.snap[k], rec, S)
           /\ PointsTo(log, Len(log), disk.snap[k], rec, S)
<1>1. PICK l, r : l = Len(log) /\ r = Replay(k, log)
      OBVIOUS
<1>2. l \in Nat
      BY <1>1
<1>3. /\ \A i : LastAt(log, l, k, i) => r = [id |-> log[i].id, loc |-> [file |-> "wal", off |-> i - 1]]
      /\ NoneIn(log, 0, l, k) => r = [id |-> disk.snap[k], loc |-> [file |-> "snapshot", off |-> 0]]
      /\ NoneIn(log, 0, l, k) \/ \E i \in 1..l : LastAt(log, l, k, i)
      BY <1>1, ReplayFinds
<1>4. rec.id = r.id
      BY <1>1 DEF Absent
<1>5. FilesFit(k, log, l, disk.snap[k], rec, S)
      BY <1>3, <1>4 DEF FilesFit, Fits
<1>6. PointsTo(log, l, disk.snap[k], rec, S)
  <2>1. CASE rec = Absent
        BY <2>1 DEF Absent, InMemory, PointsTo
  <2>2. CASE rec = r /\ NoneIn(log, 0, l, k)
        BY <1>3, <2>2 DEF PointsTo, Fits
  <2>3. ASSUME rec = r, NEW i \in 1..l, LastAt(log, l, k, i)
        PROVE  PointsTo(log, l, disk.snap[k], rec, S)
    <3>1. rec = [id |-> log[i].id, loc |-> [file |-> "wal", off |-> i - 1]]
          BY <1>3, <2>3
    <3>2. i - 1 < l /\ (i - 1) + 1 = i
          BY <1>2
    <3> QED BY <3>1, <3>2 DEF PointsTo
  <2>4. rec = Absent \/ rec = r
        BY <1>1
  <2> QED BY <1>3, <2>1, <2>2, <2>3, <2>4
<1> QED BY <1>1, <1>4, <1>5, <1>6

\* A reopen finds what is landed or later, and takes it for the store.
LEMMA CrashData ==
    ASSUME TypeInv, ControlInv, DataInv, CrashAndOpen
    PROVE  DataInv'
<1>1. /\ \A k \in Keys : store'[k] = IF Replay(k, disk'.wal).id = 0 THEN Absent ELSE Replay(k, disk'.wal)
      /\ disk'.snap = disk.snap /\ wal' = FreshWal(Len(disk'.wal))
      /\ disk'.wal \in Seq(Frame(told.appends))
      /\ reader' = SamePath /\ compaction' = NoCompaction
      /\ told'.rejected = {} /\ told'.acked = told.acked
      /\ SoundEnd' = Len(disk'.wal)
      BY CrashEffect
<1>2. PICK n \in 0..Len(wal.batch) : disk'.wal = disk.wal \o SubSeq(wal.batch, 1, n)
      BY CrashEffect
<1>3. Order /\ NotRejected /\ KeysInv /\ Recovering
      BY DEF DataInv, ControlInv
<1>4. /\ wal'.batch = <<>> /\ wal'.queue = <<>>
      /\ wal'.batchGroup = NoGroup /\ wal'.queueGroup = NoGroup
      BY <1>1, FreshWalFields
<1>5. Rises(disk'.wal) /\ Len(disk'.wal) \in Nat
      BY <1>2, <1>3, GrownLog
<1>6. Order'
  <2>1. \A x : Before(x, <<>>) /\ Before(<<>>, x)
        BY DEF Before
  <2>2. Rises(<<>>)
        BY DEF Rises
  <2> QED BY <1>4, <1>5, <2>1, <2>2 DEF Order
<1>7. NotRejected'
  <2>1. ~\E i \in 1..Len(disk'.wal) : i > SoundEnd'
    <3>1. PICK len, end : len = Len(disk'.wal) /\ end = SoundEnd'
          OBVIOUS
    <3>2. len \in Nat /\ end = len
          BY <1>1, <1>5, <3>1
    <3>3. ~\E i \in 1..len : i > end
          BY ONLY <3>2
    <3> QED BY <3>1, <3>3
  <2> QED BY <1>1, <2>1 DEF NotRejected
<1>8. KeysInv'
  <2> SUFFICES ASSUME NEW k \in Keys PROVE Flight(k)' /\ OnDisk(k)' /\ Collected(k)'
      BY DEF KeysInv
  <2>1. Flight(k) /\ OnDisk(k)
        BY <1>3 DEF KeysInv
  <2>2. Flight(k)'
        BY <1>4, FlightFresh
  <2>3. PICK m, log, rec, S :
            m = told.appends /\ log = disk'.wal /\ rec = store'[k] /\ S = Suspects(k)'
        OBVIOUS
  <2>4. Landed(k)' = rec
        BY <1>4, <2>3, NoFrames
  <2>5. m \in Nat /\ log \in Seq(Frame(m)) /\ disk.snap \in [Keys -> 0..m]
        BY <1>1, <2>3, Parts
  <2>6. /\ rec.id = Replay(k, log).id
        /\ FilesFit(k, log, Len(log), disk.snap[k], rec, S)
        /\ PointsTo(log, Len(log), disk.snap[k], rec, S)
    <3>1. rec = IF Replay(k, log).id = 0 THEN Absent ELSE Replay(k, log)
          BY <1>1, <2>3
    <3> QED BY <2>5, <3>1, ReplayFits
  <2>7. told'.acked[k] <= rec.id
    <3>1. Landed(k).id <= Replay(k, log).id
      <4>1. Reached(log)
            BY <1>1, <1>2, <1>3, <2>3, GrownLog DEF Reached
      <4> QED BY <1>3, <2>1, <4>1, ReplayCovers
    <3>2. told.acked[k] <= Landed(k).id
          BY <2>1 DEF OnDisk
    <3>3. Landed(k).id \in Nat /\ told.acked[k] \in Nat
          BY <2>1, LandedType, Parts
    <3>4. Replay(k, log).id \in Nat
      <4>1. Replay(k, log) \in Record(m)
            BY <2>5, ReplayType
      <4> QED BY <2>5, <4>1 DEF Record
    <3>5. told'.acked[k] = told.acked[k]
          BY <1>1
    <3> QED BY <2>6, <3>1, <3>2, <3>3, <3>4, <3>5
  <2>8. OnDisk(k)'
    <3>1. ReadLog' = disk'.wal /\ ReadEnd' = Len(disk'.wal) /\ ReadSnap' = disk.snap
          BY <1>1 DEF ReadLog, ReadEnd, ReadSnap, SamePath
    <3> QED BY <1>1, <2>3, <2>4, <2>6, <2>7, <3>1 DEF OnDisk
  <2>9. Collected(k)'
        BY <1>1 DEF Collected, NoCompaction, CopyPc
  <2> QED BY <2>2, <2>8, <2>9
<1> QED BY <1>6, <1>7, <1>8 DEF DataInv

\* Files and memory stay in step, whatever step is taken.
LEMMA NextData ==
    ASSUME IInv, DiskInv, Next, ~CompactWhileRecovering
    PROVE  DataInv'
<1>0. TypeInv /\ OffsetInv /\ RollInv /\ ControlInv /\ DataInv
      BY DEF IInv, DiskInv
<1>1. CASE \E w \in Writers : Writer(w)
      BY <1>0, <1>1, WriterData
<1>2. CASE StartBatch
      BY <1>0, <1>2, StartData
<1>3. CASE BatchLands
      BY <1>0, <1>3, LandsData
<1>4. CASE BatchFails
      BY <1>0, <1>4, FailsData
<1>5. CASE Recover
  <2>1. CASE Cut \/ Refresh
        BY <1>0, <2>1, CutData
  <2>2. CASE CutFails
        BY <1>0, <2>2, CutFailsData
  <2> QED BY <1>5, <2>1, <2>2 DEF Recover
<1>6. CASE CopyStep
      BY <1>0, <1>6, CopyStepData
<1>7. CASE RenameSnapshot
      BY <1>0, <1>7, RenameSnapshotData
<1>8. CASE RenameWal
      BY <1>0, <1>8, RenameWalData
<1>9. CASE OpenFresh \/ RollForward
  <2>1. CASE Follows
        BY <1>0, <2>1, FollowsData
  <2>2. CASE Resumes
        BY <1>0, <2>2, ResumesData
  <2>3. OpenFresh => compaction.rotated
        BY <1>0 DEF OpenFresh, ControlInv, Compacting
  <2> QED BY <1>9, <2>1, <2>2, <2>3 DEF Follows, Resumes
<1>10. CASE CrashAndOpen
      BY <1>0, <1>10, CrashData
<1> QED BY <1>1, <1>2, <1>3, <1>4, <1>5, <1>6, <1>7, <1>8, <1>9, <1>10 DEF Next, Compact, CopyStep

\* Files and memory are in step in every state of the specification.
LEMMA InitDisk == Init => DiskInv
<1> SUFFICES ASSUME Init PROVE DiskInv
    OBVIOUS
<1>1. /\ wal.batch = <<>> /\ wal.queue = <<>> /\ wal.state = "open" /\ ~wal.poison.poisoned
      /\ wal.size = 0 /\ wal.nextOffset = 0 /\ wal.batchGroup = NoGroup /\ wal.queueGroup = NoGroup
      BY DEF Init, FreshWal, NotPoisoned
<1>2. /\ disk.wal = <<>> /\ \A k \in Keys : disk.snap[k] = 0
      /\ ~reader.walOld /\ ~reader.snapOld /\ recovery.pc = "idle" /\ ~disabled
      /\ compaction.pc = "idle" /\ ~compaction.rotated
      /\ told.rejected = {} /\ \A k \in Keys : told.acked[k] = 0 /\ store[k] = Absent
      BY DEF Init, SamePath, NoRecovery, NoCompaction
<1>3. Len(<<>>) = 0 /\ DOMAIN <<>> = {} /\ SoundEnd = 0
      BY <1>1, <1>2 DEF SoundEnd
<1>4. ControlInv
  <2>1. Sizes
        BY <1>1, <1>2, <1>3 DEF Sizes
  <2>2. Recovering
        BY <1>1, <1>2, <1>3 DEF Recovering
  <2>3. Compacting
        BY <1>1, <1>2 DEF Compacting
  <2>4. Copied
        BY <1>2 DEF Copied, CopyPc
  <2> QED BY <2>1, <2>2, <2>3, <2>4 DEF ControlInv
<1>5. Order
      BY <1>1, <1>2, <1>3 DEF Order, Rises, Before
<1>6. NotRejected
  <2>1. 1..0 = {}
        OBVIOUS
  <2> QED BY <1>1, <1>2, <1>3, <2>1 DEF NotRejected
<1>7. KeysInv
  <2> SUFFICES ASSUME NEW k \in Keys PROVE Flight(k) /\ OnDisk(k) /\ Collected(k)
      BY DEF KeysInv
  <2>1. ~Has(<<>>, k) /\ IdsOf(<<>>, k) = {} /\ ~Touched(NoGroup, k)
        BY DEF Has, IdsOf, Touched, NoGroup
  <2>2. Flying(k) = {}
        BY <1>1, <2>1 DEF Flying
  <2>3. Flight(k)
        BY <1>1, <2>1, <2>2 DEF Flight
  <2>4. Landed(k) = Absent
        BY <1>1, <1>2, NoFrames
  <2>5. ReadEnd = 0 /\ ReadSnap[k] = 0
        BY <1>2, <1>3 DEF ReadEnd, ReadSnap
  <2>6. OnDisk(k)
    <3>1. FilesFit(k, disk.wal, SoundEnd, disk.snap[k], Landed(k), Suspects(k))
      <4>1. Fits(disk.snap[k], Landed(k), Suspects(k))
            BY <1>2, <2>4 DEF Fits, Absent
      <4>2. 1..0 = {}
            OBVIOUS
      <4> QED BY <1>3, <4>1, <4>2 DEF FilesFit
    <3>2. PointsTo(ReadLog, ReadEnd, ReadSnap[k], Landed(k), Suspects(k))
          BY <2>4 DEF PointsTo, Absent, InMemory
    <3>3. told.acked[k] <= Landed(k).id
          BY <1>2, <2>4 DEF Absent
    <3> QED BY <3>1, <3>2, <3>3 DEF OnDisk
  <2>7. Collected(k)
        BY <1>2 DEF Collected, CopyPc
  <2> QED BY <2>3, <2>6, <2>7
<1> QED BY <1>4, <1>5, <1>6, <1>7 DEF DiskInv, DataInv

LEMMA NextDisk ==
    ASSUME ~CompactWhileRecovering
    PROVE  IInv /\ DiskInv /\ [Next]_vars => DiskInv'
<1>1. ASSUME IInv, DiskInv, Next PROVE DiskInv'
  <2>1. DataInv'
        BY <1>1, NextData
  <2>2. ControlInv'
        BY <1>1, NextControl DEF IInv, DiskInv
  <2> QED BY <2>1, <2>2 DEF DiskInv
<1>2. ASSUME IInv, DiskInv, UNCHANGED vars PROVE DiskInv'
  <2>1. UNCHANGED <<store, wal, disk, reader, recovery, disabled, compaction, told>>
        BY <1>2 DEF vars
  <2>2. TypeInv /\ ControlInv /\ DataInv
        BY <1>2 DEF IInv, DiskInv
  <2>3. SoundEnd' = SoundEnd /\ SameWal
        BY <2>1 DEF SoundEnd, SameWal
  <2>4. ControlInv'
    <3>1. Sizes' /\ Recovering'
          BY <2>1, <2>2, <2>3 DEF ControlInv, Sizes, Recovering
    <3>2. Compacting'
          BY <2>1, <2>2 DEF ControlInv, Compacting
    <3>3. Copied'
          BY <2>1, <2>2, <2>3 DEF ControlInv, Copied
    <3> QED BY <3>1, <3>2, <3>3 DEF ControlInv
  <2>5. DataInv'
    <3>1. KeepsSound
          BY <2>1, <2>2, <2>3, SameFiles DEF ControlInv
    <3>2. UNCHANGED <<store, told>> /\ (disabled => disabled') /\ compaction' = compaction
          BY <2>1
    <3> QED BY <2>2, <2>3, <3>1, <3>2, SoundStep
  <2> QED BY <2>4, <2>5 DEF DiskInv
<1> QED BY <1>1, <1>2

LEMMA DiskInvariant ==
    ASSUME ~CompactWhileRecovering
    PROVE  Spec => [](IInv /\ DiskInv)
<1>1. Spec => []IInv
      BY InductiveInvariant
<1>2. IInv /\ DiskInv /\ [Next]_vars => DiskInv'
      BY NextDisk
<1> QED BY <1>1, <1>2, InitDisk, PTL DEF Spec

-----------------------------------------------------------------------------
(* A step of a writer that started a compaction while a poisoned log is still  *)
(* being cut could take its fence from a stale size, so these hold when that   *)
(* is out of scope.                                                            *)

\* AckedWritesSurvive: a write whose caller was told that it succeeded, or a later one
\* of its key, is found by a reopen of the files of any state, in the middle of a
\* batch, of a recovery or between the renames of a rotation.
THEOREM AcknowledgedWritesAreFound ==
    ASSUME ~CompactWhileRecovering
    PROVE  Spec => []AckedWritesSurvive
<1>1. ASSUME IInv, DiskInv PROVE AckedWritesSurvive
  <2>0. TypeInv /\ Recovering /\ NotRejected /\ KeysInv
        BY <1>1 DEF IInv, DiskInv, ControlInv, DataInv
  <2> SUFFICES ASSUME NEW k \in Keys PROVE Recovered(k).id >= told.acked[k]
      BY DEF AckedWritesSurvive
  <2>1. Flight(k) /\ OnDisk(k)
        BY <2>0 DEF KeysInv
  <2>2. PICK log, n : log = disk.wal /\ n = told.appends
        OBVIOUS
  <2>3. n \in Nat /\ log \in Seq(Frame(n)) /\ Len(log) \in Nat /\ disk.snap \in [Keys -> 0..n]
    <3>1. /\ told.appends \in Nat /\ disk.wal \in Seq(Frame(told.appends))
          /\ disk.snap \in [Keys -> 0..told.appends]
          BY <2>0, Parts
    <3>2. n \in Nat /\ log \in Seq(Frame(n)) /\ disk.snap \in [Keys -> 0..n]
          BY <2>2, <3>1
    <3> QED BY <3>2
  <2>4. Reached(log)
        BY <2>2, <2>3 DEF Reached
  <2>5. Landed(k).id <= Replay(k, log).id
        BY <2>0, <2>1, <2>4, ReplayCovers
  <2>6. Replay(k, log).id \in Nat
    <3>1. Replay(k, log) \in Record(n)
          BY <2>3, ReplayType
    <3> QED BY <2>3, <3>1 DEF Record
  <2>7. told.acked[k] <= Landed(k).id /\ told.acked[k] \in Nat /\ Landed(k).id \in Nat
        BY <2>0, <2>1, LandedType, Parts DEF OnDisk
  <2> QED BY <2>2, <2>5, <2>6, <2>7 DEF Recovered
<1> QED BY <1>1, DiskInvariant, PTL

\* Where a log is not being cut and writes are allowed, all of it is sound.
LEMMA QuietIsSound ==
    ASSUME DiskInv, Quiet
    PROVE  SoundEnd = Len(disk.wal) /\ wal.batch = <<>> /\ wal.queue = <<>>
BY DEF DiskInv, ControlInv, Recovering, Quiet, Writing, SoundEnd

\* RejectedFramesAreCutOff: once the recovery of a poisoned log has ended and writes go
\* on, no frame of a write whose caller was told that it failed is in the log.
THEOREM RejectedFramesLeaveTheLog ==
    ASSUME ~CompactWhileRecovering
    PROVE  Spec => []RejectedFramesAreCutOff
<1>1. ASSUME IInv, DiskInv PROVE RejectedFramesAreCutOff
  <2> SUFFICES ASSUME Quiet, NEW i \in DOMAIN disk.wal PROVE disk.wal[i].id \notin told.rejected
      BY DEF RejectedFramesAreCutOff, Ids
  <2>1. NotRejected /\ ~disabled /\ SoundEnd = Len(disk.wal)
        BY <1>1, QuietIsSound DEF DiskInv, DataInv, Quiet
  <2>2. DOMAIN disk.wal = 1..Len(disk.wal)
        BY <1>1, Parts DEF IInv
  <2> QED BY <2>1, <2>2 DEF NotRejected
<1> QED BY <1>1, DiskInvariant, PTL

\* MemoryFollowsDisk: with nothing in flight a reopen finds of each key what the store
\* holds, or a rejected write that a snapshot has brought back.
THEOREM ReopenFindsTheStore ==
    ASSUME ~CompactWhileRecovering
    PROVE  Spec => []MemoryFollowsDisk
<1>1. ASSUME IInv, DiskInv PROVE MemoryFollowsDisk
  <2> SUFFICES ASSUME Quiet, NEW k \in Keys
               PROVE  Recovered(k).id \in told.rejected \/ Recovered(k).id = store[k].id
      BY DEF MemoryFollowsDisk
  <2>1. SoundEnd = Len(disk.wal) /\ Landed(k) = store[k] /\ Suspects(k) = told.rejected
        BY <1>1, QuietIsSound, NoFrames
  <2>2. OnDisk(k) /\ TypeInv
        BY <1>1 DEF IInv, DiskInv, DataInv, KeysInv
  <2>3. PICK log, n, rec, S : log = disk.wal /\ n = told.appends /\ rec = store[k] /\ S = told.rejected
        OBVIOUS
  <2>4. n \in Nat /\ log \in Seq(Frame(n))
        BY <2>2, <2>3, Parts
  <2>5. FilesFit(k, log, Len(log), disk.snap[k], rec, S)
        BY <2>1, <2>2, <2>3 DEF OnDisk
  <2>6. Fits(Replay(k, log).id, rec, S)
    <3>1. CASE NoneIn(log, 0, Len(log), k)
      <4>1. Replay(k, log).id = disk.snap[k]
            BY <2>4, <3>1, ReplayFinds
      <4> QED BY <2>5, <3>1, <4>1 DEF FilesFit
    <3>2. ASSUME NEW i \in 1..Len(log), LastAt(log, Len(log), k, i)
          PROVE  Fits(Replay(k, log).id, rec, S)
      <4>1. Replay(k, log).id = log[i].id
            BY <2>4, <3>2, ReplayFinds
      <4> QED BY <2>5, <3>2, <4>1 DEF FilesFit
    <3>3. NoneIn(log, 0, Len(log), k) \/ \E i \in 1..Len(log) : LastAt(log, Len(log), k, i)
          BY <2>4, ReplayFinds
    <3> QED BY <3>1, <3>2, <3>3
  <2> QED BY <2>3, <2>6 DEF Fits, Recovered
<1> QED BY <1>1, DiskInvariant, PTL

\* PointersResolve: in every state, the value a record yields through the open
\* descriptors is the one it holds, or a rejected write that a snapshot has brought
\* back: also while a rotation replaces the files under the readers.
THEOREM ReadersSeeTheirRecords ==
    ASSUME ~CompactWhileRecovering
    PROVE  Spec => []PointersResolve
<1>1. ASSUME IInv, DiskInv PROVE PointersResolve
  <2> SUFFICES ASSUME NEW k \in Keys PROVE Read(k) \in told.rejected \/ Read(k) = store[k].id
      BY DEF PointersResolve
  <2>1. TypeInv /\ Recovering /\ Flight(k) /\ OnDisk(k)
        BY <1>1 DEF IInv, DiskInv, ControlInv, DataInv, KeysInv
  <2>2. CASE store[k].loc.file = "memory"
        BY <2>2 DEF Read
  <2>3. CASE store[k].loc.file # "memory"
    <3>1. ~Has(wal.queue, k) /\ ~Has(wal.batch, k)
          BY <2>1, <2>3 DEF Flight, Latest, InMemory
    <3>2. Landed(k) = store[k] /\ Suspects(k) = told.rejected
          BY <3>1 DEF Landed, Latest, Suspects, Flying, IdsOf, Has
    <3>3. PICK rec, loc, log, n, id : /\ rec = store[k] /\ loc = store[k].loc
                                      /\ log = ReadLog /\ n = ReadEnd /\ id = ReadSnap[k]
          OBVIOUS
    <3>4. PointsTo(log, n, id, rec, told.rejected)
          BY <2>1, <3>2, <3>3 DEF OnDisk
    <3>5. loc \in Locs
          BY <2>1, <3>3, Parts DEF Record
    <3>6. n \in Nat /\ Len(log) \in Nat /\ n <= Len(log)
      <4>1. Len(disk.wal) \in Nat /\ Len(reader.wal) \in Nat
            BY <2>1, Lengths
      <4>2. SoundEnd \in Nat /\ SoundEnd <= Len(disk.wal)
            BY <2>1, <4>1 DEF Recovering
      <4> QED BY <3>3, <4>1, <4>2 DEF ReadLog, ReadEnd
    <3>7. CASE loc.file = "wal"
      <4>1. loc.off < n /\ log[loc.off + 1].id = rec.id
            BY <3>3, <3>4, <3>7 DEF PointsTo
      <4>2. loc.off < Len(log)
            BY <3>5, <3>6, <4>1 DEF Locs
      <4>3. Read(k) = log[loc.off + 1].id
            BY <3>3, <3>7, <4>2 DEF Read, ReadLog
      <4> QED BY <3>3, <4>1, <4>3
    <3>8. CASE loc.file = "snapshot"
      <4>1. Fits(id, rec, told.rejected)
            BY <3>3, <3>4, <3>8 DEF PointsTo
      <4>2. Read(k) = id
            BY <3>3, <3>8 DEF Read, ReadSnap
      <4> QED BY <3>3, <4>1, <4>2 DEF Fits
    <3> QED BY <2>3, <3>3, <3>5, <3>7, <3>8 DEF Locs
  <2> QED BY <2>2, <2>3
<1> QED BY <1>1, DiskInvariant, PTL

-----------------------------------------------------------------------------
(* The durable store.                                                          *)

\* No snapshot on disk holds a write that is still in flight.
SnapshotSettled == \A k \in Keys : disk.snap[k] \notin Unacked

\* What After makes of the frames of a key.
LEMMA AfterFrames ==
    ASSUME NEW n \in Nat, NEW frames \in Seq(Frame(n)), NEW k, NEW id
    PROVE  /\ \A i : LastAt(frames, Len(frames), k, i) => Durable!After(k, frames, id) = frames[i].id
           /\ ~Has(frames, k) => Durable!After(k, frames, id) = id
           /\ Has(frames, k) => \E i \in 1..Len(frames) : LastAt(frames, Len(frames), k, i)
           /\ Has(frames, k) <=> Durable!Writes(k, frames) # {}
<1>1. DOMAIN frames = 1..Len(frames) /\ Len(frames) \in Nat
      OBVIOUS
<1>2. Has(frames, k) <=> Durable!Writes(k, frames) # {}
      BY DEF Has, Durable!Writes
<1>3. ASSUME NEW i, LastAt(frames, Len(frames), k, i) PROVE Durable!After(k, frames, id) = frames[i].id
  <2> DEFINE S == Durable!Writes(k, frames)
  <2>1. i \in S /\ S \subseteq Nat /\ \A j \in S : j <= i
        BY <1>1, <1>3 DEF LastAt, Durable!Writes
  <2> HIDE DEF S
  <2>2. \A j \in S : (\A l \in S : l <= j) => j = i
        BY <2>1
  <2>3. Durable!LastOf(S) = i
        BY <2>1, <2>2 DEF Durable!LastOf
  <2> QED BY <2>1, <2>3 DEF Durable!After, S
<1>4. ~Has(frames, k) => Durable!After(k, frames, id) = id
      BY <1>2 DEF Durable!After
<1>5. Has(frames, k) => ~NoneIn(frames, 0, Len(frames), k)
      BY <1>1 DEF Has, NoneIn
<1>6. Has(frames, k) => \E i \in 1..Len(frames) : LastAt(frames, Len(frames), k, i)
      BY <1>1, <1>5, LastExists
<1> QED BY <1>2, <1>3, <1>4, <1>6

\* Steps that callers and the order of what is in flight do not notice.
LEMMA StoreStutters ==
    ASSUME InFlight' = InFlight, UNCHANGED told,
           \A k \in Keys : store'[k].id = store[k].id /\ Landed(k)'.id = Landed(k).id
    PROVE  UNCHANGED Durable!vars
<1>1. Memory' = Memory /\ Kept' = Kept
      BY DEF Memory, Kept
<1> QED BY <1>1 DEF Durable!vars

LEMMA SameWalStutters ==
    ASSUME SameWal, UNCHANGED <<store, told>>
    PROVE  UNCHANGED Durable!vars
<1>1. InFlight' = InFlight
      BY DEF SameWal, InFlight
<1>2. \A k \in Keys : Landed(k)' = Landed(k)
      BY LandedAlone
<1> QED BY <1>1, <1>2, StoreStutters

\* An instance with nothing in flight opens a new log.
LEMMA FreshStutters ==
    ASSUME wal.batch = <<>>, wal.queue = <<>>, wal'.batch = <<>>, wal'.queue = <<>>, UNCHANGED told,
           \A k \in Keys : store'[k].id = store[k].id
    PROVE  UNCHANGED Durable!vars
<1>1. InFlight' = InFlight
      BY DEF InFlight
<1>2. \A k \in Keys : ~Has(<<>>, k)
      BY DEF Has
<1>3. \A k \in Keys : Landed(k) = store[k] /\ Landed(k)' = store'[k]
      BY <1>2 DEF Landed, Latest
<1> QED BY <1>1, <1>3, StoreStutters

\* The batch that is written is the queue.
LEMMA StartStutters ==
    ASSUME TypeInv, StartBatch
    PROVE  UNCHANGED Durable!vars
<1>1. /\ wal.batch = <<>> /\ wal'.batch = wal.queue /\ wal'.queue = <<>>
      /\ wal'.batchGroup = wal.queueGroup /\ UNCHANGED <<store, told>>
      BY StartEffect
<1>2. wal.queue \in Seq(Frame(told.appends))
      BY Parts
<1>3. InFlight' = InFlight
      BY <1>1, <1>2 DEF InFlight
<1>4. \A k \in Keys : Landed(k)' = Landed(k)
      BY <1>1 DEF Landed, Latest, Has
<1> QED BY <1>1, <1>3, <1>4, StoreStutters

LEMMA AppendIsAccept ==
    ASSUME TypeInv, KeysInv, NEW w \in Writers, op[w].pc # "none", AppendAndApply(w)
    PROVE  Durable!Next
<1>1. PICK a, m, frame : a = op[w].key /\ m = told.appends + 1 /\ frame = [id |-> m, key |-> a]
      OBVIOUS
<1>2. /\ a \in Keys /\ m \in Nat /\ frame \in Frame(m) /\ frame.id = m /\ frame.key = a
      /\ wal'.batch = wal.batch /\ wal'.queue = Append(wal.queue, frame)
      /\ wal'.batchGroup = wal.batchGroup /\ wal'.queueGroup = Note(wal.queueGroup, a)
      /\ store' = [store EXCEPT ![a] = [id |-> m, loc |-> InMemory]]
      /\ told'.acked = told.acked /\ told'.rejected = told.rejected
      BY <1>1, AppendEffect
<1>3. told'.appends = m
      BY <1>1 DEF AppendAndApply, TypeInv, TypedAt, Told
<1>4. Kept' = Kept
  <2>1. \A k \in Keys : Landed(k)' = Landed(k)
        BY <1>1, <1>2, AppendFlight DEF KeysInv
  <2> QED BY <2>1 DEF Kept
<1>5. Memory' = [Memory EXCEPT ![a] = m]
  <2>1. store \in [Keys -> Record(told.appends)]
        BY Parts
  <2> QED BY <1>2, <2>1 DEF Memory
<1>6. InFlight' = Append(InFlight, frame)
  <2>1. PICK s, t, n : s = wal.batch /\ t = wal.queue /\ n = told.appends
        OBVIOUS
  <2>2. n \in Nat /\ s \in Seq(Frame(n)) /\ t \in Seq(Frame(n)) /\ m = n + 1
        BY <1>1, <2>1, Parts
  <2>3. Frame(n) \subseteq Frame(m)
        BY <2>2 DEF Frame
  <2>4. s \in Seq(Frame(m)) /\ t \in Seq(Frame(m))
        BY <2>2, <2>3
  <2>5. s \o Append(t, frame) = Append(s \o t, frame)
        BY <1>2, <2>4
  <2> QED BY <1>2, <2>1, <2>5 DEF InFlight
<1>7. Durable!Accept(a)
      BY <1>1, <1>2, <1>3, <1>4, <1>5, <1>6 DEF Durable!Accept
<1> QED BY <1>2, <1>7 DEF Durable!Next

\* The whole batch lands: the beginning of what is in flight.
LEMMA LandsIsKeep ==
    ASSUME TypeInv, Order, KeysInv, BatchLands
    PROVE  Durable!Next
<1>1. PICK b, q, n : b = wal.batch /\ q = wal.queue /\ n = told.appends
      OBVIOUS
<1>2. n \in Nat /\ b \in Seq(Frame(n)) /\ q \in Seq(Frame(n)) /\ Rises(b)
      BY <1>1, Parts DEF Order
<1>3. /\ b # <<>> /\ wal'.batch = <<>> /\ wal'.queue = q /\ wal'.queueGroup = wal.queueGroup
      /\ store' = Publish(b, FirstOffset) /\ told'.rejected = told.rejected
      /\ \A k \in Keys : told'.acked[k] = NewestOf(k, b, told.acked[k])
      BY <1>1, LandsEffect DEF Writing
<1>4. told'.appends = told.appends /\ told'.acked \in [Keys -> Nat]
  <2>1. told \in Told(n)
        BY <1>1 DEF TypeInv, TypedAt
  <2>2. told' = [told EXCEPT !.acked = [k \in Keys |-> NewestOf(k, wal.batch, told.acked[k])]]
        BY DEF BatchLands
  <2>3. \A k \in Keys : NewestOf(k, b, told.acked[k]) \in Nat
    <3> SUFFICES ASSUME NEW k \in Keys PROVE NewestOf(k, b, told.acked[k]) \in Nat
        OBVIOUS
    <3>1. CASE Has(b, k)
      <4>1. PICK i \in 1..Len(b) : LastAt(b, Len(b), k, i)
            BY <1>2, <3>1, AfterFrames
      <4> QED BY <1>2, <4>1, TopIsNewest
    <3>2. CASE ~Has(b, k)
      <4>1. NewestOf(k, b, told.acked[k]) = told.acked[k]
            BY <3>2 DEF NewestOf, Has
      <4> QED BY <1>1, <1>2, <4>1, Parts
    <3> QED BY <3>1, <3>2
  <2> QED BY <1>1, <2>1, <2>2, <2>3 DEF Told
<1>5. /\ Len(InFlight) = Len(b) + Len(q) /\ Len(b) \in 1..Len(InFlight)
      /\ SubSeq(InFlight, 1, Len(b)) = b
      /\ SubSeq(InFlight, Len(b) + 1, Len(InFlight)) = q
  <2>1. /\ b \o q \in Seq(Frame(n)) /\ Len(b \o q) = Len(b) + Len(q)
        /\ Len(b) \in Nat /\ Len(q) \in Nat /\ Len(b) > 0
        /\ \A i \in 1..Len(b) : (b \o q)[i] = b[i]
        /\ \A i \in 1..Len(q) : (b \o q)[Len(b) + i] = q[i]
        BY <1>2, <1>3
  <2>2. SubSeq(b \o q, 1, Len(b)) = b
        BY <1>2, <2>1
  <2>3. SubSeq(b \o q, Len(b) + 1, Len(b) + Len(q)) = q
        BY <1>2, <2>1
  <2>4. PICK f : f = b \o q
        OBVIOUS
  <2>5. Len(f) = Len(b) + Len(q) /\ Len(b) \in 1..Len(f)
        BY <2>1, <2>4
  <2>6. InFlight = f
        BY <1>1, <2>4 DEF InFlight
  <2> QED BY <2>2, <2>3, <2>4, <2>5, <2>6
<1>6. InFlight' = q
      BY <1>2, <1>3 DEF InFlight
<1>7. \A k \in Keys : store'[k].id = store[k].id
  <2>1. \A k \in Keys : store[k] \in [id : 0..n, loc : Locs]
        BY <1>1, Parts DEF Record
  <2> QED BY <1>3, <2>1 DEF Publish
<1>8. ASSUME NEW k \in Keys
      PROVE  /\ Landed(k)'.id = Durable!After(k, b, Landed(k).id)
             /\ told'.acked[k] = Durable!After(k, b, told.acked[k])
  <2>1. Landed(k)'.id = Latest(k).id
        BY <1>1, <1>3, <1>7 DEF Landed, Latest, Has
  <2>2. CASE Has(b, k)
    <3>1. PICK i \in 1..Len(b) : LastAt(b, Len(b), k, i)
          BY <1>2, <2>2, AfterFrames
    <3>2. \A id : Durable!After(k, b, id) = b[i].id
          BY <1>2, <3>1, AfterFrames
    <3>3. Top(b, k, Latest(k).id)
          BY <1>1, <2>2 DEF KeysInv, Flight
    <3>4. Latest(k).id = b[i].id
          BY <1>2, <3>1, <3>3, LastIsOne DEF Top
    <3>5. NewestOf(k, b, told.acked[k]) = b[i].id
          BY <1>2, <3>1, TopIsNewest
    <3> QED BY <1>3, <2>1, <3>2, <3>4, <3>5
  <2>3. CASE ~Has(b, k)
    <3>1. \A id : Durable!After(k, b, id) = id
          BY <1>2, <2>3, AfterFrames
    <3>2. NewestOf(k, b, told.acked[k]) = told.acked[k]
          BY <2>3 DEF NewestOf, Has
    <3>3. Landed(k) = Latest(k)
          BY <1>1, <2>3 DEF Landed
    <3> QED BY <1>3, <2>1, <3>1, <3>2, <3>3
  <2> QED BY <2>2, <2>3
<1>9. Durable!Keep(Len(b))
  <2>1. Memory' = Memory
        BY <1>7 DEF Memory
  <2>2. Kept' = [k \in Keys |-> Durable!After(k, b, Kept[k])]
        BY <1>8 DEF Kept
  <2>3. told'.acked = [k \in Keys |-> Durable!After(k, b, told.acked[k])]
        BY <1>4, <1>8
  <2> QED BY <1>3, <1>4, <1>5, <1>6, <2>1, <2>2, <2>3 DEF Durable!Keep
<1> QED BY <1>5, <1>9 DEF Durable!Next

\* A failed group is rejected with the queue behind it, and what is kept shows again.
LEMMA FailsIsReject ==
    ASSUME TypeInv, KeysInv, BatchFails
    PROVE  Durable!Next
<1>1. /\ wal'.batch = <<>> /\ wal'.queue = <<>> /\ store' = RollBack
      /\ told'.rejected = told.rejected \cup Unacked /\ told'.acked = told.acked
      BY FailsEffect
<1>2. told'.appends = told.appends
      BY DEF BatchFails, TypeInv, TypedAt, Told
<1>3. \A k \in Keys : Landed(k)' = Landed(k)
      BY <1>1, FailsLanded DEF KeysInv
<1>4. \A k \in Keys : Landed(k)' = store'[k]
      BY <1>1 DEF Landed, Latest, Has
<1>5. Kept' = Kept /\ Memory' = Kept
      BY <1>3, <1>4 DEF Kept, Memory
<1>6. Unacked = {InFlight[i].id : i \in DOMAIN InFlight}
  <2>1. PICK b, q, n : b = wal.batch /\ q = wal.queue /\ n = told.appends
        OBVIOUS
  <2>2. b \in Seq(Frame(n)) /\ q \in Seq(Frame(n))
        BY <2>1, Parts
  <2>3. /\ DOMAIN b = 1..Len(b) /\ DOMAIN q = 1..Len(q) /\ DOMAIN (b \o q) = 1..(Len(b) + Len(q))
        /\ Len(b) \in Nat /\ Len(q) \in Nat
        /\ \A i \in 1..Len(b) : (b \o q)[i] = b[i]
        /\ \A i \in 1..Len(q) : (b \o q)[Len(b) + i] = q[i]
        /\ \A i \in 1..(Len(b) + Len(q)) :
              i > Len(b) => i - Len(b) \in 1..Len(q) /\ (b \o q)[i] = q[i - Len(b)]
        BY <2>2
  <2>4. ASSUME NEW i \in DOMAIN (b \o q) PROVE (b \o q)[i].id \in Ids(b) \cup Ids(q)
        BY <2>3, <2>4 DEF Ids
  <2>5. ASSUME NEW id \in Ids(b) PROVE id \in {(b \o q)[i].id : i \in DOMAIN (b \o q)}
    <3>1. PICK i \in DOMAIN b : id = b[i].id
          BY <2>5 DEF Ids
    <3>2. i \in DOMAIN (b \o q) /\ (b \o q)[i] = b[i]
          BY <2>3, <3>1
    <3> QED BY <3>1, <3>2
  <2>6. ASSUME NEW id \in Ids(q) PROVE id \in {(b \o q)[i].id : i \in DOMAIN (b \o q)}
    <3>1. PICK i \in DOMAIN q : id = q[i].id
          BY <2>6 DEF Ids
    <3>2. Len(b) + i \in DOMAIN (b \o q) /\ (b \o q)[Len(b) + i] = q[i]
          BY <2>3, <3>1
    <3> QED BY <3>1, <3>2
  <2>7. InFlight = b \o q /\ Unacked = Ids(b) \cup Ids(q)
        BY <2>1 DEF Unacked, InFlight
  <2>8. {(b \o q)[i].id : i \in DOMAIN (b \o q)} = Ids(b) \cup Ids(q)
        BY <2>4, <2>5, <2>6
  <2> QED BY <2>7, <2>8
<1>7. InFlight' = <<>>
      BY <1>1 DEF InFlight
<1>8. Durable!Reject
      BY <1>1, <1>2, <1>5, <1>6, <1>7 DEF Durable!Reject
<1> QED BY <1>8 DEF Durable!Next

\* A crash after n frames of the batch in flight reached the file: of each key the
\* reopen finds the last of them, or what was kept, or a write that was rejected.
LEMMA CrashIsRestart ==
    ASSUME TypeInv, ControlInv, DataInv, SnapshotSettled, CrashAndOpen
    PROVE  Durable!Next
<1>1. /\ \A k \in Keys : store'[k] = IF Replay(k, disk'.wal).id = 0 THEN Absent ELSE Replay(k, disk'.wal)
      /\ wal' = FreshWal(Len(disk'.wal)) /\ disk'.wal \in Seq(Frame(told.appends))
      /\ told'.rejected = {} /\ told'.acked = told.acked
      BY CrashEffect
<1>2. told'.appends = told.appends
      BY DEF CrashAndOpen, TypeInv, TypedAt, Told
<1>3. PICK n \in 0..Len(wal.batch) : disk'.wal = disk.wal \o SubSeq(wal.batch, 1, n)
      BY CrashEffect
<1>4. PICK m, s, b, q, p, t, end :
          /\ m = told.appends /\ s = disk.wal /\ b = wal.batch /\ q = wal.queue
          /\ p = SubSeq(wal.batch, 1, n) /\ t = disk'.wal /\ end = SoundEnd
      OBVIOUS
<1>5. /\ m \in Nat /\ s \in Seq(Frame(m)) /\ b \in Seq(Frame(m)) /\ q \in Seq(Frame(m))
      /\ Len(b) \in Nat /\ Len(q) \in Nat /\ Len(s) \in Nat
      BY <1>4, Lengths
<1>6. n \in Nat /\ n <= Len(b)
      BY <1>4, <1>5
<1>7. p \in Seq(Frame(m)) /\ Len(p) = n /\ \A i \in 1..n : p[i] = b[i]
  <2>1. /\ SubSeq(b, 1, n) \in Seq(Frame(m)) /\ Len(SubSeq(b, 1, n)) = n
        /\ \A i \in 1..n : SubSeq(b, 1, n)[i] = b[i]
        BY ONLY <1>5, <1>6, Prefixed
  <2> QED BY <1>4, <2>1
<1>8. /\ t = s \o p /\ t \in Seq(Frame(m)) /\ Len(t) = Len(s) + n
      /\ \A i \in 1..Len(s) : t[i] = s[i]
      /\ \A i \in 1..n : t[Len(s) + i] = p[i]
      /\ \A i \in 1..Len(t) : i > Len(s) => i - Len(s) \in 1..n /\ t[i] = p[i - Len(s)]
  <2>1. t = s \o p
        BY <1>3, <1>4
  <2>2. /\ s \o p \in Seq(Frame(m)) /\ Len(s \o p) = Len(s) + n
        /\ \A i \in 1..Len(s) : (s \o p)[i] = s[i]
        /\ \A i \in 1..n : (s \o p)[Len(s) + i] = p[i]
        /\ \A i \in 1..Len(s \o p) : i > Len(s) => i - Len(s) \in 1..n /\ (s \o p)[i] = p[i - Len(s)]
    <3>1. m \in Nat /\ s \in Seq(Frame(m)) /\ p \in Seq(Frame(m)) /\ Len(p) = n
          BY <1>5, <1>7
    <3> QED BY ONLY <3>1, Extended
  <2> QED BY ONLY <2>1, <2>2
<1>9. n \in 0..Len(InFlight) /\ SubSeq(InFlight, 1, n) = p
  <2>1. PICK f : f = b \o q
        OBVIOUS
  <2>2. f \in Seq(Frame(m)) /\ Len(f) = Len(b) + Len(q) /\ \A i \in 1..Len(b) : f[i] = b[i]
        BY <1>5, <2>1, Extended
  <2>3. n <= Len(f) /\ n \in 0..Len(f) /\ \A i \in 1..n : f[i] = b[i]
        BY ONLY <1>5, <1>6, <2>2
  <2>4. /\ SubSeq(f, 1, n) \in Seq(Frame(m)) /\ Len(SubSeq(f, 1, n)) = n
        /\ \A i \in 1..n : SubSeq(f, 1, n)[i] = f[i]
        BY ONLY <1>5, <1>6, <2>2, <2>3, Prefixed
  <2>5. PICK g : g = SubSeq(f, 1, n)
        OBVIOUS
  <2>6. g \in Seq(Frame(m)) /\ Len(g) = Len(p) /\ \A i \in 1..Len(p) : g[i] = p[i]
        BY ONLY <1>7, <2>3, <2>4, <2>5
  <2>7. g = p
        BY ONLY <1>7, <2>6, SameFrames
  <2>8. InFlight = f
        BY <1>4, <2>1 DEF InFlight
  <2> QED BY <2>3, <2>5, <2>7, <2>8
<1>10. Order /\ NotRejected /\ KeysInv /\ end \in 0..Len(s)
       BY <1>4 DEF DataInv, ControlInv, Recovering
<1>11. wal'.batch = <<>> /\ wal'.queue = <<>>
       BY <1>1, FreshWalFields
<1>12. \A k \in Keys : Landed(k)'.id = store'[k].id /\ store'[k].id = Replay(k, t).id
  <2>1. Absent.id = 0
        BY DEF Absent
  <2> QED BY <1>1, <1>4, <1>11, <2>1, NoFrames
<1>13. ASSUME NEW k \in Keys
       PROVE  \/ Replay(k, t).id = Durable!After(k, p, Landed(k).id)
              \/ /\ Durable!Writes(k, p) = {}
                 /\ Replay(k, t).id \in told.rejected /\ Replay(k, t).id > Landed(k).id
  <2>1. Flight(k) /\ OnDisk(k)
        BY <1>10 DEF KeysInv
  <2>2. PICK rec, S : rec = Landed(k) /\ S = Suspects(k)
        OBVIOUS
  <2>3. FilesFit(k, s, end, disk.snap[k], rec, S)
        BY <1>4, <2>1, <2>2 DEF OnDisk
  <2>6. /\ \A i : LastAt(t, Len(t), k, i) => Replay(k, t).id = t[i].id
        /\ NoneIn(t, 0, Len(t), k) => Replay(k, t).id = disk.snap[k]
        /\ NoneIn(t, 0, Len(t), k) \/ \E i \in 1..Len(t) : LastAt(t, Len(t), k, i)
    <3>1. m \in Nat /\ t \in Seq(Frame(m))
          BY <1>5, <1>8
    <3>2. /\ \A i : LastAt(t, Len(t), k, i) =>
                Replay(k, t) = [id |-> t[i].id, loc |-> [file |-> "wal", off |-> i - 1]]
          /\ NoneIn(t, 0, Len(t), k) =>
                Replay(k, t) = [id |-> disk.snap[k], loc |-> [file |-> "snapshot", off |-> 0]]
          /\ NoneIn(t, 0, Len(t), k) \/ \E i \in 1..Len(t) : LastAt(t, Len(t), k, i)
          BY ONLY <3>1, ReplayFinds
    <3> QED BY ONLY <3>2
  <2>4. CASE Has(p, k)
    <3>1. PICK i \in 1..Len(p) : LastAt(p, Len(p), k, i)
          BY <1>5, <1>7, <2>4, AfterFrames
    <3>2. Durable!After(k, p, rec.id) = p[i].id
          BY <1>5, <1>7, <3>1, AfterFrames
    <3>3. LastAt(t, Len(t), k, Len(s) + i)
      <4>1. /\ i \in 1..n /\ p[i].key = k /\ \A j \in 1..n : p[j].key = k => j <= i
            BY <1>7, <3>1 DEF LastAt
      <4>2. Len(s) + i \in 1..Len(t) /\ t[Len(s) + i].key = k
            BY <1>5, <1>6, <1>8, <4>1
      <4>3. ASSUME NEW j \in 1..Len(t), t[j].key = k PROVE j <= Len(s) + i
        <5>1. CASE j > Len(s)
          <6>1. j - Len(s) \in 1..n /\ p[j - Len(s)].key = k
                BY <1>8, <4>3, <5>1
          <6>2. j - Len(s) <= i
                BY <4>1, <6>1
          <6> QED BY <1>5, <4>1, <6>2
        <5>2. CASE ~(j > Len(s))
              BY <1>5, <4>1, <5>2
        <5> QED BY <5>1, <5>2
      <4> QED BY <4>2, <4>3 DEF LastAt
    <3>4. Replay(k, t).id = t[Len(s) + i].id
          BY <2>6, <3>3
    <3>5. t[Len(s) + i] = p[i]
          BY <1>7, <1>8, <3>1
    <3> QED BY <2>2, <3>2, <3>4, <3>5
  <2>5. CASE ~Has(p, k)
    <3>1. Durable!After(k, p, rec.id) = rec.id /\ Durable!Writes(k, p) = {}
          BY <1>5, <1>7, <2>5, AfterFrames
    <3>2. \A i \in 1..n : p[i].key # k
          BY <1>7, <2>5 DEF Has
    <3>3. ASSUME NEW id, Fits(id, rec, S), id \notin Flying(k)
          PROVE  id = rec.id \/ (id \in told.rejected /\ id > rec.id)
          BY <2>2, <3>3 DEF Fits, Suspects
    <3>4. CASE NoneIn(t, 0, Len(t), k)
      <4>1. Replay(k, t).id = disk.snap[k]
            BY <2>6, <3>4
      <4>2. NoneIn(s, 0, end, k)
        <5>1. \A i \in 1..end : i \in 1..Len(s) /\ i \in 1..Len(t)
              BY <1>5, <1>6, <1>8, <1>10
        <5> QED BY <1>8, <3>4, <5>1 DEF NoneIn
      <4>3. Fits(disk.snap[k], rec, S)
            BY <2>3, <4>2 DEF FilesFit
      <4>4. disk.snap[k] \notin Flying(k)
            BY DEF SnapshotSettled, Unacked, Flying, IdsOf, Ids
      <4> QED BY <2>2, <3>1, <3>3, <4>1, <4>3, <4>4
    <3>5. ASSUME NEW i \in 1..Len(t), LastAt(t, Len(t), k, i)
          PROVE  \/ Replay(k, t).id = rec.id
                 \/ Replay(k, t).id \in told.rejected /\ Replay(k, t).id > rec.id
      <4>1. t[i].key = k /\ Replay(k, t).id = t[i].id
            BY <2>6, <3>5 DEF LastAt
      <4>2. i \in 1..Len(s) /\ t[i] = s[i]
            BY <1>5, <1>8, <3>2, <4>1
      <4>3. CASE i <= end
        <5>1. i \in 1..end
              BY <4>2, <4>3, <1>10
        <5>2. LastAt(s, end, k, i)
          <6>1. \A j \in 1..end : j \in 1..Len(t) /\ j \in 1..Len(s)
                BY <1>5, <1>6, <1>8, <1>10
          <6> QED BY <1>8, <3>5, <4>1, <4>2, <5>1, <6>1 DEF LastAt
        <5>3. Fits(s[i].id, rec, S)
              BY <2>3, <5>1, <5>2 DEF FilesFit
        <5>4. s[i].id \notin Flying(k)
          <6>1. i \in DOMAIN s /\ s[i] \in Frame(m)
                BY <1>5, <4>2
          <6>2. s[i].id \in Nat
                BY <1>5, <6>1 DEF Frame
          <6>3. ASSUME NEW j \in DOMAIN b PROVE b[j].id # s[i].id
            <7>1. s[i].id < b[j].id
                  BY <1>4, <1>10, <6>1 DEF Order, Before
            <7> QED BY <6>2, <7>1
          <6>4. ASSUME NEW j \in DOMAIN q PROVE q[j].id # s[i].id
            <7>1. s[i].id < q[j].id
                  BY <1>4, <1>10, <6>1 DEF Order, Before
            <7> QED BY <6>2, <7>1
          <6> QED BY <1>4, <6>3, <6>4 DEF Flying, IdsOf
        <5> QED BY <3>3, <4>1, <4>2, <5>3, <5>4
      <4>4. CASE ~(i <= end)
        <5>1. i > end
              BY <1>5, <1>10, <4>2, <4>4
        <5>2. disk.wal[i].id \in told.rejected /\ Landed(disk.wal[i].key).id < disk.wal[i].id
              BY <1>4, <1>10, <4>2, <5>1 DEF NotRejected
        <5>3. s[i].id \in told.rejected /\ rec.id < s[i].id
              BY <1>4, <2>2, <4>1, <4>2, <5>2
        <5> QED BY <4>1, <4>2, <5>3
      <4> QED BY <4>3, <4>4
    <3> QED BY <2>2, <2>6, <3>1, <3>4, <3>5
  <2> QED BY <2>4, <2>5
<1>14. Durable!Restart(n)
  <2>1. \A k \in Keys : Kept[k] = Landed(k).id /\ Kept'[k] = Replay(k, t).id
        BY <1>12 DEF Kept
  <2>2. Memory' = Kept'
        BY <1>12 DEF Memory, Kept
  <2>3. InFlight' = <<>>
        BY <1>11 DEF InFlight
  <2>4. \A k \in Keys :
           \/ Kept'[k] = Durable!After(k, SubSeq(InFlight, 1, n), Kept[k])
           \/ /\ Durable!Writes(k, SubSeq(InFlight, 1, n)) = {}
              /\ Kept'[k] \in told.rejected /\ Kept'[k] > Kept[k]
        BY <1>9, <1>13, <2>1
  <2> QED BY <1>1, <1>2, <2>2, <2>3, <2>4 DEF Durable!Restart
<1> QED BY <1>9, <1>14 DEF Durable!Next

\* A snapshot is collected from what memory yields, and published when nothing is in
\* flight: so a write in flight is in no snapshot on disk.
LEMMA SettledKept ==
    ASSUME SnapshotSettled, disk'.snap = disk.snap, Unacked' \subseteq Unacked
    PROVE  SnapshotSettled'
BY DEF SnapshotSettled

LEMMA SettledEmpty ==
    ASSUME wal'.batch = <<>>, wal'.queue = <<>>
    PROVE  SnapshotSettled'
<1>1. Ids(<<>>) = {}
      BY DEF Ids
<1> QED BY <1>1 DEF SnapshotSettled, Unacked

LEMMA SettledSameWal ==
    ASSUME SnapshotSettled, disk'.snap = disk.snap, SameWal
    PROVE  SnapshotSettled'
BY DEF SnapshotSettled, Unacked, SameWal

\* What a writer changes: nothing that callers or a reopen see, or one new frame.
LEMMA WriterEffect ==
    ASSUME TypeInv, NEW w \in Writers, Writer(w)
    PROVE  /\ disk' = disk
           /\ \/ UNCHANGED <<store, wal, told>>
              \/ op[w].pc # "none" /\ AppendAndApply(w)
<1>1. disk' = disk
      BY DEF Writer, Set, PassRotationLock, Commit, CommitAfterRecovery
<1>2. CASE \E k \in Keys : Set(w, k)
      BY <1>1, <1>2 DEF Set
<1>3. CASE PassRotationLock(w)
      BY <1>1, <1>3 DEF PassRotationLock
<1>4. CASE Commit(w) \/ CommitAfterRecovery(w)
  <2>1. op[w].pc # "none"
        BY <1>4 DEF Commit, CommitAfterRecovery
  <2> QED BY <1>1, <1>4, <2>1 DEF Commit, CommitAfterRecovery, Append1, RetryAfterSeal, Refuse
<1> QED BY <1>2, <1>3, <1>4 DEF Writer

LEMMA AppendSettled ==
    ASSUME TypeInv, SnapshotSettled, disk' = disk,
           NEW w \in Writers, op[w].pc # "none", AppendAndApply(w)
    PROVE  SnapshotSettled'
<1>1. PICK a, m, frame : a = op[w].key /\ m = told.appends + 1 /\ frame = [id |-> m, key |-> a]
      OBVIOUS
<1>2. /\ frame \in Frame(m) /\ frame.id = m
      /\ wal'.batch = wal.batch /\ wal'.queue = Append(wal.queue, frame)
      BY <1>1, AppendEffect
<1>3. Unacked' \subseteq Unacked \cup {m}
  <2>1. PICK n, q, t : n = told.appends /\ q = wal.queue /\ t = wal'.queue
        OBVIOUS
  <2>2. n \in Nat /\ q \in Seq(Frame(n)) /\ t = Append(q, frame)
        BY <1>2, <2>1, Parts
  <2>3. /\ DOMAIN t = 1..(Len(q) + 1) /\ DOMAIN q = 1..Len(q) /\ Len(q) \in Nat
        /\ \A i \in 1..Len(q) : t[i] = q[i]
        /\ t[Len(q) + 1] = frame
        BY ONLY <1>2, <2>2, Appended
  <2>4. \A j \in DOMAIN t : j \in DOMAIN q \/ j = Len(q) + 1
        BY ONLY <2>3
  <2>5. Ids(t) \subseteq Ids(q) \cup {m}
        BY <1>2, <2>3, <2>4 DEF Ids
  <2> QED BY <1>2, <2>1, <2>5 DEF Unacked
<1>4. \A k \in Keys : disk.snap[k] # m
  <2>1. told.appends \in Nat /\ disk.snap \in [Keys -> 0..told.appends]
        BY Parts
  <2> QED BY <1>1, <2>1
<1> QED BY <1>3, <1>4 DEF SnapshotSettled

LEMMA NextSettled ==
    ASSUME TypeInv, OffsetInv, ControlInv, SnapshotSettled, Next
    PROVE  SnapshotSettled'
<1>0. Recovering
      BY DEF ControlInv
<1>1. ASSUME NEW w \in Writers, Writer(w) PROVE SnapshotSettled'
  <2>1. CASE UNCHANGED <<store, wal, told>>
        BY <1>1, <2>1, WriterEffect, SettledSameWal DEF SameWal
  <2>2. CASE op[w].pc # "none" /\ AppendAndApply(w)
        BY <1>1, <2>2, WriterEffect, AppendSettled
  <2> QED BY <1>1, <2>1, <2>2, WriterEffect
<1>2. CASE StartBatch
  <2>1. wal.batch = <<>> /\ wal'.batch = wal.queue /\ wal'.queue = <<>> /\ disk' = disk
        BY <1>2, StartEffect
  <2>2. Unacked' = Unacked
        BY <2>1 DEF Unacked
  <2> QED BY <2>1, <2>2, SettledKept
<1>3. CASE BatchLands
  <2>1. wal'.batch = <<>> /\ wal'.queue = wal.queue /\ disk'.snap = disk.snap
        BY <1>3, LandsEffect
  <2>2. Ids(<<>>) = {}
        BY DEF Ids
  <2> QED BY <2>1, <2>2, SettledKept DEF Unacked
<1>4. CASE BatchFails
      BY <1>4, FailsEffect, SettledEmpty
<1>5. CASE Recover
  <2>1. CASE Cut
        BY <1>0, <2>1, CutEffect, SettledSameWal
  <2>2. CASE Refresh
        BY <1>0, <2>2, RefreshEffect, SettledSameWal
  <2>3. CASE CutFails
        BY <1>0, <2>3, CutFailsEffect, SettledSameWal DEF SameWal
  <2> QED BY <1>5, <2>1, <2>2, <2>3 DEF Recover
<1>6. CASE CopyStep
      BY <1>6, CopyStepEffect, SettledSameWal
<1>7. CASE RenameSnapshot
      BY <1>7, RenameSnapshotEffect, SettledEmpty
<1>8. CASE RenameWal
      BY <1>8, RenameWalEffect, SettledEmpty
<1>9. CASE OpenFresh \/ RollForward
  <2>1. CASE Follows
        BY <2>1, FollowsEffect, FreshWalFields, SettledEmpty
  <2>2. CASE Resumes
        BY <2>2, ResumesEffect, FreshWalFields, SettledEmpty
  <2>3. OpenFresh => compaction.rotated
        BY DEF OpenFresh, ControlInv, Compacting
  <2> QED BY <1>9, <2>1, <2>2, <2>3 DEF Follows, Resumes
<1>10. CASE CrashAndOpen
       BY <1>10, CrashEffect, FreshWalFields, SettledEmpty
<1> QED BY <1>1, <1>2, <1>3, <1>4, <1>5, <1>6, <1>7, <1>8, <1>9, <1>10 DEF Next, Compact, CopyStep

\* Every step is one of the durable store, or one it does not notice.
LEMMA NextIsDurable ==
    ASSUME IInv, DiskInv, SnapshotSettled, Next
    PROVE  Durable!Next \/ UNCHANGED Durable!vars
<1>0. /\ TypeInv /\ OffsetInv /\ ControlInv /\ DataInv
      /\ Recovering /\ Order /\ KeysInv
      BY DEF IInv, DiskInv, ControlInv, DataInv
<1>1. ASSUME NEW w \in Writers, Writer(w) PROVE Durable!Next \/ UNCHANGED Durable!vars
  <2>1. CASE UNCHANGED <<store, wal, told>>
        BY <2>1, SameWalStutters DEF SameWal
  <2>2. CASE op[w].pc # "none" /\ AppendAndApply(w)
        BY <1>0, <2>2, AppendIsAccept
  <2> QED BY <1>0, <1>1, <2>1, <2>2, WriterEffect
<1>2. CASE StartBatch
      BY <1>0, <1>2, StartStutters
<1>3. CASE BatchLands
      BY <1>0, <1>3, LandsIsKeep
<1>4. CASE BatchFails
      BY <1>0, <1>4, FailsIsReject
<1>5. CASE Recover
  <2>1. CASE Cut
        BY <1>0, <2>1, CutEffect, SameWalStutters
  <2>2. CASE Refresh
        BY <1>0, <2>2, RefreshEffect, SameWalStutters
  <2>3. CASE CutFails
        BY <1>0, <2>3, CutFailsEffect, SameWalStutters DEF SameWal
  <2> QED BY <1>5, <2>1, <2>2, <2>3 DEF Recover
<1>6. CASE CopyStep
      BY <1>0, <1>6, CopyStepEffect, SameWalStutters
<1>7. CASE RenameSnapshot
      BY <1>0, <1>7, RenameSnapshotEffect, SameWalStutters DEF SameWal
<1>8. CASE RenameWal
      BY <1>0, <1>8, RenameWalEffect, SameWalStutters DEF SameWal
<1>9. CASE OpenFresh \/ RollForward
  <2>1. CASE Follows
    <3>1. /\ wal.batch = <<>> /\ wal.queue = <<>> /\ told' = told
          /\ wal' = FreshWal(Len(disk.wal))
          /\ store' = [k \in Keys |-> [store[k] EXCEPT !.loc = RemapLoc(@)]]
          BY <1>0, <2>1, FollowsEffect
    <3>2. wal'.batch = <<>> /\ wal'.queue = <<>>
          BY <3>1, FreshWalFields
    <3>3. \A k \in Keys : store'[k].id = store[k].id
      <4>1. \A k \in Keys : store[k] \in [id : 0..told.appends, loc : Locs]
            BY <1>0, Parts DEF Record
      <4> QED BY <3>1, <4>1
    <3> QED BY <3>1, <3>2, <3>3, FreshStutters
  <2>2. CASE Resumes
    <3>1. /\ wal.batch = <<>> /\ wal.queue = <<>> /\ told' = told /\ store' = store
          /\ wal' = FreshWal(Len(disk.wal))
          BY <1>0, <2>2, ResumesEffect
    <3>2. wal'.batch = <<>> /\ wal'.queue = <<>>
          BY <3>1, FreshWalFields
    <3> QED BY <3>1, <3>2, FreshStutters
  <2>3. OpenFresh => compaction.rotated
        BY <1>0 DEF OpenFresh, ControlInv, Compacting
  <2> QED BY <1>9, <2>1, <2>2, <2>3 DEF Follows, Resumes
<1>10. CASE CrashAndOpen
       BY <1>0, <1>10, CrashIsRestart
<1> QED BY <1>1, <1>2, <1>3, <1>4, <1>5, <1>6, <1>7, <1>8, <1>9, <1>10 DEF Next, Compact, CopyStep

LEMMA InitIsDurable == Init => Durable!Init /\ SnapshotSettled
<1> SUFFICES ASSUME Init PROVE Durable!Init /\ SnapshotSettled
    OBVIOUS
<1>1. /\ wal.batch = <<>> /\ wal.queue = <<>> /\ store = [k \in Keys |-> Absent]
      /\ told = [acked |-> [k \in Keys |-> 0], rejected |-> {}, appends |-> 0]
      BY DEF Init, FreshWal
<1>2. \A k \in Keys : Landed(k) = Absent
      BY <1>1, NoFrames
<1>3. Memory = [k \in Keys |-> 0] /\ Kept = [k \in Keys |-> 0] /\ InFlight = <<>>
      BY <1>1, <1>2 DEF Memory, Kept, InFlight, Absent
<1>4. Unacked = {}
      BY <1>1 DEF Unacked, Ids
<1> QED BY <1>1, <1>3, <1>4 DEF Durable!Init, SnapshotSettled

LEMMA SettledInvariant ==
    ASSUME ~CompactWhileRecovering
    PROVE  Spec => []SnapshotSettled
<1>1. Spec => [](IInv /\ DiskInv)
      BY DiskInvariant
<1>2. IInv /\ DiskInv /\ SnapshotSettled /\ [Next]_vars => SnapshotSettled'
  <2>1. ASSUME IInv, DiskInv, SnapshotSettled, Next PROVE SnapshotSettled'
        BY <2>1, NextSettled DEF IInv, DiskInv
  <2>2. ASSUME SnapshotSettled, UNCHANGED vars PROVE SnapshotSettled'
        BY <2>2 DEF SnapshotSettled, Unacked, vars
  <2> QED BY <2>1, <2>2
<1> QED BY <1>1, <1>2, InitIsDurable, PTL DEF Spec

\* ImplementsDurableStore: groups, roll backs, the recovery in place, compactions and
\* reopens do what DurableStore promises, for any number of writers, keys and failures:
\* a failed group shows exactly what was kept (wal-group.ts:120), and a crash keeps a
\* beginning of what was in flight, across all keys, between any two steps of a
\* rotation as well (compaction.ts:359).
THEOREM StoreImplementsDurableStore ==
    ASSUME ~CompactWhileRecovering
    PROVE  Spec => ImplementsDurableStore
<1>1. Spec => [](IInv /\ DiskInv)
      BY DiskInvariant
<1>2. Spec => []SnapshotSettled
      BY SettledInvariant
<1>3. IInv /\ DiskInv /\ SnapshotSettled /\ [Next]_vars => [Durable!Next]_(Durable!vars)
  <2>1. ASSUME UNCHANGED vars PROVE UNCHANGED Durable!vars
        BY <2>1, SameWalStutters DEF vars, SameWal
  <2> QED BY <2>1, NextIsDurable
<1> QED BY <1>1, <1>2, <1>3, InitIsDurable, PTL DEF Spec, ImplementsDurableStore, Durable!Spec
=============================================================================
