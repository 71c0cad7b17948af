--------------------------- MODULE AppendLogProofs ---------------------------
(***************************************************************************)
(* What the append log store guarantees of one log, for any number of      *)
(* records, rewrites, flushes, generations, handles, failures and crashes. *)
(*                                                                         *)
(* The argument.  The owners of a generation form a chain: each waits for  *)
(* the one before it, so only the first can be at the file (ChainOK).  A   *)
(* generation is past its `ready` only once all before it are settled, and *)
(* a settled one has nothing left to write (GenOK, PassedOK, QuietOK).     *)
(* Hence one writer.  What it appends was never written before and is      *)
(* newer than what is in the file (ContentOK), and a rewrite replaces only *)
(* what its call has seen, what is still buffered behind it, and what      *)
(* generations before its own were still writing (CallerOK).               *)
(***************************************************************************)
EXTENDS AppendLog, TLAPS, WellFoundedInduction

-----------------------------------------------------------------------------
(* Shapes. *)
LogState ==
    [pending : Seq(Records), flushPromise : Owners \cup {None}, flushScheduled : BOOLEAN,
     storageFailure : BOOLEAN, cutoverEpoch : Nat, refCount : 0 .. MaxHandles,
     retired : BOOLEAN, ready : Generations \cup {None},
     retirement : {"absent", "none", "flushing", "settled"},
     awaits : Owners \cup {None}]

Owner ==
    [gen : Generations \cup {None},
     pc : {"free", "prior", "writing", "ready", "appending", "done", "failed"},
     epoch : Nat, batch : Nat, prior : Owners \cup {None},
     promised : SUBSET Records, covered : SUBSET Nat, foreign : SUBSET Nat]

LineRecord == [rec : Records \cup {Replacement}, ok : BOOLEAN]

Calls ==
    [append : 0 .. MaxRecords, rewrite : 0 .. MaxRewrites, flush : Nat,
     failure : Nat, crash : Nat]

Settlements ==
    [acked : SUBSET Nat, early : SUBSET Nat, superseded : SUBSET Nat,
     overrun : SUBSET Nat, lost : SUBSET Nat]

-----------------------------------------------------------------------------
(* The parts of the invariant speak of any logs L, entry of the map c, owners *)
(* o, file F, counts n of rewrites and m of appends, and settlements S: a step *)
(* may create a generation, start a flush and more, one after the other.      *)

ExistsIn(L, g) == L[g].retirement # "absent"

Passed(L, g) == \A h \in Generations : h < g => L[h].retirement = "settled"

(* The last flush of a retired generation has settled, or none was needed. *)
Quiet(L, g) ==
    \/ L[g].retirement = "settled"
    \/ L[g].retirement = "flushing" /\ L[g].awaits = None

(* Generations are created one after the other. *)
CreatedInOrder(L) == \A g, h \in Generations : ExistsIn(L, g) /\ h < g => ExistsIn(L, h)
OthersAbsent(L) == \A g \in Generations : ~ExistsIn(L, g) => L[g] = NoLog

(* The entry of the map is the last one; the others are retired, and without *)
(* an entry all are settled.                                                 *)
EntryIsLast(L, c) ==
    /\ c # None => ExistsIn(L, c)
    /\ \A g \in Generations : ExistsIn(L, g) /\ c # None => g <= c
    /\ \A g \in Generations : ExistsIn(L, g) /\ g # c => L[g].retired
    /\ \A g \in Generations : ExistsIn(L, g) /\ c = None => L[g].retirement = "settled"

RetiredOnce(L) ==
    /\ \A g \in Generations : L[g].retired <=> L[g].retirement \in {"flushing", "settled"}
    /\ \A g \in Generations : L[g].refCount > 0 => L[g].retirement = "none"

(* `ready` is the retirement of the generation before. *)
ReadyOK(L) ==
    \A g \in Generations : ExistsIn(L, g) =>
        IF L[g].ready = None THEN Passed(L, g) ELSE L[g].ready = g - 1

GenOK(L, c) ==
    CreatedInOrder(L) /\ OthersAbsent(L) /\ EntryIsLast(L, c) /\ RetiredOnce(L) /\ ReadyOK(L)

-----------------------------------------------------------------------------
(* The owners of a generation wait for one another, the promise of its last  *)
(* one is the promise of the generation.                                     *)
Busy(o, p) == o[p].pc # "free"

FreeIsFree(o) == \A p \in Owners : ~Busy(o, p) => o[p] = FreeOwner

PlacedOK(L, o, n) ==
    \A p \in Owners : Busy(o, p) =>
        /\ o[p].gen \in Generations /\ ExistsIn(L, o[p].gen)
        /\ p <= L[o[p].gen].flushPromise
        /\ p <= MaxGenerations => p = o[p].gen /\ o[p].pc # "prior" /\ o[p].pc # "writing"
        /\ p <= MaxGenerations + n

PromiseOK(L, o) ==
    \A g \in Generations : L[g].flushPromise # None =>
        Busy(o, L[g].flushPromise) /\ o[L[g].flushPromise].gen = g

Chained(o) ==
    \A p, q \in Owners : Busy(o, p) /\ Busy(o, q) /\ o[p].gen = o[q].gen /\ p < q =>
        p <= o[q].prior /\ o[q].prior < q

PriorOK(o) ==
    \A q \in Owners : o[q].prior # None =>
        /\ o[q].pc = "prior" /\ o[q].prior < q
        /\ Busy(o, o[q].prior) /\ o[o[q].prior].gen = o[q].gen

AwaitsOK(L) ==
    \A g \in Generations : L[g].awaits # None =>
        L[g].awaits = L[g].flushPromise /\ L[g].retirement = "flushing"

ChainOK(L, o, n) ==
    FreeIsFree(o) /\ PlacedOK(L, o, n) /\ PromiseOK(L, o) /\ Chained(o) /\ PriorOK(o) /\ AwaitsOK(L)

-----------------------------------------------------------------------------
(* What an owner's progress says of its generation. *)
FailureOK(L, o) ==
    \A p \in Owners :
        /\ o[p].pc \in {"ready", "appending", "done"} => ~L[o[p].gen].storageFailure
        /\ o[p].pc = "failed" => L[o[p].gen].storageFailure

(* A drain sees a cutover exactly if it has lost the generation's promise. *)
EpochOK(L, o) ==
    \A p \in Owners : o[p].pc \in {"ready", "appending"} =>
        /\ o[p].epoch <= L[o[p].gen].cutoverEpoch
        /\ o[p].epoch = L[o[p].gen].cutoverEpoch <=> L[o[p].gen].flushPromise = p

CountsOK(L, o, n, m) ==
    /\ \A p \in Owners : o[p].epoch <= n /\ o[p].batch <= m
    /\ \A g \in Generations : L[g].cutoverEpoch <= n

BatchOK(L, o) ==
    \A p \in Owners : o[p].pc = "appending" => o[p].batch \in 1 .. Len(L[o[p].gen].pending)

PhaseOK(L, o, n, m) ==
    FailureOK(L, o) /\ EpochOK(L, o) /\ CountsOK(L, o, n, m) /\ BatchOK(L, o)

(* Who is past its `ready`, and what a settled generation has left. *)
PassedOK(L, o) ==
    /\ \A p \in Owners : o[p].pc \notin {"free", "prior", "ready"} => Passed(L, o[p].gen)
    /\ \A g \in Generations : Quiet(L, g) \/ L[g].storageFailure => Passed(L, g)

QuietOK(L, o) ==
    /\ \A g \in Generations : Quiet(L, g) => L[g].pending = <<>> \/ L[g].storageFailure
    /\ \A p \in Owners : Busy(o, p) /\ Quiet(L, o[p].gen) => o[p].pc \in {"ready", "done"}

-----------------------------------------------------------------------------
(* Records are buffered in the order of the calls and written once. *)
Buffer(L, g) == ToSet(L[g].pending)
Recs(F) == {F[i].rec : i \in DOMAIN F}

Ascending(s, m) ==
    /\ \A i \in DOMAIN s : s[i] \in i .. m
    /\ \A i, j \in DOMAIN s : i < j => s[i] < s[j]

FileOK(F, m) ==
    /\ \A i \in DOMAIN F : F[i].rec <= m
    /\ \A i, j \in DOMAIN F : i < j => F[i].rec < F[j].rec

BuffersOK(L, m) ==
    /\ \A g \in Generations : Ascending(L[g].pending, m)
    /\ \A g, h \in Generations : g < h => \A r \in Buffer(L, g), s \in Buffer(L, h) : r < s

(* What a generation without a failure still has to write is newer than all  *)
(* that is in the file.                                                      *)
NewerOK(L, F) ==
    \A g \in Generations : ~L[g].storageFailure =>
        \A r \in Buffer(L, g) \ Recs(F), x \in Recs(F) : x < r

Clean(L, F, g) == Buffer(L, g) \cap Recs(F) = {}

CleanOK(L, o, F) ==
    /\ \A g \in Generations : L[g].flushPromise = None /\ ~L[g].storageFailure => Clean(L, F, g)
    /\ \A p \in Owners : o[p].pc \in {"ready", "done"} /\ L[o[p].gen].flushPromise = p =>
           Clean(L, F, o[p].gen)
    /\ \A p \in Owners : o[p].pc = "appending" => Clean(L, F, o[p].gen)

ContentOK(L, o, F, m) == FileOK(F, m) /\ BuffersOK(L, m) /\ NewerOK(L, F) /\ CleanOK(L, o, F)

-----------------------------------------------------------------------------
(* What callers were told, and what they must still be given. *)
Kept(F, S) == Recs(F) \cup S.superseded \cup S.overrun

(* A rewrite will account for all that it replaces. *)
RewriteOK(L, o, F) ==
    \A p \in Owners : o[p].pc \in {"prior", "writing"} =>
        /\ Recs(F) \subseteq {Replacement} \cup o[p].covered \cup o[p].foreign
                                 \cup Buffer(L, o[p].gen)
        /\ \A h \in Generations : h < o[p].gen /\ ~Quiet(L, h) => Buffer(L, h) \subseteq o[p].foreign

PromisedOK(L, o, F, S, m) ==
    \A p \in Owners :
        /\ Busy(o, p) => o[p].promised \subseteq Kept(F, S) \cup Buffer(L, o[p].gen)
        /\ o[p].promised \subseteq 1 .. m
        /\ \A g \in Generations : g # o[p].gen => o[p].promised \cap Buffer(L, g) = {}

AckedOK(L, F, S, m) ==
    /\ S.acked \subseteq Kept(F, S) \cap (1 .. m)
    /\ \A g \in Generations : S.acked \cap Buffer(L, g) = {}

NothingVanishes(L, F, S, m) ==
    1 .. m \subseteq Kept(F, S) \cup S.lost \cup UNION {Buffer(L, g) : g \in Generations}

CallerOK(L, o, F, S, m) ==
    RewriteOK(L, o, F) /\ PromisedOK(L, o, F, S, m) /\ AckedOK(L, F, S, m) /\ NothingVanishes(L, F, S, m)

-----------------------------------------------------------------------------
(* The state, as one part of a step hands it to the next. *)
Shapes(L, c, o, F, n, m, S) ==
    /\ L \in [Generations -> LogState] /\ c \in Generations \cup {None}
    /\ o \in [Owners -> Owner] /\ F \in Seq(LineRecord)
    /\ n \in 0 .. MaxRewrites /\ m \in 0 .. MaxRecords /\ S \in Settlements

StateOK(L, c, o, F, n, m, S) ==
    /\ Shapes(L, c, o, F, n, m, S)
    /\ GenOK(L, c) /\ ChainOK(L, o, n) /\ PhaseOK(L, o, n, m) /\ PassedOK(L, o) /\ QuietOK(L, o)
    /\ ContentOK(L, o, F, m) /\ CallerOK(L, o, F, S, m)

IInv ==
    /\ torn \in BOOLEAN /\ calls \in Calls
    /\ StateOK(log, current, owner, lines, calls.rewrite, calls.append, settled)

-----------------------------------------------------------------------------
(* Sequences. *)

\* A record that is appended follows all others.
LEMMA AppendAscends ==
    ASSUME NEW m \in Nat, NEW s \in Seq(Nat), Ascending(s, m)
    PROVE  /\ Ascending(Append(s, m + 1), m + 1)
           /\ ToSet(Append(s, m + 1)) = ToSet(s) \cup {m + 1}
           /\ Len(s) <= m
           /\ ToSet(s) \subseteq 1 .. m
<1> DEFINE t == Append(s, m + 1)  k == Len(s)
<1>1. k \in Nat /\ DOMAIN s = 1 .. k /\ DOMAIN t = 1 .. (k + 1) /\ t[k + 1] = m + 1
      OBVIOUS
<1>2. \A i \in 1 .. k : t[i] = s[i]
      OBVIOUS
<1> HIDE DEF t, k
<1>3. \A i \in 1 .. k : s[i] \in i .. m
      BY <1>1 DEF Ascending
<1>4. \A i, j \in 1 .. k : i < j => s[i] < s[j]
      BY <1>1 DEF Ascending
<1>5. k <= m
  <2>1. CASE k = 0
        BY <2>1
  <2>2. CASE k # 0
    <3>1. s[k] \in k .. m
          BY <1>1, <1>3, <2>2
    <3> QED BY <1>1, <3>1
  <2> QED BY <2>1, <2>2
<1>6. \A i \in 1 .. (k + 1) : t[i] \in i .. (m + 1)
  <2> SUFFICES ASSUME NEW i \in 1 .. (k + 1) PROVE t[i] \in i .. (m + 1)
      OBVIOUS
  <2>1. CASE i = k + 1
        BY <1>1, <1>5, <2>1
  <2>2. CASE i # k + 1
    <3>1. i \in 1 .. k
          BY <1>1, <2>2
    <3>2. t[i] = s[i] /\ s[i] \in i .. m
          BY <1>2, <1>3, <3>1
    <3> QED BY <3>2
  <2> QED BY <2>1, <2>2
<1>7. \A i, j \in 1 .. (k + 1) : i < j => t[i] < t[j]
  <2> SUFFICES ASSUME NEW i \in 1 .. (k + 1), NEW j \in 1 .. (k + 1), i < j PROVE t[i] < t[j]
      OBVIOUS
  <2>1. i \in 1 .. k /\ t[i] = s[i] /\ s[i] \in i .. m
        BY <1>1, <1>2, <1>3
  <2>2. CASE j = k + 1
        BY <1>1, <2>1, <2>2
  <2>3. CASE j # k + 1
    <3>1. j \in 1 .. k /\ t[j] = s[j]
          BY <1>1, <1>2, <2>3
    <3> QED BY <1>4, <2>1, <3>1
  <2> QED BY <2>2, <2>3
<1>8. Ascending(t, m + 1)
      BY <1>1, <1>6, <1>7 DEF Ascending
<1>9. ToSet(t) = ToSet(s) \cup {m + 1}
  <2>1. \A x \in ToSet(t) : x \in ToSet(s) \cup {m + 1}
    <3> SUFFICES ASSUME NEW i \in 1 .. (k + 1) PROVE t[i] \in ToSet(s) \cup {m + 1}
        BY <1>1 DEF ToSet
    <3>1. i \in 1 .. k \/ i = k + 1
          BY <1>1
    <3> QED BY <1>1, <1>2, <3>1 DEF ToSet
  <2>2. \A x \in ToSet(s) : x \in ToSet(t)
    <3> SUFFICES ASSUME NEW i \in 1 .. k PROVE s[i] \in ToSet(t)
        BY <1>1 DEF ToSet
    <3>1. i \in 1 .. (k + 1)
          BY <1>1
    <3> QED BY <1>1, <1>2, <3>1 DEF ToSet
  <2>3. m + 1 \in ToSet(t)
    <3>1. k + 1 \in 1 .. (k + 1)
          BY <1>1
    <3> QED BY <1>1, <3>1 DEF ToSet
  <2> QED BY <2>1, <2>2, <2>3
<1>10. ToSet(s) \subseteq 1 .. m
  <2> SUFFICES ASSUME NEW i \in 1 .. k PROVE s[i] \in 1 .. m
      BY <1>1 DEF ToSet
  <2>1. s[i] \in i .. m
        BY <1>3
  <2> QED BY <2>1, <1>1
<1> QED BY <1>5, <1>8, <1>9, <1>10 DEF t, k

\* A batch is written before what follows it in the buffer.
LEMMA BatchPrecedes ==
    ASSUME NEW m \in Nat, NEW s \in Seq(Nat), Ascending(s, m), NEW b \in 0 .. Len(s)
    PROVE  LET batch == SubSeq(s, 1, b)
               rest == SubSeq(s, b + 1, Len(s))
           IN  /\ batch \in Seq(Nat) /\ Ascending(batch, m)
               /\ rest \in Seq(Nat) /\ Ascending(rest, m)
               /\ ToSet(s) = ToSet(batch) \cup ToSet(rest)
               /\ \A x \in ToSet(batch), y \in ToSet(rest) : x < y
<1> DEFINE k == Len(s)  batch == SubSeq(s, 1, b)  rest == SubSeq(s, b + 1, k)
<1>1. k \in Nat /\ b \in Nat /\ b <= k /\ DOMAIN s = 1 .. k
      OBVIOUS
<1>2. batch \in Seq(Nat) /\ DOMAIN batch = 1 .. b /\ \A i \in 1 .. b : batch[i] = s[i]
      OBVIOUS
<1>3. rest \in Seq(Nat) /\ DOMAIN rest = 1 .. (k - b)
      OBVIOUS
<1>4. \A i \in 1 .. (k - b) : rest[i] = s[b + i]
      OBVIOUS
<1> HIDE DEF k, batch, rest
<1>5. \A i \in 1 .. k : s[i] \in i .. m
      BY <1>1 DEF Ascending
<1>6. \A i, j \in 1 .. k : i < j => s[i] < s[j]
      BY <1>1 DEF Ascending
<1>7. \A i \in 1 .. b : i \in 1 .. k
      BY <1>1
<1>8. \A i \in 1 .. (k - b) : b + i \in 1 .. k /\ b + i >= i
      BY <1>1
<1>9. Ascending(batch, m)
  <2>1. \A i \in 1 .. b : batch[i] \in i .. m
        BY <1>2, <1>5, <1>7
  <2>2. \A i, j \in 1 .. b : i < j => batch[i] < batch[j]
        BY <1>2, <1>6, <1>7
  <2> QED BY <1>2, <2>1, <2>2 DEF Ascending
<1>10. Ascending(rest, m)
  <2>1. \A i \in 1 .. (k - b) : rest[i] \in i .. m
    <3> SUFFICES ASSUME NEW i \in 1 .. (k - b) PROVE rest[i] \in i .. m
        OBVIOUS
    <3>1. b + i \in 1 .. k /\ b + i >= i /\ rest[i] = s[b + i]
          BY <1>4, <1>8
    <3>2. s[b + i] \in (b + i) .. m
          BY <1>5, <3>1
    <3> QED BY <1>1, <3>1, <3>2
  <2>2. ASSUME NEW i \in 1 .. (k - b), NEW j \in 1 .. (k - b), i < j
        PROVE  rest[i] < rest[j]
    <3>1. b + i \in 1 .. k /\ b + j \in 1 .. k /\ b + i < b + j
          BY <1>1, <1>8, <2>2
    <3>2. s[b + i] < s[b + j]
          BY <1>6, <3>1
    <3> QED BY <1>4, <3>2
  <2> QED BY <1>3, <2>1, <2>2 DEF Ascending
<1>11. \A x \in ToSet(s) : x \in ToSet(batch) \cup ToSet(rest)
  <2> SUFFICES ASSUME NEW i \in 1 .. k PROVE s[i] \in ToSet(batch) \cup ToSet(rest)
      BY <1>1 DEF ToSet
  <2>1. CASE i <= b
    <3>1. i \in 1 .. b
          BY <1>1, <2>1
    <3> QED BY <1>2, <3>1 DEF ToSet
  <2>2. CASE ~(i <= b)
    <3>1. i - b \in 1 .. (k - b) /\ b + (i - b) = i
          BY <1>1, <2>2
    <3>2. rest[i - b] = s[i]
          BY <1>4, <3>1
    <3> QED BY <1>3, <3>1, <3>2 DEF ToSet
  <2> QED BY <2>1, <2>2
<1>12. \A x \in ToSet(batch) : x \in ToSet(s)
      BY <1>1, <1>2, <1>7 DEF ToSet
<1>13. \A x \in ToSet(rest) : x \in ToSet(s)
      BY <1>1, <1>3, <1>4, <1>8 DEF ToSet
<1>14. \A x \in ToSet(batch), y \in ToSet(rest) : x < y
  <2> SUFFICES ASSUME NEW i \in 1 .. b, NEW j \in 1 .. (k - b) PROVE batch[i] < rest[j]
      BY <1>2, <1>3 DEF ToSet
  <2>1. i \in 1 .. k /\ b + j \in 1 .. k /\ i < b + j
        BY <1>1, <1>7, <1>8
  <2>2. s[i] < s[b + j]
        BY <1>6, <2>1
  <2> QED BY <1>2, <1>4, <2>2
<1> QED BY <1>2, <1>3, <1>9, <1>10, <1>11, <1>12, <1>13, <1>14 DEF k, batch, rest

\* Lines of records that are newer than the file's keep the file in order.
LEMMA FileGrows ==
    ASSUME NEW m \in Nat, NEW F \in Seq(LineRecord), FileOK(F, m),
           NEW batch \in Seq(Records), Ascending(batch, m),
           \A x \in Recs(F), r \in ToSet(batch) : x < r, torn \in BOOLEAN
    PROVE  LET G == F \o Written(batch)
           IN  G \in Seq(LineRecord) /\ FileOK(G, m) /\ Recs(G) = Recs(F) \cup ToSet(batch)
<1> DEFINE W == Written(batch)  k == Len(F)  b == Len(batch)  G == F \o W
<1>0. W = [i \in 1 .. b |-> Line(batch[i], ~(torn /\ i = 1))]
      BY DEF Written
<1> HIDE DEF W
<1>1. k \in Nat /\ b \in Nat /\ DOMAIN F = 1 .. k /\ DOMAIN batch = 1 .. b
      OBVIOUS
<1>2. \A i \in 1 .. b : batch[i] \in Records
      OBVIOUS
<1>3. W \in Seq(LineRecord) /\ Len(W) = b
  <2>1. \A i \in 1 .. b : Line(batch[i], ~(torn /\ i = 1)) \in LineRecord
        BY <1>2 DEF LineRecord, Line
  <2> HIDE DEF b
  <2>2. W \in [1 .. b -> LineRecord]
        BY <1>0, <2>1 DEF b
  <2> QED BY <1>1, <2>2
<1>4. \A i \in 1 .. b : W[i].rec = batch[i]
      BY <1>0, <1>1 DEF Line
<1>5. G \in Seq(LineRecord) /\ DOMAIN G = 1 .. (k + b)
      BY <1>3
<1>6. \A i \in 1 .. k : G[i] = F[i]
      BY <1>3
<1>7. \A i \in 1 .. b : G[k + i] = W[i]
      BY <1>3
<1> HIDE DEF k, b, G
<1>8. \A i \in 1 .. b : G[k + i].rec = batch[i] /\ batch[i] \in i .. m
      BY <1>1, <1>4, <1>7 DEF Ascending
<1>9. \A i \in 1 .. k : G[i].rec = F[i].rec /\ F[i].rec <= m /\ F[i].rec \in Recs(F)
      BY <1>1, <1>6 DEF FileOK, Recs
<1>10. \A i \in 1 .. (k + b) : i \in 1 .. k \/ \E j \in 1 .. b : i = k + j
  <2> SUFFICES ASSUME NEW i \in 1 .. (k + b), i \notin 1 .. k PROVE \E j \in 1 .. b : i = k + j
      OBVIOUS
  <2>1. i - k \in 1 .. b /\ i = k + (i - k)
        BY <1>1
  <2> QED BY <2>1
<1>11. \A i \in 1 .. (k + b) : G[i].rec <= m
  <2> SUFFICES ASSUME NEW i \in 1 .. (k + b) PROVE G[i].rec <= m
      OBVIOUS
  <2>1. CASE i \in 1 .. k
        BY <1>9, <2>1
  <2>2. ASSUME NEW j \in 1 .. b, i = k + j PROVE G[i].rec <= m
        BY <1>8, <2>2
  <2> QED BY <1>10, <2>1, <2>2
<1>12. ASSUME NEW i \in 1 .. (k + b), NEW j \in 1 .. (k + b), i < j
       PROVE  G[i].rec < G[j].rec
  <2>1. CASE j \in 1 .. k
    <3>1. i \in 1 .. k
          BY <1>1, <1>12, <2>1
    <3> QED BY <1>1, <1>9, <1>12, <2>1, <3>1 DEF FileOK
  <2>2. ASSUME NEW y \in 1 .. b, j = k + y PROVE G[i].rec < G[j].rec
    <3>1. CASE i \in 1 .. k
      <4>1. batch[y] \in ToSet(batch)
            BY <1>1 DEF ToSet
      <4> QED BY <1>8, <1>9, <2>2, <3>1, <4>1
    <3>2. ASSUME NEW x \in 1 .. b, i = k + x PROVE G[i].rec < G[j].rec
      <4>1. x < y
            BY <1>1, <1>12, <2>2, <3>2
      <4>2. batch[x] < batch[y]
            BY <1>1, <4>1 DEF Ascending
      <4> QED BY <1>8, <2>2, <3>2, <4>2
    <3> QED BY <1>10, <3>1, <3>2
  <2> QED BY <1>10, <2>1, <2>2
<1>13. \A x \in Recs(G) : x \in Recs(F) \cup ToSet(batch)
  <2> SUFFICES ASSUME NEW i \in 1 .. (k + b) PROVE G[i].rec \in Recs(F) \cup ToSet(batch)
      BY <1>5 DEF Recs
  <2>1. CASE i \in 1 .. k
        BY <1>9, <2>1
  <2>2. ASSUME NEW j \in 1 .. b, i = k + j PROVE G[i].rec \in ToSet(batch)
        BY <1>1, <1>8, <2>2 DEF ToSet
  <2> QED BY <1>10, <2>1, <2>2
<1>14. \A x \in Recs(F) : x \in Recs(G)
  <2> SUFFICES ASSUME NEW i \in 1 .. k PROVE F[i].rec \in Recs(G)
      BY <1>1 DEF Recs
  <2>1. i \in 1 .. (k + b)
        BY <1>1
  <2> QED BY <1>5, <1>9, <2>1 DEF Recs
<1>15. \A x \in ToSet(batch) : x \in Recs(G)
  <2> SUFFICES ASSUME NEW i \in 1 .. b PROVE batch[i] \in Recs(G)
      BY <1>1 DEF ToSet
  <2>1. k + i \in 1 .. (k + b)
        BY <1>1
  <2> QED BY <1>5, <1>8, <2>1 DEF Recs
<1> QED BY <1>5, <1>11, <1>12, <1>13, <1>14, <1>15 DEF FileOK, G, W

-----------------------------------------------------------------------------
(* Fields and frames. *)

\* The bounds are numbers.
LEMMA Bounds ==
    /\ MaxRecords \in Nat /\ MaxRewrites \in Nat /\ MaxGenerations \in Nat /\ MaxHandles \in Nat
    /\ Generations \subseteq Owners /\ Generations \subseteq Nat /\ Owners \subseteq Nat
    /\ None = 0 /\ None \notin Generations /\ None \notin Owners
    /\ \A g \in Generations : g <= MaxGenerations
    /\ \A p \in Owners : p > 0 /\ p <= MaxGenerations + MaxRewrites
BY BoundsAssumption DEF Generations, Owners, None

\* The fields of a log.
LEMMA LogFields ==
    ASSUME NEW L \in [Generations -> LogState], NEW g \in Generations
    PROVE  /\ L[g].pending \in Seq(Records) /\ L[g].flushPromise \in Owners \cup {None}
           /\ L[g].flushScheduled \in BOOLEAN /\ L[g].storageFailure \in BOOLEAN
           /\ L[g].cutoverEpoch \in Nat /\ L[g].refCount \in 0 .. MaxHandles
           /\ L[g].retired \in BOOLEAN /\ L[g].ready \in Generations \cup {None}
           /\ L[g].retirement \in {"absent", "none", "flushing", "settled"}
           /\ L[g].awaits \in Owners \cup {None}
BY DEF LogState

\* The fields of an owner.
LEMMA OwnerFields ==
    ASSUME NEW o \in [Owners -> Owner], NEW p \in Owners
    PROVE  /\ o[p].gen \in Generations \cup {None} /\ o[p].epoch \in Nat /\ o[p].batch \in Nat
           /\ o[p].pc \in {"free", "prior", "writing", "ready", "appending", "done", "failed"}
           /\ o[p].prior \in Owners \cup {None} /\ o[p].promised \subseteq Records
           /\ o[p].covered \subseteq Nat /\ o[p].foreign \subseteq Nat
BY DEF Owner

\* A busy owner works for a generation that exists and has a promise.
LEMMA BusyPlace ==
    ASSUME NEW L \in [Generations -> LogState], NEW o \in [Owners -> Owner], NEW n,
           PlacedOK(L, o, n), NEW p \in Owners, Busy(o, p)
    PROVE  /\ o[p].gen \in Generations /\ ExistsIn(L, o[p].gen)
           /\ L[o[p].gen].flushPromise # None /\ L[o[p].gen].flushPromise \in Owners
           /\ p <= L[o[p].gen].flushPromise
<1>1. o[p].gen \in Generations /\ ExistsIn(L, o[p].gen) /\ p <= L[o[p].gen].flushPromise
      BY DEF PlacedOK
<1>2. L[o[p].gen].flushPromise \in Owners \cup {None}
      BY <1>1, LogFields
<1> QED BY <1>1, <1>2, Bounds

\* The buffers hold records appended so far, and no record twice.
LEMMA BufferRange ==
    ASSUME NEW L \in [Generations -> LogState], NEW m \in Nat, BuffersOK(L, m)
    PROVE  /\ \A g \in Generations : Buffer(L, g) \subseteq 1 .. m
           /\ \A g, h \in Generations : g # h => Buffer(L, g) \cap Buffer(L, h) = {}
<1>1. ASSUME NEW g \in Generations
      PROVE  Buffer(L, g) \subseteq 1 .. m
  <2>1. Ascending(L[g].pending, m) /\ L[g].pending \in Seq(Records)
        BY LogFields DEF BuffersOK
  <2>2. L[g].pending \in Seq(Nat)
        BY <2>1, Bounds DEF Records
  <2> QED BY <2>1, <2>2, AppendAscends DEF Buffer
<1>2. ASSUME NEW g \in Generations, NEW h \in Generations, g # h
      PROVE  Buffer(L, g) \cap Buffer(L, h) = {}
  <2>1. g < h \/ h < g
        BY <1>2, Bounds
  <2>2. \A r \in Buffer(L, g) \cap Buffer(L, h) : r \in Nat /\ r < r
        BY <1>1, <2>1 DEF BuffersOK
  <2> QED BY <2>2
<1> QED BY <1>1, <1>2

\* The parts of the state.
LEMMA Parts ==
    ASSUME NEW L, NEW c, NEW o, NEW F, NEW n, NEW m, NEW S, StateOK(L, c, o, F, n, m, S)
    PROVE  /\ L \in [Generations -> LogState] /\ c \in Generations \cup {None}
           /\ o \in [Owners -> Owner] /\ F \in Seq(LineRecord)
           /\ n \in 0 .. MaxRewrites /\ m \in 0 .. MaxRecords /\ S \in Settlements
           /\ n \in Nat /\ m \in Nat
           /\ GenOK(L, c) /\ CreatedInOrder(L) /\ OthersAbsent(L) /\ EntryIsLast(L, c)
           /\ RetiredOnce(L) /\ ReadyOK(L)
           /\ ChainOK(L, o, n) /\ FreeIsFree(o) /\ PlacedOK(L, o, n) /\ PromiseOK(L, o)
           /\ Chained(o) /\ PriorOK(o) /\ AwaitsOK(L)
           /\ FailureOK(L, o) /\ EpochOK(L, o) /\ CountsOK(L, o, n, m) /\ BatchOK(L, o)
           /\ PassedOK(L, o) /\ QuietOK(L, o)
           /\ FileOK(F, m) /\ BuffersOK(L, m) /\ NewerOK(L, F) /\ CleanOK(L, o, F)
           /\ RewriteOK(L, o, F) /\ PromisedOK(L, o, F, S, m) /\ AckedOK(L, F, S, m)
           /\ NothingVanishes(L, F, S, m)
BY Bounds DEF StateOK, Shapes, GenOK, ChainOK, PhaseOK, ContentOK, CallerOK

\* A step that retires and creates no generation.
SameLives(L, L2) ==
    \A h \in Generations :
        /\ L2[h].retirement = L[h].retirement /\ L2[h].retired = L[h].retired
        /\ L2[h].ready = L[h].ready
        /\ L2[h].refCount > 0 => L2[h].retirement = "none"
        /\ ~ExistsIn(L, h) => L2[h] = L[h]

\* It keeps the order of generations.
LEMMA LivesKept ==
    ASSUME NEW L, NEW L2, NEW c \in Generations \cup {None}, GenOK(L, c), SameLives(L, L2)
    PROVE  /\ GenOK(L2, c)
           /\ \A h \in Generations : (ExistsIn(L2, h) <=> ExistsIn(L, h)) /\ (Passed(L2, h) <=> Passed(L, h))
<1>1. \A h \in Generations : (ExistsIn(L2, h) <=> ExistsIn(L, h)) /\ (Passed(L2, h) <=> Passed(L, h))
      BY DEF SameLives, ExistsIn, Passed
<1>2. CreatedInOrder(L2)
      BY <1>1 DEF GenOK, CreatedInOrder
<1>3. OthersAbsent(L2)
      BY <1>1 DEF GenOK, OthersAbsent, SameLives
<1>4. EntryIsLast(L2, c)
  <2>1. c # None => ExistsIn(L2, c)
        BY <1>1 DEF GenOK, EntryIsLast
  <2> QED BY <1>1, <2>1 DEF GenOK, EntryIsLast, SameLives
<1>5. RetiredOnce(L2)
      BY DEF GenOK, RetiredOnce, SameLives
<1>6. ReadyOK(L2)
      BY <1>1 DEF GenOK, ReadyOK, SameLives
<1> QED BY <1>1, <1>2, <1>3, <1>4, <1>5, <1>6 DEF GenOK

\* A step that changes neither promises nor who waits for whom.
SameChains(L, L2, o, o2) ==
    /\ \A h \in Generations :
         L2[h].flushPromise = L[h].flushPromise /\ (ExistsIn(L, h) => ExistsIn(L2, h))
    /\ \A p \in Owners :
         /\ o2[p].gen = o[p].gen /\ o2[p].prior = o[p].prior
         /\ Busy(o2, p) <=> Busy(o, p)
         /\ ~Busy(o, p) => o2[p] = o[p]
         /\ o[p].prior # None => o2[p].pc = o[p].pc
         /\ o2[p].pc = "prior" => o[p].pc = "prior"
         /\ o2[p].pc = "writing" => o[p].pc \in {"prior", "writing"}

\* It keeps the chains.
LEMMA ChainsKept ==
    ASSUME NEW L \in [Generations -> LogState], NEW L2 \in [Generations -> LogState],
           NEW o \in [Owners -> Owner], NEW o2 \in [Owners -> Owner], NEW n \in Nat,
           ChainOK(L, o, n), AwaitsOK(L2), SameChains(L, L2, o, o2)
    PROVE  ChainOK(L2, o2, n)
<1>2. FreeIsFree(o2)
      BY DEF ChainOK, FreeIsFree, SameChains
<1>3. PlacedOK(L2, o2, n)
      BY DEF ChainOK, PlacedOK, SameChains
<1>4. PromiseOK(L2, o2)
  <2> SUFFICES ASSUME NEW g \in Generations, L2[g].flushPromise # None
               PROVE  Busy(o2, L2[g].flushPromise) /\ o2[L2[g].flushPromise].gen = g
      BY DEF PromiseOK
  <2>1. L2[g].flushPromise = L[g].flushPromise /\ L[g].flushPromise \in Owners
        BY LogFields DEF SameChains
  <2> QED BY <2>1 DEF ChainOK, PromiseOK, SameChains
<1>5. Chained(o2)
      BY DEF ChainOK, Chained, SameChains
<1>6. PriorOK(o2)
  <2> SUFFICES ASSUME NEW q \in Owners, o2[q].prior # None
               PROVE  /\ o2[q].pc = "prior" /\ o2[q].prior < q
                      /\ Busy(o2, o2[q].prior) /\ o2[o2[q].prior].gen = o2[q].gen
      BY DEF PriorOK
  <2>1. o2[q].prior = o[q].prior /\ o[q].prior \in Owners
        BY OwnerFields DEF SameChains
  <2> QED BY <2>1 DEF ChainOK, PriorOK, SameChains
<1> QED BY <1>2, <1>3, <1>4, <1>5, <1>6 DEF ChainOK

-----------------------------------------------------------------------------
(* Flushes. *)

\* A drain begins.
LEMMA DrainStarts ==
    ASSUME NEW L, NEW c, NEW o, NEW F, NEW n, NEW m, NEW S, StateOK(L, c, o, F, n, m, S),
           NEW g \in Generations, ExistsIn(L, g),
           L[g].flushPromise = None, ~L[g].storageFailure,
           NEW P, P \subseteq Buffer(L, g),
           NEW L2, L2 = [L EXCEPT ![g].flushPromise = DrainOwner(g)],
           NEW o2, o2 = [o EXCEPT ![DrainOwner(g)] = Drain(L, g, P)]
    PROVE  StateOK(L2, c, o2, F, n, m, S)
<1>0. /\ L \in [Generations -> LogState] /\ c \in Generations \cup {None}
      /\ o \in [Owners -> Owner] /\ F \in Seq(LineRecord)
      /\ n \in 0 .. MaxRewrites /\ m \in 0 .. MaxRecords /\ S \in Settlements
      /\ n \in Nat /\ m \in Nat
      /\ GenOK(L, c) /\ CreatedInOrder(L) /\ OthersAbsent(L) /\ EntryIsLast(L, c)
      /\ RetiredOnce(L) /\ ReadyOK(L)
      /\ ChainOK(L, o, n) /\ FreeIsFree(o) /\ PlacedOK(L, o, n) /\ PromiseOK(L, o)
      /\ Chained(o) /\ PriorOK(o) /\ AwaitsOK(L)
      /\ FailureOK(L, o) /\ EpochOK(L, o) /\ CountsOK(L, o, n, m) /\ BatchOK(L, o)
      /\ PassedOK(L, o) /\ QuietOK(L, o)
      /\ FileOK(F, m) /\ BuffersOK(L, m) /\ NewerOK(L, F) /\ CleanOK(L, o, F)
      /\ RewriteOK(L, o, F) /\ PromisedOK(L, o, F, S, m) /\ AckedOK(L, F, S, m)
      /\ NothingVanishes(L, F, S, m)
      BY Parts
<1>1. /\ \A h \in Generations : h # g => L2[h] = L[h]
      /\ L2[g] = [L[g] EXCEPT !.flushPromise = g]
      BY <1>0 DEF DrainOwner
<1>2. /\ \A h \in Generations :
          /\ L2[h].pending = L[h].pending /\ L2[h].flushScheduled = L[h].flushScheduled
          /\ L2[h].storageFailure = L[h].storageFailure /\ L2[h].cutoverEpoch = L[h].cutoverEpoch
          /\ L2[h].refCount = L[h].refCount /\ L2[h].retired = L[h].retired
          /\ L2[h].ready = L[h].ready /\ L2[h].retirement = L[h].retirement
          /\ L2[h].awaits = L[h].awaits
      /\ L2[g].flushPromise = g
      BY <1>0, <1>1 DEF LogState
<1>3. g \in Owners
      BY Bounds
<1>4. /\ \A p \in Owners : p # g => o2[p] = o[p]
      /\ o2[g].gen = g /\ o2[g].pc = "ready" /\ o2[g].epoch = L[g].cutoverEpoch
      /\ o2[g].batch = 0 /\ o2[g].prior = None /\ o2[g].promised = P
      BY <1>0, <1>3 DEF DrainOwner, Drain, FreeOwner
<1>5. L2 \in [Generations -> LogState]
  <2>1. L2[g] \in LogState
    <3>1. L2[g].flushPromise = g /\ g \in Owners /\ L[g] \in LogState
          BY <1>0, <1>2, <1>3
    <3> QED BY <1>1, <3>1 DEF LogState
  <2> QED BY <1>0, <2>1 DEF DrainOwner
<1>6. o2 \in [Owners -> Owner]
  <2>1. P \subseteq Records
        BY <1>0, LogFields DEF Buffer, ToSet
  <2>2. Drain(L, g, P) \in Owner
        BY <1>0, <2>1, LogFields DEF Owner, Drain, FreeOwner, None
  <2> QED BY <1>0, <2>2 DEF DrainOwner
<1>7. SameLives(L, L2)
      BY <1>0, <1>1, <1>2 DEF SameLives, RetiredOnce
<1>8. /\ GenOK(L2, c)
      /\ \A h \in Generations : (ExistsIn(L2, h) <=> ExistsIn(L, h)) /\ (Passed(L2, h) <=> Passed(L, h))
      BY <1>0, <1>7, LivesKept
<1>9. \A h \in Generations : Buffer(L2, h) = Buffer(L, h) /\ (Quiet(L2, h) <=> Quiet(L, h))
      BY <1>0, <1>2 DEF Buffer, Quiet
<1>10. /\ \A p \in Owners : Busy(o, p) => o[p].gen # g
       /\ ~Busy(o, g) /\ o[g] = FreeOwner
  <2>1. \A p \in Owners : Busy(o, p) => o[p].gen # g
        BY <1>0, BusyPlace
  <2>2. Busy(o, g) => o[g].gen = g
        BY <1>0, <1>3, Bounds DEF PlacedOK
  <2> QED BY <1>0, <1>3, <2>1, <2>2 DEF FreeIsFree
<1>11. \A p \in Owners : Busy(o2, p) <=> (p = g \/ Busy(o, p))
      BY <1>0, <1>3, <1>4 DEF Busy
<1>12. \A p \in Owners : p # g /\ Busy(o, p) => o2[p] = o[p] /\ L2[o[p].gen] = L[o[p].gen] /\ o[p].gen \in Generations
      BY <1>0, <1>1, <1>4, <1>10, BusyPlace
<1>13. ChainOK(L2, o2, n)
  <2>1. FreeIsFree(o2)
        BY <1>0, <1>4, <1>11 DEF FreeIsFree
  <2>2. PlacedOK(L2, o2, n)
    <3>1. g <= MaxGenerations + n /\ g <= g /\ g \in Generations
          BY <1>0, Bounds
    <3>2. ASSUME NEW p \in Owners, p # g, Busy(o2, p)
          PROVE  /\ o2[p].gen \in Generations /\ ExistsIn(L2, o2[p].gen)
                 /\ p <= L2[o2[p].gen].flushPromise
                 /\ p <= MaxGenerations => p = o2[p].gen /\ o2[p].pc # "prior" /\ o2[p].pc # "writing"
                 /\ p <= MaxGenerations + n
      <4>1. Busy(o, p) /\ o2[p] = o[p] /\ L2[o[p].gen] = L[o[p].gen] /\ o[p].gen \in Generations
            BY <1>11, <1>12, <3>2
      <4>2. /\ ExistsIn(L, o[p].gen) /\ p <= L[o[p].gen].flushPromise
            /\ p <= MaxGenerations => p = o[p].gen /\ o[p].pc # "prior" /\ o[p].pc # "writing"
            /\ p <= MaxGenerations + n
            BY <1>0, <4>1 DEF PlacedOK
      <4> QED BY <1>8, <4>1, <4>2
    <3>3. /\ o2[g].gen \in Generations /\ ExistsIn(L2, o2[g].gen)
          /\ g <= L2[o2[g].gen].flushPromise
          /\ g <= MaxGenerations => g = o2[g].gen /\ o2[g].pc # "prior" /\ o2[g].pc # "writing"
          /\ g <= MaxGenerations + n
          BY <1>2, <1>4, <1>8, <3>1
    <3> QED BY <3>2, <3>3 DEF PlacedOK
  <2>3. PromiseOK(L2, o2)
    <3> SUFFICES ASSUME NEW h \in Generations, h # g, L[h].flushPromise # None
                 PROVE  Busy(o2, L[h].flushPromise) /\ o2[L[h].flushPromise].gen = h
        BY <1>0, <1>1, <1>2, <1>4, <1>11 DEF PromiseOK, Busy
    <3>1. L[h].flushPromise \in Owners /\ Busy(o, L[h].flushPromise) /\ o[L[h].flushPromise].gen = h
          BY <1>0, LogFields DEF PromiseOK
    <3> QED BY <1>10, <1>11, <1>12, <3>1
  <2>4. Chained(o2)
    <3> SUFFICES ASSUME NEW p \in Owners, NEW q \in Owners, Busy(o2, p), Busy(o2, q),
                        o2[p].gen = o2[q].gen, p < q
                 PROVE  p <= o2[q].prior /\ o2[q].prior < q
        BY DEF Chained
    <3>1. p # g /\ q # g
      <4>1. p # g => Busy(o, p) /\ o2[p].gen # g
            BY <1>10, <1>11, <1>12
      <4>2. q # g => Busy(o, q) /\ o2[q].gen # g
            BY <1>10, <1>11, <1>12
      <4>3. p # q
            BY Bounds
      <4> QED BY <1>4, <4>1, <4>2, <4>3
    <3> QED BY <1>0, <1>11, <1>12, <3>1 DEF Chained
  <2>5. PriorOK(o2)
    <3> SUFFICES ASSUME NEW q \in Owners, q # g, o[q].prior # None
                 PROVE  /\ o2[q].pc = "prior" /\ o2[q].prior < q
                        /\ Busy(o2, o[q].prior) /\ o2[o[q].prior].gen = o2[q].gen
        BY <1>0, <1>3, <1>4 DEF PriorOK
    <3>1. /\ o[q].prior \in Owners /\ o[q].pc = "prior" /\ o[q].prior < q
          /\ Busy(o, o[q].prior) /\ o[o[q].prior].gen = o[q].gen
          BY <1>0, OwnerFields DEF PriorOK
    <3> QED BY <1>4, <1>10, <1>11, <1>12, <3>1
  <2>6. AwaitsOK(L2)
        BY <1>0, <1>1, <1>2, Bounds DEF AwaitsOK
  <2> QED BY <2>1, <2>2, <2>3, <2>4, <2>5, <2>6 DEF ChainOK
<1>14. PhaseOK(L2, o2, n, m)
  <2>1. FailureOK(L2, o2)
        BY <1>0, <1>2, <1>3, <1>4, <1>10, <1>12 DEF FailureOK, Busy
  <2>2. EpochOK(L2, o2)
        BY <1>0, <1>2, <1>3, <1>4, <1>10, <1>12, LogFields DEF EpochOK, Busy
  <2>3. CountsOK(L2, o2, n, m)
        BY <1>0, <1>2, <1>3, <1>4 DEF CountsOK
  <2>4. BatchOK(L2, o2)
        BY <1>0, <1>3, <1>4, <1>12 DEF BatchOK, Busy
  <2> QED BY <2>1, <2>2, <2>3, <2>4 DEF PhaseOK
<1>15. PassedOK(L2, o2)
  <2>1. ASSUME NEW p \in Owners, o2[p].pc \notin {"free", "prior", "ready"}
        PROVE  Passed(L2, o2[p].gen)
    <3>1. p # g /\ Busy(o, p)
          BY <1>4, <1>11, <2>1 DEF Busy
    <3>2. o2[p] = o[p] /\ o[p].gen \in Generations
          BY <1>12, <3>1
    <3> QED BY <1>0, <1>8, <2>1, <3>2 DEF PassedOK
  <2>2. \A h \in Generations : Quiet(L2, h) \/ L2[h].storageFailure => Passed(L2, h)
        BY <1>0, <1>2, <1>8, <1>9 DEF PassedOK
  <2> QED BY <2>1, <2>2 DEF PassedOK
<1>16. QuietOK(L2, o2)
  <2>1. \A h \in Generations : Quiet(L2, h) => L2[h].pending = <<>> \/ L2[h].storageFailure
        BY <1>0, <1>2, <1>9 DEF QuietOK
  <2>2. \A p \in Owners : Busy(o2, p) /\ Quiet(L2, o2[p].gen) => o2[p].pc \in {"ready", "done"}
        BY <1>0, <1>3, <1>4, <1>9, <1>11, <1>12 DEF QuietOK
  <2> QED BY <2>1, <2>2 DEF QuietOK
<1>17. ContentOK(L2, o2, F, m)
  <2>1. FileOK(F, m) /\ BuffersOK(L2, m)
        BY <1>0, <1>2, <1>9 DEF BuffersOK
  <2>2. NewerOK(L2, F)
        BY <1>0, <1>2, <1>9 DEF NewerOK
  <2>3. CleanOK(L2, o2, F)
    <3>1. \A h \in Generations : Clean(L2, F, h) <=> Clean(L, F, h)
          BY <1>9 DEF Clean
    <3>2. Clean(L, F, g)
          BY <1>0 DEF CleanOK
    <3>3. \A h \in Generations : L2[h].flushPromise = None /\ ~L2[h].storageFailure => Clean(L2, F, h)
          BY <1>0, <1>1, <1>2, <3>1, <3>2 DEF CleanOK
    <3>4. \A p \in Owners : o2[p].pc \in {"ready", "done"} /\ L2[o2[p].gen].flushPromise = p =>
              Clean(L2, F, o2[p].gen)
      <4> SUFFICES ASSUME NEW p \in Owners, p # g, o2[p].pc \in {"ready", "done"},
                          L2[o2[p].gen].flushPromise = p
                   PROVE  Clean(L2, F, o2[p].gen)
          BY <1>4, <3>1, <3>2
      <4>1. Busy(o, p) /\ o2[p] = o[p] /\ L2[o[p].gen] = L[o[p].gen] /\ o[p].gen \in Generations
            BY <1>11, <1>12 DEF Busy
      <4> QED BY <1>0, <3>1, <4>1 DEF CleanOK
    <3>5. \A p \in Owners : o2[p].pc = "appending" => Clean(L2, F, o2[p].gen)
          BY <1>0, <1>4, <1>11, <1>12, <3>1 DEF CleanOK, Busy
    <3> QED BY <3>3, <3>4, <3>5 DEF CleanOK
  <2> QED BY <2>1, <2>2, <2>3 DEF ContentOK
<1>18. CallerOK(L2, o2, F, S, m)
  <2>1. RewriteOK(L2, o2, F)
        BY <1>0, <1>3, <1>4, <1>9, <1>12 DEF RewriteOK, Busy
  <2>2. PromisedOK(L2, o2, F, S, m)
    <3>1. P \subseteq 1 .. m
          BY <1>0, BufferRange
    <3>2. \A h \in Generations : h # g => P \cap Buffer(L, h) = {}
          BY <1>0, BufferRange
    <3>3. ASSUME NEW p \in Owners, p # g
          PROVE  /\ Busy(o2, p) => o2[p].promised \subseteq Kept(F, S) \cup Buffer(L2, o2[p].gen)
                 /\ o2[p].promised \subseteq 1 .. m
                 /\ \A h \in Generations : h # o2[p].gen => o2[p].promised \cap Buffer(L2, h) = {}
      <4>1. /\ Busy(o, p) => o[p].promised \subseteq Kept(F, S) \cup Buffer(L, o[p].gen)
            /\ o[p].promised \subseteq 1 .. m
            /\ \A h \in Generations : h # o[p].gen => o[p].promised \cap Buffer(L, h) = {}
            BY <1>0 DEF PromisedOK
      <4>2. Busy(o, p) => o[p].gen \in Generations
            BY <1>12, <3>3
      <4> QED BY <1>4, <1>9, <1>11, <3>3, <4>1, <4>2
    <3>4. P \subseteq Buffer(L2, g)
          BY <1>9
    <3> QED BY <1>4, <1>9, <3>1, <3>2, <3>3, <3>4 DEF PromisedOK
  <2>3. AckedOK(L2, F, S, m) /\ NothingVanishes(L2, F, S, m)
        BY <1>0, <1>9 DEF AckedOK, NothingVanishes
  <2> QED BY <2>1, <2>2, <2>3 DEF CallerOK
<1> QED BY <1>0, <1>5, <1>6, <1>8, <1>13, <1>14, <1>15, <1>16, <1>17, <1>18 DEF StateOK, Shapes

\* A step that counts handles, schedules a flush, promises records, creates or
\* retires a generation, and nothing more.
LEMMA LivesChange ==
    ASSUME NEW L, NEW c, NEW o, NEW F, NEW n, NEW m, NEW S, StateOK(L, c, o, F, n, m, S),
           NEW L2 \in [Generations -> LogState], NEW o2 \in [Owners -> Owner],
           NEW c2 \in Generations \cup {None}, GenOK(L2, c2), AwaitsOK(L2),
           \A h \in Generations :
               /\ L2[h].pending = L[h].pending /\ L2[h].flushPromise = L[h].flushPromise
               /\ L2[h].storageFailure = L[h].storageFailure
               /\ L2[h].cutoverEpoch = L[h].cutoverEpoch
               /\ ExistsIn(L, h) => ExistsIn(L2, h)
               /\ Passed(L, h) => Passed(L2, h)
               /\ Quiet(L, h) => Quiet(L2, h)
               /\ Quiet(L2, h) =>
                      Quiet(L, h) \/ (L[h].storageFailure /\ L[h].flushPromise = None),
           \A p \in Owners :
               /\ o2[p].gen = o[p].gen /\ o2[p].pc = o[p].pc /\ o2[p].epoch = o[p].epoch
               /\ o2[p].batch = o[p].batch /\ o2[p].prior = o[p].prior
               /\ o2[p].covered = o[p].covered /\ o2[p].foreign = o[p].foreign
               /\ ~Busy(o, p) => o2[p] = o[p]
               /\ Busy(o, p) => o2[p].promised \subseteq o[p].promised \cup Buffer(L, o[p].gen)
    PROVE  StateOK(L2, c2, o2, F, n, m, S)
<1>0. /\ L \in [Generations -> LogState] /\ c \in Generations \cup {None}
      /\ o \in [Owners -> Owner] /\ F \in Seq(LineRecord)
      /\ n \in 0 .. MaxRewrites /\ m \in 0 .. MaxRecords /\ S \in Settlements
      /\ n \in Nat /\ m \in Nat
      /\ GenOK(L, c) /\ CreatedInOrder(L) /\ OthersAbsent(L) /\ EntryIsLast(L, c)
      /\ RetiredOnce(L) /\ ReadyOK(L)
      /\ ChainOK(L, o, n) /\ FreeIsFree(o) /\ PlacedOK(L, o, n) /\ PromiseOK(L, o)
      /\ Chained(o) /\ PriorOK(o) /\ AwaitsOK(L)
      /\ FailureOK(L, o) /\ EpochOK(L, o) /\ CountsOK(L, o, n, m) /\ BatchOK(L, o)
      /\ PassedOK(L, o) /\ QuietOK(L, o)
      /\ FileOK(F, m) /\ BuffersOK(L, m) /\ NewerOK(L, F) /\ CleanOK(L, o, F)
      /\ RewriteOK(L, o, F) /\ PromisedOK(L, o, F, S, m) /\ AckedOK(L, F, S, m)
      /\ NothingVanishes(L, F, S, m)
      BY Parts
<1>1. \A h \in Generations : Buffer(L2, h) = Buffer(L, h)
      BY DEF Buffer
<1>2. \A p \in Owners : Busy(o2, p) <=> Busy(o, p)
      BY DEF Busy
<1>3. SameChains(L, L2, o, o2)
      BY <1>2 DEF SameChains
<1>4. ChainOK(L2, o2, n)
      BY <1>0, <1>3, ChainsKept
<1>5. \A p \in Owners : Busy(o, p) => L[o[p].gen].flushPromise # None
      BY <1>0, BusyPlace
<1>6. \A p \in Owners : Busy(o, p) => o[p].gen \in Generations
      BY <1>0, BusyPlace
<1>7. PhaseOK(L2, o2, n, m)
  <2>1. FailureOK(L2, o2)
        BY <1>0, <1>6 DEF FailureOK, Busy
  <2>2. EpochOK(L2, o2)
        BY <1>0, <1>6 DEF EpochOK, Busy
  <2>3. CountsOK(L2, o2, n, m)
        BY <1>0 DEF CountsOK
  <2>4. BatchOK(L2, o2)
        BY <1>0, <1>6 DEF BatchOK, Busy
  <2> QED BY <2>1, <2>2, <2>3, <2>4 DEF PhaseOK
<1>8. PassedOK(L2, o2)
  <2>1. \A p \in Owners : o2[p].pc \notin {"free", "prior", "ready"} => Passed(L2, o2[p].gen)
        BY <1>0, <1>6 DEF PassedOK, Busy
  <2>2. \A g \in Generations : Quiet(L2, g) \/ L2[g].storageFailure => Passed(L2, g)
        BY <1>0 DEF PassedOK
  <2> QED BY <2>1, <2>2 DEF PassedOK
<1>9. QuietOK(L2, o2)
  <2>1. \A g \in Generations : Quiet(L2, g) => L2[g].pending = <<>> \/ L2[g].storageFailure
        BY <1>0 DEF QuietOK
  <2>2. \A p \in Owners : Busy(o2, p) /\ Quiet(L2, o2[p].gen) => o2[p].pc \in {"ready", "done"}
        BY <1>0, <1>2, <1>5, <1>6 DEF QuietOK
  <2> QED BY <2>1, <2>2 DEF QuietOK
<1>10. ContentOK(L2, o2, F, m)
  <2>1. \A h \in Generations : Clean(L2, F, h) <=> Clean(L, F, h)
        BY <1>1 DEF Clean
  <2>2. CleanOK(L2, o2, F)
        BY <1>0, <1>6, <2>1 DEF CleanOK, Busy
  <2>3. BuffersOK(L2, m) /\ NewerOK(L2, F)
        BY <1>0, <1>1 DEF BuffersOK, NewerOK
  <2> QED BY <1>0, <2>2, <2>3 DEF ContentOK
<1>11. CallerOK(L2, o2, F, S, m)
  <2>1. RewriteOK(L2, o2, F)
        BY <1>0, <1>1, <1>6 DEF RewriteOK, Busy
  <2>2. PromisedOK(L2, o2, F, S, m)
    <3> SUFFICES ASSUME NEW p \in Owners
                 PROVE  /\ Busy(o2, p) => o2[p].promised \subseteq Kept(F, S) \cup Buffer(L2, o2[p].gen)
                        /\ o2[p].promised \subseteq 1 .. m
                        /\ \A g \in Generations : g # o2[p].gen => o2[p].promised \cap Buffer(L2, g) = {}
        BY DEF PromisedOK
    <3>1. /\ Busy(o, p) => o[p].promised \subseteq Kept(F, S) \cup Buffer(L, o[p].gen)
          /\ o[p].promised \subseteq 1 .. m
          /\ \A g \in Generations : g # o[p].gen => o[p].promised \cap Buffer(L, g) = {}
          BY <1>0 DEF PromisedOK
    <3>2. CASE ~Busy(o, p)
          BY <1>1, <1>2, <3>1, <3>2
    <3>3. CASE Busy(o, p)
      <4>1. /\ Buffer(L, o[p].gen) \subseteq 1 .. m
            /\ \A g \in Generations : g # o[p].gen => Buffer(L, o[p].gen) \cap Buffer(L, g) = {}
            BY <1>0, <1>6, <3>3, BufferRange
      <4> QED BY <1>1, <1>6, <3>1, <3>3, <4>1
    <3> QED BY <3>2, <3>3
  <2>3. AckedOK(L2, F, S, m) /\ NothingVanishes(L2, F, S, m)
        BY <1>0, <1>1 DEF AckedOK, NothingVanishes
  <2> QED BY <2>1, <2>2, <2>3 DEF CallerOK
<1> QED BY <1>0, <1>4, <1>7, <1>8, <1>9, <1>10, <1>11 DEF StateOK, Shapes

\* Such a step that leaves the owners alone.
LEMMA LivesOnly ==
    ASSUME NEW L, NEW c, NEW o, NEW F, NEW n, NEW m, NEW S, StateOK(L, c, o, F, n, m, S),
           NEW L2 \in [Generations -> LogState],
           NEW c2 \in Generations \cup {None}, GenOK(L2, c2), AwaitsOK(L2),
           \A h \in Generations :
               /\ L2[h].pending = L[h].pending /\ L2[h].flushPromise = L[h].flushPromise
               /\ L2[h].storageFailure = L[h].storageFailure
               /\ L2[h].cutoverEpoch = L[h].cutoverEpoch
               /\ ExistsIn(L, h) => ExistsIn(L2, h)
               /\ Passed(L, h) => Passed(L2, h)
               /\ Quiet(L, h) => Quiet(L2, h)
               /\ Quiet(L2, h) =>
                      Quiet(L, h) \/ (L[h].storageFailure /\ L[h].flushPromise = None)
    PROVE  StateOK(L2, c2, o, F, n, m, S)
<1>1. o \in [Owners -> Owner]
      BY Parts
<1>2. \A p \in Owners : o[p].promised \subseteq o[p].promised \cup Buffer(L, o[p].gen)
      OBVIOUS
<1> QED BY <1>1, <1>2, LivesChange

\* flushState joins the flush under way, refuses after a failure, or begins a drain.
LEMMA FlushStateOK ==
    ASSUME NEW L, NEW c, NEW F, NEW n, NEW m, NEW S, StateOK(L, c, owner, F, n, m, S),
           NEW g \in Generations, ExistsIn(L, g), NEW P, P \subseteq Buffer(L, g),
           FlushState(L, g, P)
    PROVE  StateOK(log', c, owner', F, n, m, S)
<1>0. /\ L \in [Generations -> LogState] /\ owner \in [Owners -> Owner] /\ PromiseOK(L, owner)
      /\ c \in Generations \cup {None} /\ GenOK(L, c) /\ AwaitsOK(L)
      BY Parts
<1>1. CASE /\ L[g].flushPromise # None
           /\ owner' = [owner EXCEPT ![L[g].flushPromise].promised = @ \cup P]
           /\ log' = L
  <2> DEFINE q == L[g].flushPromise
  <2>1. q \in Owners /\ Busy(owner, q) /\ owner[q].gen = g
        BY <1>0, <1>1, LogFields DEF PromiseOK
  <2>2. P \subseteq Records
        BY <1>0, LogFields DEF Buffer, ToSet
  <2>3. owner[q] \in Owner
        BY <1>0, <2>1
  <2> HIDE DEF q
  <2>4. owner' = [owner EXCEPT ![q] = [owner[q] EXCEPT !.promised = @ \cup P]]
        BY <1>1 DEF q
  <2>5. /\ owner'[q] \in Owner /\ owner'[q].promised = owner[q].promised \cup P
        /\ owner'[q].gen = owner[q].gen /\ owner'[q].pc = owner[q].pc
        /\ owner'[q].epoch = owner[q].epoch /\ owner'[q].batch = owner[q].batch
        /\ owner'[q].prior = owner[q].prior /\ owner'[q].covered = owner[q].covered
        /\ owner'[q].foreign = owner[q].foreign
        BY <1>0, <2>1, <2>2, <2>3, <2>4 DEF Owner
  <2>6. owner' \in [Owners -> Owner] /\ \A p \in Owners : p # q => owner'[p] = owner[p]
        BY <1>0, <2>4, <2>5
  <2>7. \A p \in Owners :
            /\ owner'[p].gen = owner[p].gen /\ owner'[p].pc = owner[p].pc
            /\ owner'[p].epoch = owner[p].epoch /\ owner'[p].batch = owner[p].batch
            /\ owner'[p].prior = owner[p].prior /\ owner'[p].covered = owner[p].covered
            /\ owner'[p].foreign = owner[p].foreign
            /\ ~Busy(owner, p) => owner'[p] = owner[p]
            /\ Busy(owner, p) => owner'[p].promised \subseteq owner[p].promised \cup Buffer(L, owner[p].gen)
        BY <2>1, <2>5, <2>6
  <2>9. PICK o2 : o2 = owner'
        OBVIOUS
  <2>10. StateOK(L, c, o2, F, n, m, S)
        BY <1>0, <2>6, <2>7, <2>9, LivesChange
  <2> QED BY <1>1, <2>9, <2>10
<1>2. CASE owner' = owner /\ log' = L
      BY <1>2
<1>3. CASE /\ L[g].flushPromise = None /\ ~L[g].storageFailure
           /\ owner' = [owner EXCEPT ![DrainOwner(g)] = Drain(L, g, P)]
           /\ log' = [L EXCEPT ![g].flushPromise = DrainOwner(g)]
  <2>1. PICK L2 : L2 = [L EXCEPT ![g].flushPromise = DrainOwner(g)]
        OBVIOUS
  <2>2. PICK o2 : o2 = [owner EXCEPT ![DrainOwner(g)] = Drain(L, g, P)]
        OBVIOUS
  <2>3. StateOK(L2, c, o2, F, n, m, S)
        BY <1>3, <2>1, <2>2, DrainStarts
  <2> QED BY <1>3, <2>1, <2>2, <2>3
<1> QED BY <1>1, <1>2, <1>3 DEF FlushState

-----------------------------------------------------------------------------
(* Appends, and the generations they go to. *)

\* A record is buffered in the last generation.
LEMMA BufferGrows ==
    ASSUME NEW L, NEW c, NEW o, NEW F, NEW n, NEW m, NEW S, StateOK(L, c, o, F, n, m, S),
           NEW g \in Generations, ExistsIn(L, g), ~L[g].retired, m < MaxRecords,
           NEW s \in BOOLEAN,
           NEW L2, L2 = [L EXCEPT ![g].pending = Append(@, m + 1), ![g].flushScheduled = s]
    PROVE  StateOK(L2, c, o, F, n, m + 1, S)
<1>0. /\ L \in [Generations -> LogState] /\ c \in Generations \cup {None}
      /\ o \in [Owners -> Owner] /\ F \in Seq(LineRecord)
      /\ n \in 0 .. MaxRewrites /\ m \in 0 .. MaxRecords /\ S \in Settlements
      /\ n \in Nat /\ m \in Nat
      /\ GenOK(L, c) /\ CreatedInOrder(L) /\ OthersAbsent(L) /\ EntryIsLast(L, c)
      /\ RetiredOnce(L) /\ ReadyOK(L)
      /\ ChainOK(L, o, n) /\ FreeIsFree(o) /\ PlacedOK(L, o, n) /\ PromiseOK(L, o)
      /\ Chained(o) /\ PriorOK(o) /\ AwaitsOK(L)
      /\ FailureOK(L, o) /\ EpochOK(L, o) /\ CountsOK(L, o, n, m) /\ BatchOK(L, o)
      /\ PassedOK(L, o) /\ QuietOK(L, o)
      /\ FileOK(F, m) /\ BuffersOK(L, m) /\ NewerOK(L, F) /\ CleanOK(L, o, F)
      /\ RewriteOK(L, o, F) /\ PromisedOK(L, o, F, S, m) /\ AckedOK(L, F, S, m)
      /\ NothingVanishes(L, F, S, m)
      BY Parts
<1>1. /\ \A h \in Generations : h # g => L2[h] = L[h]
      /\ L2[g] = [L[g] EXCEPT !.pending = Append(L[g].pending, m + 1), !.flushScheduled = s]
      BY <1>0
<1>2. L[g] \in LogState /\ L[g].pending \in Seq(Records) /\ m + 1 \in Records
  <2>1. m + 1 \in Records
        BY <1>0, Bounds DEF Records
  <2> QED BY <1>0, <2>1, LogFields
<1>3. Append(L[g].pending, m + 1) \in Seq(Records)
      BY <1>2
<1>4. /\ L2[g] \in LogState /\ L2[g].pending = Append(L[g].pending, m + 1)
      /\ \A h \in Generations :
          /\ L2[h].flushPromise = L[h].flushPromise
          /\ L2[h].storageFailure = L[h].storageFailure /\ L2[h].cutoverEpoch = L[h].cutoverEpoch
          /\ L2[h].refCount = L[h].refCount /\ L2[h].retired = L[h].retired
          /\ L2[h].ready = L[h].ready /\ L2[h].retirement = L[h].retirement
          /\ L2[h].awaits = L[h].awaits
          /\ h # g => L2[h].pending = L[h].pending
  <2>1. /\ L2[g] \in LogState /\ L2[g].pending = Append(L[g].pending, m + 1)
        /\ L2[g].flushPromise = L[g].flushPromise
        /\ L2[g].storageFailure = L[g].storageFailure /\ L2[g].cutoverEpoch = L[g].cutoverEpoch
        /\ L2[g].refCount = L[g].refCount /\ L2[g].retired = L[g].retired
        /\ L2[g].ready = L[g].ready /\ L2[g].retirement = L[g].retirement
        /\ L2[g].awaits = L[g].awaits
    <3> DEFINE P2 == Append(L[g].pending, m + 1)
    <3>1. P2 \in Seq(Records) /\ L2[g] = [L[g] EXCEPT !.pending = P2, !.flushScheduled = s]
          BY <1>1, <1>3
    <3> HIDE DEF P2
    <3>0. PICK l \in LogState, k \in {L2[g]} : l = L[g] /\ k = L2[g]
          BY <1>2
    <3>3. k = [l EXCEPT !.pending = P2, !.flushScheduled = s]
          BY <3>0, <3>1
    <3>4. /\ k \in LogState /\ k.pending = P2 /\ k.flushPromise = l.flushPromise
          /\ k.storageFailure = l.storageFailure /\ k.cutoverEpoch = l.cutoverEpoch
          /\ k.refCount = l.refCount /\ k.retired = l.retired
          /\ k.ready = l.ready /\ k.retirement = l.retirement /\ k.awaits = l.awaits
          BY <3>1, <3>3 DEF LogState
    <3>2. /\ L2[g] \in LogState /\ L2[g].pending = P2
          /\ L2[g].flushPromise = L[g].flushPromise
          /\ L2[g].storageFailure = L[g].storageFailure /\ L2[g].cutoverEpoch = L[g].cutoverEpoch
          /\ L2[g].refCount = L[g].refCount /\ L2[g].retired = L[g].retired
          /\ L2[g].ready = L[g].ready /\ L2[g].retirement = L[g].retirement
          /\ L2[g].awaits = L[g].awaits
          BY <3>0, <3>4
    <3> QED BY <3>2 DEF P2
  <2> QED BY <1>1, <2>1
<1>5. L2 \in [Generations -> LogState]
      BY <1>0, <1>4
<1>6. SameLives(L, L2)
      BY <1>0, <1>1, <1>4 DEF SameLives, RetiredOnce
<1>7. SameChains(L, L2, o, o)
  <2>1. \A h \in Generations : ExistsIn(L, h) => ExistsIn(L2, h)
        BY <1>4 DEF ExistsIn
  <2> QED BY <1>0, <1>4, <2>1 DEF SameChains, PriorOK
<1>8. /\ GenOK(L2, c) /\ ChainOK(L2, o, n)
      /\ \A h \in Generations : (ExistsIn(L2, h) <=> ExistsIn(L, h)) /\ (Passed(L2, h) <=> Passed(L, h))
  <2>1. AwaitsOK(L2)
        BY <1>0, <1>4 DEF AwaitsOK
  <2> QED BY <1>0, <1>5, <1>6, <1>7, <2>1, LivesKept, ChainsKept
<1>9. L[g].pending \in Seq(Nat) /\ Ascending(L[g].pending, m)
      BY <1>0, <1>2, Bounds DEF Records, BuffersOK
<1>10. /\ Ascending(L2[g].pending, m + 1)
       /\ Buffer(L2, g) = Buffer(L, g) \cup {m + 1}
       BY <1>0, <1>4, <1>9, AppendAscends DEF Buffer
<1>11. /\ \A h \in Generations : h # g => Buffer(L2, h) = Buffer(L, h)
       /\ \A h \in Generations : Quiet(L2, h) <=> Quiet(L, h)
       BY <1>4 DEF Buffer, Quiet
<1>12. /\ \A h \in Generations : Buffer(L, h) \subseteq 1 .. m
       /\ m + 1 \notin 1 .. m /\ 1 .. m \subseteq 1 .. (m + 1)
       BY <1>0, BufferRange
<1>13. ~Quiet(L, g)
       BY <1>0 DEF RetiredOnce, Quiet
<1>14. \A h \in Generations : ExistsIn(L, h) => h <= g
  <2>1. c # None /\ c = g
        BY <1>0 DEF EntryIsLast, RetiredOnce
  <2> QED BY <1>0, <2>1 DEF EntryIsLast
<1>15. \A p \in Owners : Busy(o, p) => o[p].gen \in Generations /\ ExistsIn(L, o[p].gen)
       BY <1>0, BusyPlace
<1>16. PhaseOK(L2, o, n, m + 1)
  <2>1. FailureOK(L2, o)
        BY <1>0, <1>4, <1>15 DEF FailureOK, Busy
  <2>2. EpochOK(L2, o)
        BY <1>0, <1>4, <1>15 DEF EpochOK, Busy
  <2>3. CountsOK(L2, o, n, m + 1)
    <3>1. \A p \in Owners : o[p].batch <= m + 1
      <4> SUFFICES ASSUME NEW p \in Owners PROVE o[p].batch <= m + 1
          OBVIOUS
      <4>1. o[p].batch \in Nat /\ o[p].batch <= m
            BY <1>0, OwnerFields DEF CountsOK
      <4> QED BY <1>0, <4>1
    <3> QED BY <1>0, <1>4, <3>1 DEF CountsOK
  <2>4. BatchOK(L2, o)
    <3> SUFFICES ASSUME NEW p \in Owners, o[p].pc = "appending"
                 PROVE  o[p].batch \in 1 .. Len(L2[o[p].gen].pending)
        BY DEF BatchOK
    <3>1. o[p].gen \in Generations /\ o[p].batch \in 1 .. Len(L[o[p].gen].pending)
          BY <1>0, <1>15 DEF BatchOK, Busy
    <3>2. Len(L2[g].pending) = Len(L[g].pending) + 1 /\ Len(L[g].pending) \in Nat
          BY <1>2, <1>4
    <3>3. CASE o[p].gen = g
          BY <3>1, <3>2, <3>3
    <3>4. CASE o[p].gen # g
          BY <1>4, <3>1, <3>4
    <3> QED BY <3>3, <3>4
  <2> QED BY <2>1, <2>2, <2>3, <2>4 DEF PhaseOK
<1>17. PassedOK(L2, o)
       BY <1>0, <1>4, <1>8, <1>11, <1>15 DEF PassedOK, Busy
<1>18. QuietOK(L2, o)
  <2>1. \A h \in Generations : Quiet(L2, h) => L2[h].pending = <<>> \/ L2[h].storageFailure
        BY <1>0, <1>4, <1>11, <1>13, ZenonT(30) DEF QuietOK
  <2>2. \A p \in Owners : Busy(o, p) /\ Quiet(L2, o[p].gen) => o[p].pc \in {"ready", "done"}
        BY <1>0, <1>11, <1>15 DEF QuietOK
  <2> QED BY <2>1, <2>2 DEF QuietOK
<1>19. ContentOK(L2, o, F, m + 1)
  <2>1. \A i \in DOMAIN F : F[i].rec \in Nat /\ F[i].rec <= m
    <3> SUFFICES ASSUME NEW i \in DOMAIN F PROVE F[i].rec \in Nat /\ F[i].rec <= m
        OBVIOUS
    <3>1. F[i] \in LineRecord
          BY <1>0
    <3>2. F[i].rec \in Nat
          BY <3>1, Bounds DEF LineRecord, Records, Replacement
    <3> QED BY <1>0, <3>2 DEF FileOK
  <2>2. \A x \in Recs(F) : x \in Nat /\ x <= m
        BY <2>1 DEF Recs
  <2>3. FileOK(F, m + 1)
    <3>1. \A i \in DOMAIN F : F[i].rec <= m + 1
          BY <1>0, <2>1
    <3> QED BY <1>0, <3>1 DEF FileOK
  <2>4. BuffersOK(L2, m + 1)
    <3>1. \A h \in Generations : h # g => Ascending(L2[h].pending, m + 1)
      <4> SUFFICES ASSUME NEW h \in Generations, h # g PROVE Ascending(L[h].pending, m + 1)
          BY <1>1
      <4>1. Ascending(L[h].pending, m) /\ DOMAIN L[h].pending \subseteq Nat
            BY <1>0, LogFields DEF BuffersOK
      <4>2. \A i \in DOMAIN L[h].pending : L[h].pending[i] \in i .. (m + 1)
            BY <1>0, <4>1 DEF Ascending
      <4> QED BY <4>1, <4>2 DEF Ascending
    <3>2. ASSUME NEW h \in Generations, NEW k \in Generations, h < k,
                 NEW r \in Buffer(L2, h), NEW x \in Buffer(L2, k)
          PROVE  r < x
      <4>1. h \in Nat /\ k \in Nat /\ g \in Nat
            BY Bounds
      <4>2. h # g
        <5>1. SUFFICES ASSUME h = g PROVE FALSE
              OBVIOUS
        <5>2. ~ExistsIn(L, k) /\ k # g
              BY <1>14, <3>2, <4>1, <5>1
        <5>3. L[k].pending = <<>>
              BY <1>0, <5>2 DEF OthersAbsent, NoLog, NewLog
        <5>4. Buffer(L, k) = {}
              BY <5>3 DEF Buffer, ToSet
        <5> QED BY <1>11, <5>2, <5>4
      <4>3. r \in Buffer(L, h) /\ r \in 1 .. m
            BY <1>11, <1>12, <4>2
      <4>4. CASE x = m + 1
            BY <1>0, <4>3, <4>4
      <4>5. CASE x # m + 1
        <5>1. x \in Buffer(L, k)
              BY <1>10, <1>11, <4>5
        <5> QED BY <1>0, <3>2, <4>3, <5>1 DEF BuffersOK
      <4> QED BY <4>4, <4>5
    <3> QED BY <1>10, <3>1, <3>2 DEF BuffersOK
  <2>5. NewerOK(L2, F)
    <3> SUFFICES ASSUME NEW h \in Generations, ~L2[h].storageFailure,
                        NEW r \in Buffer(L2, h) \ Recs(F), NEW x \in Recs(F)
                 PROVE  x < r
        BY DEF NewerOK
    <3>1. CASE r = m + 1
          BY <1>0, <2>2, <3>1
    <3>2. CASE r # m + 1
      <4>1. r \in Buffer(L, h)
            BY <1>10, <1>11, <3>2
      <4> QED BY <1>0, <1>4, <4>1 DEF NewerOK
    <3> QED BY <3>1, <3>2
  <2>6. \A h \in Generations : Clean(L2, F, h) <=> Clean(L, F, h)
    <3>1. m + 1 \notin Recs(F)
          BY <1>0, <2>2
    <3> QED BY <1>10, <1>11, <3>1 DEF Clean
  <2>7. CleanOK(L2, o, F)
        BY <1>0, <1>4, <1>15, <2>6, ZenonT(30) DEF CleanOK, Busy
  <2> QED BY <2>3, <2>4, <2>5, <2>7 DEF ContentOK
<1>20. CallerOK(L2, o, F, S, m + 1)
  <2>0. \A h \in Generations : Buffer(L, h) \subseteq Buffer(L2, h) /\ Buffer(L2, h) \subseteq Buffer(L, h) \cup {m + 1}
        BY <1>10, <1>11
  <2>1. RewriteOK(L2, o, F)
    <3> SUFFICES ASSUME NEW p \in Owners, o[p].pc \in {"prior", "writing"}
                 PROVE  /\ Recs(F) \subseteq {Replacement} \cup o[p].covered \cup o[p].foreign
                                                 \cup Buffer(L2, o[p].gen)
                        /\ \A h \in Generations : h < o[p].gen /\ ~Quiet(L2, h) => Buffer(L2, h) \subseteq o[p].foreign
        BY DEF RewriteOK
    <3>1. o[p].gen \in Generations /\ o[p].gen <= g
          BY <1>14, <1>15 DEF Busy
    <3>2. \A h \in Generations : h < o[p].gen => h # g
          BY <3>1, Bounds
    <3> QED BY <1>0, <1>11, <2>0, <3>1, <3>2 DEF RewriteOK
  <2>2. PromisedOK(L2, o, F, S, m + 1)
    <3> SUFFICES ASSUME NEW p \in Owners
                 PROVE  /\ Busy(o, p) => o[p].promised \subseteq Kept(F, S) \cup Buffer(L2, o[p].gen)
                        /\ o[p].promised \subseteq 1 .. (m + 1)
                        /\ \A h \in Generations : h # o[p].gen => o[p].promised \cap Buffer(L2, h) = {}
        BY DEF PromisedOK
    <3>1. /\ Busy(o, p) => o[p].promised \subseteq Kept(F, S) \cup Buffer(L, o[p].gen)
          /\ o[p].promised \subseteq 1 .. m
          /\ \A h \in Generations : h # o[p].gen => o[p].promised \cap Buffer(L, h) = {}
          BY <1>0 DEF PromisedOK
    <3>2. m + 1 \notin o[p].promised
          BY <1>12, <3>1
    <3>3. Busy(o, p) => o[p].promised \subseteq Kept(F, S) \cup Buffer(L2, o[p].gen)
          BY <1>15, <2>0, <3>1
    <3>4. \A h \in Generations : h # o[p].gen => o[p].promised \cap Buffer(L2, h) = {}
          BY <2>0, <3>1, <3>2
    <3> QED BY <1>12, <3>1, <3>3, <3>4
  <2>3. AckedOK(L2, F, S, m + 1)
    <3>1. S.acked \subseteq Kept(F, S) \cap (1 .. m) /\ \A h \in Generations : S.acked \cap Buffer(L, h) = {}
          BY <1>0 DEF AckedOK
    <3>2. m + 1 \notin S.acked
          BY <1>12, <3>1
    <3>3. \A h \in Generations : S.acked \cap Buffer(L2, h) = {}
          BY <2>0, <3>1, <3>2
    <3>4. S.acked \subseteq Kept(F, S) \cap (1 .. (m + 1))
          BY <1>12, <3>1
    <3> QED BY <3>3, <3>4 DEF AckedOK
  <2>4. NothingVanishes(L2, F, S, m + 1)
    <3> SUFFICES ASSUME NEW r \in 1 .. (m + 1)
                 PROVE  r \in Kept(F, S) \cup S.lost \cup UNION {Buffer(L2, h) : h \in Generations}
        BY DEF NothingVanishes
    <3>1. CASE r = m + 1
          BY <1>10, <3>1
    <3>2. CASE r # m + 1
      <4>1. r \in 1 .. m
            BY <1>0, <3>2
      <4>2. r \in Kept(F, S) \cup S.lost \/ \E h \in Generations : r \in Buffer(L, h)
            BY <1>0, <4>1 DEF NothingVanishes
      <4> QED BY <2>0, <4>2
    <3> QED BY <3>1, <3>2
  <2> QED BY <2>1, <2>2, <2>3, <2>4 DEF CallerOK
<1>21. m + 1 \in 0 .. MaxRecords
       BY <1>0, Bounds
<1> QED BY <1>0, <1>5, <1>8, <1>16, <1>17, <1>18, <1>19, <1>20, <1>21 DEF StateOK, Shapes

\* A handle is counted.
LEMMA HandleTaken ==
    ASSUME NEW L, NEW c, NEW o, NEW F, NEW n, NEW m, NEW S, StateOK(L, c, o, F, n, m, S),
           NEW g \in Generations, ExistsIn(L, g), ~L[g].retired, L[g].refCount < MaxHandles,
           NEW L2, L2 = [L EXCEPT ![g].refCount = @ + 1]
    PROVE  StateOK(L2, c, o, F, n, m, S)
<1>0. /\ L \in [Generations -> LogState] /\ c \in Generations \cup {None}
      /\ o \in [Owners -> Owner] /\ F \in Seq(LineRecord)
      /\ n \in 0 .. MaxRewrites /\ m \in 0 .. MaxRecords /\ S \in Settlements
      /\ n \in Nat /\ m \in Nat
      /\ GenOK(L, c) /\ CreatedInOrder(L) /\ OthersAbsent(L) /\ EntryIsLast(L, c)
      /\ RetiredOnce(L) /\ ReadyOK(L)
      /\ ChainOK(L, o, n) /\ FreeIsFree(o) /\ PlacedOK(L, o, n) /\ PromiseOK(L, o)
      /\ Chained(o) /\ PriorOK(o) /\ AwaitsOK(L)
      /\ FailureOK(L, o) /\ EpochOK(L, o) /\ CountsOK(L, o, n, m) /\ BatchOK(L, o)
      /\ PassedOK(L, o) /\ QuietOK(L, o)
      /\ FileOK(F, m) /\ BuffersOK(L, m) /\ NewerOK(L, F) /\ CleanOK(L, o, F)
      /\ RewriteOK(L, o, F) /\ PromisedOK(L, o, F, S, m) /\ AckedOK(L, F, S, m)
      /\ NothingVanishes(L, F, S, m)
      BY Parts
<1>1. \A h \in Generations : h # g => L2[h] = L[h]
      BY <1>0
<1>2. /\ L2[g] \in LogState /\ L2[g].pending = L[g].pending
      /\ L2[g].flushPromise = L[g].flushPromise
      /\ L2[g].storageFailure = L[g].storageFailure /\ L2[g].cutoverEpoch = L[g].cutoverEpoch
      /\ L2[g].retired = L[g].retired /\ L2[g].ready = L[g].ready
      /\ L2[g].retirement = L[g].retirement /\ L2[g].awaits = L[g].awaits
  <2>1. PICK l \in LogState, k \in {L2[g]} : l = L[g] /\ k = L2[g]
        BY <1>0
  <2>2. k = [l EXCEPT !.refCount = @ + 1] /\ l.refCount + 1 \in 0 .. MaxHandles
        BY <1>0, <2>1, Bounds, LogFields
  <2>3. /\ k \in LogState /\ k.pending = l.pending /\ k.flushPromise = l.flushPromise
        /\ k.storageFailure = l.storageFailure /\ k.cutoverEpoch = l.cutoverEpoch
        /\ k.retired = l.retired /\ k.ready = l.ready
        /\ k.retirement = l.retirement /\ k.awaits = l.awaits
        BY <2>2 DEF LogState
  <2> QED BY <2>1, <2>3
<1>3. L2 \in [Generations -> LogState]
      BY <1>0, <1>2
<1>4. L[g].retirement = "none"
      BY <1>0, LogFields DEF RetiredOnce, ExistsIn
<1>5. SameLives(L, L2)
      BY <1>0, <1>1, <1>2, <1>4 DEF SameLives, RetiredOnce
<1>6. /\ GenOK(L2, c)
      /\ \A h \in Generations : (ExistsIn(L2, h) <=> ExistsIn(L, h)) /\ (Passed(L2, h) <=> Passed(L, h))
      BY <1>0, <1>5, LivesKept
<1>7. AwaitsOK(L2)
      BY <1>0, <1>1, <1>2 DEF AwaitsOK
<1>8. \A h \in Generations :
          /\ L2[h].pending = L[h].pending /\ L2[h].flushPromise = L[h].flushPromise
          /\ L2[h].storageFailure = L[h].storageFailure
          /\ L2[h].cutoverEpoch = L[h].cutoverEpoch /\ (Quiet(L2, h) <=> Quiet(L, h))
      BY <1>1, <1>2 DEF Quiet
<1> QED BY ONLY StateOK(L, c, o, F, n, m, S), <1>0, <1>3, <1>6, <1>7, <1>8, LivesOnly

\* A generation replaces an entry of the map that is missing or retired.
LEMMA GenerationBegins ==
    ASSUME NEW L, NEW c, NEW o, NEW F, NEW n, NEW m, NEW S, StateOK(L, c, o, F, n, m, S),
           NEW g \in Generations, ~ExistsIn(L, g), \A h \in Generations : h < g => ExistsIn(L, h),
           c # None => L[c].retired,
           NEW L2, L2 = [L EXCEPT ![g] = NewLog(c)]
    PROVE  StateOK(L2, g, o, F, n, m, S)
<1>0. /\ L \in [Generations -> LogState] /\ c \in Generations \cup {None}
      /\ o \in [Owners -> Owner] /\ F \in Seq(LineRecord)
      /\ n \in 0 .. MaxRewrites /\ m \in 0 .. MaxRecords /\ S \in Settlements
      /\ n \in Nat /\ m \in Nat
      /\ GenOK(L, c) /\ CreatedInOrder(L) /\ OthersAbsent(L) /\ EntryIsLast(L, c)
      /\ RetiredOnce(L) /\ ReadyOK(L)
      /\ ChainOK(L, o, n) /\ FreeIsFree(o) /\ PlacedOK(L, o, n) /\ PromiseOK(L, o)
      /\ Chained(o) /\ PriorOK(o) /\ AwaitsOK(L)
      /\ FailureOK(L, o) /\ EpochOK(L, o) /\ CountsOK(L, o, n, m) /\ BatchOK(L, o)
      /\ PassedOK(L, o) /\ QuietOK(L, o)
      /\ FileOK(F, m) /\ BuffersOK(L, m) /\ NewerOK(L, F) /\ CleanOK(L, o, F)
      /\ RewriteOK(L, o, F) /\ PromisedOK(L, o, F, S, m) /\ AckedOK(L, F, S, m)
      /\ NothingVanishes(L, F, S, m)
      BY Parts
<1>1. \A h \in Generations : h # g => L2[h] = L[h]
      BY <1>0
<1>2. L2[g] = NewLog(c) /\ L[g] = [NewLog(None) EXCEPT !.retirement = "absent"]
      BY <1>0 DEF OthersAbsent, NoLog
<1>3. /\ L2[g] \in LogState /\ L2[g].pending = L[g].pending
      /\ L2[g].flushPromise = L[g].flushPromise
      /\ L2[g].storageFailure = L[g].storageFailure /\ L2[g].cutoverEpoch = L[g].cutoverEpoch
      /\ L2[g].retired = FALSE /\ L2[g].ready = c /\ L2[g].refCount = 0
      /\ L2[g].retirement = "none" /\ L2[g].awaits = None
      /\ L[g].retirement = "absent"
      BY <1>0, <1>2, Bounds DEF NewLog, LogState
<1>4. L2 \in [Generations -> LogState]
      BY <1>0, <1>3
<1>5. /\ \A h \in Generations : ExistsIn(L2, h) <=> (h = g \/ ExistsIn(L, h))
      /\ \A h \in Generations : ExistsIn(L, h) <=> h < g
  <2>1. \A h \in Generations : ExistsIn(L, h) => h < g
        BY <1>0, Bounds DEF CreatedInOrder
  <2> QED BY <1>1, <1>3, <2>1 DEF ExistsIn
<1>6. \A h \in Generations : Passed(L, h) <=> Passed(L2, h)
  <2>1. \A h, k \in Generations : k < h => (L[k].retirement = "settled" <=> L2[k].retirement = "settled")
        BY <1>1, <1>3
  <2> QED BY <2>1 DEF Passed
<1>7. GenOK(L2, g)
  <2>1. CreatedInOrder(L2)
    <3> SUFFICES ASSUME NEW h \in Generations, NEW k \in Generations, ExistsIn(L2, h), k < h
                 PROVE  k < g
        BY <1>5 DEF CreatedInOrder
    <3>1. h = g \/ h < g
          BY <1>5
    <3> QED BY <3>1, Bounds
  <2>2. OthersAbsent(L2)
        BY <1>0, <1>1, <1>5 DEF OthersAbsent
  <2>3. EntryIsLast(L2, g)
    <3>1. \A h \in Generations : ExistsIn(L2, h) => h <= g
          BY <1>5, Bounds
    <3>2. ASSUME NEW h \in Generations, ExistsIn(L2, h), h # g
          PROVE  L2[h].retired
      <4>1. L[h].retired
        <5>1. CASE h = c
              BY <1>0, <5>1, Bounds
        <5>2. CASE h # c
              BY <1>0, <1>5, <3>2, <5>2 DEF EntryIsLast
        <5> QED BY <5>1, <5>2
      <4> QED BY <1>1, <3>2, <4>1
    <3> QED BY <1>5, <3>1, <3>2, Bounds DEF EntryIsLast
  <2>4. RetiredOnce(L2)
        BY <1>0, <1>1, <1>3 DEF RetiredOnce
  <2>5. ReadyOK(L2)
    <3> SUFFICES ASSUME NEW h \in Generations, ExistsIn(L2, h)
                 PROVE  IF L2[h].ready = None THEN Passed(L2, h) ELSE L2[h].ready = h - 1
        BY DEF ReadyOK
    <3>1. CASE h # g
          BY <1>0, <1>1, <1>5, <1>6, <3>1 DEF ReadyOK
    <3>2. CASE h = g /\ c = None
      <4>1. Passed(L, g)
            BY <1>0, <1>5, <3>2 DEF Passed, EntryIsLast
      <4> QED BY <1>3, <1>6, <3>2, <4>1
    <3>3. CASE h = g /\ c # None
      <4>1. c \in Generations /\ c < g
            BY <1>0, <1>5, <3>3 DEF EntryIsLast
      <4>2. g - 1 \in Generations /\ g - 1 < g
            BY <4>1, BoundsAssumption DEF Generations
      <4>3. g - 1 <= c
            BY <1>0, <1>5, <3>3, <4>2 DEF EntryIsLast
      <4>4. c = g - 1
            BY <4>1, <4>2, <4>3, Bounds
      <4> QED BY <1>3, <3>3, <4>4
    <3> QED BY <3>1, <3>2, <3>3
  <2> QED BY <2>1, <2>2, <2>3, <2>4, <2>5 DEF GenOK
<1>8. AwaitsOK(L2)
      BY <1>0, <1>1, <1>3 DEF AwaitsOK
<1>9. \A h \in Generations :
          /\ L2[h].pending = L[h].pending /\ L2[h].flushPromise = L[h].flushPromise
          /\ L2[h].storageFailure = L[h].storageFailure
          /\ L2[h].cutoverEpoch = L[h].cutoverEpoch /\ (Quiet(L2, h) <=> Quiet(L, h))
      BY <1>1, <1>3 DEF Quiet
<1> QED BY <1>0, <1>4, <1>5, <1>6, <1>7, <1>8, <1>9, LivesOnly

\* The last handle is dropped; the flush that was due is under way already.
LEMMA Retires ==
    ASSUME NEW L, NEW c, NEW o, NEW F, NEW n, NEW m, NEW S, StateOK(L, c, o, F, n, m, S),
           NEW g \in Generations, L[g].refCount > 0, L[g].refCount <= 1,
           L[g].flushPromise = None => L[g].storageFailure,
           NEW L2, L2 = [L EXCEPT ![g].refCount = @ - 1, ![g].retired = TRUE,
                                  ![g].retirement = "flushing", ![g].awaits = L[g].flushPromise]
    PROVE  StateOK(L2, c, o, F, n, m, S)
<1>0. /\ L \in [Generations -> LogState] /\ c \in Generations \cup {None}
      /\ o \in [Owners -> Owner] /\ F \in Seq(LineRecord)
      /\ n \in 0 .. MaxRewrites /\ m \in 0 .. MaxRecords /\ S \in Settlements
      /\ n \in Nat /\ m \in Nat
      /\ GenOK(L, c) /\ CreatedInOrder(L) /\ OthersAbsent(L) /\ EntryIsLast(L, c)
      /\ RetiredOnce(L) /\ ReadyOK(L)
      /\ ChainOK(L, o, n) /\ FreeIsFree(o) /\ PlacedOK(L, o, n) /\ PromiseOK(L, o)
      /\ Chained(o) /\ PriorOK(o) /\ AwaitsOK(L)
      /\ FailureOK(L, o) /\ EpochOK(L, o) /\ CountsOK(L, o, n, m) /\ BatchOK(L, o)
      /\ PassedOK(L, o) /\ QuietOK(L, o)
      /\ FileOK(F, m) /\ BuffersOK(L, m) /\ NewerOK(L, F) /\ CleanOK(L, o, F)
      /\ RewriteOK(L, o, F) /\ PromisedOK(L, o, F, S, m) /\ AckedOK(L, F, S, m)
      /\ NothingVanishes(L, F, S, m)
      BY Parts
<1>1. \A h \in Generations : h # g => L2[h] = L[h]
      BY <1>0
<1>2. /\ L2[g] \in LogState /\ L2[g].pending = L[g].pending
      /\ L2[g].flushPromise = L[g].flushPromise
      /\ L2[g].storageFailure = L[g].storageFailure /\ L2[g].cutoverEpoch = L[g].cutoverEpoch
      /\ L2[g].retired = TRUE /\ L2[g].ready = L[g].ready /\ L2[g].refCount = 0
      /\ L2[g].retirement = "flushing" /\ L2[g].awaits = L[g].flushPromise
      /\ L[g].retirement = "none"
  <2>1. PICK l \in LogState, k \in {L2[g]} : l = L[g] /\ k = L2[g]
        BY <1>0
  <2>2. /\ k = [l EXCEPT !.refCount = @ - 1, !.retired = TRUE, !.retirement = "flushing",
                         !.awaits = l.flushPromise]
        /\ l.refCount - 1 = 0
        BY <1>0, <2>1, LogFields
  <2>4. 0 \in 0 .. MaxHandles /\ l.flushPromise \in Owners \cup {None}
        BY Bounds DEF LogState
  <2>3. /\ k \in LogState /\ k.pending = l.pending /\ k.flushPromise = l.flushPromise
        /\ k.storageFailure = l.storageFailure /\ k.cutoverEpoch = l.cutoverEpoch
        /\ k.retired = TRUE /\ k.ready = l.ready /\ k.refCount = 0
        /\ k.retirement = "flushing" /\ k.awaits = l.flushPromise
        BY <2>2, <2>4 DEF LogState
  <2> QED BY <1>0, <2>1, <2>3 DEF RetiredOnce
<1>3. L2 \in [Generations -> LogState]
      BY <1>0, <1>2
<1>4. \A h \in Generations : (ExistsIn(L2, h) <=> ExistsIn(L, h)) /\ (Passed(L2, h) <=> Passed(L, h))
  <2>1. \A h \in Generations : ExistsIn(L2, h) <=> ExistsIn(L, h)
        BY <1>1, <1>2 DEF ExistsIn
  <2>2. \A k \in Generations : L[k].retirement = "settled" <=> L2[k].retirement = "settled"
        BY <1>1, <1>2
  <2> QED BY <2>1, <2>2 DEF Passed
<1>5. GenOK(L2, c)
  <2>1. CreatedInOrder(L2) /\ OthersAbsent(L2)
        BY <1>0, <1>1, <1>2, <1>4, ZenonT(30) DEF CreatedInOrder, OthersAbsent, ExistsIn
  <2>2. EntryIsLast(L2, c)
    <3>1. c # None => ExistsIn(L2, c)
          BY <1>0, <1>4 DEF EntryIsLast
    <3>2. c # None
          BY <1>0, <1>2 DEF EntryIsLast, ExistsIn
    <3> QED BY <1>0, <1>1, <1>2, <1>4, <3>1, <3>2 DEF EntryIsLast
  <2>3. RetiredOnce(L2)
    <3> SUFFICES ASSUME NEW h \in Generations
                 PROVE  /\ L2[h].retired <=> L2[h].retirement \in {"flushing", "settled"}
                        /\ L2[h].refCount > 0 => L2[h].retirement = "none"
        BY DEF RetiredOnce
    <3>1. CASE h = g
          BY <1>2, <3>1
    <3>2. CASE h # g
          BY <1>0, <1>1, <3>2 DEF RetiredOnce
    <3> QED BY <3>1, <3>2
  <2>4. ReadyOK(L2)
    <3>1. \A h \in Generations : L2[h].ready = L[h].ready
          BY <1>1, <1>2
    <3> QED BY <1>0, <1>4, <3>1 DEF ReadyOK
  <2> QED BY <2>1, <2>2, <2>3, <2>4 DEF GenOK
<1>6. AwaitsOK(L2)
      BY <1>0, <1>1, <1>2 DEF AwaitsOK
<1>7. \A h \in Generations :
          /\ L2[h].pending = L[h].pending /\ L2[h].flushPromise = L[h].flushPromise
          /\ L2[h].storageFailure = L[h].storageFailure
          /\ L2[h].cutoverEpoch = L[h].cutoverEpoch
          /\ Quiet(L, h) => Quiet(L2, h)
          /\ Quiet(L2, h) => Quiet(L, h) \/ (L[h].storageFailure /\ L[h].flushPromise = None)
      BY <1>1, <1>2, ZenonT(30) DEF Quiet
<1> QED BY ONLY StateOK(L, c, o, F, n, m, S), <1>0, <1>3, <1>4, <1>5, <1>6, <1>7, LivesOnly

\* The retirement of a generation settles.
LEMMA RetirementEnds ==
    ASSUME NEW L, NEW c, NEW o, NEW F, NEW n, NEW m, NEW S, StateOK(L, c, o, F, n, m, S),
           NEW g \in Generations, L[g].retirement = "flushing", L[g].awaits = None,
           NEW L2, L2 = [L EXCEPT ![g].retirement = "settled"],
           NEW c2, c = g => c2 = None, c # g => c2 = c
    PROVE  StateOK(L2, c2, o, F, n, m, S)
<1>0. /\ L \in [Generations -> LogState] /\ c \in Generations \cup {None}
      /\ o \in [Owners -> Owner] /\ F \in Seq(LineRecord)
      /\ n \in 0 .. MaxRewrites /\ m \in 0 .. MaxRecords /\ S \in Settlements
      /\ n \in Nat /\ m \in Nat
      /\ GenOK(L, c) /\ CreatedInOrder(L) /\ OthersAbsent(L) /\ EntryIsLast(L, c)
      /\ RetiredOnce(L) /\ ReadyOK(L)
      /\ ChainOK(L, o, n) /\ FreeIsFree(o) /\ PlacedOK(L, o, n) /\ PromiseOK(L, o)
      /\ Chained(o) /\ PriorOK(o) /\ AwaitsOK(L)
      /\ FailureOK(L, o) /\ EpochOK(L, o) /\ CountsOK(L, o, n, m) /\ BatchOK(L, o)
      /\ PassedOK(L, o) /\ QuietOK(L, o)
      /\ FileOK(F, m) /\ BuffersOK(L, m) /\ NewerOK(L, F) /\ CleanOK(L, o, F)
      /\ RewriteOK(L, o, F) /\ PromisedOK(L, o, F, S, m) /\ AckedOK(L, F, S, m)
      /\ NothingVanishes(L, F, S, m)
      BY Parts
<1>1. \A h \in Generations : h # g => L2[h] = L[h]
      BY <1>0
<1>2. /\ L2[g] \in LogState /\ L2[g].pending = L[g].pending
      /\ L2[g].flushPromise = L[g].flushPromise
      /\ L2[g].storageFailure = L[g].storageFailure /\ L2[g].cutoverEpoch = L[g].cutoverEpoch
      /\ L2[g].retired = L[g].retired /\ L2[g].ready = L[g].ready
      /\ L2[g].refCount = L[g].refCount
      /\ L2[g].retirement = "settled" /\ L2[g].awaits = L[g].awaits
  <2>1. PICK l \in LogState, k \in {L2[g]} : l = L[g] /\ k = L2[g]
        BY <1>0
  <2>2. k = [l EXCEPT !.retirement = "settled"]
        BY <1>0, <2>1
  <2>3. /\ k \in LogState /\ k.pending = l.pending /\ k.flushPromise = l.flushPromise
        /\ k.storageFailure = l.storageFailure /\ k.cutoverEpoch = l.cutoverEpoch
        /\ k.retired = l.retired /\ k.ready = l.ready /\ k.refCount = l.refCount
        /\ k.retirement = "settled" /\ k.awaits = l.awaits
        BY <2>2 DEF LogState
  <2> QED BY <2>1, <2>3
<1>3. L2 \in [Generations -> LogState]
      BY <1>0, <1>2
<1>4. /\ \A h \in Generations : ExistsIn(L2, h) <=> ExistsIn(L, h)
      /\ \A h \in Generations : Passed(L, h) => Passed(L2, h)
  <2>1. \A k \in Generations : L[k].retirement = "settled" => L2[k].retirement = "settled"
        BY <1>1, <1>2
  <2> QED BY <1>1, <1>2, <2>1 DEF Passed, ExistsIn
<1>5. Quiet(L, g) /\ Passed(L, g)
      BY <1>0 DEF Quiet, PassedOK
<1>6. GenOK(L2, c2)
  <2>1. CreatedInOrder(L2) /\ OthersAbsent(L2)
        BY <1>0, <1>1, <1>2, <1>4 DEF CreatedInOrder, OthersAbsent, ExistsIn
  <2>2. EntryIsLast(L2, c2)
    <3>1. CASE c = g
      <4>1. ASSUME NEW h \in Generations, ExistsIn(L2, h)
            PROVE  L2[h].retirement = "settled" /\ L2[h].retired
        <5>1. CASE h = g
              BY <1>0, <1>2, <5>1 DEF RetiredOnce
        <5>2. CASE h # g
          <6>1. h < g
                BY <1>0, <1>4, <3>1, <4>1, <5>2, Bounds DEF EntryIsLast
          <6> QED BY <1>0, <1>1, <1>5, <5>2, <6>1 DEF Passed, RetiredOnce
        <5> QED BY <5>1, <5>2
      <4> QED BY <3>1, <4>1 DEF EntryIsLast
    <3>2. CASE c # g
          BY <1>0, <1>1, <1>2, <1>4, <3>2, ZenonT(30) DEF EntryIsLast
    <3> QED BY <3>1, <3>2
  <2>3. RetiredOnce(L2)
        BY <1>0, <1>1, <1>2 DEF RetiredOnce
  <2>4. ReadyOK(L2)
        BY <1>0, <1>1, <1>2, <1>4, ZenonT(30) DEF ReadyOK
  <2> QED BY <2>1, <2>2, <2>3, <2>4 DEF GenOK
<1>7. AwaitsOK(L2)
      BY <1>0, <1>1, <1>2 DEF AwaitsOK
<1>8. \A h \in Generations :
          /\ L2[h].pending = L[h].pending /\ L2[h].flushPromise = L[h].flushPromise
          /\ L2[h].storageFailure = L[h].storageFailure
          /\ L2[h].cutoverEpoch = L[h].cutoverEpoch /\ (Quiet(L2, h) <=> Quiet(L, h))
      BY <1>1, <1>2, <1>5 DEF Quiet
<1>9. c2 \in Generations \cup {None}
      BY <1>0
<1> QED BY ONLY StateOK(L, c, o, F, n, m, S), <1>0, <1>3, <1>4, <1>6, <1>7, <1>8, <1>9, LivesOnly

-----------------------------------------------------------------------------
(* Owners that move on without touching the file. *)

\* A generation is past its `ready` only when all before it are settled.
LEMMA ReadyIsPassed ==
    ASSUME NEW L \in [Generations -> LogState], NEW o, ReadyOK(L), PassedOK(L, o),
           NEW g \in Generations, ExistsIn(L, g),
           L[g].ready # None => L[L[g].ready].retirement = "settled"
    PROVE  Passed(L, g)
<1>1. CASE L[g].ready = None
      BY <1>1 DEF ReadyOK
<1>2. CASE L[g].ready # None
  <2>1. L[g].ready = g - 1 /\ L[g].ready \in Generations
        BY <1>2, LogFields DEF ReadyOK
  <2>2. g - 1 \in Generations /\ L[g - 1].retirement = "settled"
        BY <1>2, <2>1
  <2>3. Passed(L, g - 1)
        BY <2>2 DEF PassedOK, Quiet
  <2>4. \A h \in Generations : h < g => h = g - 1 \/ h < g - 1
        BY Bounds
  <2> QED BY <2>2, <2>3, <2>4 DEF Passed
<1> QED BY <1>1, <1>2

\* One owner moves on.
LEMMA OwnerMoves ==
    ASSUME NEW L, NEW c, NEW o, NEW F, NEW n, NEW m, NEW S, StateOK(L, c, o, F, n, m, S),
           NEW p \in Owners, Busy(o, p), NEW l, l = L[o[p].gen],
           NEW o2 \in [Owners -> Owner], \A q \in Owners : q # p => o2[q] = o[q],
           o2[p].gen = o[p].gen, o2[p].prior = o[p].prior, o2[p].promised = o[p].promised,
           o2[p].covered = o[p].covered, o2[p].foreign = o[p].foreign,
           o2[p].pc \notin {"free", "prior"}, o[p].prior = None,
           o2[p].pc = "writing" => o[p].pc = "prior",
           o2[p].pc = "failed" => l.storageFailure,
           o2[p].pc \in {"ready", "appending", "done"} => ~l.storageFailure,
           o2[p].pc \in {"ready", "appending"} =>
               /\ o2[p].epoch <= l.cutoverEpoch
               /\ o2[p].epoch = l.cutoverEpoch <=> l.flushPromise = p,
           o2[p].epoch <= n, o2[p].batch <= m,
           o2[p].pc = "appending" => o2[p].batch \in 1 .. Len(l.pending),
           o2[p].pc # "ready" => Passed(L, o[p].gen),
           Quiet(L, o[p].gen) => o2[p].pc \in {"ready", "done"},
           \/ o2[p].pc = "appending"
           \/ o2[p].pc \in {"ready", "done"} /\ l.flushPromise = p
           => Clean(L, F, o[p].gen)
    PROVE  StateOK(L, c, o2, F, n, m, S)
<1>0. /\ L \in [Generations -> LogState] /\ c \in Generations \cup {None}
      /\ o \in [Owners -> Owner] /\ F \in Seq(LineRecord)
      /\ n \in 0 .. MaxRewrites /\ m \in 0 .. MaxRecords /\ S \in Settlements
      /\ n \in Nat /\ m \in Nat
      /\ GenOK(L, c) /\ CreatedInOrder(L) /\ OthersAbsent(L) /\ EntryIsLast(L, c)
      /\ RetiredOnce(L) /\ ReadyOK(L)
      /\ ChainOK(L, o, n) /\ FreeIsFree(o) /\ PlacedOK(L, o, n) /\ PromiseOK(L, o)
      /\ Chained(o) /\ PriorOK(o) /\ AwaitsOK(L)
      /\ FailureOK(L, o) /\ EpochOK(L, o) /\ CountsOK(L, o, n, m) /\ BatchOK(L, o)
      /\ PassedOK(L, o) /\ QuietOK(L, o)
      /\ FileOK(F, m) /\ BuffersOK(L, m) /\ NewerOK(L, F) /\ CleanOK(L, o, F)
      /\ RewriteOK(L, o, F) /\ PromisedOK(L, o, F, S, m) /\ AckedOK(L, F, S, m)
      /\ NothingVanishes(L, F, S, m)
      BY Parts
<1>1. /\ \A q \in Owners : o2[q].gen = o[q].gen
      /\ \A q \in Owners : Busy(o2, q) <=> Busy(o, q)
      /\ o[p].gen \in Generations
      BY <1>0, BusyPlace DEF Busy
<1>2. ChainOK(L, o2, n)
  <2>1. SameChains(L, L, o, o2)
        BY <1>0, <1>1 DEF SameChains
  <2> QED BY <1>0, <2>1, ChainsKept
<1>3. PhaseOK(L, o2, n, m)
  <2>1. FailureOK(L, o2)
        BY <1>0, <1>1 DEF FailureOK
  <2>2. EpochOK(L, o2)
        BY <1>0, <1>1 DEF EpochOK
  <2>3. CountsOK(L, o2, n, m)
        BY <1>0 DEF CountsOK
  <2>4. BatchOK(L, o2)
        BY <1>0, <1>1 DEF BatchOK
  <2> QED BY <2>1, <2>2, <2>3, <2>4 DEF PhaseOK
<1>4. PassedOK(L, o2)
      BY <1>0, <1>1 DEF PassedOK
<1>5. QuietOK(L, o2)
      BY <1>0, <1>1 DEF QuietOK
<1>6. ContentOK(L, o2, F, m)
  <2>1. CleanOK(L, o2, F)
        BY <1>0, <1>1 DEF CleanOK
  <2> QED BY <1>0, <2>1 DEF ContentOK
<1>7. CallerOK(L, o2, F, S, m)
  <2>1. RewriteOK(L, o2, F)
    <3> SUFFICES ASSUME NEW q \in Owners, o2[q].pc \in {"prior", "writing"}
                 PROVE  /\ Recs(F) \subseteq {Replacement} \cup o2[q].covered \cup o2[q].foreign
                                                 \cup Buffer(L, o2[q].gen)
                        /\ \A h \in Generations : h < o2[q].gen /\ ~Quiet(L, h) => Buffer(L, h) \subseteq o2[q].foreign
        BY DEF RewriteOK
    <3>1. o[q].pc \in {"prior", "writing"} /\ o2[q].covered = o[q].covered /\ o2[q].foreign = o[q].foreign
          OBVIOUS
    <3> QED BY <1>0, <1>1, <3>1 DEF RewriteOK
  <2>2. PromisedOK(L, o2, F, S, m)
    <3>1. \A q \in Owners : o2[q].promised = o[q].promised
          OBVIOUS
    <3> QED BY <1>0, <1>1, <3>1 DEF PromisedOK
  <2> QED BY <1>0, <2>1, <2>2 DEF CallerOK
<1> QED BY <1>0, <1>2, <1>3, <1>4, <1>5, <1>6, <1>7 DEF StateOK, Shapes, GenOK

(* A drain looks at its generation: it was cut over, or has the next batch. *)
DrainStep(L, g, o, o2, p) ==
    \/ /\ L[g].cutoverEpoch # o[p].epoch
       /\ o2 = [o EXCEPT ![p].pc = "done"]
    \/ /\ L[g].cutoverEpoch = o[p].epoch
       /\ o2 = [o EXCEPT ![p].pc = IF L[g].pending = <<>> THEN "done" ELSE "appending",
                         ![p].batch = Len(L[g].pending)]

\* A drain has awaited `ready`.
LEMMA DrainGoesOn ==
    ASSUME NEW L, NEW c, NEW o, NEW F, NEW n, NEW m, NEW S, StateOK(L, c, o, F, n, m, S),
           NEW p \in Owners, o[p].pc = "ready", NEW g, g = o[p].gen,
           L[g].ready # None => L[L[g].ready].retirement = "settled",
           NEW o2, DrainStep(L, g, o, o2, p)
    PROVE  StateOK(L, c, o2, F, n, m, S)
<1>0. /\ L \in [Generations -> LogState] /\ c \in Generations \cup {None}
      /\ o \in [Owners -> Owner] /\ F \in Seq(LineRecord)
      /\ n \in 0 .. MaxRewrites /\ m \in 0 .. MaxRecords /\ S \in Settlements
      /\ n \in Nat /\ m \in Nat
      /\ GenOK(L, c) /\ CreatedInOrder(L) /\ OthersAbsent(L) /\ EntryIsLast(L, c)
      /\ RetiredOnce(L) /\ ReadyOK(L)
      /\ ChainOK(L, o, n) /\ FreeIsFree(o) /\ PlacedOK(L, o, n) /\ PromiseOK(L, o)
      /\ Chained(o) /\ PriorOK(o) /\ AwaitsOK(L)
      /\ FailureOK(L, o) /\ EpochOK(L, o) /\ CountsOK(L, o, n, m) /\ BatchOK(L, o)
      /\ PassedOK(L, o) /\ QuietOK(L, o)
      /\ FileOK(F, m) /\ BuffersOK(L, m) /\ NewerOK(L, F) /\ CleanOK(L, o, F)
      /\ RewriteOK(L, o, F) /\ PromisedOK(L, o, F, S, m) /\ AckedOK(L, F, S, m)
      /\ NothingVanishes(L, F, S, m)
      BY Parts
<1>h. \/ /\ L[g].cutoverEpoch # o[p].epoch
         /\ o2 = [o EXCEPT ![p].pc = "done"]
      \/ /\ L[g].cutoverEpoch = o[p].epoch
         /\ o2 = [o EXCEPT ![p].pc = IF L[g].pending = <<>> THEN "done" ELSE "appending",
                           ![p].batch = Len(L[g].pending)]
      BY DEF DrainStep
<1> USE <1>h
<1>1. Busy(o, p) /\ g \in Generations /\ ExistsIn(L, g) /\ o[p] \in Owner
      BY <1>0, BusyPlace DEF Busy
<1>2. Passed(L, g)
      BY <1>0, <1>1, ReadyIsPassed
<1>3. /\ ~L[g].storageFailure /\ o[p].epoch <= L[g].cutoverEpoch /\ o[p].prior = None
      /\ o[p].epoch = L[g].cutoverEpoch <=> L[g].flushPromise = p
      /\ o[p].epoch <= n /\ o[p].batch <= m
      BY <1>0 DEF FailureOK, EpochOK, PriorOK, CountsOK
<1>4. L[g].flushPromise = p => Clean(L, F, g)
      BY <1>0 DEF CleanOK
<1>5. Quiet(L, g) => L[g].pending = <<>>
      BY <1>0, <1>1, <1>3 DEF QuietOK
<1>6. /\ Len(L[g].pending) \in Nat /\ Len(L[g].pending) <= m
      /\ L[g].pending # <<>> => Len(L[g].pending) \in 1 .. Len(L[g].pending)
  <2>1. L[g].pending \in Seq(Records) /\ Ascending(L[g].pending, m)
        BY <1>0, <1>1, LogFields DEF BuffersOK
  <2>2. L[g].pending \in Seq(Nat)
        BY <2>1, Bounds DEF Records
  <2>3. Len(L[g].pending) <= m
        BY <1>0, <2>1, <2>2, AppendAscends
  <2> QED BY <2>1, <2>3
<1>7. CASE L[g].cutoverEpoch # o[p].epoch
  <2>1. o2 = [o EXCEPT ![p] = [o[p] EXCEPT !.pc = "done"]]
        BY <1>7
  <2>2. /\ o2[p] \in Owner /\ o2[p].pc = "done" /\ o2[p].gen = g /\ o2[p].prior = o[p].prior
        /\ o2[p].promised = o[p].promised /\ o2[p].covered = o[p].covered
        /\ o2[p].foreign = o[p].foreign /\ o2[p].epoch = o[p].epoch /\ o2[p].batch = o[p].batch
        BY <1>0, <1>1, <2>1 DEF Owner
  <2>3. o2 \in [Owners -> Owner] /\ \A q \in Owners : q # p => o2[q] = o[q]
        BY <1>0, <2>1, <2>2
  <2>4. L[g].flushPromise # p
        BY <1>3, <1>7
  <2> QED BY <1>0, <1>1, <1>2, <1>3, <2>2, <2>3, <2>4, OwnerMoves
<1>8. CASE L[g].cutoverEpoch = o[p].epoch
  <2> DEFINE next == IF L[g].pending = <<>> THEN "done" ELSE "appending"
             k == Len(L[g].pending)
  <2>1. /\ o2 = [o EXCEPT ![p] = [o[p] EXCEPT !.pc = next, !.batch = k]]
        /\ next \in {"done", "appending"} /\ k \in Nat
        BY <1>6, <1>8
  <2>2. next = "appending" => k \in 1 .. Len(L[g].pending)
        BY <1>6
  <2>3. Quiet(L, g) => next = "done"
        BY <1>5
  <2>4. k <= m
        BY <1>6
  <2> HIDE DEF next, k
  <2>5. /\ o2[p] \in Owner /\ o2[p].pc = next /\ o2[p].gen = g /\ o2[p].prior = o[p].prior
        /\ o2[p].promised = o[p].promised /\ o2[p].covered = o[p].covered
        /\ o2[p].foreign = o[p].foreign /\ o2[p].epoch = o[p].epoch /\ o2[p].batch = k
        BY <1>0, <1>1, <2>1 DEF Owner
  <2>6. o2 \in [Owners -> Owner] /\ \A q \in Owners : q # p => o2[q] = o[q]
        BY <1>0, <2>1, <2>5
  <2>7. Clean(L, F, g)
        BY <1>3, <1>4, <1>8
  <2>8. CASE next = "done"
    <3>1. o2[p].pc = "done"
          BY <2>5, <2>8
    <3> QED BY ONLY StateOK(L, c, o, F, n, m, S), g = o[p].gen, <1>1, <1>2, <1>3,
                    <2>4, <2>5, <2>6, <2>7, <3>1, OwnerMoves
  <2>9. CASE next = "appending"
    <3>1. o2[p].pc = "appending" /\ k \in 1 .. Len(L[g].pending) /\ ~Quiet(L, g)
          BY <2>2, <2>3, <2>5, <2>9
    <3> QED BY ONLY StateOK(L, c, o, F, n, m, S), g = o[p].gen, <1>1, <1>2, <1>3, <1>8,
                    <2>4, <2>5, <2>6, <2>7, <3>1, OwnerMoves
  <2> QED BY <2>1, <2>8, <2>9
<1> QED BY <1>7, <1>8

\* A rewrite is first in its chain and past `ready`.
LEMMA RewriteGoesOn ==
    ASSUME NEW L, NEW c, NEW o, NEW F, NEW n, NEW m, NEW S, StateOK(L, c, o, F, n, m, S),
           NEW p \in Owners, o[p].pc = "prior", o[p].prior = None, NEW g, g = o[p].gen,
           L[g].ready # None => L[L[g].ready].retirement = "settled",
           NEW o2, o2 = [o EXCEPT ![p].pc = "writing"]
    PROVE  StateOK(L, c, o2, F, n, m, S)
<1>0. /\ L \in [Generations -> LogState] /\ c \in Generations \cup {None}
      /\ o \in [Owners -> Owner] /\ F \in Seq(LineRecord)
      /\ n \in 0 .. MaxRewrites /\ m \in 0 .. MaxRecords /\ S \in Settlements
      /\ n \in Nat /\ m \in Nat
      /\ GenOK(L, c) /\ CreatedInOrder(L) /\ OthersAbsent(L) /\ EntryIsLast(L, c)
      /\ RetiredOnce(L) /\ ReadyOK(L)
      /\ ChainOK(L, o, n) /\ FreeIsFree(o) /\ PlacedOK(L, o, n) /\ PromiseOK(L, o)
      /\ Chained(o) /\ PriorOK(o) /\ AwaitsOK(L)
      /\ FailureOK(L, o) /\ EpochOK(L, o) /\ CountsOK(L, o, n, m) /\ BatchOK(L, o)
      /\ PassedOK(L, o) /\ QuietOK(L, o)
      /\ FileOK(F, m) /\ BuffersOK(L, m) /\ NewerOK(L, F) /\ CleanOK(L, o, F)
      /\ RewriteOK(L, o, F) /\ PromisedOK(L, o, F, S, m) /\ AckedOK(L, F, S, m)
      /\ NothingVanishes(L, F, S, m)
      BY Parts
<1>1. Busy(o, p) /\ g \in Generations /\ ExistsIn(L, g) /\ o[p] \in Owner
      BY <1>0, BusyPlace DEF Busy
<1>2. Passed(L, g)
      BY <1>0, <1>1, ReadyIsPassed
<1>3. o[p].epoch <= n /\ o[p].batch <= m
      BY <1>0 DEF CountsOK
<1>4. ~Quiet(L, g)
      BY <1>0, <1>1 DEF QuietOK
<1>5. o2 = [o EXCEPT ![p] = [o[p] EXCEPT !.pc = "writing"]]
      OBVIOUS
<1>6. /\ o2[p] \in Owner /\ o2[p].pc = "writing" /\ o2[p].gen = g /\ o2[p].prior = o[p].prior
      /\ o2[p].promised = o[p].promised /\ o2[p].covered = o[p].covered
      /\ o2[p].foreign = o[p].foreign /\ o2[p].epoch = o[p].epoch /\ o2[p].batch = o[p].batch
      BY <1>0, <1>1, <1>5 DEF Owner
<1>7. o2 \in [Owners -> Owner] /\ \A q \in Owners : q # p => o2[q] = o[q]
      BY <1>0, <1>5, <1>6
<1> QED BY ONLY StateOK(L, c, o, F, n, m, S), g = o[p].gen, o[p].pc = "prior", o[p].prior = None,
                <1>1, <1>2, <1>3, <1>4, <1>6, <1>7, OwnerMoves

\* A flush that still owns its generation drains what was appended meanwhile.
LEMMA DrainRepeats ==
    ASSUME NEW L, NEW c, NEW o, NEW F, NEW n, NEW m, NEW S, StateOK(L, c, o, F, n, m, S),
           NEW p \in Owners, o[p].pc = "done", NEW g, g = o[p].gen, L[g].flushPromise = p,
           NEW o2, o2 = [o EXCEPT ![p].pc = "ready", ![p].epoch = L[g].cutoverEpoch]
    PROVE  StateOK(L, c, o2, F, n, m, S)
<1>0. /\ L \in [Generations -> LogState] /\ c \in Generations \cup {None}
      /\ o \in [Owners -> Owner] /\ F \in Seq(LineRecord)
      /\ n \in 0 .. MaxRewrites /\ m \in 0 .. MaxRecords /\ S \in Settlements
      /\ n \in Nat /\ m \in Nat
      /\ GenOK(L, c) /\ CreatedInOrder(L) /\ OthersAbsent(L) /\ EntryIsLast(L, c)
      /\ RetiredOnce(L) /\ ReadyOK(L)
      /\ ChainOK(L, o, n) /\ FreeIsFree(o) /\ PlacedOK(L, o, n) /\ PromiseOK(L, o)
      /\ Chained(o) /\ PriorOK(o) /\ AwaitsOK(L)
      /\ FailureOK(L, o) /\ EpochOK(L, o) /\ CountsOK(L, o, n, m) /\ BatchOK(L, o)
      /\ PassedOK(L, o) /\ QuietOK(L, o)
      /\ FileOK(F, m) /\ BuffersOK(L, m) /\ NewerOK(L, F) /\ CleanOK(L, o, F)
      /\ RewriteOK(L, o, F) /\ PromisedOK(L, o, F, S, m) /\ AckedOK(L, F, S, m)
      /\ NothingVanishes(L, F, S, m)
      BY Parts
<1>1. Busy(o, p) /\ g \in Generations /\ o[p] \in Owner /\ o[p].prior = None
      BY <1>0, BusyPlace DEF Busy, PriorOK
<1>2. L[g].cutoverEpoch \in Nat /\ L[g].cutoverEpoch <= n /\ o[p].batch <= m /\ ~L[g].storageFailure
      BY <1>0, <1>1, LogFields DEF CountsOK, FailureOK
<1>3. Clean(L, F, g)
      BY <1>0 DEF CleanOK
<1>4. PICK e \in Nat : e = L[g].cutoverEpoch
      BY <1>2
<1>8. PICK l \in Owner : l = o[p]
      BY <1>1
<1>5. o2 = [o EXCEPT ![p] = [l EXCEPT !.pc = "ready", !.epoch = e]]
      BY <1>0, <1>4, <1>8
<1>6. /\ o2[p] \in Owner /\ o2[p].pc = "ready" /\ o2[p].gen = g /\ o2[p].prior = o[p].prior
      /\ o2[p].promised = o[p].promised /\ o2[p].covered = o[p].covered
      /\ o2[p].foreign = o[p].foreign /\ o2[p].epoch = e /\ o2[p].batch = o[p].batch
  <2>1. o2[p] = [l EXCEPT !.pc = "ready", !.epoch = e]
        BY <1>0, <1>5
  <2>2. PICK k : k = o2[p]
        OBVIOUS
  <2>3. /\ k \in Owner /\ k.pc = "ready" /\ k.gen = l.gen /\ k.prior = l.prior
        /\ k.promised = l.promised /\ k.covered = l.covered
        /\ k.foreign = l.foreign /\ k.epoch = e /\ k.batch = l.batch
        BY ONLY <2>1, <2>2, l \in Owner, e \in Nat DEF Owner
  <2> QED BY <1>8, <2>2, <2>3
<1>7. o2 \in [Owners -> Owner] /\ \A q \in Owners : q # p => o2[q] = o[q]
      BY <1>0, <1>5, <1>6
<1> QED BY ONLY StateOK(L, c, o, F, n, m, S), g = o[p].gen, L[g].flushPromise = p,
                <1>1, <1>2, <1>3, <1>4, <1>6, <1>7, OwnerMoves

-----------------------------------------------------------------------------
(* Who is at the file. *)

\* The others of a generation wait behind the owner that waits for none.
LEMMA FirstInChain ==
    ASSUME NEW o \in [Owners -> Owner], Chained(o), PriorOK(o),
           NEW p \in Owners, Busy(o, p), o[p].prior = None
    PROVE  \A q \in Owners : Busy(o, q) /\ q # p /\ o[q].gen = o[p].gen =>
               q > p /\ o[q].pc = "prior" /\ o[q].prior # None
<1> SUFFICES ASSUME NEW q \in Owners, Busy(o, q), q # p, o[q].gen = o[p].gen
             PROVE  q > p /\ o[q].pc = "prior" /\ o[q].prior # None
    OBVIOUS
<1>1. p \in Nat /\ q \in Nat /\ p > 0 /\ q > 0 /\ None = 0
      BY Bounds
<1>2. ~(q < p)
      BY <1>1 DEF Chained
<1>3. p < q
      BY <1>1, <1>2
<1>4. p <= o[q].prior
      BY <1>3 DEF Chained
<1>5. o[q].prior # None
      BY <1>1, <1>4
<1>6. o[q].pc = "prior"
      BY <1>5 DEF PriorOK
<1> QED BY <1>3, <1>5, <1>6

\* While an owner is at the file, the others of its generation and of later
\* ones wait, and earlier generations have nothing left to write.
LEMMA WriterAlone ==
    ASSUME NEW L, NEW c, NEW o, NEW F, NEW n, NEW m, NEW S, StateOK(L, c, o, F, n, m, S),
           NEW p \in Owners, o[p].pc \in {"appending", "writing"}, NEW g, g = o[p].gen
    PROVE  /\ g \in Generations /\ Passed(L, g) /\ ~Quiet(L, g)
           /\ L[g].flushPromise # None /\ o[p].prior = None
           /\ \A q \in Owners : Busy(o, q) /\ q # p /\ o[q].gen = g => q > p /\ o[q].pc = "prior"
           /\ \A q \in Owners : Busy(o, q) /\ o[q].gen < g => o[q].pc \in {"ready", "done"}
           /\ \A q \in Owners : Busy(o, q) /\ o[q].gen > g => o[q].pc \in {"prior", "ready"}
           /\ \A h \in Generations : h < g => Quiet(L, h) /\ (Buffer(L, h) = {} \/ L[h].storageFailure)
<1>0. /\ L \in [Generations -> LogState] /\ c \in Generations \cup {None}
      /\ o \in [Owners -> Owner] /\ F \in Seq(LineRecord)
      /\ n \in 0 .. MaxRewrites /\ m \in 0 .. MaxRecords /\ S \in Settlements
      /\ n \in Nat /\ m \in Nat
      /\ GenOK(L, c) /\ CreatedInOrder(L) /\ OthersAbsent(L) /\ EntryIsLast(L, c)
      /\ RetiredOnce(L) /\ ReadyOK(L)
      /\ ChainOK(L, o, n) /\ FreeIsFree(o) /\ PlacedOK(L, o, n) /\ PromiseOK(L, o)
      /\ Chained(o) /\ PriorOK(o) /\ AwaitsOK(L)
      /\ FailureOK(L, o) /\ EpochOK(L, o) /\ CountsOK(L, o, n, m) /\ BatchOK(L, o)
      /\ PassedOK(L, o) /\ QuietOK(L, o)
      /\ FileOK(F, m) /\ BuffersOK(L, m) /\ NewerOK(L, F) /\ CleanOK(L, o, F)
      /\ RewriteOK(L, o, F) /\ PromisedOK(L, o, F, S, m) /\ AckedOK(L, F, S, m)
      /\ NothingVanishes(L, F, S, m)
      BY Parts
<1>1. Busy(o, p) /\ g \in Generations /\ L[g].flushPromise # None /\ o[p].prior = None
      BY <1>0, BusyPlace DEF Busy, PriorOK
<1>2. Passed(L, g) /\ ~Quiet(L, g)
      BY <1>0, <1>1 DEF PassedOK, QuietOK
<1>3. \A q \in Owners : Busy(o, q) /\ q # p /\ o[q].gen = g => q > p /\ o[q].pc = "prior"
      BY <1>0, <1>1, FirstInChain
<1>4. \A h \in Generations : h < g => Quiet(L, h)
      BY <1>1, <1>2 DEF Passed, Quiet
<1>5. \A q \in Owners : Busy(o, q) => o[q].gen \in Generations
      BY <1>0, BusyPlace
<1>6. \A q \in Owners : Busy(o, q) /\ o[q].gen < g => o[q].pc \in {"ready", "done"}
      BY <1>0, <1>4, <1>5 DEF QuietOK
<1>7. ASSUME NEW q \in Owners, Busy(o, q), o[q].gen > g
      PROVE  o[q].pc \in {"prior", "ready"}
  <2>1. ~Passed(L, o[q].gen)
    <3>1. g < o[q].gen
          BY <1>1, <1>5, <1>7, Bounds
    <3> QED BY <1>1, <1>2, <1>5, <1>7, <3>1 DEF Passed, Quiet
  <2> QED BY <1>0, <1>7, <2>1 DEF PassedOK, Busy
<1>8. ASSUME NEW h \in Generations, h < g
      PROVE  Buffer(L, h) = {} \/ L[h].storageFailure
  <2>1. L[h].pending = <<>> \/ L[h].storageFailure
        BY <1>0, <1>4, <1>8 DEF QuietOK
  <2> QED BY <2>1 DEF Buffer, ToSet
<1> QED BY <1>1, <1>2, <1>3, <1>4, <1>6, <1>7, <1>8

(* The first k records of the batch of owner p, put behind the file F. *)
BatchPut(L, F, o, p, g, k, front, rest, F2) ==
    /\ k \in 0 .. o[p].batch
    /\ front = SubSeq(L[g].pending, 1, k)
    /\ rest = SubSeq(L[g].pending, k + 1, Len(L[g].pending))
    /\ F2 = F \o Written(front)

BatchHeld(L, F, g, front, rest, F2, m) ==
    /\ F2 \in Seq(LineRecord) /\ FileOK(F2, m)
    /\ Recs(F2) = Recs(F) \cup ToSet(front)
    /\ Buffer(L, g) = ToSet(front) \cup ToSet(rest)
    /\ \A x \in ToSet(front), y \in ToSet(rest) : x < y
    /\ rest \in Seq(Records) /\ Ascending(rest, m) /\ Len(rest) \in Nat /\ Len(rest) <= m

\* What is known of a sequence of records.
LEMMA RecordsAreNumbers ==
    ASSUME NEW s \in Seq(Records)
    PROVE  s \in Seq(Nat) /\ Len(s) \in Nat /\ \A i \in 1 .. Len(s) : s[i] \in Records
BY BoundsAssumption DEF Records

\* What a part of a batch leaves in the file and in the buffer.
LEMMA BatchInFile ==
    ASSUME NEW L, NEW c, NEW o, NEW F, NEW n, NEW m, NEW S, StateOK(L, c, o, F, n, m, S),
           NEW p \in Owners, o[p].pc = "appending", NEW g, g = o[p].gen, torn \in BOOLEAN,
           NEW k, NEW front, NEW rest, NEW F2, BatchPut(L, F, o, p, g, k, front, rest, F2)
    PROVE  BatchHeld(L, F, g, front, rest, F2, m)
<1>0. /\ L \in [Generations -> LogState] /\ c \in Generations \cup {None}
      /\ o \in [Owners -> Owner] /\ F \in Seq(LineRecord)
      /\ n \in 0 .. MaxRewrites /\ m \in 0 .. MaxRecords /\ S \in Settlements
      /\ n \in Nat /\ m \in Nat
      /\ GenOK(L, c) /\ CreatedInOrder(L) /\ OthersAbsent(L) /\ EntryIsLast(L, c)
      /\ RetiredOnce(L) /\ ReadyOK(L)
      /\ ChainOK(L, o, n) /\ FreeIsFree(o) /\ PlacedOK(L, o, n) /\ PromiseOK(L, o)
      /\ Chained(o) /\ PriorOK(o) /\ AwaitsOK(L)
      /\ FailureOK(L, o) /\ EpochOK(L, o) /\ CountsOK(L, o, n, m) /\ BatchOK(L, o)
      /\ PassedOK(L, o) /\ QuietOK(L, o)
      /\ FileOK(F, m) /\ BuffersOK(L, m) /\ NewerOK(L, F) /\ CleanOK(L, o, F)
      /\ RewriteOK(L, o, F) /\ PromisedOK(L, o, F, S, m) /\ AckedOK(L, F, S, m)
      /\ NothingVanishes(L, F, S, m)
      BY Parts
<1>h. /\ k \in 0 .. o[p].batch
      /\ front = SubSeq(L[g].pending, 1, k)
      /\ rest = SubSeq(L[g].pending, k + 1, Len(L[g].pending))
      /\ F2 = F \o Written(front)
      BY DEF BatchPut
<1> USE <1>h
<1>1. Busy(o, p) /\ g \in Generations
      BY <1>0, BusyPlace DEF Busy
<1> DEFINE s == L[g].pending
<1>2. s \in Seq(Records) /\ Ascending(s, m)
      BY <1>0, <1>1, LogFields DEF BuffersOK
<1>3. s \in Seq(Nat) /\ Len(s) \in Nat /\ \A i \in 1 .. Len(s) : s[i] \in Records
      BY ONLY <1>2, RecordsAreNumbers
<1>4. k \in 0 .. Len(s)
  <2>1. o[p].batch \in 1 .. Len(s)
        BY <1>0, <1>2 DEF BatchOK
  <2>2. k \in 0 .. o[p].batch
        BY <1>h
  <2> QED BY ONLY <1>3, <2>1, <2>2
<1>5. Clean(L, F, g) /\ ~L[g].storageFailure
      BY <1>0 DEF CleanOK, FailureOK
<1> HIDE DEF s
<1>6. /\ front = SubSeq(s, 1, k) /\ rest = SubSeq(s, k + 1, Len(s)) /\ Buffer(L, g) = ToSet(s)
      BY DEF s, Buffer
<1>7. /\ Ascending(front, m) /\ rest \in Seq(Nat) /\ Ascending(rest, m)
      /\ ToSet(s) = ToSet(front) \cup ToSet(rest)
      /\ \A x \in ToSet(front), y \in ToSet(rest) : x < y
  <2>1. m \in Nat
        BY <1>0
  <2> QED BY ONLY <1>2, <1>3, <1>4, <1>6, <2>1, BatchPrecedes
<1>8. front \in Seq(Records) /\ rest \in Seq(Records)
  <2>1. front \in Seq(Records)
        BY ONLY <1>2, <1>3, <1>4, <1>6
  <2>2. rest \in Seq(Records)
        BY ONLY <1>2, <1>3, <1>4, <1>6
  <2> QED BY <2>1, <2>2
<1>9. \A x \in Recs(F), r \in ToSet(front) : x < r
  <2>1. \A r \in ToSet(front) : r \in Buffer(L, g) \ Recs(F)
        BY <1>5, <1>6, <1>7 DEF Clean
  <2> QED BY <1>0, <1>1, <1>5, <2>1 DEF NewerOK
<1>10. F2 \in Seq(LineRecord) /\ FileOK(F2, m) /\ Recs(F2) = Recs(F) \cup ToSet(front)
  <2>1. m \in Nat /\ F \in Seq(LineRecord) /\ FileOK(F, m)
        BY <1>0
  <2> QED BY ONLY <1>7, <1>8, <1>9, <2>1, torn \in BOOLEAN, F2 = F \o Written(front), FileGrows
<1>11. Len(rest) \in Nat /\ Len(rest) <= m
  <2>1. m \in Nat
        BY <1>0
  <2>2. Len(rest) \in Nat
        BY ONLY <1>8, RecordsAreNumbers
  <2> QED BY ONLY <1>7, <2>1, <2>2, AppendAscends
<1> QED BY <1>6, <1>7, <1>8, <1>10, <1>11 DEF BatchHeld

-----------------------------------------------------------------------------
(* The storage calls. *)

(* What an append leaves: A is the part of the batch that is in the file F2,   *)
(* rest the buffer without it.                                                 *)
BatchSplit(L, F, F2, g, A, rest, m) ==
    /\ F2 \in Seq(LineRecord) /\ FileOK(F2, m) /\ Recs(F2) = Recs(F) \cup A
    /\ Buffer(L, g) = A \cup ToSet(rest)
    /\ \A x \in A, y \in ToSet(rest) : x < y
    /\ rest \in Seq(Records) /\ Ascending(rest, m)

(* The batch leaves the buffer if the owner still has its generation. *)
AppendOutcome(L, L2, o, o2, p, rest, m) ==
    /\ \A h \in Generations :
         /\ h # o[p].gen => L2[h] = L[h]
         /\ L2[h].flushPromise = L[h].flushPromise /\ L2[h].cutoverEpoch = L[h].cutoverEpoch
         /\ L2[h].refCount = L[h].refCount /\ L2[h].retired = L[h].retired
         /\ L2[h].ready = L[h].ready /\ L2[h].retirement = L[h].retirement
         /\ L2[h].awaits = L[h].awaits
         /\ \/ L2[h].pending = L[h].pending
            \/ h = o[p].gen /\ L2[h].pending = rest /\ L[h].flushPromise = p
    /\ \A q \in Owners :
         /\ q # p => o2[q] = o[q]
         /\ o2[q].gen = o[q].gen /\ o2[q].prior = o[q].prior /\ o2[q].promised = o[q].promised
         /\ o2[q].epoch = o[q].epoch
    /\ o2[p].batch <= m /\ o2[p].pc \in {"done", "appending", "failed"}
    /\ L2[o[p].gen].storageFailure <=> o2[p].pc = "failed"
    /\ o2[p].pc = "done" /\ L[o[p].gen].flushPromise = p => L2[o[p].gen].pending = rest
    /\ o2[p].pc = "appending" =>
           L2[o[p].gen].pending = rest /\ o2[p].batch \in 1 .. Len(rest)

\* An append returns: a part of its batch is in the file, and the batch leaves
\* the buffer if the owner still has its generation.
LEMMA AppendEnds ==
    ASSUME NEW L, NEW c, NEW o, NEW F, NEW n, NEW m, NEW S, StateOK(L, c, o, F, n, m, S),
           NEW p \in Owners, o[p].pc = "appending", NEW g, g = o[p].gen,
           NEW F2, NEW A, NEW rest, BatchSplit(L, F, F2, g, A, rest, m),
           NEW L2 \in [Generations -> LogState], NEW o2 \in [Owners -> Owner],
           AppendOutcome(L, L2, o, o2, p, rest, m)
    PROVE  StateOK(L2, c, o2, F2, n, m, S)
<1>0. /\ L \in [Generations -> LogState] /\ c \in Generations \cup {None}
      /\ o \in [Owners -> Owner] /\ F \in Seq(LineRecord)
      /\ n \in 0 .. MaxRewrites /\ m \in 0 .. MaxRecords /\ S \in Settlements
      /\ n \in Nat /\ m \in Nat
      /\ GenOK(L, c) /\ CreatedInOrder(L) /\ OthersAbsent(L) /\ EntryIsLast(L, c)
      /\ RetiredOnce(L) /\ ReadyOK(L)
      /\ ChainOK(L, o, n) /\ FreeIsFree(o) /\ PlacedOK(L, o, n) /\ PromiseOK(L, o)
      /\ Chained(o) /\ PriorOK(o) /\ AwaitsOK(L)
      /\ FailureOK(L, o) /\ EpochOK(L, o) /\ CountsOK(L, o, n, m) /\ BatchOK(L, o)
      /\ PassedOK(L, o) /\ QuietOK(L, o)
      /\ FileOK(F, m) /\ BuffersOK(L, m) /\ NewerOK(L, F) /\ CleanOK(L, o, F)
      /\ RewriteOK(L, o, F) /\ PromisedOK(L, o, F, S, m) /\ AckedOK(L, F, S, m)
      /\ NothingVanishes(L, F, S, m)
      BY Parts
<1>1. /\ g \in Generations /\ Passed(L, g) /\ ~Quiet(L, g)
      /\ L[g].flushPromise # None /\ o[p].prior = None
      /\ \A q \in Owners : Busy(o, q) /\ q # p /\ o[q].gen = g => q > p /\ o[q].pc = "prior"
      /\ \A q \in Owners : Busy(o, q) /\ o[q].gen < g => o[q].pc \in {"ready", "done"}
      /\ \A q \in Owners : Busy(o, q) /\ o[q].gen > g => o[q].pc \in {"prior", "ready"}
      /\ \A h \in Generations : h < g => Quiet(L, h) /\ (Buffer(L, h) = {} \/ L[h].storageFailure)
      BY ONLY StateOK(L, c, o, F, n, m, S), p \in Owners, o[p].pc = "appending", g = o[p].gen,
              WriterAlone
<1>2. /\ F2 \in Seq(LineRecord) /\ FileOK(F2, m) /\ Recs(F2) = Recs(F) \cup A
      /\ Buffer(L, g) = A \cup ToSet(rest)
      /\ \A x \in A, y \in ToSet(rest) : x < y
      /\ rest \in Seq(Records) /\ Ascending(rest, m)
      BY DEF BatchSplit
<1>a. /\ \A h \in Generations : h # g => L2[h] = L[h]
      /\ \A h \in Generations :
          /\ L2[h].flushPromise = L[h].flushPromise /\ L2[h].cutoverEpoch = L[h].cutoverEpoch
          /\ L2[h].refCount = L[h].refCount /\ L2[h].retired = L[h].retired
          /\ L2[h].ready = L[h].ready /\ L2[h].retirement = L[h].retirement
          /\ L2[h].awaits = L[h].awaits
      /\ L2[g].pending = L[g].pending \/ (L2[g].pending = rest /\ L[g].flushPromise = p)
      BY <1>1 DEF AppendOutcome
<1>b. /\ \A q \in Owners : q # p => o2[q] = o[q]
      /\ \A q \in Owners :
          /\ o2[q].gen = o[q].gen /\ o2[q].prior = o[q].prior
          /\ o2[q].promised = o[q].promised /\ o2[q].epoch = o[q].epoch
      BY DEF AppendOutcome
<1>c. /\ o2[p].batch <= m /\ o2[p].pc \in {"done", "appending", "failed"}
      /\ L2[g].storageFailure <=> o2[p].pc = "failed"
      /\ o2[p].pc = "done" /\ L[g].flushPromise = p => L2[g].pending = rest
      /\ o2[p].pc = "appending" => L2[g].pending = rest /\ o2[p].batch \in 1 .. Len(rest)
      BY DEF AppendOutcome
<1>3. \A q \in Owners : Busy(o, q) => o[q].gen \in Generations
      BY <1>a, <1>b, <1>c, <1>0, BusyPlace
<1>4. /\ \A h \in Generations : Quiet(L2, h) <=> Quiet(L, h)
      /\ \A h \in Generations : h # g => Buffer(L2, h) = Buffer(L, h)
      /\ Buffer(L2, g) = Buffer(L, g) \/ Buffer(L2, g) = ToSet(rest)
      BY <1>a, <1>b, <1>c DEF Quiet, Buffer
<1>5. \A h \in Generations : Buffer(L2, h) \subseteq Buffer(L, h)
      BY <1>a, <1>b, <1>c, <1>2, <1>4
<1>6. \A q \in Owners : Busy(o2, q) <=> Busy(o, q)
      BY <1>a, <1>b, <1>c DEF Busy
<1>7. SameLives(L, L2)
  <2>1. ExistsIn(L, g)
        BY <1>a, <1>b, <1>c, <1>0, <1>3, BusyPlace DEF Busy
  <2> QED BY <1>a, <1>b, <1>c, <1>0, <2>1 DEF SameLives, RetiredOnce
<1>8. /\ GenOK(L2, c)
      /\ \A h \in Generations : (ExistsIn(L2, h) <=> ExistsIn(L, h)) /\ (Passed(L2, h) <=> Passed(L, h))
      BY <1>a, <1>b, <1>c, <1>0, <1>7, LivesKept
<1>9. ChainOK(L2, o2, n)
  <2>1. AwaitsOK(L2)
        BY <1>a, <1>b, <1>c, <1>0 DEF AwaitsOK
  <2>2. SameChains(L, L2, o, o2)
        BY <1>a, <1>b, <1>c, <1>0, <1>1, <1>6, <1>8 DEF SameChains, Busy
  <2> QED BY <1>a, <1>b, <1>c, <1>0, <2>1, <2>2, ChainsKept
<1>10. Busy(o, p) /\ ~L[g].storageFailure
       BY <1>a, <1>b, <1>c, <1>0 DEF Busy, FailureOK
<1>11. \A q \in Owners : Busy(o, q) /\ q # p /\ o[q].gen # g => L2[o2[q].gen] = L[o[q].gen] /\ o2[q] = o[q]
       BY <1>a, <1>b, <1>c, <1>3
<1>12. PhaseOK(L2, o2, n, m)
  <2>1. FailureOK(L2, o2)
    <3> SUFFICES ASSUME NEW q \in Owners
                 PROVE  /\ o2[q].pc \in {"ready", "appending", "done"} => ~L2[o2[q].gen].storageFailure
                        /\ o2[q].pc = "failed" => L2[o2[q].gen].storageFailure
        BY <1>a, <1>b, <1>c DEF FailureOK
    <3>1. CASE q = p
          BY <1>a, <1>b, <1>c, <3>1
    <3>2. CASE q # p /\ o[q].gen = g
          BY <1>a, <1>b, <1>c, <1>1, <3>2 DEF Busy
    <3>3. CASE q # p /\ o[q].gen # g
          BY <1>a, <1>b, <1>c, <1>0, <1>11, <3>3 DEF FailureOK, Busy
    <3> QED BY <1>a, <1>b, <1>c, <3>1, <3>2, <3>3
  <2>2. EpochOK(L2, o2)
    <3> SUFFICES ASSUME NEW q \in Owners, o2[q].pc \in {"ready", "appending"}
                 PROVE  /\ o2[q].epoch <= L2[o2[q].gen].cutoverEpoch
                        /\ o2[q].epoch = L2[o2[q].gen].cutoverEpoch <=> L2[o2[q].gen].flushPromise = q
        BY <1>a, <1>b, <1>c DEF EpochOK
    <3>1. o2[q].gen = o[q].gen /\ o2[q].epoch = o[q].epoch /\ o[q].pc \in {"ready", "appending"}
          BY <1>a, <1>b, <1>c
    <3>2. o[q].gen \in Generations
          BY <1>a, <1>b, <1>c, <1>3, <3>1 DEF Busy
    <3>3. /\ L2[o[q].gen].cutoverEpoch = L[o[q].gen].cutoverEpoch
          /\ L2[o[q].gen].flushPromise = L[o[q].gen].flushPromise
          BY <1>a, <1>b, <1>c, <3>2
    <3> QED BY <1>a, <1>b, <1>c, <1>0, <3>1, <3>3 DEF EpochOK
  <2>3. CountsOK(L2, o2, n, m)
    <3>1. \A q \in Owners : o2[q].epoch <= n /\ o2[q].batch <= m
          BY <1>a, <1>b, <1>c, <1>0 DEF CountsOK
    <3>2. \A h \in Generations : L2[h].cutoverEpoch <= n
          BY <1>a, <1>b, <1>c, <1>0 DEF CountsOK
    <3> QED BY <1>a, <1>b, <1>c, <3>1, <3>2 DEF CountsOK
  <2>4. BatchOK(L2, o2)
    <3> SUFFICES ASSUME NEW q \in Owners, o2[q].pc = "appending"
                 PROVE  o2[q].batch \in 1 .. Len(L2[o2[q].gen].pending)
        BY <1>a, <1>b, <1>c DEF BatchOK
    <3>1. CASE q = p
          BY <1>a, <1>b, <1>c, <3>1
    <3>2. CASE q # p /\ o[q].gen = g
          BY <1>a, <1>b, <1>c, <1>1, <3>2 DEF Busy
    <3>3. CASE q # p /\ o[q].gen # g
          BY <1>a, <1>b, <1>c, <1>0, <1>11, <3>3 DEF BatchOK, Busy
    <3> QED BY <1>a, <1>b, <1>c, <3>1, <3>2, <3>3
  <2> QED BY <1>a, <1>b, <1>c, <2>1, <2>2, <2>3, <2>4 DEF PhaseOK
<1>13. PassedOK(L2, o2)
  <2>1. \A q \in Owners : o2[q].pc \notin {"free", "prior", "ready"} => Passed(L2, o2[q].gen)
        BY <1>a, <1>b, <1>c, <1>0, <1>1, <1>3, <1>8 DEF PassedOK, Busy
  <2>2. ASSUME NEW h \in Generations, Quiet(L2, h) \/ L2[h].storageFailure
        PROVE  Passed(L2, h)
    <3>1. CASE h = g
          BY <1>a, <1>b, <1>c, <1>1, <1>8, <3>1
    <3>2. CASE h # g
          BY <1>a, <1>b, <1>c, <1>0, <1>4, <1>8, <2>2, <3>2 DEF PassedOK
    <3> QED BY <1>a, <1>b, <1>c, <3>1, <3>2
  <2> QED BY <1>a, <1>b, <1>c, <2>1, <2>2 DEF PassedOK
<1>14. QuietOK(L2, o2)
  <2>1. \A h \in Generations : Quiet(L2, h) => L2[h].pending = <<>> \/ L2[h].storageFailure
        BY <1>a, <1>b, <1>c, <1>0, <1>1, <1>4 DEF QuietOK
  <2>2. ASSUME NEW q \in Owners, Busy(o2, q), Quiet(L2, o2[q].gen)
        PROVE  o2[q].pc \in {"ready", "done"}
    <3>1. Busy(o, q) /\ o[q].gen \in Generations /\ o2[q].gen = o[q].gen
          BY <1>a, <1>b, <1>c, <1>3, <1>6, <2>2
    <3>2. Quiet(L, o[q].gen) /\ q # p
          BY <1>a, <1>b, <1>c, <1>1, <1>4, <2>2, <3>1
    <3> QED BY <1>a, <1>b, <1>c, <1>0, <3>1, <3>2 DEF QuietOK
  <2> QED BY <1>a, <1>b, <1>c, <2>1, <2>2 DEF QuietOK
<1>15. \A h \in Generations : h > g => \A x \in A, r \in Buffer(L, h) : x < r
       BY <1>a, <1>b, <1>c, <1>0, <1>1, <1>2, Bounds DEF BuffersOK
<1>16. ContentOK(L2, o2, F2, m)
  <2>1. BuffersOK(L2, m)
    <3>1. \A h \in Generations : Ascending(L2[h].pending, m)
          BY <1>a, <1>b, <1>c, <1>0, <1>2 DEF BuffersOK
    <3>2. ASSUME NEW h \in Generations, NEW j \in Generations, h < j,
                 NEW r \in Buffer(L2, h), NEW x \in Buffer(L2, j)
          PROVE  r < x
          BY <1>a, <1>b, <1>c, <1>0, <1>5, <3>2 DEF BuffersOK
    <3> QED BY <1>a, <1>b, <1>c, <3>1, <3>2 DEF BuffersOK
  <2>2. NewerOK(L2, F2)
    <3> SUFFICES ASSUME NEW h \in Generations, ~L2[h].storageFailure,
                        NEW r \in Buffer(L2, h) \ Recs(F2), NEW x \in Recs(F2)
                 PROVE  x < r
        BY <1>a, <1>b, <1>c DEF NewerOK
    <3>1. r \in Buffer(L, h) \ Recs(F) /\ (x \in Recs(F) \/ x \in A)
          BY <1>a, <1>b, <1>c, <1>2, <1>5
    <3>2. ~L[h].storageFailure
          BY <1>a, <1>b, <1>c, <1>10
    <3>3. CASE x \in Recs(F)
          BY <1>a, <1>b, <1>c, <1>0, <3>1, <3>2, <3>3 DEF NewerOK
    <3>4. CASE x \in A
      <4>1. CASE h = g
        <5>1. r \in ToSet(rest)
              BY <1>a, <1>b, <1>c, <1>2, <3>1, <4>1
        <5> QED BY <1>a, <1>b, <1>c, <1>2, <3>4, <5>1
      <4>2. CASE h # g
        <5>1. ~(h < g)
              BY <1>a, <1>b, <1>c, <1>1, <3>1, <3>2
        <5>2. h > g
              BY <1>a, <1>b, <1>c, <1>1, <4>2, <5>1, Bounds
        <5> QED BY <1>a, <1>b, <1>c, <1>15, <3>1, <3>4, <5>2
      <4> QED BY <1>a, <1>b, <1>c, <4>1, <4>2
    <3> QED BY <1>a, <1>b, <1>c, <3>1, <3>3, <3>4
  <2>3. ASSUME NEW h \in Generations, h # g, Clean(L, F, h) \/ h < g, ~L[h].storageFailure
        PROVE  Clean(L2, F2, h)
    <3>1. CASE h < g
          BY <1>a, <1>b, <1>c, <1>1, <1>4, <2>3, <3>1 DEF Clean
    <3>2. CASE ~(h < g)
      <4>1. h > g /\ Clean(L, F, h)
            BY <1>a, <1>b, <1>c, <1>1, <2>3, <3>2, Bounds
      <4>2. \A x \in A : x \notin Buffer(L, h)
        <5>1. \A x \in Buffer(L, h) : x \in Nat
              BY <1>a, <1>b, <1>c, <1>0, BufferRange
        <5> QED BY <1>a, <1>b, <1>c, <1>15, <4>1, <5>1
      <4> QED BY <1>a, <1>b, <1>c, <1>2, <1>4, <2>3, <4>1, <4>2 DEF Clean
    <3> QED BY <1>a, <1>b, <1>c, <3>1, <3>2
  <2>4. ASSUME L2[g].pending = rest
        PROVE  Clean(L2, F2, g)
    <3>1. Clean(L, F, g) /\ Buffer(L2, g) = ToSet(rest)
          BY <1>a, <1>b, <1>c, <1>0, <2>4 DEF CleanOK, Buffer
    <3>2. \A x \in A : x \notin ToSet(rest)
      <4>1. \A x \in ToSet(rest) : x \in Nat
            BY <1>a, <1>b, <1>c, <1>0, <1>1, <1>2, BufferRange
      <4> QED BY <1>a, <1>b, <1>c, <1>2, <4>1
    <3> QED BY <1>a, <1>b, <1>c, <1>2, <3>1, <3>2 DEF Clean
  <2>5. CleanOK(L2, o2, F2)
    <3>1. ASSUME NEW h \in Generations, L2[h].flushPromise = None, ~L2[h].storageFailure
          PROVE  Clean(L2, F2, h)
      <4>1. h # g
            BY <1>a, <1>b, <1>c, <1>1, <3>1
      <4>2. Clean(L, F, h) /\ ~L[h].storageFailure
            BY <1>a, <1>b, <1>c, <1>0, <3>1, <4>1 DEF CleanOK
      <4> QED BY <1>a, <1>b, <1>c, <2>3, <4>1, <4>2
    <3>2. ASSUME NEW q \in Owners, o2[q].pc \in {"ready", "done"}, L2[o2[q].gen].flushPromise = q
          PROVE  Clean(L2, F2, o2[q].gen)
      <4>1. CASE q = p
        <5>1. o2[p].pc = "done" /\ o2[p].gen = g /\ L[g].flushPromise = p
              BY <1>a, <1>b, <1>c, <1>1, <3>2, <4>1
        <5>2. L2[g].pending = rest
              BY <1>c, <5>1
        <5> QED BY <2>4, <4>1, <5>1, <5>2
      <4>2. CASE q # p
        <5>1. Busy(o, q) /\ o2[q] = o[q] /\ o[q].gen \in Generations
              BY <1>a, <1>b, <1>c, <1>3, <3>2, <4>2 DEF Busy
        <5>2. o[q].gen # g
              BY <1>a, <1>b, <1>c, <1>1, <3>2, <4>2, <5>1
        <5>3. Clean(L, F, o[q].gen) /\ ~L[o[q].gen].storageFailure
              BY <1>a, <1>b, <1>c, <1>0, <3>2, <5>1, <5>2 DEF CleanOK, FailureOK
        <5> QED BY <1>a, <1>b, <1>c, <2>3, <5>1, <5>2, <5>3
      <4> QED BY <1>a, <1>b, <1>c, <4>1, <4>2
    <3>3. ASSUME NEW q \in Owners, o2[q].pc = "appending"
          PROVE  Clean(L2, F2, o2[q].gen)
      <4>1. CASE q = p
            BY <1>a, <1>b, <1>c, <2>4, <3>3, <4>1
      <4>2. CASE q # p
        <5>1. Busy(o, q) /\ o2[q] = o[q] /\ o[q].gen \in Generations
              BY <1>a, <1>b, <1>c, <1>3, <3>3, <4>2 DEF Busy
        <5>2. o[q].gen < g \/ o[q].gen = g \/ o[q].gen > g
          <6>1. o[q].gen \in Nat /\ g \in Nat
                BY <1>1, <5>1, Bounds
          <6> QED BY <6>1
        <5> QED BY <1>1, <3>3, <4>2, <5>1, <5>2
      <4> QED BY <1>a, <1>b, <1>c, <4>1, <4>2
    <3> QED BY <1>a, <1>b, <1>c, <3>1, <3>2, <3>3 DEF CleanOK
  <2> QED BY <1>a, <1>b, <1>c, <1>2, <2>1, <2>2, <2>5 DEF ContentOK
<1>17. Kept(F, S) \subseteq Kept(F2, S) /\ \A h \in Generations : Buffer(L, h) \subseteq Kept(F2, S) \cup Buffer(L2, h)
       BY <1>a, <1>b, <1>c, <1>2, <1>4 DEF Kept
<1>18. CallerOK(L2, o2, F2, S, m)
  <2>1. RewriteOK(L2, o2, F2)
    <3> SUFFICES ASSUME NEW q \in Owners, o2[q].pc \in {"prior", "writing"}
                 PROVE  /\ Recs(F2) \subseteq {Replacement} \cup o2[q].covered \cup o2[q].foreign
                                                 \cup Buffer(L2, o2[q].gen)
                        /\ \A h \in Generations : h < o2[q].gen /\ ~Quiet(L2, h) => Buffer(L2, h) \subseteq o2[q].foreign
        BY <1>a, <1>b, <1>c DEF RewriteOK
    <3>1. q # p /\ o2[q] = o[q] /\ Busy(o, q) /\ o[q].gen \in Generations
          BY <1>a, <1>b, <1>c, <1>3 DEF Busy
    <3>2. /\ Recs(F) \subseteq {Replacement} \cup o[q].covered \cup o[q].foreign
                                \cup Buffer(L, o[q].gen)
          /\ \A h \in Generations : h < o[q].gen /\ ~Quiet(L, h) => Buffer(L, h) \subseteq o[q].foreign
          BY <1>a, <1>b, <1>c, <1>0, <3>1 DEF RewriteOK
    <3>3. \A h \in Generations : h < o[q].gen /\ ~Quiet(L2, h) => Buffer(L2, h) \subseteq o[q].foreign
          BY <1>a, <1>b, <1>c, <1>4, <1>5, <3>2
    <3>4. CASE o[q].gen = g
      <4>1. q > p /\ q <= L[g].flushPromise
        <5>1. q > p
              BY <1>1, <3>1, <3>4
        <5>2. q <= L[o[q].gen].flushPromise
              BY <1>0, <3>1 DEF PlacedOK
        <5> QED BY <3>4, <5>1, <5>2
      <4>2. L[g].flushPromise # p
            BY <1>a, <1>b, <1>c, <4>1, Bounds
      <4>3. Buffer(L2, g) = Buffer(L, g)
            BY <1>a, <1>b, <1>c, <4>2 DEF Buffer
      <4>4. Recs(F2) \subseteq {Replacement} \cup o[q].covered \cup o[q].foreign \cup Buffer(L2, g)
            BY <1>a, <1>b, <1>c, <1>2, <3>2, <3>4, <4>3
      <4> QED BY <1>a, <1>b, <1>c, <3>1, <3>3, <3>4, <4>4
    <3>5. CASE o[q].gen # g
      <4>1. o[q].gen > g /\ g < o[q].gen
            BY <1>a, <1>b, <1>c, <1>1, <3>1, <3>5, Bounds
      <4>2. A \subseteq o[q].foreign
            BY <1>a, <1>b, <1>c, <1>1, <1>2, <3>2, <4>1
      <4>3. Buffer(L2, o[q].gen) = Buffer(L, o[q].gen)
            BY <1>a, <1>b, <1>c, <1>4, <3>1, <3>5
      <4>4. Recs(F2) \subseteq {Replacement} \cup o[q].covered \cup o[q].foreign \cup Buffer(L2, o[q].gen)
            BY <1>a, <1>b, <1>c, <1>2, <3>2, <4>2, <4>3
      <4> QED BY <1>a, <1>b, <1>c, <3>1, <3>3, <4>4
    <3> QED BY <1>a, <1>b, <1>c, <3>4, <3>5
  <2>2. PromisedOK(L2, o2, F2, S, m)
    <3> SUFFICES ASSUME NEW q \in Owners
                 PROVE  /\ Busy(o2, q) => o2[q].promised \subseteq Kept(F2, S) \cup Buffer(L2, o2[q].gen)
                        /\ o2[q].promised \subseteq 1 .. m
                        /\ \A h \in Generations : h # o2[q].gen => o2[q].promised \cap Buffer(L2, h) = {}
        BY <1>a, <1>b, <1>c DEF PromisedOK
    <3>1. o2[q].promised = o[q].promised /\ o2[q].gen = o[q].gen
          BY <1>a, <1>b, <1>c
    <3>2. /\ Busy(o, q) => o[q].promised \subseteq Kept(F, S) \cup Buffer(L, o[q].gen)
          /\ o[q].promised \subseteq 1 .. m
          /\ \A h \in Generations : h # o[q].gen => o[q].promised \cap Buffer(L, h) = {}
          BY <1>a, <1>b, <1>c, <1>0 DEF PromisedOK
    <3>3. Busy(o2, q) => o[q].promised \subseteq Kept(F2, S) \cup Buffer(L2, o[q].gen)
          BY <1>a, <1>b, <1>c, <1>3, <1>6, <1>17, <3>2
    <3>4. \A h \in Generations : h # o[q].gen => o[q].promised \cap Buffer(L2, h) = {}
          BY <1>a, <1>b, <1>c, <1>5, <3>2
    <3> QED BY <1>a, <1>b, <1>c, <3>1, <3>2, <3>3, <3>4
  <2>3. AckedOK(L2, F2, S, m)
        BY <1>a, <1>b, <1>c, <1>0, <1>5, <1>17 DEF AckedOK
  <2>4. NothingVanishes(L2, F2, S, m)
    <3> SUFFICES ASSUME NEW r \in 1 .. m
                 PROVE  r \in Kept(F2, S) \cup S.lost \cup UNION {Buffer(L2, h) : h \in Generations}
        BY <1>a, <1>b, <1>c DEF NothingVanishes
    <3>1. r \in Kept(F, S) \cup S.lost \/ \E h \in Generations : r \in Buffer(L, h)
          BY <1>a, <1>b, <1>c, <1>0 DEF NothingVanishes
    <3> QED BY <1>a, <1>b, <1>c, <1>17, <3>1
  <2> QED BY <1>a, <1>b, <1>c, <2>1, <2>2, <2>3, <2>4 DEF CallerOK
<1> QED BY <1>a, <1>b, <1>c, <1>0, <1>2, <1>8, <1>9, <1>12, <1>13, <1>14, <1>16, <1>18 DEF StateOK, Shapes

(* What the rename of the atomic write makes of the file and the settlements. *)
FileReplaced(F, F2, S, S2, covered, foreign) ==
    /\ F2 = <<Line(Replacement, TRUE)>>
    /\ S2 = [S EXCEPT !.superseded = @ \cup covered, !.overrun = @ \cup (foreign \cap Recs(F))]

(* A replaced record is accounted for, or still buffered behind the rewrite. *)
ReplacedOK(L, g, F, F2, m, S, S2) ==
    /\ F2 \in Seq(LineRecord) /\ FileOK(F2, m) /\ Recs(F2) = {Replacement}
    /\ S2 \in Settlements /\ S2.acked = S.acked /\ S2.lost = S.lost
    /\ \A r \in Kept(F, S) : r \in 1 .. m => r \in Kept(F2, S2) \cup Buffer(L, g)

\* What a rewrite replaces is accounted for.
LEMMA ReplacementKeeps ==
    ASSUME NEW L, NEW c, NEW o, NEW F, NEW n, NEW m, NEW S, StateOK(L, c, o, F, n, m, S),
           NEW p \in Owners, o[p].pc = "writing", NEW g, g = o[p].gen,
           NEW F2, NEW S2, FileReplaced(F, F2, S, S2, o[p].covered, o[p].foreign)
    PROVE  ReplacedOK(L, g, F, F2, m, S, S2)
<1>0. /\ L \in [Generations -> LogState] /\ c \in Generations \cup {None}
      /\ o \in [Owners -> Owner] /\ F \in Seq(LineRecord)
      /\ n \in 0 .. MaxRewrites /\ m \in 0 .. MaxRecords /\ S \in Settlements
      /\ n \in Nat /\ m \in Nat
      /\ GenOK(L, c) /\ CreatedInOrder(L) /\ OthersAbsent(L) /\ EntryIsLast(L, c)
      /\ RetiredOnce(L) /\ ReadyOK(L)
      /\ ChainOK(L, o, n) /\ FreeIsFree(o) /\ PlacedOK(L, o, n) /\ PromiseOK(L, o)
      /\ Chained(o) /\ PriorOK(o) /\ AwaitsOK(L)
      /\ FailureOK(L, o) /\ EpochOK(L, o) /\ CountsOK(L, o, n, m) /\ BatchOK(L, o)
      /\ PassedOK(L, o) /\ QuietOK(L, o)
      /\ FileOK(F, m) /\ BuffersOK(L, m) /\ NewerOK(L, F) /\ CleanOK(L, o, F)
      /\ RewriteOK(L, o, F) /\ PromisedOK(L, o, F, S, m) /\ AckedOK(L, F, S, m)
      /\ NothingVanishes(L, F, S, m)
      BY Parts
<1>1. /\ F2 = <<Line(Replacement, TRUE)>>
      /\ S2 = [S EXCEPT !.superseded = S.superseded \cup o[p].covered,
                        !.overrun = S.overrun \cup (o[p].foreign \cap Recs(F))]
      BY DEF FileReplaced
<1>2. /\ S \in Settlements /\ S.superseded \subseteq Nat /\ S.overrun \subseteq Nat
      /\ o[p].covered \subseteq Nat /\ o[p].foreign \subseteq Nat
      BY <1>0, OwnerFields DEF Settlements
<1>3. /\ S2 \in Settlements /\ S2.acked = S.acked /\ S2.lost = S.lost
      /\ S2.superseded = S.superseded \cup o[p].covered
      /\ S2.overrun = S.overrun \cup (o[p].foreign \cap Recs(F))
  <2>1. PICK A, B : /\ A = S.superseded \cup o[p].covered
                    /\ B = S.overrun \cup (o[p].foreign \cap Recs(F))
        OBVIOUS
  <2>2. A \in SUBSET Nat /\ B \in SUBSET Nat /\ S2 = [S EXCEPT !.superseded = A, !.overrun = B]
        BY <1>1, <1>2, <2>1
  <2>3. /\ S2 \in Settlements /\ S2.acked = S.acked /\ S2.lost = S.lost
        /\ S2.superseded = A /\ S2.overrun = B
        BY ONLY <1>2, <2>2 DEF Settlements
  <2> QED BY <2>1, <2>3
<1>4. Line(Replacement, TRUE) \in LineRecord /\ Line(Replacement, TRUE).rec = Replacement
      BY DEF Line, LineRecord
<1>5. F2 \in Seq(LineRecord) /\ DOMAIN F2 = {1} /\ F2[1].rec = Replacement
  <2>1. PICK x \in LineRecord : x = Line(Replacement, TRUE)
        BY <1>4
  <2>2. F2 = <<x>>
        BY <1>1, <2>1
  <2>3. F2 \in Seq(LineRecord) /\ DOMAIN F2 = {1} /\ F2[1] = x
        BY ONLY <2>2, x \in LineRecord
  <2> QED BY <1>4, <2>1, <2>3
<1>6. FileOK(F2, m)
  <2>1. Replacement <= m
        BY <1>0 DEF Replacement
  <2> QED BY <1>5, <2>1 DEF FileOK
<1>7. Recs(F2) = {Replacement}
      BY <1>5 DEF Recs
<1>8. Recs(F) \subseteq {Replacement} \cup o[p].covered \cup o[p].foreign \cup Buffer(L, g)
      BY <1>0 DEF RewriteOK
<1>9. ASSUME NEW r \in Kept(F, S), r \in 1 .. m
      PROVE  r \in Kept(F2, S2) \cup Buffer(L, g)
  <2>1. r # Replacement
        BY <1>0, <1>9 DEF Replacement
  <2>2. CASE r \in S.superseded \cup S.overrun
        BY <1>3, <2>2 DEF Kept
  <2>3. CASE r \in Recs(F)
        BY <1>3, <1>8, <2>1, <2>3 DEF Kept
  <2> QED BY <1>9, <2>2, <2>3 DEF Kept
<1> QED BY <1>3, <1>5, <1>6, <1>7, <1>9 DEF ReplacedOK

(* The generation and the owner after the write; it may fail after the rename. *)
WriteOutcome(L, L2, o, o2, p) ==
    /\ \A h \in Generations :
         /\ h # o[p].gen => L2[h] = L[h]
         /\ L2[h].pending = L[h].pending
         /\ L2[h].flushPromise = L[h].flushPromise /\ L2[h].cutoverEpoch = L[h].cutoverEpoch
         /\ L2[h].refCount = L[h].refCount /\ L2[h].retired = L[h].retired
         /\ L2[h].ready = L[h].ready /\ L2[h].retirement = L[h].retirement
         /\ L2[h].awaits = L[h].awaits
    /\ \A q \in Owners :
         /\ q # p => o2[q] = o[q]
         /\ o2[q].gen = o[q].gen /\ o2[q].prior = o[q].prior /\ o2[q].promised = o[q].promised
         /\ o2[q].epoch = o[q].epoch /\ o2[q].batch = o[q].batch
    /\ o2[p].pc \in {"done", "failed"}
    /\ L2[o[p].gen].storageFailure <=> o2[p].pc = "failed"

\* The write of a rewrite returns; if it fails it may have replaced the file.
LEMMA WriteEnds ==
    ASSUME NEW L, NEW c, NEW o, NEW F, NEW n, NEW m, NEW S, StateOK(L, c, o, F, n, m, S),
           NEW p \in Owners, o[p].pc = "writing", NEW g, g = o[p].gen,
           NEW L2 \in [Generations -> LogState], NEW o2 \in [Owners -> Owner],
           WriteOutcome(L, L2, o, o2, p),
           NEW F2, NEW S2,
           \/ FileReplaced(F, F2, S, S2, o[p].covered, o[p].foreign)
           \/ F2 = F /\ S2 = S /\ o2[p].pc = "failed"
    PROVE  StateOK(L2, c, o2, F2, n, m, S2)
<1>0. /\ L \in [Generations -> LogState] /\ c \in Generations \cup {None}
      /\ o \in [Owners -> Owner] /\ F \in Seq(LineRecord)
      /\ n \in 0 .. MaxRewrites /\ m \in 0 .. MaxRecords /\ S \in Settlements
      /\ n \in Nat /\ m \in Nat
      /\ GenOK(L, c) /\ CreatedInOrder(L) /\ OthersAbsent(L) /\ EntryIsLast(L, c)
      /\ RetiredOnce(L) /\ ReadyOK(L)
      /\ ChainOK(L, o, n) /\ FreeIsFree(o) /\ PlacedOK(L, o, n) /\ PromiseOK(L, o)
      /\ Chained(o) /\ PriorOK(o) /\ AwaitsOK(L)
      /\ FailureOK(L, o) /\ EpochOK(L, o) /\ CountsOK(L, o, n, m) /\ BatchOK(L, o)
      /\ PassedOK(L, o) /\ QuietOK(L, o)
      /\ FileOK(F, m) /\ BuffersOK(L, m) /\ NewerOK(L, F) /\ CleanOK(L, o, F)
      /\ RewriteOK(L, o, F) /\ PromisedOK(L, o, F, S, m) /\ AckedOK(L, F, S, m)
      /\ NothingVanishes(L, F, S, m)
      BY Parts
<1>1. /\ g \in Generations /\ Passed(L, g) /\ ~Quiet(L, g)
      /\ L[g].flushPromise # None /\ o[p].prior = None
      /\ \A q \in Owners : Busy(o, q) /\ q # p /\ o[q].gen = g => q > p /\ o[q].pc = "prior"
      /\ \A q \in Owners : Busy(o, q) /\ o[q].gen < g => o[q].pc \in {"ready", "done"}
      /\ \A q \in Owners : Busy(o, q) /\ o[q].gen > g => o[q].pc \in {"prior", "ready"}
      /\ \A h \in Generations : h < g => Quiet(L, h) /\ (Buffer(L, h) = {} \/ L[h].storageFailure)
      BY ONLY StateOK(L, c, o, F, n, m, S), p \in Owners, o[p].pc = "writing", g = o[p].gen,
              WriterAlone
<1>2. /\ \A h \in Generations : h # g => L2[h] = L[h]
      /\ \A h \in Generations :
          /\ L2[h].pending = L[h].pending
          /\ L2[h].flushPromise = L[h].flushPromise /\ L2[h].cutoverEpoch = L[h].cutoverEpoch
          /\ L2[h].refCount = L[h].refCount /\ L2[h].retired = L[h].retired
          /\ L2[h].ready = L[h].ready /\ L2[h].retirement = L[h].retirement
          /\ L2[h].awaits = L[h].awaits
      /\ \A q \in Owners : q # p => o2[q] = o[q]
      /\ \A q \in Owners :
          /\ o2[q].gen = o[q].gen /\ o2[q].prior = o[q].prior /\ o2[q].promised = o[q].promised
          /\ o2[q].epoch = o[q].epoch /\ o2[q].batch = o[q].batch
      /\ o2[p].pc \in {"done", "failed"}
      /\ L2[g].storageFailure <=> o2[p].pc = "failed"
      BY <1>1 DEF WriteOutcome
<1>3. /\ F2 \in Seq(LineRecord) /\ FileOK(F2, m) /\ S2 \in Settlements
      /\ S2.acked = S.acked /\ S2.lost = S.lost
      /\ \A r \in Kept(F, S) : r \in 1 .. m => r \in Kept(F2, S2) \cup Buffer(L, g)
      /\ Recs(F2) = {Replacement} \/ (F2 = F /\ o2[p].pc = "failed")
  <2>1. CASE FileReplaced(F, F2, S, S2, o[p].covered, o[p].foreign)
    <3>1. ReplacedOK(L, g, F, F2, m, S, S2)
          BY ONLY StateOK(L, c, o, F, n, m, S), p \in Owners, o[p].pc = "writing", g = o[p].gen,
                  <2>1, ReplacementKeeps
    <3> QED BY <3>1 DEF ReplacedOK
  <2>2. CASE F2 = F /\ S2 = S /\ o2[p].pc = "failed"
        BY <1>0, <2>2
  <2> QED BY <2>1, <2>2
<1>4. \A q \in Owners : Busy(o, q) => o[q].gen \in Generations
      BY <1>0, BusyPlace
<1>5. \A h \in Generations : (Quiet(L2, h) <=> Quiet(L, h)) /\ Buffer(L2, h) = Buffer(L, h)
      BY <1>2 DEF Quiet, Buffer
<1>6. \A q \in Owners : Busy(o2, q) <=> Busy(o, q)
      BY <1>2 DEF Busy
<1>7. SameLives(L, L2)
  <2>1. ExistsIn(L, g)
        BY <1>0, <1>4, BusyPlace DEF Busy
  <2> QED BY <1>0, <1>2, <2>1 DEF SameLives, RetiredOnce
<1>8. /\ GenOK(L2, c)
      /\ \A h \in Generations : (ExistsIn(L2, h) <=> ExistsIn(L, h)) /\ (Passed(L2, h) <=> Passed(L, h))
      BY <1>0, <1>7, LivesKept
<1>9. ChainOK(L2, o2, n)
  <2>1. AwaitsOK(L2)
        BY <1>0, <1>2 DEF AwaitsOK
  <2>2. SameChains(L, L2, o, o2)
        BY <1>0, <1>1, <1>2, <1>6, <1>8 DEF SameChains, Busy
  <2> QED BY <1>0, <2>1, <2>2, ChainsKept
<1>10. \A q \in Owners : Busy(o, q) /\ q # p /\ o[q].gen # g => L2[o2[q].gen] = L[o[q].gen] /\ o2[q] = o[q]
       BY <1>2, <1>4
<1>11. PhaseOK(L2, o2, n, m)
  <2>1. FailureOK(L2, o2)
    <3> SUFFICES ASSUME NEW q \in Owners
                 PROVE  /\ o2[q].pc \in {"ready", "appending", "done"} => ~L2[o2[q].gen].storageFailure
                        /\ o2[q].pc = "failed" => L2[o2[q].gen].storageFailure
        BY DEF FailureOK
    <3>1. CASE q = p
          BY <1>2, <3>1
    <3>2. CASE q # p /\ o[q].gen = g
          BY <1>1, <1>2, <3>2 DEF Busy
    <3>3. CASE q # p /\ o[q].gen # g
          BY <1>0, <1>2, <1>10, <3>3 DEF FailureOK, Busy
    <3> QED BY <3>1, <3>2, <3>3
  <2>2. EpochOK(L2, o2)
    <3> SUFFICES ASSUME NEW q \in Owners, o2[q].pc \in {"ready", "appending"}
                 PROVE  /\ o2[q].epoch <= L2[o2[q].gen].cutoverEpoch
                        /\ o2[q].epoch = L2[o2[q].gen].cutoverEpoch <=> L2[o2[q].gen].flushPromise = q
        BY DEF EpochOK
    <3>1. q # p /\ o2[q] = o[q] /\ o[q].gen \in Generations
          BY <1>2, <1>4 DEF Busy
    <3> QED BY <1>0, <1>2, <3>1 DEF EpochOK
  <2>3. CountsOK(L2, o2, n, m)
        BY <1>0, <1>2 DEF CountsOK
  <2>4. BatchOK(L2, o2)
    <3> SUFFICES ASSUME NEW q \in Owners, o2[q].pc = "appending"
                 PROVE  o2[q].batch \in 1 .. Len(L2[o2[q].gen].pending)
        BY DEF BatchOK
    <3>1. q # p /\ o2[q] = o[q] /\ o[q].gen \in Generations
          BY <1>2, <1>4 DEF Busy
    <3> QED BY <1>0, <1>2, <3>1 DEF BatchOK
  <2> QED BY <2>1, <2>2, <2>3, <2>4 DEF PhaseOK
<1>12. PassedOK(L2, o2)
  <2>1. \A q \in Owners : o2[q].pc \notin {"free", "prior", "ready"} => Passed(L2, o2[q].gen)
        BY <1>0, <1>1, <1>2, <1>4, <1>8 DEF PassedOK, Busy
  <2>2. ASSUME NEW h \in Generations, Quiet(L2, h) \/ L2[h].storageFailure
        PROVE  Passed(L2, h)
    <3>1. CASE h = g
          BY <1>1, <1>8, <3>1
    <3>2. CASE h # g
          BY <1>0, <1>2, <1>5, <1>8, <2>2, <3>2 DEF PassedOK
    <3> QED BY <3>1, <3>2
  <2> QED BY <2>1, <2>2 DEF PassedOK
<1>13. QuietOK(L2, o2)
  <2>1. \A h \in Generations : Quiet(L2, h) => L2[h].pending = <<>> \/ L2[h].storageFailure
        BY <1>0, <1>1, <1>2, <1>5 DEF QuietOK
  <2>2. ASSUME NEW q \in Owners, Busy(o2, q), Quiet(L2, o2[q].gen)
        PROVE  o2[q].pc \in {"ready", "done"}
    <3>1. Busy(o, q) /\ o[q].gen \in Generations /\ o2[q].gen = o[q].gen
          BY <1>2, <1>4, <1>6, <2>2
    <3>2. Quiet(L, o[q].gen) /\ q # p
          BY <1>1, <1>5, <2>2, <3>1
    <3> QED BY <1>0, <1>2, <3>1, <3>2 DEF QuietOK
  <2> QED BY <2>1, <2>2 DEF QuietOK
<1>14. \A h \in Generations : Buffer(L, h) \subseteq 1 .. m
       BY <1>0, BufferRange
<1>15. ContentOK(L2, o2, F2, m)
  <2>1. BuffersOK(L2, m)
        BY <1>0, <1>2, <1>5 DEF BuffersOK
  <2>2. CASE Recs(F2) = {Replacement}
    <3>1. NewerOK(L2, F2)
      <4>1. \A h \in Generations : \A r \in Buffer(L2, h) : Replacement < r
            BY <1>5, <1>14 DEF Replacement
      <4> QED BY <2>2, <4>1 DEF NewerOK
    <3>2. \A h \in Generations : Clean(L2, F2, h)
      <4>1. \A h \in Generations : Replacement \notin Buffer(L2, h)
            BY <1>5, <1>14 DEF Replacement
      <4> QED BY <2>2, <4>1 DEF Clean
    <3>3. CleanOK(L2, o2, F2)
      <4>1. \A q \in Owners : Busy(o2, q) => o2[q].gen \in Generations
            BY <1>2, <1>4, <1>6
      <4> QED BY <3>2, <4>1 DEF CleanOK, Busy
    <3> QED BY <1>3, <2>1, <3>1, <3>3 DEF ContentOK
  <2>3. CASE F2 = F /\ o2[p].pc = "failed"
    <3>1. L2[g].storageFailure
          BY <1>2, <2>3
    <3>2. NewerOK(L2, F2)
      <4> SUFFICES ASSUME NEW h \in Generations, ~L2[h].storageFailure,
                          NEW r \in Buffer(L2, h) \ Recs(F2), NEW x \in Recs(F2)
                   PROVE  x < r
          BY DEF NewerOK
      <4>1. h # g /\ ~L[h].storageFailure
            BY <1>2, <3>1
      <4> QED BY <1>0, <1>5, <2>3, <4>1 DEF NewerOK
    <3>3. \A h \in Generations : Clean(L2, F2, h) <=> Clean(L, F, h)
          BY <1>5, <2>3 DEF Clean
    <3>4. CleanOK(L2, o2, F2)
      <4>1. ASSUME NEW h \in Generations, L2[h].flushPromise = None, ~L2[h].storageFailure
            PROVE  Clean(L2, F2, h)
            BY <1>0, <1>1, <1>2, <3>3, <4>1 DEF CleanOK
      <4>2. ASSUME NEW q \in Owners, o2[q].pc \in {"ready", "done"}, L2[o2[q].gen].flushPromise = q
            PROVE  Clean(L2, F2, o2[q].gen)
        <5>1. q # p /\ o2[q] = o[q] /\ o[q].gen \in Generations
              BY <1>2, <1>4, <2>3, <4>2 DEF Busy
        <5> QED BY <1>0, <1>2, <3>3, <4>2, <5>1 DEF CleanOK
      <4>3. ASSUME NEW q \in Owners, o2[q].pc = "appending"
            PROVE  Clean(L2, F2, o2[q].gen)
        <5>1. q # p /\ o2[q] = o[q] /\ o[q].gen \in Generations
              BY <1>2, <1>4, <2>3, <4>3 DEF Busy
        <5> QED BY <1>0, <3>3, <4>3, <5>1 DEF CleanOK
      <4> QED BY <4>1, <4>2, <4>3 DEF CleanOK
    <3> QED BY <1>3, <2>1, <3>2, <3>4 DEF ContentOK
  <2> QED BY <1>3, <2>2, <2>3
<1>16. CallerOK(L2, o2, F2, S2, m)
  <2>1. RewriteOK(L2, o2, F2)
    <3> SUFFICES ASSUME NEW q \in Owners, o2[q].pc \in {"prior", "writing"}
                 PROVE  /\ Recs(F2) \subseteq {Replacement} \cup o2[q].covered \cup o2[q].foreign
                                                 \cup Buffer(L2, o2[q].gen)
                        /\ \A h \in Generations : h < o2[q].gen /\ ~Quiet(L2, h) => Buffer(L2, h) \subseteq o2[q].foreign
        BY DEF RewriteOK
    <3>1. q # p /\ o2[q] = o[q] /\ Busy(o, q) /\ o[q].gen \in Generations
          BY <1>2, <1>4 DEF Busy
    <3>2. /\ Recs(F) \subseteq {Replacement} \cup o[q].covered \cup o[q].foreign
                                \cup Buffer(L, o[q].gen)
          /\ \A h \in Generations : h < o[q].gen /\ ~Quiet(L, h) => Buffer(L, h) \subseteq o[q].foreign
          BY <1>0, <3>1 DEF RewriteOK
    <3>3. \A h \in Generations : h < o[q].gen /\ ~Quiet(L2, h) => Buffer(L2, h) \subseteq o[q].foreign
          BY <1>5, <3>2
    <3>4. Recs(F2) \subseteq {Replacement} \cup o[q].covered \cup o[q].foreign \cup Buffer(L2, o[q].gen)
          BY <1>3, <1>5, <3>1, <3>2
    <3> QED BY <3>1, <3>3, <3>4
  <2>2. PromisedOK(L2, o2, F2, S2, m)
    <3> SUFFICES ASSUME NEW q \in Owners
                 PROVE  /\ Busy(o2, q) => o2[q].promised \subseteq Kept(F2, S2) \cup Buffer(L2, o2[q].gen)
                        /\ o2[q].promised \subseteq 1 .. m
                        /\ \A h \in Generations : h # o2[q].gen => o2[q].promised \cap Buffer(L2, h) = {}
        BY DEF PromisedOK
    <3>1. o2[q].promised = o[q].promised /\ o2[q].gen = o[q].gen
          BY <1>2
    <3>2. /\ Busy(o, q) => o[q].promised \subseteq Kept(F, S) \cup Buffer(L, o[q].gen)
          /\ o[q].promised \subseteq 1 .. m
          /\ \A h \in Generations : h # o[q].gen => o[q].promised \cap Buffer(L, h) = {}
          BY <1>0 DEF PromisedOK
    <3>3. ASSUME Busy(o2, q), NEW r \in o[q].promised
          PROVE  r \in Kept(F2, S2) \cup Buffer(L2, o[q].gen)
      <4>1. Busy(o, q) /\ o[q].gen \in Generations /\ r \in 1 .. m
            BY <1>4, <1>6, <3>2, <3>3
      <4>2. CASE r \in Buffer(L, o[q].gen)
            BY <1>5, <4>1, <4>2
      <4>3. CASE r \in Kept(F, S)
        <5>1. r \in Kept(F2, S2) \cup Buffer(L, g)
              BY <1>3, <4>1, <4>3
        <5>2. r \in Buffer(L, g) => o[q].gen = g
              BY <1>1, <3>2
        <5> QED BY <1>5, <4>1, <5>1, <5>2
      <4> QED BY <3>2, <4>1, <4>2, <4>3
    <3>4. \A h \in Generations : h # o[q].gen => o[q].promised \cap Buffer(L2, h) = {}
          BY <1>5, <3>2
    <3> QED BY <3>1, <3>2, <3>3, <3>4
  <2>3. AckedOK(L2, F2, S2, m)
    <3>1. S.acked \subseteq Kept(F, S) \cap (1 .. m) /\ \A h \in Generations : S.acked \cap Buffer(L, h) = {}
          BY <1>0 DEF AckedOK
    <3>2. \A r \in S.acked : r \in Kept(F2, S2)
          BY <1>1, <1>3, <3>1
    <3> QED BY <1>3, <1>5, <3>1, <3>2 DEF AckedOK
  <2>4. NothingVanishes(L2, F2, S2, m)
    <3> SUFFICES ASSUME NEW r \in 1 .. m
                 PROVE  r \in Kept(F2, S2) \cup S2.lost \cup UNION {Buffer(L2, h) : h \in Generations}
        BY DEF NothingVanishes
    <3>1. r \in Kept(F, S) \cup S.lost \/ \E h \in Generations : r \in Buffer(L, h)
          BY <1>0 DEF NothingVanishes
    <3> QED BY <1>1, <1>3, <1>5, <3>1
  <2> QED BY <2>1, <2>2, <2>3, <2>4 DEF CallerOK
<1> QED BY <1>0, <1>3, <1>8, <1>9, <1>11, <1>12, <1>13, <1>15, <1>16 DEF StateOK, Shapes

-----------------------------------------------------------------------------
(* Ownership. *)

(* What the end of owner p's promise changes. *)
SettleOutcome(L, L2, o, o2, p) ==
    /\ \A h \in Generations :
         /\ L2[h].pending = L[h].pending /\ L2[h].storageFailure = L[h].storageFailure
         /\ L2[h].cutoverEpoch = L[h].cutoverEpoch
         /\ L2[h].refCount = L[h].refCount /\ L2[h].retired = L[h].retired
         /\ L2[h].ready = L[h].ready /\ L2[h].retirement = L[h].retirement
         /\ L2[h].flushPromise = IF L[h].flushPromise = p THEN None ELSE L[h].flushPromise
         /\ L2[h].awaits = IF L[h].awaits = p THEN None ELSE L[h].awaits
         /\ L[h].flushPromise # p /\ L[h].awaits # p => L2[h] = L[h]
    /\ o2[p] = FreeOwner
    /\ \A q \in Owners : q # p =>
         /\ o2[q].gen = o[q].gen /\ o2[q].pc = o[q].pc /\ o2[q].epoch = o[q].epoch
         /\ o2[q].batch = o[q].batch /\ o2[q].promised = o[q].promised
         /\ o2[q].covered = o[q].covered /\ o2[q].foreign = o[q].foreign
         /\ o2[q].prior = IF o[q].prior = p THEN None ELSE o[q].prior
         /\ o[q].prior # p => o2[q] = o[q]

SettledMore(S, S2, P, owns, failed) ==
    /\ S2 \in Settlements /\ S2.superseded = S.superseded /\ S2.overrun = S.overrun
    /\ S2.lost = S.lost
    /\ S2.acked = IF ~failed /\ owns THEN S.acked \cup P ELSE S.acked

\* A promise settles; the next owner of the chain and the retirement go on.
LEMMA PromiseSettles ==
    ASSUME NEW L, NEW c, NEW o, NEW F, NEW n, NEW m, NEW S, StateOK(L, c, o, F, n, m, S),
           NEW p \in Owners, NEW g, g = o[p].gen,
           \/ o[p].pc = "failed"
           \/ o[p].pc = "done" /\ ~(L[g].flushPromise = p /\ L[g].pending # <<>>),
           NEW L2 \in [Generations -> LogState], NEW o2 \in [Owners -> Owner],
           SettleOutcome(L, L2, o, o2, p),
           NEW S2, SettledMore(S, S2, o[p].promised, L[g].flushPromise = p, o[p].pc = "failed")
    PROVE  StateOK(L2, c, o2, F, n, m, S2)
<1>0. /\ L \in [Generations -> LogState] /\ c \in Generations \cup {None}
      /\ o \in [Owners -> Owner] /\ F \in Seq(LineRecord)
      /\ n \in 0 .. MaxRewrites /\ m \in 0 .. MaxRecords /\ S \in Settlements
      /\ n \in Nat /\ m \in Nat
      /\ GenOK(L, c) /\ CreatedInOrder(L) /\ OthersAbsent(L) /\ EntryIsLast(L, c)
      /\ RetiredOnce(L) /\ ReadyOK(L)
      /\ ChainOK(L, o, n) /\ FreeIsFree(o) /\ PlacedOK(L, o, n) /\ PromiseOK(L, o)
      /\ Chained(o) /\ PriorOK(o) /\ AwaitsOK(L)
      /\ FailureOK(L, o) /\ EpochOK(L, o) /\ CountsOK(L, o, n, m) /\ BatchOK(L, o)
      /\ PassedOK(L, o) /\ QuietOK(L, o)
      /\ FileOK(F, m) /\ BuffersOK(L, m) /\ NewerOK(L, F) /\ CleanOK(L, o, F)
      /\ RewriteOK(L, o, F) /\ PromisedOK(L, o, F, S, m) /\ AckedOK(L, F, S, m)
      /\ NothingVanishes(L, F, S, m)
      BY Parts
<1>1. /\ Busy(o, p) /\ o[p].prior = None /\ g \in Generations /\ ExistsIn(L, g)
      /\ L[g].flushPromise # None /\ p <= L[g].flushPromise
      BY <1>0, BusyPlace DEF Busy, PriorOK
<1>2. \A q \in Owners : Busy(o, q) /\ q # p /\ o[q].gen = g =>
          q > p /\ o[q].pc = "prior" /\ o[q].prior # None
      BY <1>0, <1>1, FirstInChain
<1>3. /\ \A h \in Generations :
          /\ L2[h].pending = L[h].pending /\ L2[h].storageFailure = L[h].storageFailure
          /\ L2[h].cutoverEpoch = L[h].cutoverEpoch
          /\ L2[h].refCount = L[h].refCount /\ L2[h].retired = L[h].retired
          /\ L2[h].ready = L[h].ready /\ L2[h].retirement = L[h].retirement
          /\ L[h].flushPromise = p => L2[h].flushPromise = None
          /\ L[h].flushPromise # p => L2[h].flushPromise = L[h].flushPromise
          /\ L[h].awaits = p => L2[h].awaits = None
          /\ L[h].awaits # p => L2[h].awaits = L[h].awaits
          /\ L[h].flushPromise # p /\ L[h].awaits # p => L2[h] = L[h]
      /\ o2[p] = FreeOwner
      /\ \A q \in Owners : q # p =>
          /\ o2[q].gen = o[q].gen /\ o2[q].pc = o[q].pc /\ o2[q].epoch = o[q].epoch
          /\ o2[q].batch = o[q].batch /\ o2[q].promised = o[q].promised
          /\ o2[q].covered = o[q].covered /\ o2[q].foreign = o[q].foreign
          /\ o[q].prior = p => o2[q].prior = None
          /\ o[q].prior # p => o2[q].prior = o[q].prior /\ o2[q] = o[q]
      BY DEF SettleOutcome
<1>4. /\ o2[p].pc = "free" /\ o2[p].prior = None /\ o2[p].promised = {}
      /\ o2[p].epoch = 0 /\ o2[p].batch = 0
      BY <1>3 DEF FreeOwner
<1>5. \A q \in Owners : Busy(o2, q) <=> (q # p /\ Busy(o, q))
      BY <1>3, <1>4 DEF Busy
<1>6. \A q \in Owners : Busy(o, q) => o[q].gen \in Generations
      BY <1>0, BusyPlace
<1>7. \A h \in Generations :
          /\ Buffer(L2, h) = Buffer(L, h) /\ (ExistsIn(L2, h) <=> ExistsIn(L, h))
          /\ L[h].flushPromise = p => h = g
          /\ L[h].awaits = p => h = g /\ L[g].flushPromise = p
  <2>1. \A h \in Generations : L[h].flushPromise = p => h = g
        BY <1>0, Bounds DEF PromiseOK
  <2>2. \A h \in Generations : L[h].awaits = p => L[h].flushPromise = p
        BY <1>0, Bounds DEF AwaitsOK
  <2> QED BY <1>3, <2>1, <2>2 DEF Buffer, ExistsIn
<1>8. SameLives(L, L2)
  <2>1. \A h \in Generations : ~ExistsIn(L, h) => L2[h] = L[h]
        BY <1>1, <1>3, <1>7
  <2> QED BY <1>0, <1>3, <2>1 DEF SameLives, RetiredOnce
<1>9. /\ GenOK(L2, c)
      /\ \A h \in Generations : Passed(L2, h) <=> Passed(L, h)
      BY <1>0, <1>8, LivesKept
<1>10. L[g].flushPromise = p => \A q \in Owners : Busy(o, q) /\ o[q].gen = g => q = p
  <2> SUFFICES ASSUME L[g].flushPromise = p, NEW q \in Owners, Busy(o, q), o[q].gen = g, q # p
               PROVE  FALSE
      OBVIOUS
  <2>1. q <= p
        BY <1>0 DEF PlacedOK
  <2>2. q > p
        BY <1>2
  <2> QED BY <2>1, <2>2, Bounds
<1>11. ChainOK(L2, o2, n)
  <2>1. FreeIsFree(o2)
    <3> SUFFICES ASSUME NEW q \in Owners, q # p, ~Busy(o, q) PROVE o2[q] = FreeOwner
        BY <1>3, <1>5 DEF FreeIsFree
    <3>1. o[q] = FreeOwner
          BY <1>0 DEF FreeIsFree
    <3>2. o[q].prior # p
          BY <3>1, Bounds DEF FreeOwner
    <3> QED BY <1>3, <3>1, <3>2
  <2>2. PlacedOK(L2, o2, n)
    <3> SUFFICES ASSUME NEW q \in Owners, Busy(o2, q)
                 PROVE  /\ o2[q].gen \in Generations /\ ExistsIn(L2, o2[q].gen)
                        /\ q <= L2[o2[q].gen].flushPromise
                        /\ q <= MaxGenerations => q = o2[q].gen /\ o2[q].pc # "prior" /\ o2[q].pc # "writing"
                        /\ q <= MaxGenerations + n
        BY DEF PlacedOK
    <3>1. q # p /\ Busy(o, q) /\ o2[q].gen = o[q].gen /\ o2[q].pc = o[q].pc /\ o[q].gen \in Generations
          BY <1>3, <1>5, <1>6
    <3>2. L[o[q].gen].flushPromise # p
          BY <1>7, <1>10, <3>1
    <3>3. L2[o[q].gen].flushPromise = L[o[q].gen].flushPromise
          BY <1>3, <3>1, <3>2
    <3> QED BY <1>0, <1>7, <3>1, <3>3 DEF PlacedOK
  <2>3. PromiseOK(L2, o2)
    <3> SUFFICES ASSUME NEW h \in Generations, L2[h].flushPromise # None
                 PROVE  Busy(o2, L2[h].flushPromise) /\ o2[L2[h].flushPromise].gen = h
        BY DEF PromiseOK
    <3>1. L2[h].flushPromise = L[h].flushPromise /\ L[h].flushPromise # p
          BY <1>3
    <3>2. /\ L[h].flushPromise \in Owners
          /\ Busy(o, L[h].flushPromise) /\ o[L[h].flushPromise].gen = h
          BY <1>0, <3>1, LogFields DEF PromiseOK
    <3> QED BY <1>3, <1>5, <3>1, <3>2
  <2>4. Chained(o2)
    <3> SUFFICES ASSUME NEW q \in Owners, NEW r \in Owners, Busy(o2, q), Busy(o2, r),
                        o2[q].gen = o2[r].gen, q < r
                 PROVE  q <= o2[r].prior /\ o2[r].prior < r
        BY DEF Chained
    <3>1. q # p /\ r # p /\ Busy(o, q) /\ Busy(o, r) /\ o[q].gen = o[r].gen
          BY <1>3, <1>5
    <3>2. q <= o[r].prior /\ o[r].prior < r
          BY <1>0, <3>1 DEF Chained
    <3>3. o[r].prior # p
      <4> SUFFICES ASSUME o[r].prior = p PROVE FALSE
          OBVIOUS
      <4>1. o[r].gen = g
            BY <1>0, Bounds DEF PriorOK
      <4>2. q > p /\ q <= p
            BY <1>2, <3>1, <3>2, <4>1
      <4> QED BY <4>2, Bounds
    <3> QED BY <1>3, <3>1, <3>2, <3>3
  <2>5. PriorOK(o2)
    <3> SUFFICES ASSUME NEW q \in Owners, o2[q].prior # None
                 PROVE  /\ o2[q].pc = "prior" /\ o2[q].prior < q
                        /\ Busy(o2, o2[q].prior) /\ o2[o2[q].prior].gen = o2[q].gen
        BY DEF PriorOK
    <3>1. q # p /\ o[q].prior # p /\ o2[q].prior = o[q].prior /\ o2[q] = o[q] /\ o[q].prior # None
          BY <1>3, <1>4
    <3>2. /\ o[q].pc = "prior" /\ o[q].prior < q /\ o[q].prior \in Owners
          /\ Busy(o, o[q].prior) /\ o[o[q].prior].gen = o[q].gen
          BY <1>0, <3>1, OwnerFields DEF PriorOK
    <3> QED BY <1>3, <1>5, <3>1, <3>2
  <2>6. AwaitsOK(L2)
    <3> SUFFICES ASSUME NEW h \in Generations, L2[h].awaits # None
                 PROVE  L2[h].awaits = L2[h].flushPromise /\ L2[h].retirement = "flushing"
        BY DEF AwaitsOK
    <3>1. L[h].awaits # p /\ L2[h].awaits = L[h].awaits
          BY <1>3
    <3>2. L[h].awaits = L[h].flushPromise /\ L[h].retirement = "flushing"
          BY <1>0, <3>1 DEF AwaitsOK
    <3> QED BY <1>3, <3>1, <3>2
  <2> QED BY <2>1, <2>2, <2>3, <2>4, <2>5, <2>6 DEF ChainOK
<1>12. PhaseOK(L2, o2, n, m)
  <2>1. FailureOK(L2, o2)
        BY <1>0, <1>3, <1>4, <1>6 DEF FailureOK, Busy
  <2>2. EpochOK(L2, o2)
    <3> SUFFICES ASSUME NEW q \in Owners, o2[q].pc \in {"ready", "appending"}
                 PROVE  /\ o2[q].epoch <= L2[o2[q].gen].cutoverEpoch
                        /\ o2[q].epoch = L2[o2[q].gen].cutoverEpoch <=> L2[o2[q].gen].flushPromise = q
        BY DEF EpochOK
    <3>1. q # p /\ o2[q].gen = o[q].gen /\ o2[q].pc = o[q].pc /\ o2[q].epoch = o[q].epoch
          BY <1>3, <1>4
    <3>2. o[q].gen \in Generations
          BY <1>6, <3>1 DEF Busy
    <3>3. L2[o[q].gen].flushPromise = q <=> L[o[q].gen].flushPromise = q
      <4>1. CASE L[o[q].gen].flushPromise = p
        <5>1. L2[o[q].gen].flushPromise = None
              BY <1>3, <3>2, <4>1
        <5>2. q # None
              BY Bounds
        <5> QED BY <3>1, <4>1, <5>1, <5>2
      <4>2. CASE L[o[q].gen].flushPromise # p
        <5>1. L2[o[q].gen].flushPromise = L[o[q].gen].flushPromise
              BY <1>3, <3>2, <4>2
        <5> QED BY <5>1
      <4> QED BY <4>1, <4>2
    <3> QED BY <1>0, <1>3, <3>1, <3>2, <3>3 DEF EpochOK
  <2>3. CountsOK(L2, o2, n, m)
        BY <1>0, <1>3, <1>4 DEF CountsOK
  <2>4. BatchOK(L2, o2)
        BY <1>0, <1>3, <1>4, <1>6 DEF BatchOK, Busy
  <2> QED BY <2>1, <2>2, <2>3, <2>4 DEF PhaseOK
<1>13. o[p].pc = "failed" \/ L[g].flushPromise # p \/ L[g].pending = <<>>
      OBVIOUS
<1>14. Passed(L, g) /\ (o[p].pc = "failed" => L[g].storageFailure)
      BY <1>0 DEF PassedOK, FailureOK
<1>15. /\ \A h \in Generations : Quiet(L, h) => Quiet(L2, h)
       /\ \A h \in Generations : h # g \/ L[g].flushPromise # p => (Quiet(L2, h) <=> Quiet(L, h))
  <2>1. \A h \in Generations : L[h].awaits = None => L2[h].awaits = None
        BY <1>3
  <2>2. \A h \in Generations : h # g \/ L[g].flushPromise # p => L2[h].awaits = L[h].awaits
        BY <1>3, <1>7
  <2> QED BY <1>3, <2>1, <2>2 DEF Quiet
<1>16. PassedOK(L2, o2)
  <2>1. \A q \in Owners : o2[q].pc \notin {"free", "prior", "ready"} => Passed(L2, o2[q].gen)
        BY <1>0, <1>3, <1>4, <1>6, <1>9 DEF PassedOK, Busy
  <2>2. ASSUME NEW h \in Generations, Quiet(L2, h) \/ L2[h].storageFailure
        PROVE  Passed(L2, h)
    <3>1. CASE h = g
          BY <1>9, <1>14, <3>1
    <3>2. CASE h # g
          BY <1>0, <1>3, <1>9, <1>15, <2>2, <3>2 DEF PassedOK
    <3> QED BY <3>1, <3>2
  <2> QED BY <2>1, <2>2 DEF PassedOK
<1>17. QuietOK(L2, o2)
  <2>1. ASSUME NEW h \in Generations, Quiet(L2, h)
        PROVE  L2[h].pending = <<>> \/ L2[h].storageFailure
    <3>1. CASE h # g \/ L[g].flushPromise # p
          BY <1>0, <1>3, <1>15, <2>1, <3>1 DEF QuietOK
    <3>2. CASE h = g /\ L[g].flushPromise = p
          BY <1>3, <1>13, <1>14, <3>2
    <3> QED BY <3>1, <3>2
  <2>2. ASSUME NEW q \in Owners, Busy(o2, q), Quiet(L2, o2[q].gen)
        PROVE  o2[q].pc \in {"ready", "done"}
    <3>1. q # p /\ Busy(o, q) /\ o2[q].gen = o[q].gen /\ o2[q].pc = o[q].pc /\ o[q].gen \in Generations
          BY <1>3, <1>5, <1>6, <2>2
    <3>2. o[q].gen # g \/ L[g].flushPromise # p
          BY <1>10, <3>1
    <3> QED BY <1>0, <1>15, <2>2, <3>1, <3>2 DEF QuietOK
  <2> QED BY <2>1, <2>2 DEF QuietOK
<1>18. ContentOK(L2, o2, F, m)
  <2>1. BuffersOK(L2, m) /\ NewerOK(L2, F)
        BY <1>0, <1>3, <1>7 DEF BuffersOK, NewerOK
  <2>2. \A h \in Generations : Clean(L2, F, h) <=> Clean(L, F, h)
        BY <1>7 DEF Clean
  <2>3. CleanOK(L2, o2, F)
    <3>1. ASSUME NEW h \in Generations, L2[h].flushPromise = None, ~L2[h].storageFailure
          PROVE  Clean(L2, F, h)
      <4>1. CASE L[h].flushPromise = p
        <5>1. h = g /\ L[g].pending = <<>>
              BY <1>3, <1>7, <1>13, <1>14, <3>1, <4>1
        <5>2. Buffer(L, g) = {}
              BY <5>1 DEF Buffer, ToSet
        <5> QED BY <2>2, <5>1, <5>2 DEF Clean
      <4>2. CASE L[h].flushPromise # p
            BY <1>0, <1>3, <2>2, <3>1, <4>2 DEF CleanOK
      <4> QED BY <4>1, <4>2
    <3>2. ASSUME NEW q \in Owners, o2[q].pc \in {"ready", "done"}, L2[o2[q].gen].flushPromise = q
          PROVE  Clean(L2, F, o2[q].gen)
      <4>1. q # p /\ o2[q].gen = o[q].gen /\ o2[q].pc = o[q].pc
            BY <1>3, <1>4, <3>2
      <4>2. o[q].gen \in Generations
            BY <1>6, <3>2, <4>1 DEF Busy
      <4>3. L[o[q].gen].flushPromise = q
        <5>1. L2[o[q].gen].flushPromise = q /\ q # None
              BY <3>2, <4>1, Bounds
        <5>2. L[o[q].gen].flushPromise # p
              BY <1>3, <4>2, <5>1
        <5> QED BY <1>3, <4>2, <5>1, <5>2
      <4> QED BY <1>0, <2>2, <3>2, <4>1, <4>2, <4>3 DEF CleanOK
    <3>3. ASSUME NEW q \in Owners, o2[q].pc = "appending"
          PROVE  Clean(L2, F, o2[q].gen)
      <4>1. q # p /\ o2[q].gen = o[q].gen /\ o2[q].pc = o[q].pc
            BY <1>3, <1>4, <3>3
      <4>2. o[q].gen \in Generations
            BY <1>6, <3>3, <4>1 DEF Busy
      <4> QED BY <1>0, <2>2, <3>3, <4>1, <4>2 DEF CleanOK
    <3> QED BY <3>1, <3>2, <3>3 DEF CleanOK
  <2> QED BY <1>0, <2>1, <2>3 DEF ContentOK
<1>19. /\ S2 \in Settlements /\ Kept(F, S2) = Kept(F, S) /\ S2.lost = S.lost
       /\ S2.acked = S.acked \/ (S2.acked = S.acked \cup o[p].promised /\ o[p].pc # "failed" /\ L[g].flushPromise = p)
       BY DEF SettledMore, Kept
<1>20. CallerOK(L2, o2, F, S2, m)
  <2>1. RewriteOK(L2, o2, F)
    <3> SUFFICES ASSUME NEW q \in Owners, o2[q].pc \in {"prior", "writing"}
                 PROVE  /\ Recs(F) \subseteq {Replacement} \cup o2[q].covered \cup o2[q].foreign
                                                 \cup Buffer(L2, o2[q].gen)
                        /\ \A h \in Generations : h < o2[q].gen /\ ~Quiet(L2, h) => Buffer(L2, h) \subseteq o2[q].foreign
        BY DEF RewriteOK
    <3>1. /\ q # p /\ o2[q].gen = o[q].gen /\ o2[q].pc = o[q].pc
          /\ o2[q].covered = o[q].covered /\ o2[q].foreign = o[q].foreign
          BY <1>3, <1>4
    <3>2. o[q].gen \in Generations
          BY <1>6, <3>1 DEF Busy
    <3>3. /\ Recs(F) \subseteq {Replacement} \cup o[q].covered \cup o[q].foreign
                                \cup Buffer(L, o[q].gen)
          /\ \A h \in Generations : h < o[q].gen /\ ~Quiet(L, h) => Buffer(L, h) \subseteq o[q].foreign
          BY <1>0, <3>1 DEF RewriteOK
    <3>4. \A h \in Generations : h < o[q].gen /\ ~Quiet(L2, h) => Buffer(L2, h) \subseteq o[q].foreign
          BY <1>7, <1>15, <3>3
    <3> QED BY <1>7, <3>1, <3>2, <3>3, <3>4
  <2>2. PromisedOK(L2, o2, F, S2, m)
    <3> SUFFICES ASSUME NEW q \in Owners
                 PROVE  /\ Busy(o2, q) => o2[q].promised \subseteq Kept(F, S2) \cup Buffer(L2, o2[q].gen)
                        /\ o2[q].promised \subseteq 1 .. m
                        /\ \A h \in Generations : h # o2[q].gen => o2[q].promised \cap Buffer(L2, h) = {}
        BY DEF PromisedOK
    <3>1. CASE q = p
          BY <1>4, <1>5, <3>1
    <3>2. CASE q # p
      <4>1. o2[q].promised = o[q].promised /\ o2[q].gen = o[q].gen
            BY <1>3, <3>2
      <4>2. /\ Busy(o, q) => o[q].promised \subseteq Kept(F, S) \cup Buffer(L, o[q].gen)
            /\ o[q].promised \subseteq 1 .. m
            /\ \A h \in Generations : h # o[q].gen => o[q].promised \cap Buffer(L, h) = {}
            BY <1>0 DEF PromisedOK
      <4>3. Busy(o2, q) => o[q].promised \subseteq Kept(F, S2) \cup Buffer(L2, o[q].gen)
            BY <1>5, <1>6, <1>7, <1>19, <4>2
      <4>4. \A h \in Generations : h # o[q].gen => o[q].promised \cap Buffer(L2, h) = {}
            BY <1>7, <4>2
      <4> QED BY <4>1, <4>2, <4>3, <4>4
    <3> QED BY <3>1, <3>2
  <2>3. AckedOK(L2, F, S2, m)
    <3>1. S.acked \subseteq Kept(F, S) \cap (1 .. m) /\ \A h \in Generations : S.acked \cap Buffer(L, h) = {}
          BY <1>0 DEF AckedOK
    <3>2. CASE S2.acked = S.acked
          BY <1>7, <1>19, <3>1, <3>2 DEF AckedOK
    <3>3. CASE S2.acked = S.acked \cup o[p].promised /\ o[p].pc # "failed" /\ L[g].flushPromise = p
      <4>1. Buffer(L, g) = {}
            BY <1>13, <3>3 DEF Buffer, ToSet
      <4>2. /\ o[p].promised \subseteq Kept(F, S) \cup Buffer(L, g) /\ o[p].promised \subseteq 1 .. m
            /\ \A h \in Generations : h # g => o[p].promised \cap Buffer(L, h) = {}
            BY <1>0, <1>1 DEF PromisedOK
      <4>3. \A h \in Generations : o[p].promised \cap Buffer(L, h) = {}
            BY <4>1, <4>2
      <4>4. S2.acked \subseteq Kept(F, S2) \cap (1 .. m)
            BY <1>19, <3>1, <3>3, <4>1, <4>2
      <4>5. \A h \in Generations : S2.acked \cap Buffer(L2, h) = {}
            BY <1>7, <3>1, <3>3, <4>3
      <4> QED BY <4>4, <4>5 DEF AckedOK
    <3> QED BY <1>19, <3>2, <3>3
  <2>4. NothingVanishes(L2, F, S2, m)
    <3>1. UNION {Buffer(L2, h) : h \in Generations} = UNION {Buffer(L, h) : h \in Generations}
          BY <1>7
    <3> QED BY <1>0, <1>19, <3>1 DEF NothingVanishes
  <2> QED BY <2>1, <2>2, <2>3, <2>4 DEF CallerOK
<1> QED BY <1>0, <1>9, <1>11, <1>12, <1>16, <1>17, <1>18, <1>19, <1>20 DEF StateOK, Shapes

(* What a rewrite makes of generation g and of the promise R it takes. *)
RewriteTaken(L, L2, o, o2, F, n, g, R, covered, foreign, w) ==
    /\ R = MaxGenerations + n + 1
    /\ covered = Recs(F) \ Buffer(L, g)
    /\ foreign \in SUBSET Nat
    /\ \A h \in Generations : ExistsIn(L, h) /\ h # g /\ L[h].retirement # "settled" =>
           Buffer(L, h) \subseteq foreign
    /\ L2 = [L EXCEPT ![g].cutoverEpoch = @ + 1, ![g].flushPromise = R]
    /\ w = [FreeOwner EXCEPT !.gen = g, !.pc = "prior", !.prior = L[g].flushPromise,
                             !.covered = covered, !.foreign = foreign]
    /\ o2 = [o EXCEPT ![R] = w]

\* A rewrite takes ownership behind the flush under way.
LEMMA RewriteBegins ==
    ASSUME NEW L, NEW c, NEW o, NEW F, NEW n, NEW m, NEW S, StateOK(L, c, o, F, n, m, S),
           NEW g \in Generations, ExistsIn(L, g), ~L[g].retired, n < MaxRewrites,
           NEW R, NEW covered, NEW foreign, NEW w, NEW L2, NEW o2,
           RewriteTaken(L, L2, o, o2, F, n, g, R, covered, foreign, w)
    PROVE  StateOK(L2, c, o2, F, n + 1, m, S)
<1>0. /\ L \in [Generations -> LogState] /\ c \in Generations \cup {None}
      /\ o \in [Owners -> Owner] /\ F \in Seq(LineRecord)
      /\ n \in 0 .. MaxRewrites /\ m \in 0 .. MaxRecords /\ S \in Settlements
      /\ n \in Nat /\ m \in Nat
      /\ GenOK(L, c) /\ CreatedInOrder(L) /\ OthersAbsent(L) /\ EntryIsLast(L, c)
      /\ RetiredOnce(L) /\ ReadyOK(L)
      /\ ChainOK(L, o, n) /\ FreeIsFree(o) /\ PlacedOK(L, o, n) /\ PromiseOK(L, o)
      /\ Chained(o) /\ PriorOK(o) /\ AwaitsOK(L)
      /\ FailureOK(L, o) /\ EpochOK(L, o) /\ CountsOK(L, o, n, m) /\ BatchOK(L, o)
      /\ PassedOK(L, o) /\ QuietOK(L, o)
      /\ FileOK(F, m) /\ BuffersOK(L, m) /\ NewerOK(L, F) /\ CleanOK(L, o, F)
      /\ RewriteOK(L, o, F) /\ PromisedOK(L, o, F, S, m) /\ AckedOK(L, F, S, m)
      /\ NothingVanishes(L, F, S, m)
      BY Parts
<1>h. /\ R = MaxGenerations + n + 1
      /\ covered = Recs(F) \ Buffer(L, g)
      /\ foreign \in SUBSET Nat
      /\ \A h \in Generations : ExistsIn(L, h) /\ h # g /\ L[h].retirement # "settled" =>
             Buffer(L, h) \subseteq foreign
      /\ L2 = [L EXCEPT ![g].cutoverEpoch = @ + 1, ![g].flushPromise = R]
      /\ w = [FreeOwner EXCEPT !.gen = g, !.pc = "prior", !.prior = L[g].flushPromise,
                               !.covered = covered, !.foreign = foreign]
      /\ o2 = [o EXCEPT ![R] = w]
      BY DEF RewriteTaken
<1> USE <1>h
<1>1. R \in Owners /\ R \in Nat /\ n + 1 \in 0 .. MaxRewrites /\ n + 1 \in Nat /\ R > MaxGenerations
      BY <1>0, BoundsAssumption, SMTT(30) DEF Owners
<1>2. /\ \A h \in Generations : h # g => L2[h] = L[h]
      /\ L2[g] \in LogState /\ L2[g].pending = L[g].pending
      /\ L2[g].flushPromise = R /\ L2[g].cutoverEpoch = L[g].cutoverEpoch + 1
      /\ L2[g].storageFailure = L[g].storageFailure
      /\ L2[g].refCount = L[g].refCount /\ L2[g].retired = L[g].retired
      /\ L2[g].ready = L[g].ready /\ L2[g].retirement = L[g].retirement
      /\ L2[g].awaits = L[g].awaits
  <2>1. PICK l \in LogState, k \in {L2[g]} : l = L[g] /\ k = L2[g]
        BY <1>0
  <2>2. k = [l EXCEPT !.cutoverEpoch = @ + 1, !.flushPromise = R]
        BY <1>0, <2>1
  <2>3. l.cutoverEpoch + 1 \in Nat
        BY <1>0, <2>1, LogFields
  <2>4. /\ k \in LogState /\ k.pending = l.pending
        /\ k.flushPromise = R /\ k.cutoverEpoch = l.cutoverEpoch + 1
        /\ k.storageFailure = l.storageFailure
        /\ k.refCount = l.refCount /\ k.retired = l.retired
        /\ k.ready = l.ready /\ k.retirement = l.retirement /\ k.awaits = l.awaits
        BY ONLY <1>1, <2>2, <2>3, l \in LogState DEF LogState
  <2> QED BY <1>0, <2>1, <2>4
<1>3. L2 \in [Generations -> LogState]
      BY <1>0, <1>2
<1>4. L[g].cutoverEpoch \in Nat /\ L[g].cutoverEpoch <= n /\ L[g].flushPromise \in Owners \cup {None}
      BY <1>0, LogFields DEF CountsOK
<1>5. covered \subseteq Nat /\ foreign \subseteq Nat
  <2>1. \A x \in Recs(F) : x \in Nat
    <3> SUFFICES ASSUME NEW i \in DOMAIN F PROVE F[i].rec \in Nat
        BY DEF Recs
    <3>1. F[i] \in LineRecord
          BY <1>0
    <3> QED BY <3>1, Bounds DEF LineRecord, Records, Replacement
  <2> QED BY <2>1
<1>6. /\ \A q \in Owners : q # R => o2[q] = o[q]
      /\ o2[R] \in Owner /\ o2[R].gen = g /\ o2[R].pc = "prior" /\ o2[R].epoch = 0
      /\ o2[R].batch = 0 /\ o2[R].prior = L[g].flushPromise /\ o2[R].promised = {}
      /\ o2[R].covered = covered /\ o2[R].foreign = foreign
  <2>1. PICK fp \in Owners \cup {None}, A \in SUBSET Nat, B \in SUBSET Nat :
            fp = L[g].flushPromise /\ A = covered /\ B = foreign
        BY <1>4, <1>5
  <2>2. PICK k : k = o2[R]
        OBVIOUS
  <2>3. k = [FreeOwner EXCEPT !.gen = g, !.pc = "prior", !.prior = fp, !.covered = A, !.foreign = B]
        BY <1>0, <1>1, <2>1, <2>2
  <2>4. /\ k \in Owner /\ k.gen = g /\ k.pc = "prior" /\ k.epoch = 0
        /\ k.batch = 0 /\ k.prior = fp /\ k.promised = {} /\ k.covered = A /\ k.foreign = B
        BY ONLY <2>3, g \in Generations, fp \in Owners \cup {None}, A \in SUBSET Nat, B \in SUBSET Nat
           DEF FreeOwner, Owner
  <2> QED BY <1>0, <1>1, <2>1, <2>2, <2>4
<1>7. o2 \in [Owners -> Owner]
      BY <1>0, <1>1, <1>6
<1>8. /\ ~Busy(o, R) /\ \A q \in Owners : Busy(o, q) => q < R
  <2>1. \A q \in Owners : Busy(o, q) => q <= MaxGenerations + n /\ q \in Nat
        BY <1>0, Bounds DEF PlacedOK
  <2>2. \A q \in Owners : Busy(o, q) => q < R
        BY <1>0, <2>1, Bounds
  <2> QED BY <1>1, <2>2
<1>9. \A q \in Owners : Busy(o2, q) <=> (q = R \/ Busy(o, q))
      BY <1>1, <1>6 DEF Busy
<1>10. \A q \in Owners : Busy(o, q) => q # R /\ o2[q] = o[q] /\ o[q].gen \in Generations
      BY <1>0, <1>6, <1>8, BusyPlace
<1>11. /\ \A h \in Generations : Buffer(L2, h) = Buffer(L, h) /\ (Quiet(L2, h) <=> Quiet(L, h))
       /\ ~Quiet(L, g) /\ L[g].retirement = "none" /\ L[g].awaits = None
  <2>1. L[g].retirement = "none"
        BY <1>0, LogFields DEF RetiredOnce, ExistsIn
  <2>2. L[g].awaits = None
        BY <1>0, <2>1 DEF AwaitsOK
  <2> QED BY <1>2, <2>1, <2>2 DEF Buffer, Quiet
<1>12. SameLives(L, L2)
       BY <1>0, <1>2 DEF SameLives, RetiredOnce
<1>13. /\ GenOK(L2, c)
       /\ \A h \in Generations : (ExistsIn(L2, h) <=> ExistsIn(L, h)) /\ (Passed(L2, h) <=> Passed(L, h))
       BY <1>0, <1>12, LivesKept
<1>14. ChainOK(L2, o2, n + 1)
  <2>1. FreeIsFree(o2)
        BY <1>0, <1>6, <1>9 DEF FreeIsFree
  <2>2. PlacedOK(L2, o2, n + 1)
    <3> SUFFICES ASSUME NEW q \in Owners, Busy(o2, q)
                 PROVE  /\ o2[q].gen \in Generations /\ ExistsIn(L2, o2[q].gen)
                        /\ q <= L2[o2[q].gen].flushPromise
                        /\ q <= MaxGenerations => q = o2[q].gen /\ o2[q].pc # "prior" /\ o2[q].pc # "writing"
                        /\ q <= MaxGenerations + (n + 1)
        BY DEF PlacedOK
    <3>1. CASE q = R
      <4>1. q <= MaxGenerations + (n + 1)
            BY <1>0, <3>1, Bounds
      <4>2. ~(q <= MaxGenerations) /\ q <= R
            BY <1>1, <3>1, Bounds
      <4>3. ExistsIn(L2, g) /\ L2[g].flushPromise = R /\ o2[R].gen = g
            BY <1>2, <1>6, <1>13
      <4> QED BY ONLY <3>1, <4>1, <4>2, <4>3, g \in Generations
    <3>2. CASE q # R
      <4>1. Busy(o, q) /\ o2[q] = o[q] /\ o[q].gen \in Generations /\ q < R /\ q \in Nat
            BY <1>8, <1>9, <1>10, <3>2, Bounds
      <4>2. /\ ExistsIn(L, o[q].gen) /\ q <= L[o[q].gen].flushPromise
            /\ q <= MaxGenerations => q = o[q].gen /\ o[q].pc # "prior" /\ o[q].pc # "writing"
            /\ q <= MaxGenerations + n
            BY <1>0, <4>1 DEF PlacedOK
      <4>3. q <= MaxGenerations + (n + 1) /\ q <= R
            BY <1>0, <1>1, <4>1, <4>2, Bounds, SMTT(30)
      <4>4. q <= L2[o[q].gen].flushPromise
            BY <1>2, <4>1, <4>2, <4>3
      <4> QED BY <1>13, <4>1, <4>2, <4>3, <4>4
    <3> QED BY <3>1, <3>2
  <2>3. PromiseOK(L2, o2)
    <3> SUFFICES ASSUME NEW h \in Generations, L2[h].flushPromise # None
                 PROVE  Busy(o2, L2[h].flushPromise) /\ o2[L2[h].flushPromise].gen = h
        BY DEF PromiseOK
    <3>1. CASE h = g
          BY <1>1, <1>2, <1>6, <1>9, <3>1, ZenonT(30)
    <3>2. CASE h # g
      <4>1. /\ L2[h].flushPromise = L[h].flushPromise /\ L[h].flushPromise \in Owners
            /\ Busy(o, L[h].flushPromise) /\ o[L[h].flushPromise].gen = h
            BY <1>0, <1>2, <3>2, LogFields DEF PromiseOK
      <4> QED BY <1>9, <1>10, <4>1
    <3> QED BY <3>1, <3>2
  <2>4. Chained(o2)
    <3> SUFFICES ASSUME NEW q \in Owners, NEW r \in Owners, Busy(o2, q), Busy(o2, r),
                        o2[q].gen = o2[r].gen, q < r
                 PROVE  q <= o2[r].prior /\ o2[r].prior < r
        BY DEF Chained
    <3>1. CASE r = R
      <4>1. q # R
            BY <3>1, Bounds
      <4>0. Busy(o, q) /\ o2[q] = o[q]
            BY <1>9, <1>10, <4>1
      <4>5. o[q].gen = g
            BY <1>6, <3>1, <4>0
      <4>2. q <= L[g].flushPromise /\ L[g].flushPromise # None /\ L[g].flushPromise \in Owners
            BY <1>0, <4>0, <4>5, BusyPlace
      <4>3. Busy(o, L[g].flushPromise)
            BY <1>0, <4>2 DEF PromiseOK
      <4>4. L[g].flushPromise < R
            BY <1>8, <4>2, <4>3
      <4> QED BY <1>6, <3>1, <4>2, <4>4
    <3>2. CASE r # R
      <4>1. Busy(o, r) /\ r < R /\ o2[r] = o[r]
            BY <1>8, <1>9, <1>10, <3>2
      <4>2. q # R
            BY <4>1, Bounds
      <4>3. Busy(o, q) /\ o2[q] = o[q]
            BY <1>9, <1>10, <4>2
      <4> QED BY <1>0, <4>1, <4>3 DEF Chained
    <3> QED BY <3>1, <3>2
  <2>5. PriorOK(o2)
    <3> SUFFICES ASSUME NEW q \in Owners, o2[q].prior # None
                 PROVE  /\ o2[q].pc = "prior" /\ o2[q].prior < q
                        /\ Busy(o2, o2[q].prior) /\ o2[o2[q].prior].gen = o2[q].gen
        BY DEF PriorOK
    <3>1. CASE q = R
      <4>1. /\ o2[q].prior = L[g].flushPromise /\ L[g].flushPromise \in Owners
            /\ Busy(o, L[g].flushPromise) /\ o[L[g].flushPromise].gen = g
            BY <1>0, <1>4, <1>6, <3>1 DEF PromiseOK
      <4> QED BY <1>6, <1>8, <1>9, <1>10, <3>1, <4>1
    <3>2. CASE q # R
      <4>1. o2[q] = o[q] /\ o[q].prior # None
            BY <1>6, <3>2
      <4>2. /\ o[q].pc = "prior" /\ o[q].prior < q /\ o[q].prior \in Owners
            /\ Busy(o, o[q].prior) /\ o[o[q].prior].gen = o[q].gen
            BY <1>0, <4>1, OwnerFields DEF PriorOK
      <4> QED BY <1>9, <1>10, <4>1, <4>2
    <3> QED BY <3>1, <3>2
  <2>6. AwaitsOK(L2)
        BY <1>0, <1>2, <1>11 DEF AwaitsOK
  <2> QED BY <2>1, <2>2, <2>3, <2>4, <2>5, <2>6 DEF ChainOK
<1>15. PhaseOK(L2, o2, n + 1, m)
  <2>1. FailureOK(L2, o2)
    <3> SUFFICES ASSUME NEW q \in Owners
                 PROVE  /\ o2[q].pc \in {"ready", "appending", "done"} => ~L2[o2[q].gen].storageFailure
                        /\ o2[q].pc = "failed" => L2[o2[q].gen].storageFailure
        BY DEF FailureOK
    <3>1. CASE q = R
          BY <1>6, <3>1
    <3>2. CASE q # R
          BY <1>0, <1>2, <1>6, <1>10, <3>2 DEF FailureOK, Busy
    <3> QED BY <3>1, <3>2
  <2>2. EpochOK(L2, o2)
    <3> SUFFICES ASSUME NEW q \in Owners, o2[q].pc \in {"ready", "appending"}
                 PROVE  /\ o2[q].epoch <= L2[o2[q].gen].cutoverEpoch
                        /\ o2[q].epoch = L2[o2[q].gen].cutoverEpoch <=> L2[o2[q].gen].flushPromise = q
        BY DEF EpochOK
    <3>1. q # R /\ o2[q] = o[q] /\ o[q].pc \in {"ready", "appending"}
          BY <1>6
    <3>2. o[q].gen \in Generations /\ o[q].epoch \in Nat
          BY <1>0, <1>10, <3>1, OwnerFields DEF Busy
    <3>3. /\ o[q].epoch <= L[o[q].gen].cutoverEpoch
          /\ o[q].epoch = L[o[q].gen].cutoverEpoch <=> L[o[q].gen].flushPromise = q
          BY <1>0, <3>1 DEF EpochOK
    <3>4. CASE o[q].gen = g
      <4>1. o[q].epoch <= L[g].cutoverEpoch + 1 /\ o[q].epoch # L[g].cutoverEpoch + 1
            BY <1>4, <3>2, <3>3, <3>4
      <4> QED BY <1>2, <3>1, <3>4, <4>1
    <3>5. CASE o[q].gen # g
          BY <1>2, <3>1, <3>2, <3>3, <3>5
    <3> QED BY <3>4, <3>5
  <2>3. CountsOK(L2, o2, n + 1, m)
    <3>1. ASSUME NEW q \in Owners PROVE o2[q].epoch <= n + 1 /\ o2[q].batch <= m
      <4>1. CASE q = R
            BY <1>0, <1>6, <4>1
      <4>2. CASE q # R
        <5>1. o[q].epoch \in Nat /\ o[q].epoch <= n /\ o[q].batch <= m
              BY <1>0, OwnerFields DEF CountsOK
        <5> QED BY <1>0, <1>6, <4>2, <5>1
      <4> QED BY <4>1, <4>2
    <3>2. ASSUME NEW h \in Generations PROVE L2[h].cutoverEpoch <= n + 1
      <4>1. L[h].cutoverEpoch \in Nat /\ L[h].cutoverEpoch <= n
            BY <1>0, LogFields DEF CountsOK
      <4> QED BY <1>0, <1>2, <4>1
    <3> QED BY <3>1, <3>2 DEF CountsOK
  <2>4. BatchOK(L2, o2)
        BY <1>0, <1>2, <1>6, <1>10 DEF BatchOK, Busy
  <2> QED BY <2>1, <2>2, <2>3, <2>4 DEF PhaseOK
<1>16. PassedOK(L2, o2)
  <2>1. \A q \in Owners : o2[q].pc \notin {"free", "prior", "ready"} => Passed(L2, o2[q].gen)
        BY <1>0, <1>6, <1>10, <1>13 DEF PassedOK, Busy
  <2>2. \A h \in Generations : Quiet(L2, h) \/ L2[h].storageFailure => Passed(L2, h)
        BY <1>0, <1>2, <1>11, <1>13 DEF PassedOK
  <2> QED BY <2>1, <2>2 DEF PassedOK
<1>17. QuietOK(L2, o2)
  <2>1. \A h \in Generations : Quiet(L2, h) => L2[h].pending = <<>> \/ L2[h].storageFailure
        BY <1>0, <1>2, <1>11 DEF QuietOK
  <2>2. \A q \in Owners : Busy(o2, q) /\ Quiet(L2, o2[q].gen) => o2[q].pc \in {"ready", "done"}
        BY <1>0, <1>6, <1>9, <1>10, <1>11, ZenonT(30) DEF QuietOK
  <2> QED BY <2>1, <2>2 DEF QuietOK
<1>18. ContentOK(L2, o2, F, m)
  <2>1. BuffersOK(L2, m)
        BY <1>0, <1>2, <1>11 DEF BuffersOK
  <2>2. NewerOK(L2, F)
        BY <1>0, <1>2, <1>11 DEF NewerOK
  <2>3. \A h \in Generations : Clean(L2, F, h) <=> Clean(L, F, h)
        BY <1>11 DEF Clean
  <2>4. CleanOK(L2, o2, F)
    <3>1. \A h \in Generations : L2[h].flushPromise = None /\ ~L2[h].storageFailure => Clean(L2, F, h)
          BY <1>0, <1>1, <1>2, <2>3, Bounds DEF CleanOK
    <3>2. ASSUME NEW q \in Owners, o2[q].pc \in {"ready", "done"}, L2[o2[q].gen].flushPromise = q
          PROVE  Clean(L2, F, o2[q].gen)
      <4>1. q # R /\ o2[q] = o[q] /\ o[q].gen \in Generations
            BY <1>6, <1>10, <3>2 DEF Busy
      <4>2. L2[o[q].gen] = L[o[q].gen]
            BY <1>2, <3>2, <4>1, ZenonT(30)
      <4> QED BY <1>0, <2>3, <3>2, <4>1, <4>2 DEF CleanOK
    <3>3. ASSUME NEW q \in Owners, o2[q].pc = "appending"
          PROVE  Clean(L2, F, o2[q].gen)
      <4>1. q # R /\ o2[q] = o[q] /\ o[q].gen \in Generations
            BY <1>6, <1>10, <3>3 DEF Busy
      <4> QED BY <1>0, <2>3, <3>3, <4>1 DEF CleanOK
    <3> QED BY <3>1, <3>2, <3>3 DEF CleanOK
  <2> QED BY <1>0, <2>1, <2>2, <2>4 DEF ContentOK
<1>19. CallerOK(L2, o2, F, S, m)
  <2>1. RewriteOK(L2, o2, F)
    <3> SUFFICES ASSUME NEW q \in Owners, o2[q].pc \in {"prior", "writing"}
                 PROVE  /\ Recs(F) \subseteq {Replacement} \cup o2[q].covered \cup o2[q].foreign
                                                 \cup Buffer(L2, o2[q].gen)
                        /\ \A h \in Generations : h < o2[q].gen /\ ~Quiet(L2, h) => Buffer(L2, h) \subseteq o2[q].foreign
        BY DEF RewriteOK
    <3>1. CASE q = R
      <4>1. Recs(F) \subseteq covered \cup Buffer(L, g)
            OBVIOUS
      <4>2. ASSUME NEW h \in Generations, h < g, ~Quiet(L2, h)
            PROVE  Buffer(L2, h) \subseteq foreign
        <5>1. ExistsIn(L, h)
              BY <1>0, <4>2 DEF CreatedInOrder
        <5>2. h # g
              BY <4>2, Bounds
        <5>3. L[h].retirement # "settled"
              BY <1>11, <4>2 DEF Quiet
        <5> QED BY <1>11, <5>1, <5>2, <5>3
      <4>3. o2[q].gen = g /\ o2[q].covered = covered /\ o2[q].foreign = foreign
            BY <1>6, <3>1
      <4>4. Buffer(L2, g) = Buffer(L, g)
            BY <1>11
      <4> QED BY ONLY <4>1, <4>2, <4>3, <4>4
    <3>2. CASE q # R
      <4>1. o2[q] = o[q] /\ o[q].gen \in Generations
            BY <1>6, <1>10, <3>2 DEF Busy
      <4> QED BY <1>0, <1>11, <4>1 DEF RewriteOK
    <3> QED BY <3>1, <3>2
  <2>2. PromisedOK(L2, o2, F, S, m)
    <3> SUFFICES ASSUME NEW q \in Owners
                 PROVE  /\ Busy(o2, q) => o2[q].promised \subseteq Kept(F, S) \cup Buffer(L2, o2[q].gen)
                        /\ o2[q].promised \subseteq 1 .. m
                        /\ \A h \in Generations : h # o2[q].gen => o2[q].promised \cap Buffer(L2, h) = {}
        BY DEF PromisedOK
    <3>1. CASE q = R
          BY <1>6, <3>1
    <3>2. CASE q # R
      <4>1. o2[q] = o[q] /\ (Busy(o2, q) => Busy(o, q) /\ o[q].gen \in Generations)
            BY <1>6, <1>9, <1>10, <3>2
      <4>2. /\ Busy(o, q) => o[q].promised \subseteq Kept(F, S) \cup Buffer(L, o[q].gen)
            /\ o[q].promised \subseteq 1 .. m
            /\ \A h \in Generations : h # o[q].gen => o[q].promised \cap Buffer(L, h) = {}
            BY <1>0 DEF PromisedOK
      <4> QED BY <1>11, <4>1, <4>2
    <3> QED BY <3>1, <3>2
  <2>3. AckedOK(L2, F, S, m) /\ NothingVanishes(L2, F, S, m)
    <3>1. UNION {Buffer(L2, h) : h \in Generations} = UNION {Buffer(L, h) : h \in Generations}
          BY <1>11
    <3> QED BY <1>0, <1>11, <3>1 DEF AckedOK, NothingVanishes
  <2> QED BY <2>1, <2>2, <2>3 DEF CallerOK
<1> QED BY <1>0, <1>1, <1>3, <1>7, <1>13, <1>14, <1>15, <1>16, <1>17, <1>18, <1>19 DEF StateOK, Shapes


-----------------------------------------------------------------------------
(* The beginning of a process. *)

\* A process that has just started has nothing buffered and nothing under way.
LEMMA StartState ==
    ASSUME NEW F \in Seq(LineRecord), NEW n \in 0 .. MaxRewrites, NEW m \in 0 .. MaxRecords,
           NEW S \in Settlements, FileOK(F, m),
           S.acked \subseteq Kept(F, S) \cap (1 .. m), 1 .. m \subseteq Kept(F, S) \cup S.lost,
           NEW L, L = [g \in Generations |-> NoLog], NEW o, o = [p \in Owners |-> FreeOwner]
    PROVE  StateOK(L, None, o, F, n, m, S)
<1>1. /\ NoLog \in LogState /\ NoLog.pending = <<>> /\ NoLog.flushPromise = None
      /\ NoLog.storageFailure = FALSE /\ NoLog.cutoverEpoch = 0 /\ NoLog.refCount = 0
      /\ NoLog.retired = FALSE /\ NoLog.ready = None /\ NoLog.retirement = "absent"
      /\ NoLog.awaits = None
  <2>1. 0 \in Nat /\ 0 \in 0 .. MaxHandles /\ <<>> \in Seq(Records)
        BY Bounds
  <2> QED BY <2>1 DEF NoLog, NewLog, LogState
<1>2. /\ FreeOwner \in Owner /\ FreeOwner.pc = "free" /\ FreeOwner.epoch = 0 /\ FreeOwner.batch = 0
      /\ FreeOwner.prior = None /\ FreeOwner.promised = {}
      BY DEF FreeOwner, Owner
<1>3. L \in [Generations -> LogState] /\ \A g \in Generations : L[g] = NoLog
      BY <1>1
<1>4. o \in [Owners -> Owner] /\ \A p \in Owners : o[p] = FreeOwner
      BY <1>2
<1>5. /\ \A p \in Owners : ~Busy(o, p)
      /\ \A g \in Generations : ~ExistsIn(L, g) /\ ~Quiet(L, g) /\ Buffer(L, g) = {}
  <2>1. ToSet(<<>>) = {}
        BY DEF ToSet
  <2> QED BY <1>1, <1>2, <1>3, <1>4, <2>1 DEF Busy, ExistsIn, Quiet, Buffer
<1>6. GenOK(L, None)
  <2>1. CreatedInOrder(L) /\ OthersAbsent(L) /\ ReadyOK(L)
        BY <1>3, <1>5 DEF CreatedInOrder, OthersAbsent, ReadyOK
  <2>2. EntryIsLast(L, None)
        BY <1>5 DEF EntryIsLast
  <2>3. RetiredOnce(L)
    <3>1. \A g \in Generations : /\ L[g].retired = FALSE /\ L[g].retirement = "absent"
                                 /\ L[g].refCount = 0
          BY <1>1, <1>3
    <3> QED BY <3>1 DEF RetiredOnce
  <2> QED BY <2>1, <2>2, <2>3 DEF GenOK
<1>7. ChainOK(L, o, n)
  <2>1. FreeIsFree(o) /\ PlacedOK(L, o, n) /\ Chained(o)
        BY <1>4, <1>5 DEF FreeIsFree, PlacedOK, Chained
  <2>2. PromiseOK(L, o) /\ PriorOK(o) /\ AwaitsOK(L)
        BY <1>1, <1>2, <1>3, <1>4 DEF PromiseOK, PriorOK, AwaitsOK
  <2> QED BY <2>1, <2>2 DEF ChainOK
<1>8. PhaseOK(L, o, n, m)
  <2>1. 0 <= n /\ 0 <= m
        OBVIOUS
  <2> QED BY <1>1, <1>2, <1>3, <1>4, <2>1 DEF PhaseOK, FailureOK, EpochOK, CountsOK, BatchOK
<1>9. PassedOK(L, o) /\ QuietOK(L, o)
      BY <1>1, <1>2, <1>3, <1>4, <1>5 DEF PassedOK, QuietOK
<1>10. ContentOK(L, o, F, m)
  <2>1. Ascending(<<>>, m)
        BY DEF Ascending
  <2>2. BuffersOK(L, m)
        BY <1>1, <1>3, <1>5, <2>1 DEF BuffersOK
  <2>3. NewerOK(L, F)
        BY <1>5 DEF NewerOK
  <2>4. CleanOK(L, o, F)
        BY <1>2, <1>4, <1>5 DEF CleanOK, Clean
  <2> QED BY <2>2, <2>3, <2>4 DEF ContentOK
<1>11. CallerOK(L, o, F, S, m)
  <2>1. RewriteOK(L, o, F)
        BY <1>2, <1>4 DEF RewriteOK
  <2>2. PromisedOK(L, o, F, S, m)
        BY <1>2, <1>4, <1>5 DEF PromisedOK
  <2>3. AckedOK(L, F, S, m)
        BY <1>5 DEF AckedOK
  <2>4. NothingVanishes(L, F, S, m)
        BY DEF NothingVanishes
  <2> QED BY <2>1, <2>2, <2>3, <2>4 DEF CallerOK
<1> QED BY <1>3, <1>4, <1>6, <1>7, <1>8, <1>9, <1>10, <1>11 DEF StateOK, Shapes

(* What a crash leaves: the storage call under way may have replaced records  *)
(* that are accounted for or still buffered; S1 is what it made of S.         *)
CrashOutcome(L, F, F2, S, S1, m) ==
    /\ F2 \in Seq(LineRecord) /\ FileOK(F2, m)
    /\ S1 \in Settlements /\ S1.acked = S.acked /\ S1.lost = S.lost
    /\ \A r \in Kept(F, S) : r \in 1 .. m =>
           r \in Kept(F2, S1) \/ \E g \in Generations : r \in Buffer(L, g)

(* What was buffered is lost with the process. *)
Restart(L, S1, S2, B, L2, o2) ==
    /\ B = UNION {Buffer(L, g) : g \in Generations}
    /\ S2 = [S1 EXCEPT !.lost = S1.lost \cup B]
    /\ L2 = [g \in Generations |-> NoLog]
    /\ o2 = [p \in Owners |-> FreeOwner]

\* A crash loses no more than what was buffered.
LEMMA CrashKeeps ==
    ASSUME NEW L, NEW c, NEW o, NEW F, NEW n, NEW m, NEW S, StateOK(L, c, o, F, n, m, S),
           NEW F2, NEW S1, CrashOutcome(L, F, F2, S, S1, m),
           NEW B, NEW S2, NEW L2, NEW o2, Restart(L, S1, S2, B, L2, o2)
    PROVE  StateOK(L2, None, o2, F2, n, m, S2)
<1>0. /\ L \in [Generations -> LogState] /\ c \in Generations \cup {None}
      /\ o \in [Owners -> Owner] /\ F \in Seq(LineRecord)
      /\ n \in 0 .. MaxRewrites /\ m \in 0 .. MaxRecords /\ S \in Settlements
      /\ n \in Nat /\ m \in Nat
      /\ GenOK(L, c) /\ CreatedInOrder(L) /\ OthersAbsent(L) /\ EntryIsLast(L, c)
      /\ RetiredOnce(L) /\ ReadyOK(L)
      /\ ChainOK(L, o, n) /\ FreeIsFree(o) /\ PlacedOK(L, o, n) /\ PromiseOK(L, o)
      /\ Chained(o) /\ PriorOK(o) /\ AwaitsOK(L)
      /\ FailureOK(L, o) /\ EpochOK(L, o) /\ CountsOK(L, o, n, m) /\ BatchOK(L, o)
      /\ PassedOK(L, o) /\ QuietOK(L, o)
      /\ FileOK(F, m) /\ BuffersOK(L, m) /\ NewerOK(L, F) /\ CleanOK(L, o, F)
      /\ RewriteOK(L, o, F) /\ PromisedOK(L, o, F, S, m) /\ AckedOK(L, F, S, m)
      /\ NothingVanishes(L, F, S, m)
      BY Parts
<1>h. /\ B = UNION {Buffer(L, g) : g \in Generations}
      /\ S2 = [S1 EXCEPT !.lost = S1.lost \cup B]
      /\ L2 = [g \in Generations |-> NoLog]
      /\ o2 = [p \in Owners |-> FreeOwner]
      BY DEF Restart
<1> USE <1>h
<1>1. /\ F2 \in Seq(LineRecord) /\ FileOK(F2, m)
      /\ S1 \in Settlements /\ S1.acked = S.acked /\ S1.lost = S.lost
      /\ \A r \in Kept(F, S) : r \in 1 .. m =>
             r \in Kept(F2, S1) \/ \E g \in Generations : r \in Buffer(L, g)
      BY DEF CrashOutcome
<1>2. /\ \A g \in Generations : \A r \in Buffer(L, g) : r \in B
      /\ \A r \in B : \E g \in Generations : r \in Buffer(L, g)
      OBVIOUS
<1>3. B \in SUBSET Nat
  <2>1. \A g \in Generations : Buffer(L, g) \subseteq 1 .. m
        BY <1>0, BufferRange
  <2> QED BY <1>2, <2>1
<1>4. /\ S2 \in Settlements /\ S2.acked = S1.acked /\ S2.lost = S1.lost \cup B
      /\ S2.superseded = S1.superseded /\ S2.overrun = S1.overrun
  <2>1. PICK D \in SUBSET Nat : D = S1.lost \cup B
        BY <1>1, <1>3 DEF Settlements
  <2>2. S2 = [S1 EXCEPT !.lost = D]
        BY <2>1
  <2>3. /\ S2 \in Settlements /\ S2.acked = S1.acked /\ S2.lost = D
        /\ S2.superseded = S1.superseded /\ S2.overrun = S1.overrun
        BY ONLY <1>1, <2>2, D \in SUBSET Nat DEF Settlements
  <2> QED BY <2>1, <2>3
<1>5. Kept(F2, S2) = Kept(F2, S1)
      BY <1>4 DEF Kept
<1>6. S2.acked \subseteq Kept(F2, S2) \cap (1 .. m)
  <2> SUFFICES ASSUME NEW r \in S.acked PROVE r \in Kept(F2, S1) /\ r \in 1 .. m
      BY <1>1, <1>4, <1>5
  <2>1. r \in Kept(F, S) /\ r \in 1 .. m /\ \A g \in Generations : r \notin Buffer(L, g)
        BY <1>0 DEF AckedOK
  <2> QED BY <1>1, <2>1
<1>7. 1 .. m \subseteq Kept(F2, S2) \cup S2.lost
  <2> SUFFICES ASSUME NEW r \in 1 .. m PROVE r \in Kept(F2, S1) \/ r \in S.lost \/ r \in B
      BY <1>1, <1>4, <1>5
  <2>1. r \in Kept(F, S) \/ r \in S.lost \/ r \in B
        BY <1>0 DEF NothingVanishes
  <2> QED BY <1>1, <1>2, <2>1
<1>8. L2 = [g \in Generations |-> NoLog] /\ o2 = [p \in Owners |-> FreeOwner]
      OBVIOUS
<1> QED BY ONLY <1>0, <1>1, <1>4, <1>6, <1>7, <1>8, StartState


-----------------------------------------------------------------------------
(* The actions. *)

\* A set of generations has a first one.
LEMMA FirstOf ==
    ASSUME NEW T \in SUBSET Generations, T # {}
    PROVE  \E g \in T : \A h \in T : g <= h
<1>1. T \subseteq Nat /\ T \in SUBSET Nat
      BY Bounds
<1>2. PICK g \in T : \A h \in T : ~(<<h, g>> \in OpToRel(<, Nat))
      BY <1>1, NatLessThanWellFounded, WFMin, Zenon
<1>3. \A h \in T : ~(h < g)
      BY <1>1, <1>2 DEF OpToRel
<1> QED BY <1>1, <1>3

(* state(): the entry of the map, or its replacement. *)
EntryOK(L, g, n, m) ==
    /\ StateOK(L, g, owner, lines, n, m, settled)
    /\ g \in Generations /\ ExistsIn(L, g) /\ ~L[g].retired
    /\ \A h \in Generations : h # g => L[h] = log[h]

LEMMA StateMade ==
    ASSUME NEW n, NEW m, StateOK(log, current, owner, lines, n, m, settled), CanState
    PROVE  EntryOK(Logs, StateOf, n, m)
<1>0. /\ log \in [Generations -> LogState] /\ current \in Generations \cup {None}
      /\ CreatedInOrder(log) /\ EntryIsLast(log, current)
      BY Parts
<1>1. CASE Live
  <2>1. Logs = log /\ StateOf = current
        BY <1>1 DEF Logs, StateOf
  <2>2. current \in Generations /\ ~log[current].retired /\ ExistsIn(log, current)
        BY <1>0, <1>1 DEF Live, EntryIsLast
  <2> QED BY <2>1, <2>2 DEF EntryOK
<1>2. CASE ~Live
  <2>1. \E g \in Generations : ~Exists(g) /\ \A h \in 1 .. g - 1 : Exists(h)
    <3> DEFINE T == {g \in Generations : ~Exists(g)}
    <3>1. T # {}
          BY <1>2 DEF CanState
    <3>2. PICK g \in T : \A h \in T : g <= h
          BY <3>1, FirstOf
    <3>3. \A h \in 1 .. g - 1 : h \in Generations /\ ~(g <= h)
          BY <3>2, Bounds DEF Generations
    <3> QED BY <3>2, <3>3
  <2>2. PICK g : g = Fresh
        OBVIOUS
  <2>3. g \in Generations /\ ~Exists(g) /\ \A h \in 1 .. g - 1 : Exists(h)
        BY <2>1, <2>2 DEF Fresh
  <2>4. ~ExistsIn(log, g) /\ \A h \in Generations : h < g => ExistsIn(log, h)
    <3>1. \A h \in Generations : h < g => h \in 1 .. g - 1
          BY <2>3, Bounds DEF Generations
    <3> QED BY <2>3, <3>1 DEF Exists, ExistsIn
  <2>5. current # None => log[current].retired
        BY <1>2 DEF Live
  <2>6. PICK L : L = Logs
        OBVIOUS
  <2>7. L = [log EXCEPT ![g] = NewLog(current)] /\ StateOf = g
        BY <1>2, <2>2, <2>6 DEF Logs, StateOf
  <2>8. StateOK(L, g, owner, lines, n, m, settled)
        BY <2>3, <2>4, <2>5, <2>7, GenerationBegins
  <2>9. L[g] = NewLog(current) /\ \A h \in Generations : h # g => L[h] = log[h]
        BY <1>0, <2>3, <2>7
  <2>10. ExistsIn(L, g) /\ ~L[g].retired
         BY <2>9 DEF ExistsIn, NewLog
  <2> QED BY <2>3, <2>6, <2>7, <2>8, <2>9, <2>10 DEF EntryOK
<1> QED BY <1>1, <1>2

\* The counts of the bounded operations.
LEMMA Counted ==
    ASSUME calls \in Calls
    PROVE  /\ calls.append \in Nat /\ calls.rewrite \in Nat
           /\ Count("append") /\ calls.append < MaxRecords =>
                  /\ calls' \in Calls /\ calls'.append = calls.append + 1
                  /\ calls'.rewrite = calls.rewrite
           /\ Count("rewrite") /\ calls.rewrite < MaxRewrites =>
                  /\ calls' \in Calls /\ calls'.append = calls.append
                  /\ calls'.rewrite = calls.rewrite + 1
           /\ Count("flush") \/ Count("failure") \/ Count("crash") =>
                  /\ calls' \in Calls /\ calls'.append = calls.append
                  /\ calls'.rewrite = calls.rewrite
<1>1. calls.append \in Nat /\ calls.rewrite \in Nat
      BY Bounds DEF Calls
<1>2. ASSUME Count("append"), calls.append < MaxRecords
      PROVE  /\ calls' \in Calls /\ calls'.append = calls.append + 1
             /\ calls'.rewrite = calls.rewrite
      BY <1>2, Bounds DEF Calls, Count
<1>3. ASSUME Count("rewrite"), calls.rewrite < MaxRewrites
      PROVE  /\ calls' \in Calls /\ calls'.append = calls.append
             /\ calls'.rewrite = calls.rewrite + 1
      BY <1>3, Bounds DEF Calls, Count
<1>4. ASSUME Count("flush")
      PROVE  calls' \in Calls /\ calls'.append = calls.append /\ calls'.rewrite = calls.rewrite
      BY <1>4 DEF Calls, Count
<1>5. ASSUME Count("failure")
      PROVE  calls' \in Calls /\ calls'.append = calls.append /\ calls'.rewrite = calls.rewrite
      BY <1>5 DEF Calls, Count
<1>6. ASSUME Count("crash")
      PROVE  calls' \in Calls /\ calls'.append = calls.append /\ calls'.rewrite = calls.rewrite
      BY <1>6 DEF Calls, Count
<1> QED BY <1>1, <1>2, <1>3, <1>4, <1>5, <1>6

\* acquire: a handle on the entry of the map.
LEMMA AcquireKeeps ==
    ASSUME IInv, Acquire PROVE IInv'
<1>0. /\ torn \in BOOLEAN /\ calls \in Calls
      /\ StateOK(log, current, owner, lines, calls.rewrite, calls.append, settled)
      BY DEF IInv
<1>1. /\ CanState /\ Logs[StateOf].refCount < MaxHandles
      /\ log' = [Logs EXCEPT ![StateOf].refCount = @ + 1] /\ current' = StateOf
      /\ UNCHANGED <<lines, torn, owner, calls, settled>>
      BY DEF Acquire
<1>2. PICK L, g, L2 : L = Logs /\ g = StateOf /\ L2 = log'
      OBVIOUS
<1>3. EntryOK(L, g, calls.rewrite, calls.append)
      BY <1>0, <1>1, <1>2, StateMade
<1>4. L[g].refCount < MaxHandles /\ L2 = [L EXCEPT ![g].refCount = @ + 1]
      BY <1>1, <1>2
<1>5. StateOK(L2, g, owner, lines, calls.rewrite, calls.append, settled)
      BY ONLY <1>3, <1>4, HandleTaken DEF EntryOK
<1> QED BY <1>0, <1>1, <1>2, <1>5 DEF IInv

\* append: a record in the buffer of the entry of the map, and a microtask.
LEMMA AppendRecordKeeps ==
    ASSUME IInv, AppendRecord PROVE IInv'
<1>0. /\ torn \in BOOLEAN /\ calls \in Calls
      /\ StateOK(log, current, owner, lines, calls.rewrite, calls.append, settled)
      BY DEF IInv
<1>1. /\ CanState /\ calls.append < MaxRecords /\ current' = StateOf /\ Count("append")
      /\ log' = [Logs EXCEPT ![StateOf].pending = Append(@, calls.append + 1),
                             ![StateOf].flushScheduled =
                                 @ \/ Logs[StateOf].flushPromise = None]
      /\ UNCHANGED <<lines, torn, owner, settled>>
      BY DEF AppendRecord
<1>2. PICK L, g, L2 : L = Logs /\ g = StateOf /\ L2 = log'
      OBVIOUS
<1>3. EntryOK(L, g, calls.rewrite, calls.append)
      BY <1>0, <1>1, <1>2, StateMade
<1>4. L \in [Generations -> LogState] /\ g \in Generations
      BY <1>3, Parts DEF EntryOK
<1>5. PICK s \in BOOLEAN : s = (L[g].flushScheduled \/ L[g].flushPromise = None)
      OBVIOUS
<1>6. L2 = [L EXCEPT ![g].pending = Append(@, calls.append + 1), ![g].flushScheduled = s]
      BY <1>1, <1>2, <1>5
<1>7. StateOK(L2, g, owner, lines, calls.rewrite, calls.append + 1, settled)
      BY ONLY <1>1, <1>3, <1>6, s \in BOOLEAN, BufferGrows DEF EntryOK
<1>8. calls' \in Calls /\ calls'.append = calls.append + 1 /\ calls'.rewrite = calls.rewrite
      BY <1>0, <1>1, Counted
<1> QED BY <1>0, <1>1, <1>2, <1>7, <1>8 DEF IInv

\* What neither promises nor contents nor the lives of generations depend on.
LEMMA Unaffected ==
    ASSUME NEW L, NEW c, NEW o, NEW F, NEW n, NEW m, NEW S, StateOK(L, c, o, F, n, m, S),
           NEW g \in Generations, ExistsIn(L, g),
           NEW L2 \in [Generations -> LogState], \A h \in Generations : h # g => L2[h] = L[h],
           L2[g].pending = L[g].pending, L2[g].flushPromise = L[g].flushPromise,
           L2[g].storageFailure = L[g].storageFailure, L2[g].cutoverEpoch = L[g].cutoverEpoch,
           L2[g].retired = L[g].retired, L2[g].ready = L[g].ready,
           L2[g].retirement = L[g].retirement, L2[g].awaits = L[g].awaits,
           L2[g].refCount > 0 => L2[g].retirement = "none"
    PROVE  StateOK(L2, c, o, F, n, m, S)
<1>0. /\ L \in [Generations -> LogState] /\ c \in Generations \cup {None}
      /\ o \in [Owners -> Owner] /\ F \in Seq(LineRecord)
      /\ n \in 0 .. MaxRewrites /\ m \in 0 .. MaxRecords /\ S \in Settlements
      /\ n \in Nat /\ m \in Nat
      /\ GenOK(L, c) /\ CreatedInOrder(L) /\ OthersAbsent(L) /\ EntryIsLast(L, c)
      /\ RetiredOnce(L) /\ ReadyOK(L)
      /\ ChainOK(L, o, n) /\ FreeIsFree(o) /\ PlacedOK(L, o, n) /\ PromiseOK(L, o)
      /\ Chained(o) /\ PriorOK(o) /\ AwaitsOK(L)
      /\ FailureOK(L, o) /\ EpochOK(L, o) /\ CountsOK(L, o, n, m) /\ BatchOK(L, o)
      /\ PassedOK(L, o) /\ QuietOK(L, o)
      /\ FileOK(F, m) /\ BuffersOK(L, m) /\ NewerOK(L, F) /\ CleanOK(L, o, F)
      /\ RewriteOK(L, o, F) /\ PromisedOK(L, o, F, S, m) /\ AckedOK(L, F, S, m)
      /\ NothingVanishes(L, F, S, m)
      BY Parts
<1>1. SameLives(L, L2)
  <2> SUFFICES ASSUME NEW h \in Generations
               PROVE  /\ L2[h].retirement = L[h].retirement /\ L2[h].retired = L[h].retired
                      /\ L2[h].ready = L[h].ready
                      /\ L2[h].refCount > 0 => L2[h].retirement = "none"
                      /\ ~ExistsIn(L, h) => L2[h] = L[h]
      BY DEF SameLives
  <2>1. CASE h = g
        BY <2>1
  <2>2. CASE h # g
        BY <1>0, <2>2 DEF RetiredOnce
  <2> QED BY <2>1, <2>2
<1>2. /\ GenOK(L2, c)
      /\ \A h \in Generations : (ExistsIn(L2, h) <=> ExistsIn(L, h)) /\ (Passed(L2, h) <=> Passed(L, h))
      BY <1>0, <1>1, LivesKept
<1>3. AwaitsOK(L2)
      BY <1>0 DEF AwaitsOK
<1>4. \A h \in Generations :
          /\ L2[h].pending = L[h].pending /\ L2[h].flushPromise = L[h].flushPromise
          /\ L2[h].storageFailure = L[h].storageFailure
          /\ L2[h].cutoverEpoch = L[h].cutoverEpoch /\ (Quiet(L2, h) <=> Quiet(L, h))
      BY DEF Quiet
<1> QED BY ONLY StateOK(L, c, o, F, n, m, S), <1>0, <1>2, <1>3, <1>4, LivesOnly,
                L2 \in [Generations -> LogState]

\* The microtask starts a flush, or joins the one under way.
LEMMA ScheduledFlushKeeps ==
    ASSUME IInv, NEW g \in Generations, ScheduledFlush(g) PROVE IInv'
<1>0. /\ torn \in BOOLEAN /\ calls \in Calls
      /\ StateOK(log, current, owner, lines, calls.rewrite, calls.append, settled)
      BY DEF IInv
<1>1. /\ log[g].flushScheduled /\ FlushState([log EXCEPT ![g].flushScheduled = FALSE], g, {})
      /\ UNCHANGED <<lines, torn, current, calls, settled>>
      BY DEF ScheduledFlush
<1>2. PICK L : L = [log EXCEPT ![g].flushScheduled = FALSE]
      OBVIOUS
<1>3. log \in [Generations -> LogState] /\ RetiredOnce(log) /\ OthersAbsent(log)
      BY <1>0, Parts
<1>4. /\ \A h \in Generations : h # g => L[h] = log[h]
      /\ L[g] \in LogState /\ L[g].pending = log[g].pending
      /\ L[g].flushPromise = log[g].flushPromise
      /\ L[g].storageFailure = log[g].storageFailure /\ L[g].cutoverEpoch = log[g].cutoverEpoch
      /\ L[g].refCount = log[g].refCount /\ L[g].retired = log[g].retired
      /\ L[g].ready = log[g].ready /\ L[g].retirement = log[g].retirement
      /\ L[g].awaits = log[g].awaits
  <2>1. PICK l \in LogState, k \in {L[g]} : l = log[g] /\ k = L[g]
        BY <1>3
  <2>2. k = [l EXCEPT !.flushScheduled = FALSE] /\ \A h \in Generations : h # g => L[h] = log[h]
        BY <1>2, <1>3, <2>1
  <2>3. /\ k \in LogState /\ k.pending = l.pending /\ k.flushPromise = l.flushPromise
        /\ k.storageFailure = l.storageFailure /\ k.cutoverEpoch = l.cutoverEpoch
        /\ k.refCount = l.refCount /\ k.retired = l.retired /\ k.ready = l.ready
        /\ k.retirement = l.retirement /\ k.awaits = l.awaits
        BY ONLY <2>2, l \in LogState DEF LogState
  <2> QED BY <2>1, <2>2, <2>3
<1>5. L \in [Generations -> LogState]
      BY <1>2, <1>3, <1>4
<1>6. ExistsIn(log, g)
      BY <1>1, <1>3 DEF OthersAbsent, NoLog, NewLog
<1>7. L[g].refCount > 0 => L[g].retirement = "none"
      BY <1>3, <1>4 DEF RetiredOnce
<1>8. StateOK(L, current, owner, lines, calls.rewrite, calls.append, settled)
      BY ONLY <1>0, <1>4, <1>5, <1>6, <1>7, g \in Generations, Unaffected
<1>9. FlushState(L, g, {}) /\ ExistsIn(L, g) /\ {} \subseteq Buffer(L, g)
      BY <1>1, <1>2, <1>4, <1>6 DEF ExistsIn
<1>10. StateOK(log', current, owner', lines, calls.rewrite, calls.append, settled)
       BY ONLY <1>8, <1>9, g \in Generations, FlushStateOK
<1> QED BY <1>0, <1>1, <1>10 DEF IInv

\* flush() on the entry of the map.
LEMMA FlushKeeps ==
    ASSUME IInv, Flush PROVE IInv'
<1>0. /\ torn \in BOOLEAN /\ calls \in Calls
      /\ StateOK(log, current, owner, lines, calls.rewrite, calls.append, settled)
      BY DEF IInv
<1>1. /\ current # None /\ FlushState(log, current, ToSet(log[current].pending))
      /\ Count("flush") /\ UNCHANGED <<lines, torn, current, settled>>
      BY DEF Flush
<1>2. current \in Generations /\ ExistsIn(log, current)
      BY <1>0, <1>1, Parts DEF EntryIsLast
<1>3. FlushState(log, current, Buffer(log, current)) /\ Buffer(log, current) \subseteq Buffer(log, current)
      BY <1>1 DEF Buffer
<1>4. StateOK(log', current, owner', lines, calls.rewrite, calls.append, settled)
      BY ONLY <1>0, <1>2, <1>3, FlushStateOK
<1>5. calls' \in Calls /\ calls'.append = calls.append /\ calls'.rewrite = calls.rewrite
      BY <1>0, <1>1, Counted
<1> QED BY <1>0, <1>1, <1>4, <1>5 DEF IInv

\* read() flushes the entry of the map, made if it is missing.
LEMMA ReadFlushKeeps ==
    ASSUME IInv, ReadFlush PROVE IInv'
<1>0. /\ torn \in BOOLEAN /\ calls \in Calls
      /\ StateOK(log, current, owner, lines, calls.rewrite, calls.append, settled)
      BY DEF IInv
<1>1. /\ CanState /\ FlushState(Logs, StateOf, ToSet(Logs[StateOf].pending))
      /\ current' = StateOf /\ Count("flush") /\ UNCHANGED <<lines, torn, settled>>
      BY DEF ReadFlush
<1>2. PICK L, g : L = Logs /\ g = StateOf
      OBVIOUS
<1>3. EntryOK(L, g, calls.rewrite, calls.append)
      BY <1>0, <1>1, <1>2, StateMade
<1>4. FlushState(L, g, Buffer(L, g)) /\ Buffer(L, g) \subseteq Buffer(L, g)
      BY <1>1, <1>2 DEF Buffer
<1>5. StateOK(log', g, owner', lines, calls.rewrite, calls.append, settled)
      BY ONLY <1>3, <1>4, FlushStateOK DEF EntryOK
<1>6. calls' \in Calls /\ calls'.append = calls.append /\ calls'.rewrite = calls.rewrite
      BY <1>0, <1>1, Counted
<1> QED BY <1>0, <1>1, <1>2, <1>5, <1>6 DEF IInv


\* rewrite takes ownership of the entry of the map at once.
LEMMA RewriteKeeps ==
    ASSUME IInv, Rewrite PROVE IInv'
<1>0. /\ torn \in BOOLEAN /\ calls \in Calls
      /\ StateOK(log, current, owner, lines, calls.rewrite, calls.append, settled)
      BY DEF IInv
<1>1. PICK L, g, R, covered, K, foreign, L2, o2 :
          /\ L = Logs /\ g = StateOf /\ R = RewriteOwner
          /\ covered = OnDisk \ ToSet(Logs[g].pending)
          /\ K = {h \in Generations : Exists(h) /\ h # g /\ log[h].retirement # "settled"}
          /\ foreign = UNION {ToSet(log[h].pending) : h \in K}
          /\ L2 = log' /\ o2 = owner'
      OBVIOUS
<1>2. /\ CanState /\ calls.rewrite < MaxRewrites /\ Count("rewrite") /\ current' = g
      /\ o2 = [owner EXCEPT ![R] = [FreeOwner EXCEPT
                   !.gen = g, !.pc = "prior", !.prior = L[g].flushPromise,
                   !.covered = covered, !.foreign = foreign]]
      /\ L2 = [L EXCEPT ![g].cutoverEpoch = @ + 1, ![g].flushPromise = R]
      /\ UNCHANGED <<lines, torn, settled>>
      BY <1>1 DEF Rewrite
<1>3. EntryOK(L, g, calls.rewrite, calls.append)
      BY <1>0, <1>1, <1>2, StateMade
<1>4. log \in [Generations -> LogState] /\ calls.append \in Nat /\ BuffersOK(log, calls.append)
      BY <1>0, Parts
<1>5. \A h \in Generations : h # g => L[h] = log[h]
      BY <1>3 DEF EntryOK
<1>6. covered = Recs(lines) \ Buffer(L, g) /\ R = MaxGenerations + calls.rewrite + 1
      BY <1>1 DEF OnDisk, Recs, Buffer, RewriteOwner
<1>7. /\ \A x \in foreign : \E h \in K : x \in Buffer(log, h)
      /\ \A h \in K : Buffer(log, h) \subseteq foreign
      BY <1>1 DEF Buffer
<1>8. foreign \in SUBSET Nat
  <2>1. K \subseteq Generations
        BY <1>1
  <2>2. \A h \in Generations : Buffer(log, h) \subseteq 1 .. calls.append
        BY <1>4, BufferRange
  <2>3. \A x \in 1 .. calls.append : x \in Nat
        BY <1>4
  <2> QED BY ONLY <1>7, <2>1, <2>2, <2>3
<1>9. \A h \in Generations : ExistsIn(L, h) /\ h # g /\ L[h].retirement # "settled" =>
          Buffer(L, h) \subseteq foreign
  <2> SUFFICES ASSUME NEW h \in Generations, ExistsIn(L, h), h # g, L[h].retirement # "settled"
               PROVE  Buffer(L, h) \subseteq foreign
      OBVIOUS
  <2>1. L[h] = log[h]
        BY <1>5
  <2>2. h \in K
        BY <1>1, <2>1 DEF ExistsIn, Exists
  <2>3. Buffer(L, h) = Buffer(log, h)
        BY <2>1 DEF Buffer
  <2> QED BY ONLY <1>7, <2>2, <2>3
<1>10. StateOK(L2, g, o2, lines, calls.rewrite + 1, calls.append, settled)
  <2>1. PICK n, m, o, F, S : /\ n = calls.rewrite /\ m = calls.append
                             /\ o = owner /\ F = lines /\ S = settled
        OBVIOUS
  <2>2. StateOK(L, g, o, F, n, m, S) /\ g \in Generations /\ ExistsIn(L, g) /\ ~L[g].retired
        BY <1>3, <2>1 DEF EntryOK
  <2>3. n < MaxRewrites /\ R = MaxGenerations + n + 1 /\ covered = Recs(F) \ Buffer(L, g)
        BY <1>2, <1>6, <2>1
  <2>4. L2 = [L EXCEPT ![g].cutoverEpoch = @ + 1, ![g].flushPromise = R]
        BY <1>2
  <2>5. PICK w : w = [FreeOwner EXCEPT !.gen = g, !.pc = "prior", !.prior = L[g].flushPromise,
                                       !.covered = covered, !.foreign = foreign]
        OBVIOUS
  <2>7. o2 = [o EXCEPT ![R] = w]
        BY <1>2, <2>1, <2>5
  <2>8. RewriteTaken(L, L2, o, o2, F, n, g, R, covered, foreign, w)
        BY ONLY <1>8, <1>9, <2>3, <2>4, <2>5, <2>7 DEF RewriteTaken
  <2>6. StateOK(L2, g, o2, F, n + 1, m, S)
        BY ONLY <2>2, <2>3, <2>8, RewriteBegins
  <2> QED BY <2>1, <2>6
<1>11. calls' \in Calls /\ calls'.append = calls.append /\ calls'.rewrite = calls.rewrite + 1
       BY <1>0, <1>2, Counted
<1> QED BY <1>0, <1>1, <1>2, <1>10, <1>11 DEF IInv

\* settleRetiredState, after the last flush.
LEMMA RetirementSettlesKeeps ==
    ASSUME IInv, NEW g \in Generations, RetirementSettles(g) PROVE IInv'
<1>0. /\ torn \in BOOLEAN /\ calls \in Calls
      /\ StateOK(log, current, owner, lines, calls.rewrite, calls.append, settled)
      BY DEF IInv
<1>1. PICK L2, c2 : L2 = log' /\ c2 = current'
      OBVIOUS
<1>2. /\ log[g].retirement = "flushing" /\ log[g].awaits = None
      /\ L2 = [log EXCEPT ![g].retirement = "settled"]
      /\ c2 = (IF current = g THEN None ELSE current)
      /\ UNCHANGED <<lines, torn, owner, calls, settled>>
      BY <1>1 DEF RetirementSettles
<1>3. PICK n, m, c : n = calls.rewrite /\ m = calls.append /\ c = current
      OBVIOUS
<1>4. StateOK(log, c, owner, lines, n, m, settled)
      BY <1>0, <1>3
<1>5. log[g].retirement = "flushing" /\ log[g].awaits = None
      BY <1>2
<1>6. L2 = [log EXCEPT ![g].retirement = "settled"] /\ (c = g => c2 = None) /\ (c # g => c2 = c)
      BY <1>2, <1>3
<1>7. StateOK(L2, c2, owner, lines, n, m, settled)
      BY ONLY <1>4, <1>5, <1>6, g \in Generations, RetirementEnds
<1> QED BY <1>0, <1>1, <1>2, <1>3, <1>7 DEF IInv

\* A handle that is not the last one.
LEMMA HandleDropped ==
    ASSUME NEW L, NEW c, NEW o, NEW F, NEW n, NEW m, NEW S, StateOK(L, c, o, F, n, m, S),
           NEW g \in Generations, L[g].refCount > 1,
           NEW L2, L2 = [L EXCEPT ![g].refCount = @ - 1]
    PROVE  StateOK(L2, c, o, F, n, m, S)
<1>0. L \in [Generations -> LogState] /\ RetiredOnce(L)
      BY Parts
<1>1. L[g].refCount \in 0 .. MaxHandles /\ L[g].refCount > 0 /\ L[g].retirement = "none"
      BY <1>0, Bounds, LogFields DEF RetiredOnce
<1>2. /\ \A h \in Generations : h # g => L2[h] = L[h]
      /\ L2[g] \in LogState /\ L2[g].pending = L[g].pending
      /\ L2[g].flushPromise = L[g].flushPromise
      /\ L2[g].storageFailure = L[g].storageFailure /\ L2[g].cutoverEpoch = L[g].cutoverEpoch
      /\ L2[g].retired = L[g].retired /\ L2[g].ready = L[g].ready
      /\ L2[g].retirement = L[g].retirement /\ L2[g].awaits = L[g].awaits
  <2>1. PICK l \in LogState, k \in {L2[g]} : l = L[g] /\ k = L2[g]
        BY <1>0
  <2>2. k = [l EXCEPT !.refCount = @ - 1] /\ l.refCount - 1 \in 0 .. MaxHandles
        BY <1>0, <1>1, <2>1, Bounds
  <2>3. /\ k \in LogState /\ k.pending = l.pending /\ k.flushPromise = l.flushPromise
        /\ k.storageFailure = l.storageFailure /\ k.cutoverEpoch = l.cutoverEpoch
        /\ k.retired = l.retired /\ k.ready = l.ready
        /\ k.retirement = l.retirement /\ k.awaits = l.awaits
        BY ONLY <2>2, l \in LogState DEF LogState
  <2> QED BY <1>0, <2>1, <2>3
<1>3. L2 \in [Generations -> LogState]
      BY <1>0, <1>2
<1>4. ExistsIn(L, g) /\ (L2[g].refCount > 0 => L2[g].retirement = "none")
      BY <1>1, <1>2 DEF ExistsIn
<1> QED BY ONLY StateOK(L, c, o, F, n, m, S), <1>2, <1>3, <1>4, g \in Generations, Unaffected

(* The retirement L1 of generation g before its flush d, and the flush LA before it. *)
LastFlush(L, g, d, L1, LA) ==
    /\ L1 = [L EXCEPT ![g].refCount = @ - 1, ![g].retired = TRUE,
                      ![g].retirement = "flushing", ![g].awaits = d]
    /\ LA = [L EXCEPT ![g].flushPromise = d]

EitherOrder(L, g, d, L1, LA) ==
    /\ [L1 EXCEPT ![g].flushPromise = d] =
       [LA EXCEPT ![g].refCount = @ - 1, ![g].retired = TRUE,
                  ![g].retirement = "flushing", ![g].awaits = LA[g].flushPromise]
    /\ L1[g].flushPromise = L[g].flushPromise
    /\ L1[g].storageFailure = L[g].storageFailure
    /\ Drain(L1, g, {}) = Drain(L, g, {})
    /\ LA[g].refCount = L[g].refCount /\ LA[g].flushPromise = d

\* The last flush and the retirement, in either order.
LEMMA RetiredDrain ==
    ASSUME NEW L \in [Generations -> LogState], NEW g \in Generations, NEW d,
           NEW L1, NEW LA, LastFlush(L, g, d, L1, LA)
    PROVE  EitherOrder(L, g, d, L1, LA)
<1>0. /\ L1 = [L EXCEPT ![g].refCount = @ - 1, ![g].retired = TRUE,
                        ![g].retirement = "flushing", ![g].awaits = d]
      /\ LA = [L EXCEPT ![g].flushPromise = d]
      BY DEF LastFlush
<1>1. PICK l \in LogState : l = L[g]
      OBVIOUS
<1>2. PICK a, b : /\ a = [l EXCEPT !.flushPromise = d]
                  /\ b = [l EXCEPT !.refCount = @ - 1, !.retired = TRUE,
                                   !.retirement = "flushing", !.awaits = d]
      OBVIOUS
<1>3. LA[g] = a /\ L1[g] = b /\ LA = [L EXCEPT ![g] = a] /\ L1 = [L EXCEPT ![g] = b]
      BY <1>0, <1>1, <1>2
<1>4. /\ a.flushPromise = d /\ a.refCount = l.refCount
      /\ b.flushPromise = l.flushPromise /\ b.storageFailure = l.storageFailure
      /\ b.cutoverEpoch = l.cutoverEpoch
      /\ [b EXCEPT !.flushPromise = d] =
         [a EXCEPT !.refCount = @ - 1, !.retired = TRUE, !.retirement = "flushing", !.awaits = d]
      BY ONLY <1>2, l \in LogState DEF LogState
<1>5. [L1 EXCEPT ![g].flushPromise = d] = [L EXCEPT ![g] = [b EXCEPT !.flushPromise = d]]
      BY ONLY <1>3, L \in [Generations -> LogState], g \in Generations
<1>6. [LA EXCEPT ![g].refCount = @ - 1, ![g].retired = TRUE,
                 ![g].retirement = "flushing", ![g].awaits = LA[g].flushPromise]
      = [L EXCEPT ![g] = [a EXCEPT !.refCount = @ - 1, !.retired = TRUE,
                                   !.retirement = "flushing", !.awaits = d]]
      BY ONLY <1>3, <1>4, L \in [Generations -> LogState], g \in Generations
<1>7. Drain(L1, g, {}) = Drain(L, g, {})
      BY <1>1, <1>3, <1>4 DEF Drain
<1>8. /\ L1[g].flushPromise = L[g].flushPromise /\ L1[g].storageFailure = L[g].storageFailure
      /\ LA[g].refCount = L[g].refCount /\ LA[g].flushPromise = d
      BY ONLY <1>1, <1>3, <1>4
<1>9. [L EXCEPT ![g] = [b EXCEPT !.flushPromise = d]]
      = [L EXCEPT ![g] = [a EXCEPT !.refCount = @ - 1, !.retired = TRUE,
                                   !.retirement = "flushing", !.awaits = d]]
      BY ONLY <1>4
<1>10. [L1 EXCEPT ![g].flushPromise = d] =
       [LA EXCEPT ![g].refCount = @ - 1, ![g].retired = TRUE,
                  ![g].retirement = "flushing", ![g].awaits = LA[g].flushPromise]
       BY ONLY <1>5, <1>6, <1>9
<1> QED BY ONLY <1>7, <1>8, <1>10 DEF EitherOrder


\* release: one handle less, or the retirement.
LEMMA ReleaseKeeps ==
    ASSUME IInv, NEW g \in Generations, Release(g) PROVE IInv'
<1>0. /\ torn \in BOOLEAN /\ calls \in Calls
      /\ StateOK(log, current, owner, lines, calls.rewrite, calls.append, settled)
      BY DEF IInv
<1>1. /\ log[g].refCount > 0 /\ DropHandle(g)
      /\ UNCHANGED <<lines, torn, current, calls, settled>>
      BY DEF Release
<1>2. /\ log \in [Generations -> LogState] /\ owner \in [Owners -> Owner] /\ RetiredOnce(log)
      BY <1>0, Parts
<1>3. /\ log[g].refCount \in 0 .. MaxHandles /\ log[g].flushPromise \in Owners \cup {None}
      /\ log[g].storageFailure \in BOOLEAN /\ ExistsIn(log, g)
      BY <1>1, <1>2, LogFields DEF RetiredOnce, ExistsIn
<1>4. PICK L2, o2, n, m : L2 = log' /\ o2 = owner' /\ n = calls.rewrite /\ m = calls.append
      OBVIOUS
<1>5. StateOK(log, current, owner, lines, n, m, settled)
      BY <1>0, <1>4
<1>6. CASE log[g].refCount > 1
  <2>1. L2 = [log EXCEPT ![g].refCount = @ - 1] /\ o2 = owner
        BY <1>1, <1>4, <1>6 DEF DropHandle
  <2>2. StateOK(L2, current, owner, lines, n, m, settled)
        BY ONLY <1>5, <1>6, <2>1, g \in Generations, HandleDropped
  <2> QED BY <1>0, <1>1, <1>4, <2>1, <2>2 DEF IInv
<1>7. CASE ~(log[g].refCount > 1)
  <2>1. log[g].refCount <= 1
        BY <1>3, <1>7, Bounds
  <2>2. PICK q : q = IF log[g].flushPromise # None THEN log[g].flushPromise
                     ELSE IF log[g].storageFailure THEN None ELSE DrainOwner(g)
        OBVIOUS
  <2>3. PICK L1 : L1 = [log EXCEPT ![g].refCount = @ - 1, ![g].retired = TRUE,
                                   ![g].retirement = "flushing", ![g].awaits = q]
        OBVIOUS
  <2>4. FlushState(L1, g, {})
        BY <1>1, <1>7, <2>2, <2>3 DEF DropHandle
  <2>5. L1[g].flushPromise = log[g].flushPromise /\ L1[g].storageFailure = log[g].storageFailure
        BY ONLY <1>2, <2>3, g \in Generations DEF LogState
  <2>6. CASE log[g].flushPromise # None \/ log[g].storageFailure
    <3>1. q = log[g].flushPromise
          BY <1>3, <2>2, <2>6
    <3>2. L2 = L1 /\ (o2 = owner \/ o2 = [owner EXCEPT ![log[g].flushPromise].promised = @ \cup {}])
          BY <1>4, <2>4, <2>5, <2>6 DEF FlushState
    <3>3. o2 = owner
      <4>1. CASE log[g].flushPromise # None
        <5>1. log[g].flushPromise \in Owners
              BY <1>3, <4>1
        <5>2. PICK r \in Owners : r = log[g].flushPromise
              BY <5>1
        <5>3. [owner EXCEPT ![r].promised = @ \cup {}] = owner
              BY ONLY <1>2, r \in Owners DEF Owner
        <5> QED BY <3>2, <5>2, <5>3
      <4>2. CASE log[g].flushPromise = None
            BY <1>4, <2>4, <2>5, <4>2 , <2>6 DEF FlushState
      <4> QED BY <4>1, <4>2
    <3>4. L2 = [log EXCEPT ![g].refCount = @ - 1, ![g].retired = TRUE,
                           ![g].retirement = "flushing", ![g].awaits = log[g].flushPromise]
          BY ONLY <2>3, <3>1, <3>2
    <3>5. log[g].flushPromise = None => log[g].storageFailure
          BY <2>6
    <3>6. StateOK(L2, current, owner, lines, n, m, settled)
          BY ONLY <1>1, <1>5, <2>1, <3>4, <3>5, g \in Generations, Retires
    <3> QED BY <1>0, <1>1, <1>4, <3>3, <3>6 DEF IInv
  <2>7. CASE log[g].flushPromise = None /\ ~log[g].storageFailure
    <3>1. PICK d : d = DrainOwner(g)
          OBVIOUS
    <3>2. L1 = [log EXCEPT ![g].refCount = @ - 1, ![g].retired = TRUE,
                           ![g].retirement = "flushing", ![g].awaits = d]
          BY <2>2, <2>3, <2>7, <3>1
    <3>3. PICK LA : LA = [log EXCEPT ![g].flushPromise = d]
          OBVIOUS
    <3>4. /\ [L1 EXCEPT ![g].flushPromise = d] =
             [LA EXCEPT ![g].refCount = @ - 1, ![g].retired = TRUE,
                        ![g].retirement = "flushing", ![g].awaits = LA[g].flushPromise]
          /\ Drain(L1, g, {}) = Drain(log, g, {})
          /\ LA[g].refCount = log[g].refCount /\ LA[g].flushPromise = d
      <4>1. LastFlush(log, g, d, L1, LA)
            BY ONLY <3>2, <3>3 DEF LastFlush
      <4>2. EitherOrder(log, g, d, L1, LA)
            BY ONLY <1>2, <4>1, g \in Generations, RetiredDrain
      <4> QED BY ONLY <4>2 DEF EitherOrder
    <3>5. o2 = [owner EXCEPT ![d] = Drain(L1, g, {})] /\ L2 = [L1 EXCEPT ![g].flushPromise = d]
          BY <1>4, <2>4, <2>5, <2>7, <3>1 DEF FlushState
    <3>6. o2 = [owner EXCEPT ![DrainOwner(g)] = Drain(log, g, {})]
          BY ONLY <3>1, <3>4, <3>5
    <3>7. LA = [log EXCEPT ![g].flushPromise = DrainOwner(g)]
          BY ONLY <3>1, <3>3
    <3>8. StateOK(LA, current, o2, lines, n, m, settled)
      <4>1. {} \subseteq Buffer(log, g)
            OBVIOUS
      <4> QED BY ONLY <1>3, <1>5, <2>7, <3>6, <3>7, <4>1, g \in Generations, DrainStarts
    <3>9. /\ LA[g].refCount > 0 /\ LA[g].refCount <= 1
          /\ LA[g].flushPromise = None => LA[g].storageFailure
      <4>1. d # None
            BY <3>1, Bounds DEF DrainOwner
      <4> QED BY <1>1, <2>1, <3>4, <4>1
    <3>10. L2 = [LA EXCEPT ![g].refCount = @ - 1, ![g].retired = TRUE,
                           ![g].retirement = "flushing", ![g].awaits = LA[g].flushPromise]
           BY ONLY <3>4, <3>5
    <3>11. StateOK(L2, current, o2, lines, n, m, settled)
           BY ONLY <3>8, <3>9, <3>10, g \in Generations, Retires
    <3> QED BY <1>0, <1>1, <1>4, <3>11 DEF IInv
  <2> QED BY <2>6, <2>7
<1> QED BY <1>6, <1>7

\* drainLog, once the generation is ready.
LEMMA DrainResumesKeeps ==
    ASSUME IInv, NEW p \in Owners, DrainResumes(p) PROVE IInv'
<1>0. /\ torn \in BOOLEAN /\ calls \in Calls
      /\ StateOK(log, current, owner, lines, calls.rewrite, calls.append, settled)
      BY DEF IInv
<1>1. PICK g, o2, L, c, o, F, n, m, S :
          /\ g = owner[p].gen /\ o2 = owner' /\ L = log /\ c = current /\ o = owner
          /\ F = lines /\ n = calls.rewrite /\ m = calls.append /\ S = settled
      OBVIOUS
<1>s. StateOK(L, c, o, F, n, m, S) /\ g = o[p].gen
      BY <1>0, <1>1
<1>u. UNCHANGED <<lines, torn, current, log, calls, settled>>
      BY DEF DrainResumes, RewriteStarts, DrainAgain
<1>2. /\ o[p].pc = "ready"
      /\ L[g].ready # None => L[L[g].ready].retirement = "settled"
      BY <1>1 DEF DrainResumes, Ready
<1>3. \/ /\ L[g].cutoverEpoch # o[p].epoch
         /\ o2 = [o EXCEPT ![p].pc = "done"]
      \/ /\ L[g].cutoverEpoch = o[p].epoch
         /\ o2 = [o EXCEPT ![p].pc = IF L[g].pending = <<>> THEN "done" ELSE "appending",
                               ![p].batch = Len(L[g].pending)]
      BY <1>1 DEF DrainResumes, Cutover, Mine, NextBatch
<1>4. StateOK(L, c, o2, F, n, m, S)
  <2>1. DrainStep(L, g, o, o2, p)
        BY ONLY <1>3 DEF DrainStep
  <2> QED BY ONLY <1>s, <1>2, <2>1, p \in Owners, DrainGoesOn
<1> QED BY <1>0, <1>1, <1>u, <1>4 DEF IInv

\* runRewrite, once the flush before it has settled.
LEMMA RewriteStartsKeeps ==
    ASSUME IInv, NEW p \in Owners, RewriteStarts(p) PROVE IInv'
<1>0. /\ torn \in BOOLEAN /\ calls \in Calls
      /\ StateOK(log, current, owner, lines, calls.rewrite, calls.append, settled)
      BY DEF IInv
<1>1. PICK g, o2, L, c, o, F, n, m, S :
          /\ g = owner[p].gen /\ o2 = owner' /\ L = log /\ c = current /\ o = owner
          /\ F = lines /\ n = calls.rewrite /\ m = calls.append /\ S = settled
      OBVIOUS
<1>s. StateOK(L, c, o, F, n, m, S) /\ g = o[p].gen
      BY <1>0, <1>1
<1>u. UNCHANGED <<lines, torn, current, log, calls, settled>>
      BY DEF DrainResumes, RewriteStarts, DrainAgain
<1>2. /\ o[p].pc = "prior" /\ o[p].prior = None
      /\ L[g].ready # None => L[L[g].ready].retirement = "settled"
      /\ o2 = [o EXCEPT ![p].pc = "writing"]
      BY <1>1 DEF RewriteStarts, Ready
<1>3. StateOK(L, c, o2, F, n, m, S)
      BY ONLY <1>s, <1>2, p \in Owners, RewriteGoesOn
<1> QED BY <1>0, <1>1, <1>u, <1>3 DEF IInv

\* finishOwnedFlush drains what was appended meanwhile.
LEMMA DrainAgainKeeps ==
    ASSUME IInv, NEW p \in Owners, DrainAgain(p) PROVE IInv'
<1>0. /\ torn \in BOOLEAN /\ calls \in Calls
      /\ StateOK(log, current, owner, lines, calls.rewrite, calls.append, settled)
      BY DEF IInv
<1>1. PICK g, o2, L, c, o, F, n, m, S :
          /\ g = owner[p].gen /\ o2 = owner' /\ L = log /\ c = current /\ o = owner
          /\ F = lines /\ n = calls.rewrite /\ m = calls.append /\ S = settled
      OBVIOUS
<1>s. StateOK(L, c, o, F, n, m, S) /\ g = o[p].gen
      BY <1>0, <1>1
<1>u. UNCHANGED <<lines, torn, current, log, calls, settled>>
      BY DEF DrainResumes, RewriteStarts, DrainAgain
<1>2. /\ o[p].pc = "done" /\ L[g].flushPromise = p
      /\ o2 = [o EXCEPT ![p].pc = "ready", ![p].epoch = L[g].cutoverEpoch]
      BY <1>1 DEF DrainAgain, Owns, Mine
<1>3. StateOK(L, c, o2, F, n, m, S)
      BY ONLY <1>s, <1>2, p \in Owners, DrainRepeats
<1> QED BY <1>0, <1>1, <1>u, <1>3 DEF IInv


\* What an append that did not return all its batch has left.
LEMMA PartialBatch ==
    ASSUME NEW c, NEW n, NEW m, NEW S, StateOK(log, c, owner, lines, n, m, S), torn \in BOOLEAN,
           NEW p \in Owners, owner[p].pc = "appending", PartialAppend(p)
    PROVE  /\ torn' \in BOOLEAN
           /\ \E A, rest : BatchSplit(log, lines, lines', owner[p].gen, A, rest, m)
<1>1. PICK k \in 0 .. owner[p].batch, tear \in BOOLEAN :
          /\ lines' = lines \o Written(SubSeq(log[owner[p].gen].pending, 1, k))
          /\ torn' = (tear \/ (torn /\ k = 0))
      BY DEF PartialAppend, Mine
<1>2. PICK g, front, rest, F2 :
          /\ g = owner[p].gen /\ front = SubSeq(log[g].pending, 1, k)
          /\ rest = SubSeq(log[g].pending, k + 1, Len(log[g].pending))
          /\ F2 = lines \o Written(front)
      OBVIOUS
<1>3. /\ F2 \in Seq(LineRecord) /\ FileOK(F2, m)
      /\ Recs(F2) = Recs(lines) \cup ToSet(front)
      /\ Buffer(log, g) = ToSet(front) \cup ToSet(rest)
      /\ \A x \in ToSet(front), y \in ToSet(rest) : x < y
      /\ rest \in Seq(Records) /\ Ascending(rest, m) /\ Len(rest) \in Nat /\ Len(rest) <= m
  <2>1. BatchPut(log, lines, owner, p, g, k, front, rest, F2)
        BY <1>2 DEF BatchPut
  <2>2. g = owner[p].gen
        BY <1>2
  <2>3. BatchHeld(log, lines, g, front, rest, F2, m)
        BY ONLY StateOK(log, c, owner, lines, n, m, S), owner[p].pc = "appending", torn \in BOOLEAN,
                p \in Owners, <2>1, <2>2, BatchInFile
  <2> QED BY ONLY <2>3 DEF BatchHeld
<1>4. lines' = F2
      BY <1>1, <1>2
<1>5. BatchSplit(log, lines, lines', g, ToSet(front), rest, m)
      BY ONLY <1>3, <1>4 DEF BatchSplit
<1> QED BY <1>1, <1>2, <1>5

\* The batch is in the file.
LEMMA AppendSucceedsKeeps ==
    ASSUME IInv, NEW p \in Owners, AppendSucceeds(p) PROVE IInv'
<1>0. /\ torn \in BOOLEAN /\ calls \in Calls
      /\ StateOK(log, current, owner, lines, calls.rewrite, calls.append, settled)
      BY DEF IInv
<1>1. PICK g, o2, L2, n, m, k, front, rest, F2 :
          /\ g = owner[p].gen /\ o2 = owner' /\ L2 = log' /\ n = calls.rewrite /\ m = calls.append
          /\ k = owner[p].batch /\ front = SubSeq(log[g].pending, 1, k)
          /\ rest = SubSeq(log[g].pending, k + 1, Len(log[g].pending))
          /\ F2 = lines \o Written(front)
      OBVIOUS
<1>2. /\ owner[p].pc = "appending" /\ lines' = F2 /\ torn' = FALSE
      /\ UNCHANGED <<current, calls, settled>>
      BY <1>1 DEF AppendSucceeds, Mine
<1>3. \/ /\ log[g].cutoverEpoch # owner[p].epoch
         /\ o2 = [owner EXCEPT ![p].pc = "done"] /\ L2 = log
      \/ /\ log[g].cutoverEpoch = owner[p].epoch
         /\ L2 = [log EXCEPT ![g].pending = rest]
         /\ o2 = [owner EXCEPT ![p].pc = IF rest = <<>> THEN "done" ELSE "appending",
                               ![p].batch = Len(rest)]
      BY <1>1 DEF AppendSucceeds, Cutover, Mine, NextBatch
<1>4. StateOK(log, current, owner, lines, n, m, settled)
      BY <1>0, <1>1
<1>5. /\ log \in [Generations -> LogState] /\ owner \in [Owners -> Owner]
      /\ PlacedOK(log, owner, n) /\ FailureOK(log, owner) /\ EpochOK(log, owner)
      /\ CountsOK(log, owner, n, m) /\ BatchOK(log, owner) /\ m \in Nat
      BY <1>4, Parts
<1>6. /\ g \in Generations /\ ~log[g].storageFailure /\ k \in Nat /\ k \in 0 .. k
      /\ owner[p].batch <= m
      /\ owner[p].epoch = log[g].cutoverEpoch <=> log[g].flushPromise = p
  <2>1. Busy(owner, p)
        BY <1>2 DEF Busy
  <2>2. g \in Generations
        BY <1>1, <1>5, <2>1, BusyPlace
  <2>3. ~log[g].storageFailure
        BY <1>1, <1>2, <1>5 DEF FailureOK
  <2>4. owner[p].epoch = log[g].cutoverEpoch <=> log[g].flushPromise = p
        BY <1>1, <1>2, <1>5 DEF EpochOK
  <2>5. k \in Nat /\ owner[p].batch <= m
        BY <1>1, <1>5, OwnerFields DEF CountsOK
  <2> QED BY <2>2, <2>3, <2>4, <2>5
<1>7. /\ F2 \in Seq(LineRecord) /\ FileOK(F2, m)
      /\ Recs(F2) = Recs(lines) \cup ToSet(front)
      /\ Buffer(log, g) = ToSet(front) \cup ToSet(rest)
      /\ \A x \in ToSet(front), y \in ToSet(rest) : x < y
      /\ rest \in Seq(Records) /\ Ascending(rest, m) /\ Len(rest) \in Nat /\ Len(rest) <= m
  <2>1. BatchPut(log, lines, owner, p, g, k, front, rest, F2)
        BY <1>1, <1>6 DEF BatchPut
  <2>2. g = owner[p].gen
        BY <1>1
  <2>3. BatchHeld(log, lines, g, front, rest, F2, m)
        BY ONLY <1>0, <1>2, <1>4, <2>1, <2>2, p \in Owners, BatchInFile
  <2> QED BY ONLY <2>3 DEF BatchHeld
<1>8. BatchSplit(log, lines, F2, g, ToSet(front), rest, m)
      BY ONLY <1>7 DEF BatchSplit
<1>9. CASE log[g].cutoverEpoch # owner[p].epoch
  <2>1. o2 = [owner EXCEPT ![p].pc = "done"] /\ L2 = log /\ log[g].flushPromise # p
        BY <1>3, <1>6, <1>9
  <2>2. /\ \A q \in Owners : q # p => o2[q] = owner[q]
        /\ o2[p] \in Owner /\ o2[p].gen = owner[p].gen /\ o2[p].prior = owner[p].prior
        /\ o2[p].promised = owner[p].promised /\ o2[p].epoch = owner[p].epoch
        /\ o2[p].batch = owner[p].batch /\ o2[p].pc = "done"
        /\ o2[p].covered = owner[p].covered /\ o2[p].foreign = owner[p].foreign
    <3>1. PICK a \in Owner, b \in {o2[p]} : a = owner[p] /\ b = o2[p]
          BY <1>5
    <3>2. b = [a EXCEPT !.pc = "done"] /\ \A q \in Owners : q # p => o2[q] = owner[q]
          BY <1>5, <2>1, <3>1
    <3>3. /\ b \in Owner /\ b.gen = a.gen /\ b.prior = a.prior /\ b.promised = a.promised
          /\ b.epoch = a.epoch /\ b.batch = a.batch /\ b.pc = "done"
          /\ b.covered = a.covered /\ b.foreign = a.foreign
          BY ONLY <3>2, a \in Owner DEF Owner
    <3> QED BY <3>1, <3>2, <3>3
  <2>3. o2 \in [Owners -> Owner]
        BY <1>5, <2>1, <2>2
  <2>4. \A q \in Owners :
            /\ q # p => o2[q] = owner[q]
            /\ o2[q].gen = owner[q].gen /\ o2[q].prior = owner[q].prior
            /\ o2[q].promised = owner[q].promised /\ o2[q].epoch = owner[q].epoch
        BY ONLY <2>2
  <2>5. AppendOutcome(log, L2, owner, o2, p, rest, m)
        BY ONLY <1>1, <1>6, <2>1, <2>2, <2>4 DEF AppendOutcome
  <2>6. L2 \in [Generations -> LogState]
        BY <1>5, <2>1
  <2>7. StateOK(L2, current, o2, F2, n, m, settled)
        BY ONLY <1>1, <1>2, <1>4, <1>8, <2>3, <2>5, <2>6, p \in Owners, AppendEnds
  <2> QED BY <1>0, <1>1, <1>2, <2>7 DEF IInv
<1>10. CASE log[g].cutoverEpoch = owner[p].epoch
  <2>1. /\ L2 = [log EXCEPT ![g].pending = rest] /\ log[g].flushPromise = p
        /\ o2 = [owner EXCEPT ![p].pc = IF rest = <<>> THEN "done" ELSE "appending",
                              ![p].batch = Len(rest)]
        BY <1>3, <1>6, <1>10
  <2>2. PICK x : x = IF rest = <<>> THEN "done" ELSE "appending"
        OBVIOUS
  <2>3. /\ x \in {"done", "appending"} /\ (x = "done" => rest = <<>>)
        /\ x = "appending" => Len(rest) \in 1 .. Len(rest)
    <3>1. rest # <<>> => Len(rest) > 0
          BY <1>7
    <3> QED BY <1>7, <2>2, <3>1
  <2>4. /\ \A q \in Owners : q # p => o2[q] = owner[q]
        /\ o2[p] \in Owner /\ o2[p].gen = owner[p].gen /\ o2[p].prior = owner[p].prior
        /\ o2[p].promised = owner[p].promised /\ o2[p].epoch = owner[p].epoch
        /\ o2[p].batch = Len(rest) /\ o2[p].pc = x
        /\ o2[p].covered = owner[p].covered /\ o2[p].foreign = owner[p].foreign
    <3>1. PICK a \in Owner, b \in {o2[p]}, z \in Nat : a = owner[p] /\ b = o2[p] /\ z = Len(rest)
          BY <1>5, <1>7
    <3>2. b = [a EXCEPT !.pc = x, !.batch = z] /\ \A q \in Owners : q # p => o2[q] = owner[q]
          BY <1>5, <2>1, <2>2, <3>1
    <3>3. /\ b \in Owner /\ b.gen = a.gen /\ b.prior = a.prior /\ b.promised = a.promised
          /\ b.epoch = a.epoch /\ b.batch = z /\ b.pc = x
          /\ b.covered = a.covered /\ b.foreign = a.foreign
          BY ONLY <2>3, <3>2, a \in Owner, z \in Nat DEF Owner
    <3> QED BY <3>1, <3>2, <3>3
  <2>5. o2 \in [Owners -> Owner]
        BY <1>5, <2>1, <2>4
  <2>6. \A q \in Owners :
            /\ q # p => o2[q] = owner[q]
            /\ o2[q].gen = owner[q].gen /\ o2[q].prior = owner[q].prior
            /\ o2[q].promised = owner[q].promised /\ o2[q].epoch = owner[q].epoch
        BY ONLY <2>4
  <2>7. /\ \A h \in Generations : h # g => L2[h] = log[h]
        /\ L2[g] \in LogState /\ L2[g].pending = rest
        /\ L2[g].flushPromise = log[g].flushPromise
        /\ L2[g].storageFailure = log[g].storageFailure
        /\ L2[g].cutoverEpoch = log[g].cutoverEpoch
        /\ L2[g].refCount = log[g].refCount /\ L2[g].retired = log[g].retired
        /\ L2[g].ready = log[g].ready /\ L2[g].retirement = log[g].retirement
        /\ L2[g].awaits = log[g].awaits
    <3>1. PICK a \in LogState, b \in {L2[g]} : a = log[g] /\ b = L2[g]
          BY <1>5, <1>6
    <3>2. b = [a EXCEPT !.pending = rest] /\ \A h \in Generations : h # g => L2[h] = log[h]
          BY <1>5, <1>6, <2>1, <3>1
    <3>3. /\ b \in LogState /\ b.pending = rest /\ b.flushPromise = a.flushPromise
          /\ b.storageFailure = a.storageFailure /\ b.cutoverEpoch = a.cutoverEpoch
          /\ b.refCount = a.refCount /\ b.retired = a.retired
          /\ b.ready = a.ready /\ b.retirement = a.retirement /\ b.awaits = a.awaits
          BY ONLY <1>7, <3>2, a \in LogState DEF LogState
    <3> QED BY <3>1, <3>2, <3>3
  <2>8. L2 \in [Generations -> LogState]
        BY <1>5, <2>1, <2>7
  <2>9. \A h \in Generations :
            /\ h # g => L2[h] = log[h]
            /\ L2[h].flushPromise = log[h].flushPromise /\ L2[h].cutoverEpoch = log[h].cutoverEpoch
            /\ L2[h].refCount = log[h].refCount /\ L2[h].retired = log[h].retired
            /\ L2[h].ready = log[h].ready /\ L2[h].retirement = log[h].retirement
            /\ L2[h].awaits = log[h].awaits
            /\ \/ L2[h].pending = log[h].pending
               \/ h = g /\ L2[h].pending = rest /\ log[h].flushPromise = p
        BY ONLY <2>1, <2>7
  <2>10. AppendOutcome(log, L2, owner, o2, p, rest, m)
         BY ONLY <1>1, <1>6, <1>7, <2>3, <2>4, <2>6, <2>7, <2>9, ZenonT(30) DEF AppendOutcome
  <2>11. StateOK(L2, current, o2, F2, n, m, settled)
         BY ONLY <1>1, <1>2, <1>4, <1>8, <2>5, <2>8, <2>10, p \in Owners, AppendEnds
  <2> QED BY <1>0, <1>1, <1>2, <2>11 DEF IInv
<1> QED BY <1>9, <1>10


(* A storage call returns: owner p goes on at v, b says whether its generation *)
(* has failed.                                                                 *)
Returns(L, L2, o, o2, p, v, b) ==
    /\ L2 = [L EXCEPT ![o[p].gen].storageFailure = b]
    /\ o2 = [o EXCEPT ![p].pc = v]

Returned(L, L2, o, o2, p, v, b) ==
    /\ L2 \in [Generations -> LogState] /\ o2 \in [Owners -> Owner]
    /\ \A h \in Generations :
         /\ h # o[p].gen => L2[h] = L[h]
         /\ L2[h].pending = L[h].pending
         /\ L2[h].flushPromise = L[h].flushPromise /\ L2[h].cutoverEpoch = L[h].cutoverEpoch
         /\ L2[h].refCount = L[h].refCount /\ L2[h].retired = L[h].retired
         /\ L2[h].ready = L[h].ready /\ L2[h].retirement = L[h].retirement
         /\ L2[h].awaits = L[h].awaits
    /\ \A q \in Owners :
         /\ q # p => o2[q] = o[q]
         /\ o2[q].gen = o[q].gen /\ o2[q].prior = o[q].prior /\ o2[q].promised = o[q].promised
         /\ o2[q].epoch = o[q].epoch /\ o2[q].batch = o[q].batch
    /\ o2[p].pc = v /\ L2[o[p].gen].storageFailure = b

LEMMA CallReturns ==
    ASSUME NEW L \in [Generations -> LogState], NEW o \in [Owners -> Owner], NEW p \in Owners,
           o[p].gen \in Generations, NEW v \in {"done", "failed"}, NEW b \in BOOLEAN,
           NEW L2, NEW o2, Returns(L, L2, o, o2, p, v, b)
    PROVE  Returned(L, L2, o, o2, p, v, b)
<1>0. PICK g : g = o[p].gen
      OBVIOUS
<1>1. L2 = [L EXCEPT ![g].storageFailure = b] /\ o2 = [o EXCEPT ![p].pc = v] /\ g \in Generations
      BY <1>0 DEF Returns
<1>2. /\ \A h \in Generations : h # g => L2[h] = L[h]
      /\ L2[g] \in LogState /\ L2[g].pending = L[g].pending
      /\ L2[g].flushPromise = L[g].flushPromise /\ L2[g].storageFailure = b
      /\ L2[g].cutoverEpoch = L[g].cutoverEpoch
      /\ L2[g].refCount = L[g].refCount /\ L2[g].retired = L[g].retired
      /\ L2[g].ready = L[g].ready /\ L2[g].retirement = L[g].retirement
      /\ L2[g].awaits = L[g].awaits
  <2>1. PICK l \in LogState, k \in {L2[g]} : l = L[g] /\ k = L2[g]
        BY <1>1
  <2>2. k = [l EXCEPT !.storageFailure = b] /\ \A h \in Generations : h # g => L2[h] = L[h]
        BY <1>1, <2>1
  <2>3. /\ k \in LogState /\ k.pending = l.pending /\ k.flushPromise = l.flushPromise
        /\ k.storageFailure = b /\ k.cutoverEpoch = l.cutoverEpoch
        /\ k.refCount = l.refCount /\ k.retired = l.retired
        /\ k.ready = l.ready /\ k.retirement = l.retirement /\ k.awaits = l.awaits
        BY ONLY <2>2, l \in LogState, b \in BOOLEAN DEF LogState
  <2> QED BY <2>1, <2>2, <2>3
<1>3. /\ \A q \in Owners : q # p => o2[q] = o[q]
      /\ o2[p] \in Owner /\ o2[p].pc = v
      /\ o2[p].gen = o[p].gen /\ o2[p].prior = o[p].prior /\ o2[p].promised = o[p].promised
      /\ o2[p].epoch = o[p].epoch /\ o2[p].batch = o[p].batch
  <2>1. PICK a \in Owner, k \in {o2[p]} : a = o[p] /\ k = o2[p]
        OBVIOUS
  <2>2. k = [a EXCEPT !.pc = v] /\ \A q \in Owners : q # p => o2[q] = o[q]
        BY <1>1, <2>1
  <2>3. /\ k \in Owner /\ k.pc = v /\ k.gen = a.gen /\ k.prior = a.prior
        /\ k.promised = a.promised /\ k.epoch = a.epoch /\ k.batch = a.batch
        BY ONLY <2>2, a \in Owner, v \in {"done", "failed"} DEF Owner
  <2> QED BY <2>1, <2>2, <2>3
<1>4. L2 \in [Generations -> LogState] /\ o2 \in [Owners -> Owner]
      BY <1>1, <1>2, <1>3
<1>5. \A h \in Generations :
         /\ h # g => L2[h] = L[h]
         /\ L2[h].pending = L[h].pending
         /\ L2[h].flushPromise = L[h].flushPromise /\ L2[h].cutoverEpoch = L[h].cutoverEpoch
         /\ L2[h].refCount = L[h].refCount /\ L2[h].retired = L[h].retired
         /\ L2[h].ready = L[h].ready /\ L2[h].retirement = L[h].retirement
         /\ L2[h].awaits = L[h].awaits
      BY ONLY <1>2
<1>6. \A q \in Owners :
         /\ q # p => o2[q] = o[q]
         /\ o2[q].gen = o[q].gen /\ o2[q].prior = o[q].prior /\ o2[q].promised = o[q].promised
         /\ o2[q].epoch = o[q].epoch /\ o2[q].batch = o[q].batch
      BY ONLY <1>3
<1> QED BY ONLY <1>0, <1>2, <1>3, <1>4, <1>5, <1>6 DEF Returned

\* The append throws; a part of the batch may be in the file.
LEMMA AppendFailsKeeps ==
    ASSUME IInv, NEW p \in Owners, AppendFails(p) PROVE IInv'
<1>0. /\ torn \in BOOLEAN /\ calls \in Calls
      /\ StateOK(log, current, owner, lines, calls.rewrite, calls.append, settled)
      BY DEF IInv
<1>1. PICK g, o2, L2, n, m :
          g = owner[p].gen /\ o2 = owner' /\ L2 = log' /\ n = calls.rewrite /\ m = calls.append
      OBVIOUS
<1>2. /\ owner[p].pc = "appending" /\ PartialAppend(p) /\ Count("failure")
      /\ L2 = [log EXCEPT ![g].storageFailure = TRUE] /\ o2 = [owner EXCEPT ![p].pc = "failed"]
      /\ UNCHANGED <<current, settled>>
      BY <1>1 DEF AppendFails
<1>3. StateOK(log, current, owner, lines, n, m, settled)
      BY <1>0, <1>1
<1>4. /\ log \in [Generations -> LogState] /\ owner \in [Owners -> Owner]
      /\ PlacedOK(log, owner, n) /\ CountsOK(log, owner, n, m)
      BY <1>3, Parts
<1>5. g \in Generations /\ owner[p].batch <= m
      BY <1>1, <1>2, <1>4, BusyPlace DEF Busy, CountsOK
<1>6. torn' \in BOOLEAN /\ \E A, rest : BatchSplit(log, lines, lines', owner[p].gen, A, rest, m)
      BY ONLY <1>0, <1>2, <1>3, p \in Owners, PartialBatch
<1>7. PICK A, rest, F2 : F2 = lines' /\ BatchSplit(log, lines, F2, g, A, rest, m)
      BY <1>1, <1>6
<1>8. Returned(log, L2, owner, o2, p, "failed", TRUE)
  <2>1. Returns(log, L2, owner, o2, p, "failed", TRUE)
        BY <1>1, <1>2 DEF Returns
  <2>2. owner[p].gen \in Generations /\ "failed" \in {"done", "failed"} /\ TRUE \in BOOLEAN
        BY <1>1, <1>5
  <2> QED BY ONLY <1>4, <2>1, <2>2, p \in Owners, CallReturns
<1>9. L2 \in [Generations -> LogState] /\ o2 \in [Owners -> Owner]
      BY <1>8 DEF Returned
<1>10. AppendOutcome(log, L2, owner, o2, p, rest, m)
  <2>1. o2[p].batch <= m /\ o2[p].pc = "failed" /\ L2[owner[p].gen].storageFailure = TRUE
        BY <1>5, <1>8 DEF Returned
  <2> QED BY ONLY <1>8, <2>1 DEF Returned, AppendOutcome
<1>11. StateOK(L2, current, o2, F2, n, m, settled)
       BY ONLY <1>1, <1>2, <1>3, <1>7, <1>9, <1>10, p \in Owners, AppendEnds
<1>12. calls' \in Calls /\ calls'.append = calls.append /\ calls'.rewrite = calls.rewrite
       BY <1>0, <1>2, Counted
<1> QED BY <1>1, <1>2, <1>6, <1>7, <1>11, <1>12 DEF IInv

\* The atomic write of a rewrite returns.
LEMMA WriteSucceedsKeeps ==
    ASSUME IInv, NEW p \in Owners, WriteSucceeds(p) PROVE IInv'
<1>0. /\ torn \in BOOLEAN /\ calls \in Calls
      /\ StateOK(log, current, owner, lines, calls.rewrite, calls.append, settled)
      BY DEF IInv
<1>1. PICK g, o2, L2, n, m, F2, S2 :
          /\ g = owner[p].gen /\ o2 = owner' /\ L2 = log' /\ n = calls.rewrite /\ m = calls.append
          /\ F2 = lines' /\ S2 = settled'
      OBVIOUS
<1>2. /\ owner[p].pc = "writing" /\ torn' = FALSE
      /\ L2 = [log EXCEPT ![g].storageFailure = FALSE] /\ o2 = [owner EXCEPT ![p].pc = "done"]
      /\ UNCHANGED <<current, calls>>
      BY <1>1 DEF WriteSucceeds, Replace
<1>3. StateOK(log, current, owner, lines, n, m, settled)
      BY <1>0, <1>1
<1>4. /\ log \in [Generations -> LogState] /\ owner \in [Owners -> Owner]
      /\ PlacedOK(log, owner, n)
      BY <1>3, Parts
<1>5. g \in Generations
      BY <1>1, <1>2, <1>4, BusyPlace DEF Busy
<1>6. FileReplaced(lines, F2, settled, S2, owner[p].covered, owner[p].foreign)
      BY <1>1 DEF WriteSucceeds, Replace, Replaced, FileReplaced, OnDisk, Recs
<1>8. Returned(log, L2, owner, o2, p, "done", FALSE)
  <2>1. Returns(log, L2, owner, o2, p, "done", FALSE)
        BY <1>1, <1>2 DEF Returns
  <2>2. owner[p].gen \in Generations /\ "done" \in {"done", "failed"} /\ FALSE \in BOOLEAN
        BY <1>1, <1>5
  <2> QED BY ONLY <1>4, <2>1, <2>2, p \in Owners, CallReturns
<1>9. L2 \in [Generations -> LogState] /\ o2 \in [Owners -> Owner]
      BY <1>8 DEF Returned
<1>10. WriteOutcome(log, L2, owner, o2, p)
  <2>1. o2[p].pc = "done" /\ L2[owner[p].gen].storageFailure = FALSE
        BY <1>8 DEF Returned
  <2> QED BY ONLY <1>8, <2>1 DEF Returned, WriteOutcome
<1>11. StateOK(L2, current, o2, F2, n, m, S2)
       BY ONLY <1>1, <1>2, <1>3, <1>6, <1>9, <1>10, p \in Owners, WriteEnds
<1> QED BY <1>0, <1>1, <1>2, <1>11 DEF IInv

\* The atomic write throws, before or after its rename.
LEMMA WriteFailsKeeps ==
    ASSUME IInv, NEW p \in Owners, WriteFails(p) PROVE IInv'
<1>0. /\ torn \in BOOLEAN /\ calls \in Calls
      /\ StateOK(log, current, owner, lines, calls.rewrite, calls.append, settled)
      BY DEF IInv
<1>1. PICK g, o2, L2, n, m, F2, S2 :
          /\ g = owner[p].gen /\ o2 = owner' /\ L2 = log' /\ n = calls.rewrite /\ m = calls.append
          /\ F2 = lines' /\ S2 = settled'
      OBVIOUS
<1>2. /\ owner[p].pc = "writing" /\ torn' \in BOOLEAN /\ Count("failure")
      /\ L2 = [log EXCEPT ![g].storageFailure = TRUE] /\ o2 = [owner EXCEPT ![p].pc = "failed"]
      /\ UNCHANGED current
      BY <1>0, <1>1 DEF WriteFails, Replace
<1>3. StateOK(log, current, owner, lines, n, m, settled)
      BY <1>0, <1>1
<1>4. /\ log \in [Generations -> LogState] /\ owner \in [Owners -> Owner]
      /\ PlacedOK(log, owner, n)
      BY <1>3, Parts
<1>5. g \in Generations
      BY <1>1, <1>2, <1>4, BusyPlace DEF Busy
<1>8. Returned(log, L2, owner, o2, p, "failed", TRUE)
  <2>1. Returns(log, L2, owner, o2, p, "failed", TRUE)
        BY <1>1, <1>2 DEF Returns
  <2>2. owner[p].gen \in Generations /\ "failed" \in {"done", "failed"} /\ TRUE \in BOOLEAN
        BY <1>1, <1>5
  <2> QED BY ONLY <1>4, <2>1, <2>2, p \in Owners, CallReturns
<1>9. L2 \in [Generations -> LogState] /\ o2 \in [Owners -> Owner] /\ o2[p].pc = "failed"
      BY <1>8 DEF Returned
<1>6. \/ FileReplaced(lines, F2, settled, S2, owner[p].covered, owner[p].foreign)
      \/ F2 = lines /\ S2 = settled /\ o2[p].pc = "failed"
      BY <1>1, <1>9 DEF WriteFails, Replace, Replaced, FileReplaced, OnDisk, Recs
<1>10. WriteOutcome(log, L2, owner, o2, p)
  <2>1. o2[p].pc = "failed" /\ L2[owner[p].gen].storageFailure = TRUE
        BY <1>8 DEF Returned
  <2> QED BY ONLY <1>8, <2>1 DEF Returned, WriteOutcome
<1>11. StateOK(L2, current, o2, F2, n, m, S2)
  <2>1. CASE FileReplaced(lines, F2, settled, S2, owner[p].covered, owner[p].foreign)
        BY ONLY <1>1, <1>2, <1>3, <1>9, <1>10, <2>1, p \in Owners, WriteEnds
  <2>2. CASE F2 = lines /\ S2 = settled /\ o2[p].pc = "failed"
    <3>1. g = owner[p].gen /\ lines = lines /\ settled = settled
          BY <1>1
    <3>2. StateOK(L2, current, o2, lines, n, m, settled)
          BY ONLY <1>2, <1>3, <1>9, <1>10, <3>1, p \in Owners, WriteEnds
    <3> QED BY ONLY <2>2, <3>2
  <2> QED BY <1>6, <2>1, <2>2
<1>12. calls' \in Calls /\ calls'.append = calls.append /\ calls'.rewrite = calls.rewrite
       BY <1>0, <1>2, Counted
<1> QED BY <1>1, <1>2, <1>11, <1>12 DEF IInv


\* The promise of p is taken back where it is held.
LEMMA SettleTakesBack ==
    ASSUME NEW p \in Owners, log \in [Generations -> LogState], owner \in [Owners -> Owner],
           Settle(p)
    PROVE  /\ log' \in [Generations -> LogState] /\ owner' \in [Owners -> Owner]
           /\ SettleOutcome(log, log', owner, owner', p)
<1>1. PICK L2, o2 : L2 = log' /\ o2 = owner'
      OBVIOUS
<1>2. /\ L2 = [g \in Generations |->
                 [log[g] EXCEPT !.flushPromise = IF @ = p THEN None ELSE @,
                                !.awaits = IF @ = p THEN None ELSE @]]
      /\ o2 = [q \in Owners |->
                   IF q = p THEN FreeOwner
                   ELSE [owner[q] EXCEPT !.prior = IF @ = p THEN None ELSE @]]
      BY <1>1 DEF Settle
<1>3. ASSUME NEW h \in Generations
      PROVE  /\ L2[h] \in LogState
             /\ L2[h].pending = log[h].pending /\ L2[h].storageFailure = log[h].storageFailure
             /\ L2[h].cutoverEpoch = log[h].cutoverEpoch
             /\ L2[h].refCount = log[h].refCount /\ L2[h].retired = log[h].retired
             /\ L2[h].ready = log[h].ready /\ L2[h].retirement = log[h].retirement
             /\ L2[h].flushPromise = IF log[h].flushPromise = p THEN None ELSE log[h].flushPromise
             /\ L2[h].awaits = IF log[h].awaits = p THEN None ELSE log[h].awaits
             /\ log[h].flushPromise # p /\ log[h].awaits # p => L2[h] = log[h]
  <2>1. PICK a \in LogState, b \in {L2[h]} : a = log[h] /\ b = L2[h]
        OBVIOUS
  <2>2. PICK u, v : /\ u = IF a.flushPromise = p THEN None ELSE a.flushPromise
                    /\ v = IF a.awaits = p THEN None ELSE a.awaits
        OBVIOUS
  <2>3. b = [a EXCEPT !.flushPromise = u, !.awaits = v]
        BY <1>2, <2>1, <2>2
  <2>4. a.flushPromise \in Owners \cup {None} /\ a.awaits \in Owners \cup {None}
        BY <2>1, LogFields
  <2>5. u \in Owners \cup {None} /\ v \in Owners \cup {None}
        BY <2>2, <2>4
  <2>6. /\ b \in LogState /\ b.pending = a.pending /\ b.storageFailure = a.storageFailure
        /\ b.cutoverEpoch = a.cutoverEpoch /\ b.refCount = a.refCount /\ b.retired = a.retired
        /\ b.ready = a.ready /\ b.retirement = a.retirement
        /\ b.flushPromise = u /\ b.awaits = v
        BY ONLY <2>3, <2>5, a \in LogState DEF LogState
  <2>7. ASSUME u = a.flushPromise, v = a.awaits PROVE b = a
    <3>1. b = [a EXCEPT !.flushPromise = a.flushPromise, !.awaits = a.awaits]
          BY ONLY <2>3, <2>7
    <3> QED BY ONLY <3>1, a \in LogState DEF LogState
  <2> QED BY <2>1, <2>2, <2>6, <2>7
<1>4. ASSUME NEW q \in Owners, q # p
      PROVE  /\ o2[q] \in Owner
             /\ o2[q].gen = owner[q].gen /\ o2[q].pc = owner[q].pc /\ o2[q].epoch = owner[q].epoch
             /\ o2[q].batch = owner[q].batch /\ o2[q].promised = owner[q].promised
             /\ o2[q].covered = owner[q].covered /\ o2[q].foreign = owner[q].foreign
             /\ o2[q].prior = IF owner[q].prior = p THEN None ELSE owner[q].prior
             /\ owner[q].prior # p => o2[q] = owner[q]
  <2>1. PICK a \in Owner, b \in {o2[q]} : a = owner[q] /\ b = o2[q]
        OBVIOUS
  <2>2. PICK u : u = IF a.prior = p THEN None ELSE a.prior
        OBVIOUS
  <2>3. b = [a EXCEPT !.prior = u]
        BY <1>2, <1>4, <2>1, <2>2
  <2>4. u \in Owners \cup {None}
        BY <2>1, <2>2, OwnerFields
  <2>5. /\ b \in Owner /\ b.gen = a.gen /\ b.pc = a.pc /\ b.epoch = a.epoch
        /\ b.batch = a.batch /\ b.promised = a.promised
        /\ b.covered = a.covered /\ b.foreign = a.foreign /\ b.prior = u
        /\ u = a.prior => b = a
        BY ONLY <2>3, <2>4, a \in Owner DEF Owner
  <2> QED BY <2>1, <2>2, <2>5
<1>5. o2[p] = FreeOwner /\ FreeOwner \in Owner
  <2>1. FreeOwner \in Owner
        BY DEF FreeOwner, Owner
  <2> QED BY <1>2, <2>1
<1>6. L2 \in [Generations -> LogState] /\ o2 \in [Owners -> Owner]
      BY <1>2, <1>3, <1>4, <1>5
<1>7. SettleOutcome(log, L2, owner, o2, p)
      BY ONLY <1>3, <1>4, <1>5 DEF SettleOutcome
<1> QED BY ONLY <1>1, <1>6, <1>7

\* finishOwnedFlush gives up ownership and the promise settles.
LEMMA OwnerSettlesKeeps ==
    ASSUME IInv, NEW p \in Owners, OwnerSettles(p) PROVE IInv'
<1>0. /\ torn \in BOOLEAN /\ calls \in Calls
      /\ StateOK(log, current, owner, lines, calls.rewrite, calls.append, settled)
      BY DEF IInv
<1>1. PICK g, o2, L2, n, m, S2 :
          /\ g = owner[p].gen /\ o2 = owner' /\ L2 = log' /\ n = calls.rewrite /\ m = calls.append
          /\ S2 = settled'
      OBVIOUS
<1>2. /\ \/ owner[p].pc = "failed"
         \/ owner[p].pc = "done" /\ ~(log[g].flushPromise = p /\ log[g].pending # <<>>)
      /\ Settle(p) /\ UNCHANGED <<lines, torn, current, calls>>
      BY <1>1 DEF OwnerSettles, Settle, Owns, Mine
<1>3. StateOK(log, current, owner, lines, n, m, settled)
      BY <1>0, <1>1
<1>4. /\ log \in [Generations -> LogState] /\ owner \in [Owners -> Owner]
      /\ settled \in Settlements
      BY <1>3, Parts
<1>5. /\ L2 \in [Generations -> LogState] /\ o2 \in [Owners -> Owner]
      /\ SettleOutcome(log, L2, owner, o2, p)
      BY <1>1, <1>2, <1>4, SettleTakesBack
<1>6. SettledMore(settled, S2, owner[p].promised, log[g].flushPromise = p, owner[p].pc = "failed")
  <2>1. PICK P : P = owner[p].promised
        OBVIOUS
  <2>2. P \in SUBSET Nat /\ settled.acked \in SUBSET Nat /\ settled.early \in SUBSET Nat
    <3>1. P \subseteq Records /\ Records \subseteq Nat
          BY <1>4, <2>1, Bounds, OwnerFields DEF Records
    <3> QED BY <1>4, <3>1 DEF Settlements
  <2>3. S2 = IF owner[p].pc = "failed" THEN settled
             ELSE IF log[g].flushPromise = p THEN [settled EXCEPT !.acked = @ \cup P]
             ELSE [settled EXCEPT !.early = @ \cup P]
        BY <1>1, <1>2, <2>1 DEF Settle, Owns, Mine
  <2>4. CASE owner[p].pc = "failed"
        BY <1>4, <2>1, <2>3, <2>4 DEF SettledMore
  <2>5. CASE owner[p].pc # "failed" /\ log[g].flushPromise = p
    <3>1. PICK A \in SUBSET Nat : A = settled.acked \cup P
          BY <2>2
    <3>2. S2 = [settled EXCEPT !.acked = A]
          BY <2>3, <2>5, <3>1
    <3>3. /\ S2 \in Settlements /\ S2.superseded = settled.superseded
          /\ S2.overrun = settled.overrun /\ S2.lost = settled.lost /\ S2.acked = A
          BY ONLY <1>4, <3>2, A \in SUBSET Nat DEF Settlements
    <3> QED BY <2>1, <2>5, <3>1, <3>3 DEF SettledMore
  <2>6. CASE owner[p].pc # "failed" /\ log[g].flushPromise # p
    <3>1. PICK A \in SUBSET Nat : A = settled.early \cup P
          BY <2>2
    <3>2. S2 = [settled EXCEPT !.early = A]
          BY <2>3, <2>6, <3>1
    <3>3. /\ S2 \in Settlements /\ S2.superseded = settled.superseded
          /\ S2.overrun = settled.overrun /\ S2.lost = settled.lost
          /\ S2.acked = settled.acked
          BY ONLY <1>4, <3>2, A \in SUBSET Nat DEF Settlements
    <3> QED BY <2>6, <3>3 DEF SettledMore
  <2> QED BY <2>4, <2>5, <2>6
<1>7. /\ \/ owner[p].pc = "failed"
         \/ owner[p].pc = "done" /\ ~(log[g].flushPromise = p /\ log[g].pending # <<>>)
      /\ g = owner[p].gen
      BY <1>1, <1>2
<1>8. StateOK(L2, current, o2, lines, n, m, S2)
      BY ONLY <1>3, <1>5, <1>6, <1>7, p \in Owners, PromiseSettles
<1> QED BY <1>0, <1>1, <1>2, <1>8 DEF IInv

\* The process dies in any state.
LEMMA CrashKeepsAll ==
    ASSUME IInv, Crash PROVE IInv'
<1>0. /\ torn \in BOOLEAN /\ calls \in Calls
      /\ StateOK(log, current, owner, lines, calls.rewrite, calls.append, settled)
      BY DEF IInv
<1>1. PICK n, m, F2, S2, B :
          /\ n = calls.rewrite /\ m = calls.append /\ F2 = lines' /\ S2 = settled' /\ B = Buffered
      OBVIOUS
<1>2. /\ current' = None /\ log' = [g \in Generations |-> NoLog]
      /\ owner' = [p \in Owners |-> FreeOwner] /\ Count("crash")
      BY DEF Crash
<1>3. StateOK(log, current, owner, lines, n, m, settled)
      BY <1>0, <1>1
<1>4. /\ FileOK(lines, m) /\ lines \in Seq(LineRecord) /\ settled \in Settlements
      BY <1>3, Parts
<1>5. /\ B = UNION {Buffer(log, g) : g \in Generations}
      BY <1>1 DEF Buffered, Buffer
<1>6. /\ torn' \in BOOLEAN
      /\ \E S1 : CrashOutcome(log, lines, F2, settled, S1, m) /\ S2 = Forget(S1)
  <2>1. CASE \E p \in Owners : /\ owner[p].pc = "appending" /\ PartialAppend(p)
                               /\ settled' = Forget(settled)
    <3>1. PICK p \in Owners : /\ owner[p].pc = "appending" /\ PartialAppend(p)
                              /\ settled' = Forget(settled)
          BY <2>1
    <3>2. torn' \in BOOLEAN /\ \E A, rest : BatchSplit(log, lines, lines', owner[p].gen, A, rest, m)
          BY ONLY <1>0, <1>3, <3>1, p \in Owners, PartialBatch
    <3>3. PICK A : F2 \in Seq(LineRecord) /\ FileOK(F2, m) /\ Recs(F2) = Recs(lines) \cup A
          BY <1>1, <3>2 DEF BatchSplit
    <3>4. CrashOutcome(log, lines, F2, settled, settled, m)
          BY <1>4, <3>3 DEF CrashOutcome, Kept
    <3> QED BY <1>1, <3>1, <3>2, <3>4
  <2>2. CASE \E p \in Owners : /\ owner[p].pc = "writing" /\ Replace
                               /\ settled' = Forget(Replaced(p))
    <3>1. PICK p \in Owners : /\ owner[p].pc = "writing" /\ Replace
                              /\ settled' = Forget(Replaced(p))
          BY <2>2
    <3>2. PICK S1, g : S1 = Replaced(p) /\ g = owner[p].gen
          OBVIOUS
    <3>3. FileReplaced(lines, F2, settled, S1, owner[p].covered, owner[p].foreign)
          BY <1>1, <3>1, <3>2 DEF Replace, Replaced, FileReplaced, OnDisk, Recs
    <3>4. ReplacedOK(log, g, lines, F2, m, settled, S1)
          BY ONLY <1>3, <3>1, <3>2, <3>3, p \in Owners, ReplacementKeeps
    <3>5. g \in Generations
          BY <1>3, <3>1, <3>2, Parts, BusyPlace DEF Busy
    <3>6. CrashOutcome(log, lines, F2, settled, S1, m)
          BY <3>4, <3>5 DEF CrashOutcome, ReplacedOK
    <3>7. torn' = FALSE
          BY <3>1 DEF Replace
    <3> QED BY <1>1, <3>1, <3>2, <3>6, <3>7
  <2>3. CASE UNCHANGED <<lines, torn>> /\ settled' = Forget(settled)
    <3>1. CrashOutcome(log, lines, F2, settled, settled, m)
          BY <1>1, <1>4, <2>3 DEF CrashOutcome
    <3> QED BY <1>0, <1>1, <2>3, <3>1
  <2> QED BY <2>1, <2>2, <2>3 DEF Crash
<1>7. PICK S1 : CrashOutcome(log, lines, F2, settled, S1, m) /\ S2 = Forget(S1)
      BY <1>6
<1>8. S2 = [S1 EXCEPT !.lost = S1.lost \cup B]
      BY <1>1, <1>7 DEF Forget
<1>9. PICK L2, o2 : L2 = log' /\ o2 = owner'
      OBVIOUS
<1>10. L2 = [g \in Generations |-> NoLog] /\ o2 = [p \in Owners |-> FreeOwner]
       BY <1>2, <1>9
<1>11. StateOK(L2, None, o2, F2, n, m, S2)
  <2>1. Restart(log, S1, S2, B, L2, o2)
        BY ONLY <1>5, <1>8, <1>10 DEF Restart
  <2> QED BY ONLY <1>3, <1>7, <2>1, CrashKeeps
<1>12. calls' \in Calls /\ calls'.append = calls.append /\ calls'.rewrite = calls.rewrite
       BY <1>0, <1>2, Counted
<1> QED BY <1>1, <1>2, <1>6, <1>9, <1>11, <1>12 DEF IInv

-----------------------------------------------------------------------------
(* The theorems. *)

\* A store that has just been made satisfies the invariant.
LEMMA InitOK == Init => IInv
<1> SUFFICES ASSUME Init PROVE IInv
    OBVIOUS
<1>1. /\ lines = <<>> /\ torn = FALSE /\ current = None
      /\ log = [g \in Generations |-> NoLog] /\ owner = [p \in Owners |-> FreeOwner]
      /\ settled = NothingSettled
      /\ calls = [append |-> 0, rewrite |-> 0, flush |-> 0, failure |-> 0, crash |-> 0]
      BY DEF Init
<1>2. 0 \in 0 .. MaxRewrites /\ 0 \in 0 .. MaxRecords /\ 1 .. 0 = {} /\ 0 \in Nat
      BY Bounds
<1>3. calls \in Calls /\ calls.rewrite = 0 /\ calls.append = 0
      BY <1>1, <1>2 DEF Calls
<1>4. lines \in Seq(LineRecord) /\ FileOK(lines, 0)
      BY <1>1 DEF FileOK
<1>5. settled \in Settlements /\ settled.acked = {}
      BY <1>1 DEF NothingSettled, Settlements
<1>6. PICK L, o, F, S : L = log /\ o = owner /\ F = lines /\ S = settled
      OBVIOUS
<1>7. /\ F \in Seq(LineRecord) /\ FileOK(F, 0) /\ S \in Settlements
      /\ S.acked \subseteq Kept(F, S) \cap (1 .. 0) /\ 1 .. 0 \subseteq Kept(F, S) \cup S.lost
      /\ L = [g \in Generations |-> NoLog] /\ o = [p \in Owners |-> FreeOwner]
      BY <1>1, <1>2, <1>4, <1>5, <1>6
<1>8. StateOK(L, None, o, F, 0, 0, S)
      BY ONLY <1>2, <1>7, StartState
<1> QED BY <1>1, <1>3, <1>6, <1>8 DEF IInv

\* What leaves the variables alone keeps it.
LEMMA StutterOK == ASSUME IInv, UNCHANGED vars PROVE IInv'
<1>1. /\ torn' = torn /\ calls' = calls /\ log' = log /\ current' = current /\ owner' = owner
      /\ lines' = lines /\ settled' = settled
      BY DEF vars
<1> QED BY <1>1 DEF IInv

\* Every step keeps it: the calls of the store's users, the microtasks and
\* retirements of a generation, the steps of an owner, a crash.
LEMMA NextOK == IInv /\ [Next]_vars => IInv'
<1> SUFFICES ASSUME IInv, [Next]_vars PROVE IInv'
    OBVIOUS
<1>1. CASE Acquire
      BY <1>1, AcquireKeeps
<1>2. CASE AppendRecord
      BY <1>2, AppendRecordKeeps
<1>3. CASE Flush
      BY <1>3, FlushKeeps
<1>4. CASE ReadFlush
      BY <1>4, ReadFlushKeeps
<1>5. CASE Rewrite
      BY <1>5, RewriteKeeps
<1>6. CASE \E g \in Generations : Release(g) \/ ScheduledFlush(g) \/ RetirementSettles(g)
  <2>1. PICK g \in Generations : Release(g) \/ ScheduledFlush(g) \/ RetirementSettles(g)
        BY <1>6
  <2> QED BY <2>1, ReleaseKeeps, ScheduledFlushKeeps, RetirementSettlesKeeps
<1>7. CASE \E p \in Owners : OwnerStep(p)
  <2>1. PICK p \in Owners : OwnerStep(p)
        BY <1>7
  <2>2. CASE DrainResumes(p)
        BY <2>2, DrainResumesKeeps
  <2>3. CASE AppendSucceeds(p)
        BY <2>3, AppendSucceedsKeeps
  <2>4. CASE AppendFails(p)
        BY <2>4, AppendFailsKeeps
  <2>5. CASE RewriteStarts(p)
        BY <2>5, RewriteStartsKeeps
  <2>6. CASE WriteSucceeds(p)
        BY <2>6, WriteSucceedsKeeps
  <2>7. CASE WriteFails(p)
        BY <2>7, WriteFailsKeeps
  <2>8. CASE DrainAgain(p)
        BY <2>8, DrainAgainKeeps
  <2>9. CASE OwnerSettles(p)
        BY <2>9, OwnerSettlesKeeps
  <2> QED BY <2>1, <2>2, <2>3, <2>4, <2>5, <2>6, <2>7, <2>8, <2>9 DEF OwnerStep
<1>8. CASE Crash
      BY <1>8, CrashKeepsAll
<1>9. CASE UNCHANGED vars
      BY <1>9, StutterOK
<1> QED BY <1>1, <1>2, <1>3, <1>4, <1>5, <1>6, <1>7, <1>8, <1>9 DEF Next

\* The invariant of the argument holds in every reachable state.
THEOREM InductiveInvariant == SafetySpec => []IInv
<1>1. Init => IInv
      BY InitOK
<1>2. IInv /\ [Next]_vars => IInv'
      BY NextOK
<1> QED BY <1>1, <1>2, PTL DEF SafetySpec

\* The shapes imply the type invariant.
LEMMA TypeFromParts == IInv => TypeOK
<1> SUFFICES ASSUME IInv PROVE TypeOK
    OBVIOUS
<1>1. PICK L, o, n, m : L = log /\ o = owner /\ n = calls.rewrite /\ m = calls.append
      OBVIOUS
<1>2. StateOK(L, current, o, lines, n, m, settled) /\ torn \in BOOLEAN
      BY <1>1 DEF IInv
<1>3. /\ L \in [Generations -> LogState] /\ current \in Generations \cup {None}
      /\ o \in [Owners -> Owner] /\ lines \in Seq(LineRecord)
      /\ n \in 0 .. MaxRewrites /\ m \in 0 .. MaxRecords /\ CountsOK(L, o, n, m)
      BY <1>2, Parts
<1>4. ASSUME NEW g \in Generations
      PROVE  L[g].cutoverEpoch \in 0 .. MaxRewrites
  <2>1. L[g].cutoverEpoch \in Nat /\ L[g].cutoverEpoch <= n
        BY <1>3, LogFields DEF CountsOK
  <2> QED BY <1>3, <2>1, Bounds
<1>5. ASSUME NEW p \in Owners
      PROVE  o[p].epoch \in 0 .. MaxRewrites /\ o[p].batch \in 0 .. MaxRecords
  <2>1. o[p].epoch \in Nat /\ o[p].epoch <= n /\ o[p].batch \in Nat /\ o[p].batch <= m
        BY <1>3, OwnerFields DEF CountsOK
  <2> QED BY <1>3, <2>1, Bounds
<1>6. \A g \in Generations :
        /\ L[g].pending \in Seq(Records) /\ L[g].flushPromise \in Owners \cup {None}
        /\ L[g].flushScheduled \in BOOLEAN /\ L[g].storageFailure \in BOOLEAN
        /\ L[g].refCount \in 0 .. MaxHandles
        /\ L[g].retired \in BOOLEAN /\ L[g].ready \in Generations \cup {None}
        /\ L[g].retirement \in {"absent", "none", "flushing", "settled"}
        /\ L[g].awaits \in Owners \cup {None}
      BY <1>3, LogFields
<1>7. \A p \in Owners :
        /\ o[p].gen \in Generations \cup {None}
        /\ o[p].pc \in {"free", "prior", "writing", "ready", "appending", "done", "failed"}
        /\ o[p].prior \in Owners \cup {None} /\ o[p].promised \subseteq Records
      BY <1>3, OwnerFields
<1>8. lines \in Seq([rec : Records \cup {Replacement}, ok : BOOLEAN])
      BY <1>3 DEF LineRecord
<1> QED BY <1>1, <1>2, <1>3, <1>4, <1>5, <1>6, <1>7, <1>8 DEF TypeOK

\* The buffers, promises and epochs keep their types, the counts their bounds:
\* a drain never takes more records than were appended, and no cutover epoch
\* is ahead of the calls of rewrite.
THEOREM TypeCorrect == SafetySpec => []TypeOK
BY InductiveInvariant, TypeFromParts, PTL

\* Two owners at the file would be of one generation, or one would have to be
\* past a `ready` that has not resolved.
LEMMA OneWriterFromParts == IInv => OneWriter
<1> SUFFICES ASSUME IInv,
                    NEW p \in Owners, owner[p].pc \in {"appending", "writing"},
                    NEW q \in Owners, owner[q].pc \in {"appending", "writing"}, p # q
             PROVE  FALSE
    BY DEF OneWriter
<1>1. PICK o, g, h, n, m :
          /\ o = owner /\ g = owner[p].gen /\ h = owner[q].gen
          /\ n = calls.rewrite /\ m = calls.append
      OBVIOUS
<1>2. StateOK(log, current, o, lines, n, m, settled)
      BY <1>1 DEF IInv
<1>3. /\ o[p].pc \in {"appending", "writing"} /\ o[q].pc \in {"appending", "writing"}
      /\ g = o[p].gen /\ h = o[q].gen
      BY <1>1
<1>4. Busy(o, q)
      BY <1>3 DEF Busy
<1>5. /\ g \in Generations
      /\ \A r \in Owners : Busy(o, r) /\ r # p /\ o[r].gen = g => o[r].pc = "prior"
      /\ \A r \in Owners : Busy(o, r) /\ o[r].gen < g => o[r].pc \in {"ready", "done"}
      /\ \A r \in Owners : Busy(o, r) /\ o[r].gen > g => o[r].pc \in {"prior", "ready"}
      BY <1>2, <1>3, WriterAlone
<1>6. h \in Generations
      BY <1>2, <1>3, WriterAlone
<1>7. h = g \/ h < g \/ h > g
      BY <1>5, <1>6, Bounds
<1> QED BY <1>3, <1>4, <1>5, <1>7

\* At most one storage call on the file is under way, across the generations
\* of the buffer and all rewrites: ownFlush chains the owners of a generation,
\* and the drain of a replacement generation awaits state.ready.
THEOREM WritesAreSerialized == SafetySpec => []OneWriter
BY InductiveInvariant, OneWriterFromParts, PTL

\* What the invariant says of the file and the buffers, in the words of the
\* module.
LEMMA ContentFromParts == IInv => FileInOrder /\ NoRecordVanishes /\ AcknowledgedIsDurable
<1> SUFFICES ASSUME IInv PROVE FileInOrder /\ NoRecordVanishes /\ AcknowledgedIsDurable
    OBVIOUS
<1>1. PICK n, m : n = calls.rewrite /\ m = calls.append
      OBVIOUS
<1>2. StateOK(log, current, owner, lines, n, m, settled)
      BY <1>1 DEF IInv
<1>3. /\ FileOK(lines, m) /\ NewerOK(log, lines) /\ AckedOK(log, lines, settled, m)
      /\ NothingVanishes(log, lines, settled, m)
      BY <1>2, Parts
<1>4. /\ OnDisk = Recs(lines) /\ Buffered = UNION {Buffer(log, g) : g \in Generations}
      /\ \A g \in Generations : Buffer(log, g) = ToSet(log[g].pending)
      BY DEF OnDisk, Recs, Buffered, Buffer
<1>5. FileInOrder
  <2>1. \A i, j \in DOMAIN lines : i < j => lines[i].rec < lines[j].rec
        BY <1>3 DEF FileOK
  <2>2. ASSUME NEW g \in Generations, ~log[g].storageFailure,
               NEW r \in ToSet(log[g].pending) \ OnDisk, NEW i \in DOMAIN lines
        PROVE  lines[i].rec < r
    <3>1. r \in Buffer(log, g) \ Recs(lines)
          BY <1>4
    <3>2. lines[i].rec \in Recs(lines)
          BY DEF Recs
    <3> QED BY <1>3, <2>2, <3>1, <3>2 DEF NewerOK
  <2> QED BY <2>1, <2>2 DEF FileInOrder
<1>6. NoRecordVanishes
      BY <1>1, <1>3, <1>4 DEF NothingVanishes, Kept, NoRecordVanishes
<1>7. AcknowledgedIsDurable
      BY <1>3, <1>4 DEF AckedOK, Kept, AcknowledgedIsDurable
<1> QED BY <1>5, <1>6, <1>7

\* The file holds every record once and in the order of the append calls,
\* whatever fails, is rewritten, retired or restarted: drainLog takes its
\* batch from the front of the buffer, drops it only when it is in the file,
\* and writes nothing more once state.storageFailure is set.
THEOREM RecordsStayInOrder == SafetySpec => []FileInOrder
BY InductiveInvariant, ContentFromParts, PTL

\* A record is in the file, superseded by a rewrite that knew of it, still
\* buffered, lost with the process, or overrun: neither the cutover of a
\* rewrite in the middle of a batch nor the hand-over between generations
\* drops one.
THEOREM AppendsAreAccountedFor == SafetySpec => []NoRecordVanishes
BY InductiveInvariant, ContentFromParts, PTL

\* A flush that resolves without having been overtaken by a rewrite has put
\* its records into the file, and no later batch, failure or crash takes them
\* out.
THEOREM FlushIsDurable == SafetySpec => []AcknowledgedIsDurable
BY InductiveInvariant, ContentFromParts, PTL

=============================================================================
