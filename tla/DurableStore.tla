---------------------------- MODULE DurableStore ----------------------------
(* What a durable key-value store promises: writes show at once, are kept in   *)
(* the order in which they were accepted or rejected together, and a restart   *)
(* finds what was kept and a beginning of what was in flight.  A write is a    *)
(* number, in the order of acceptance; 0 stands for none.                      *)
EXTENDS Naturals, Sequences

CONSTANT Keys

VARIABLES
    memory,     \* the write of each key that callers see
    kept,       \* the write of each key that is safe on disk
    flight,     \* the writes accepted and neither kept nor rejected, in order
    acked,      \* the newest write of each key whose caller was told that it is kept
    rejected,   \* the writes rejected since the last restart
    accepted    \* how many writes were accepted

vars == <<memory, kept, flight, acked, rejected, accepted>>

Init ==
    /\ memory = [k \in Keys |-> 0] /\ kept = [k \in Keys |-> 0] /\ acked = [k \in Keys |-> 0]
    /\ flight = <<>> /\ rejected = {} /\ accepted = 0

Writes(k, frames) == {i \in DOMAIN frames : frames[i].key = k}
LastOf(S) == CHOOSE i \in S : \A j \in S : j <= i

(* The write of k after some more were kept. *)
After(k, frames, id) ==
    IF Writes(k, frames) = {} THEN id ELSE frames[LastOf(Writes(k, frames))].id

Accept(k) ==
    /\ accepted' = accepted + 1
    /\ flight' = Append(flight, [id |-> accepted', key |-> k])
    /\ memory' = [memory EXCEPT ![k] = accepted']
    /\ UNCHANGED <<kept, acked, rejected>>

Keep(n) ==
    /\ kept' = [k \in Keys |-> After(k, SubSeq(flight, 1, n), kept[k])]
    /\ acked' = [k \in Keys |-> After(k, SubSeq(flight, 1, n), acked[k])]
    /\ flight' = SubSeq(flight, n + 1, Len(flight))
    /\ UNCHANGED <<memory, rejected, accepted>>

(* All that is in flight is rejected, and callers see what is kept. *)
Reject ==
    /\ rejected' = rejected \cup {flight[i].id : i \in DOMAIN flight}
    /\ flight' = <<>>
    /\ memory' = kept
    /\ UNCHANGED <<kept, acked, accepted>>

(* The first n writes in flight have reached the disk.  A key that none of    *)
(* them is about may hold a write that was rejected after the kept one.       *)
Restart(n) ==
    /\ \A k \in Keys :
          \/ kept'[k] = After(k, SubSeq(flight, 1, n), kept[k])
          \/ /\ Writes(k, SubSeq(flight, 1, n)) = {}
             /\ kept'[k] \in rejected /\ kept'[k] > kept[k]
    /\ memory' = kept'
    /\ flight' = <<>> /\ rejected' = {}
    /\ UNCHANGED <<acked, accepted>>

Next ==
    \/ \E k \in Keys : Accept(k)
    \/ \E n \in 1 .. Len(flight) : Keep(n)
    \/ Reject
    \/ \E n \in 0 .. Len(flight) : Restart(n)

Spec == Init /\ [][Next]_vars
=============================================================================
