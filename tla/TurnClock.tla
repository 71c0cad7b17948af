------------------------------ MODULE TurnClock ------------------------------
(***************************************************************************)
(* The identifiers of turns: the model 'turn' that is rebuilt from the     *)
(* log (turnOps.ts) and the reservation the loop keeps in memory           *)
(* (loopService.ts).                                                       *)
(*                                                                         *)
(* A turn receives its identifier when it is created, but 'turn.prompt' is *)
(* logged only when it starts and does not name it: readers of the log     *)
(* count the prompts, helped by the cancellations of queued turns, which   *)
(* are logged by identifier.  A turn that was queued and not cancelled     *)
(* leaves nothing in the log when the process stops.                       *)
(*                                                                         *)
(* Simplifications.  A log is the sequence of the states it replays to, so *)
(* that the replay of its first n entries is log[n].  'turn.ended' and the *)
(* loop events are left out: endTurn does not touch the clock, and an      *)
(* event of a turn names an identifier below next, which its reducer       *)
(* ignores (this is part of the invariant proved).                         *)
(***************************************************************************)
EXTENDS Integers, Sequences

CONSTANT
    NoTurn        \* no turn is active

ASSUME NoTurnAssumption == NoTurn \notin Nat

VARIABLES
    log,          \* the states the log replays to, the empty log's first
    reserved,     \* nextReservedTurnId, 0 while it is undefined
    queued,       \* the identifiers of pendingTurns; they start lowest first
    active        \* the identifier of activeTurnJob, or NoTurn

clockVars == <<log, reserved, queued, active>>

\* TurnModelState: the next identifier, the cancelled ones not yet passed, and
\* (history) the live identifiers of the turns whose prompts are in the log.
ClockType == [next : Nat, cancelled : SUBSET Nat, ran : Seq(Nat)]

InitClock == [next |-> 0, cancelled |-> {}, ran |-> <<>>]

clock == log[Len(log)]

\* The first identifier from next on that was not cancelled.
Skip(next, pend) ==
    CHOOSE n \in {next} \cup {t + 1 : t \in pend} :
        /\ n >= next
        /\ n \notin pend
        /\ \A m \in next..(n - 1) : m \in pend

Advance(c, next, pend) ==
    LET to == Skip(next, pend)
    IN [c EXCEPT !.next = to, !.cancelled = {t \in pend : t > to}]

\* apply of turn.prompt, for the turn whose live identifier is id
PromptTurn(c, id) ==
    [Advance(c, c.next + 1, c.cancelled) EXCEPT !.ran = Append(c.ran, id)]

\* apply of turn.cancel
CancelTurn(c, id) ==
    IF id < c.next THEN c ELSE Advance(c, c.next, c.cancelled \cup {id})

\* wire.dispatch: apply and append to the log in one step; an entry that changes
\* nothing adds no state to replay.
Dispatch(c) == log' = IF c = clock THEN log ELSE Append(log, c)

\* Mutant: the reservation alone, without the clock the log restores.
NewTurnIdOfProcess == reserved

\* reserveTurnId
NewTurnId == IF reserved > clock.next THEN reserved ELSE clock.next

\* startTurn of the turn with identifier id
StartTurn(id) == /\ Dispatch(PromptTurn(clock, id))
                 /\ active' = id

\* createPendingTurn, push, pumpTurns: an idle loop starts the turn at once.
CreateTurn ==
    LET id == NewTurnId
    IN /\ reserved' = id + 1
       /\ IF active = NoTurn
          THEN StartTurn(id) /\ UNCHANGED queued
          ELSE queued' = queued \cup {id} /\ UNCHANGED <<log, active>>

\* The end of the active turn, with the pumpTurns that ends runTurn.
EndActive ==
    /\ active # NoTurn
    /\ \/ /\ queued = {}
          /\ active' = NoTurn
          /\ UNCHANGED <<log, queued>>
       \/ \E id \in queued :
             /\ \A t \in queued : id <= t
             /\ StartTurn(id)
             /\ queued' = queued \ {id}
    /\ UNCHANGED reserved

\* cancelQueuedTurn
CancelQueued(id) ==
    /\ id \in queued
    /\ Dispatch(CancelTurn(clock, id))
    /\ queued' = queued \ {id}
    /\ UNCHANGED <<reserved, active>>

\* cancelActiveTurn: the entry names an identifier below next, so apply
\* changes nothing, and the turn goes on until it sees its signal.
CancelActive ==
    /\ active # NoTurn
    /\ Dispatch(CancelTurn(clock, active))
    /\ UNCHANGED <<reserved, queued, active>>

\* The process stops with the first n states of the log on disk and starts
\* again from them.
Crash(n) ==
    /\ log' = SubSeq(log, 1, n)
    /\ reserved' = 0
    /\ queued' = {}
    /\ active' = NoTurn

Init == /\ log = <<InitClock>>
        /\ reserved = 0
        /\ queued = {}
        /\ active = NoTurn

Next == \/ CreateTurn
        \/ EndActive
        \/ \E id \in queued : CancelQueued(id)
        \/ CancelActive
        \/ \E n \in 1..Len(log) : Crash(n)

ClockSpec == Init /\ [][Next]_clockVars
-----------------------------------------------------------------------------
ClockTypeOK == /\ log \in Seq(ClockType) /\ Len(log) > 0
               /\ reserved \in Nat
               /\ queued \in SUBSET Nat
               /\ active \in Nat \cup {NoTurn}

Ascending(s) == \A i, j \in 1..Len(s) : i < j => s[i] < s[j]

(***************************************************************************)
(* What reserveTurnId and advanceTurnClock are for (loopService.ts:358,    *)
(* turnOps.ts:103): the turns a log shows, over any number of restarts and *)
(* whatever part of the log each left, never share an identifier, and      *)
(* later turns have larger ones, although turns are numbered when they are *)
(* created, queued turns are cancelled in any order and a restart forgets  *)
(* the reservation.                                                        *)
(***************************************************************************)
TurnIdsIncrease == \A k \in 1..Len(log) : Ascending(log[k].ran)
=============================================================================
