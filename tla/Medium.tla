------------------------------- MODULE Medium -------------------------------
(***************************************************************************)
(* What the simulator promises the protocols: one event at a time, packets *)
(* to an entity in the order they were sent, at most one timer, messages   *)
(* of layer 5 until the wanted number was given, then the end.  This is    *)
(* the network Simulator.tla gives the protocol modules, with the calls a  *)
(* handler makes left open.                                                *)
(***************************************************************************)
EXTENDS Naturals, Sequences

CONSTANTS
    nsimmax,
    Ids,            \* tell apart the packets under way
    Nobody

VARIABLES
    toA, toB,       \* packets under way
    timer,          \* is A's timer running?
    given,          \* messages layer 5 gave A
    handler,        \* the entity whose handler runs, or Nobody
    done            \* the run has ended

vars == <<toA, toB, timer, given, handler, done>>

Init ==
    /\ toA = << >> /\ toB = << >>
    /\ timer = FALSE /\ done = FALSE
    /\ given = 0
    /\ handler = Nobody

FromLayer5 ==
    /\ given' = given + 1
    /\ handler' = "A"
    /\ UNCHANGED <<toA, toB, timer>>

ArrivesAtA ==
    /\ toA # << >>
    /\ toA' = Tail(toA)
    /\ handler' = "A"
    /\ UNCHANGED <<toB, timer, given>>

ArrivesAtB ==
    /\ toB # << >>
    /\ toB' = Tail(toB)
    /\ handler' = "B"
    /\ UNCHANGED <<toA, timer, given>>

TimerGoesOff ==
    /\ timer
    /\ timer' = FALSE
    /\ handler' = "A"
    /\ UNCHANGED <<toA, toB, given>>

Event ==
    /\ handler = Nobody /\ ~done
    /\ given < nsimmax
    /\ FromLayer5 \/ ArrivesAtA \/ ArrivesAtB \/ TimerGoesOff
    /\ UNCHANGED done

(* The first event after the last message ends the run and is not handled. *)
End ==
    /\ handler = Nobody /\ ~done
    /\ given = nsimmax
    /\ done' = TRUE
    /\ \/ UNCHANGED <<toA, toB, timer>>
       \/ toA # << >> /\ toA' = Tail(toA) /\ UNCHANGED <<toB, timer>>
       \/ toB # << >> /\ toB' = Tail(toB) /\ UNCHANGED <<toA, timer>>
       \/ timer /\ timer' = FALSE /\ UNCHANGED <<toA, toB>>
    /\ UNCHANGED <<given, handler>>

(* What a handler may call, in any order, and its return.                  *)
UnderWay == {toA[i] : i \in 1..Len(toA)} \cup {toB[i] : i \in 1..Len(toB)}

(* A packet that is not under way yet joins at the end, or is lost.        *)
Joined(new, old) ==
    \/ new = old
    \/ \E p \in Ids \ UnderWay : new = Append(old, p)

Send ==
    /\ handler # Nobody
    /\ IF handler = "A"
       THEN Joined(toB', toB) /\ UNCHANGED toA
       ELSE Joined(toA', toA) /\ UNCHANGED toB
    /\ UNCHANGED <<timer, given, handler, done>>

SetTimer ==
    /\ handler = "A"
    /\ timer' \in BOOLEAN
    /\ UNCHANGED <<toA, toB, given, handler, done>>

Return ==
    /\ handler # Nobody
    /\ handler' = Nobody
    /\ UNCHANGED <<toA, toB, timer, given, done>>

Next == Event \/ End \/ Send \/ SetTimer \/ Return

Spec == Init /\ [][Next]_vars
=============================================================================
