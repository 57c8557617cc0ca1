----------------------------- MODULE FifoBuffer -----------------------------
(***************************************************************************)
(* What a message buffer promises the sender: messages come out in the     *)
(* order they went in.  One fails to go in only when memory is short.      *)
(***************************************************************************)
EXTENDS Sequences

CONSTANTS Messages, Nothing

VARIABLES
    queue,      \* messages waiting, oldest first
    given,      \* the message put in by the last call, or Nothing
    taken,      \* the message taken out by the last call, or Nothing
    short       \* is memory short?  Changes as it likes

vars == <<queue, given, taken, short>>

Init ==
    /\ queue = << >>
    /\ given = Nothing /\ taken = Nothing
    /\ short \in BOOLEAN

(* What waits after an attempt to put m in.                               *)
With(m) == IF short THEN queue ELSE Append(queue, m)

Put(m) == queue' = With(m) /\ taken' = Nothing

Take(waiting) ==
    IF waiting = << >>
    THEN queue' = << >> /\ taken' = Nothing
    ELSE queue' = Tail(waiting) /\ taken' = Head(waiting)

Next ==
    /\ \/ \E m \in Messages : given' = m /\ (Put(m) \/ Take(With(m)))
       \/ given' = Nothing /\ Take(queue)
    /\ short' \in BOOLEAN

Spec == Init /\ [][Next]_vars
=============================================================================
