-------------------------- MODULE ReliableDelivery --------------------------
(***************************************************************************)
(* What a reliable transport promises layer 5: the messages A is given are *)
(* delivered at B in order, each once, none that was not given, and the    *)
(* simulator's checks on deliveries never end the run.                     *)
(***************************************************************************)
EXTENDS Naturals

CONSTANT MaxMsgs

VARIABLES
    given,          \* messages layer 5 gave A
    delivered,      \* messages delivered at B, always the first `delivered'
    code            \* exit code of the run so far

vars == <<given, delivered, code>>

Init == given = 0 /\ delivered = 0 /\ code = 0

Give ==
    /\ given < MaxMsgs
    /\ given' = given + 1
    /\ UNCHANGED <<delivered, code>>

(* One packet may release several messages that waited for it.             *)
Deliver ==
    /\ delivered < given
    /\ delivered' \in (delivered + 1)..given
    /\ UNCHANGED <<given, code>>

Next == Give \/ Deliver

Spec == Init /\ [][Next]_vars

(* The promise in full: what was given is delivered.                       *)
FairSpec == Spec /\ WF_vars(Deliver)
=============================================================================
