----------------------------- MODULE Simulator -----------------------------
(***************************************************************************)
(* The state simulator.c keeps for a protocol, and the services and events *)
(* it offers one: the two directions of layer 3, A's timer, and the        *)
(* messages of layer 5 with the checks tolayer5 makes on every delivery.   *)
(*                                                                         *)
(* Simulated time is abstracted: a started timer may go off, and the       *)
(* packet at the head of a channel may arrive, at any moment.  The event   *)
(* list of simulator.c allows some of these orders, never another one:     *)
(* packets to one entity arrive in the order they were sent.               *)
(***************************************************************************)
EXTENDS Packet

CONSTANT MaxMsgs        \* bound: messages layer 5 gives before it is quiet

(* application_msgs has 1000 entries *)
ASSUME MaxMsgsAssumption == MaxMsgs \in 1..1000

VARIABLES
    toA,            \* FROM_LAYER3 events of A, in order of arrival
    toB,            \* FROM_LAYER3 events of B
    timer,          \* is a TIMER_INTERRUPT of A on the event list?
    cur_msg_sent,   \* messages layer 5 gave A
    cur_msg_recv,   \* messages delivered to layer 5 at B
    exit_code       \* 0 while the simulation runs

simVars == <<toA, toB, timer, cur_msg_sent, cur_msg_recv, exit_code>>

NonExistent == 52       \* "PANIC: Unexpected/Non-existent packet!"
Unexpected  == 63       \* not the payload layer 5 gave as this message
Hung        == -1       \* not an exit code: a handler that never returns

SimInit ==
    /\ toA = << >> /\ toB = << >>
    /\ timer = FALSE
    /\ cur_msg_sent = 0 /\ cur_msg_recv = 0
    /\ exit_code = 0

(***************************************************************************)
(* The three events of the main loop.                                      *)
(***************************************************************************)
Running == exit_code = 0

FromLayer5 ==
    /\ Running
    /\ cur_msg_sent < MaxMsgs
    /\ cur_msg_sent' = cur_msg_sent + 1

msg2give == MsgPayload(cur_msg_sent)

ArrivesAtA ==
    /\ Running
    /\ toA # << >>
    /\ toA' = Tail(toA)

(* Bound: B handles a packet when its reply has room, so that a reply is   *)
(* lost by the choice of layer 3 and never for want of MaxChan.            *)
ArrivesAtB ==
    /\ Running
    /\ toB # << >>
    /\ Len(toA) < MaxChan
    /\ toB' = Tail(toB)

pkt2A == Head(toA)
pkt2B == Head(toB)

(* The event leaves the list before the handler runs: the handler finds    *)
(* the timer stopped and says in timer' whether it started it again.       *)
TimerGoesOff ==
    /\ Running
    /\ timer

starttimer == timer' = TRUE     \* harmless when it runs already
stoptimer  == timer' = FALSE    \* harmless when it does not run

(***************************************************************************)
(* tolayer5 with data, when recv messages were delivered before: the exit  *)
(* code, 0 when the delivery is accepted.  Its third check, exit(145),     *)
(* cannot fail: message recv - 1 was marked when recv became recv.         *)
(***************************************************************************)
tolayer5(recv, data) ==
    IF recv >= cur_msg_sent         THEN NonExistent
    ELSE IF data # MsgPayload(recv) THEN Unexpected
    ELSE 0

SimTypeOK ==
    /\ toA \in Seq(Packets) /\ toB \in Seq(Packets)
    /\ Len(toA) <= MaxChan /\ Len(toB) <= MaxChan
    /\ timer \in BOOLEAN
    /\ cur_msg_sent \in 0..MaxMsgs
    /\ cur_msg_recv \in 0..MaxMsgs
    /\ exit_code \in {0, NonExistent, Unexpected, Hung}
=============================================================================
