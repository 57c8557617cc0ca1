-------------------------------- MODULE ABT --------------------------------
(***************************************************************************)
(* abt.c, the alternating-bit protocol: A sends one packet at a time and   *)
(* waits for its acknowledgement, B delivers a packet with the expected    *)
(* bit and acknowledges every intact one.                                  *)
(*                                                                         *)
(* Two traits set it apart from the textbook.  A_input neither stops the   *)
(* timer nor asks whether a packet is outstanding, so a stale timer may    *)
(* retransmit the next packet at once.  And only A_output takes messages   *)
(* out of the buffer, one for every one it puts in.                        *)
(***************************************************************************)
EXTENDS Simulator

VARIABLES
    A_seqnum, B_seqnum,
    sender_state,
    cur_packet,     \* the last packet A built
    list            \* list_head .. list_end, messages waiting to be sent

protoVars == <<A_seqnum, B_seqnum, sender_state, cur_packet, list>>
vars == <<simVars, protoVars>>

waiting_pkt   == 0
waititng_ack  == 1

(* mutant: the bit never wraps *)
FlipUnbounded(bit) == bit + 1

Flip(bit) == (bit + 1) % 2

Waiting == sender_state = waititng_ack

Init ==
    /\ SimInit
    /\ A_seqnum = 0 /\ B_seqnum = 0
    /\ sender_state = waiting_pkt
    /\ cur_packet = [seqnum |-> 0, acknum |-> 0, checksum |-> 0,
                     payload |-> [first |-> 0, rest |-> 0]]
    /\ list = << >>

(***************************************************************************)
(* A_output: the message joins the buffer; an idle sender then takes the   *)
(* oldest message out, sends it and starts the timer.                      *)
(***************************************************************************)
BufferMessage ==
    /\ FromLayer5
    /\ Waiting
    /\ list' = Append(list, msg2give)
    /\ UNCHANGED <<toA, toB, timer, cur_msg_recv, exit_code,
                   A_seqnum, B_seqnum, sender_state, cur_packet>>

SendMessage ==
    /\ FromLayer5
    /\ ~Waiting
    /\ LET queue == Append(list, msg2give)
       IN  /\ cur_packet' = Seal(A_seqnum, DEFAULT_ACK, Head(queue))
           /\ list' = Tail(queue)
    /\ sender_state' = waititng_ack
    /\ toB' \in tolayer3(toB, cur_packet')
    /\ starttimer
    /\ UNCHANGED <<toA, cur_msg_recv, exit_code, A_seqnum, B_seqnum>>

A_output == BufferMessage \/ SendMessage

(***************************************************************************)
(* A_input: an intact packet that acknowledges A_seqnum flips it and       *)
(* leaves the sender idle; anything else is ignored.                       *)
(***************************************************************************)
(* mutant: any intact packet acknowledges *)
AcknowledgesAnything(p) == Intact(p)

Acknowledges(p) == Intact(p) /\ p.acknum = A_seqnum

A_input ==
    /\ ArrivesAtA
    /\ IF Acknowledges(pkt2A)
       THEN /\ A_seqnum' = Flip(A_seqnum)
            /\ sender_state' = waiting_pkt
       ELSE UNCHANGED <<A_seqnum, sender_state>>
    /\ UNCHANGED <<toB, timer, cur_msg_sent, cur_msg_recv, exit_code,
                   B_seqnum, cur_packet, list>>

(***************************************************************************)
(* A_timerinterrupt: resend and restart while waiting, else do nothing.    *)
(***************************************************************************)
(* mutant: the timer is not restarted *)
ResendOnce == toB' \in tolayer3(toB, cur_packet) /\ timer' = FALSE

Resend == toB' \in tolayer3(toB, cur_packet) /\ starttimer

A_timerinterrupt ==
    /\ TimerGoesOff
    /\ IF Waiting
       THEN Resend
       ELSE UNCHANGED toB /\ timer' = FALSE
    /\ UNCHANGED <<toA, cur_msg_sent, cur_msg_recv, exit_code, protoVars>>

(***************************************************************************)
(* B_input: the expected packet is delivered to layer 5, where the run may *)
(* end; every intact packet is acknowledged.                               *)
(***************************************************************************)
(* mutant: B takes a duplicate for a new packet *)
ExpectedAnyBit(p) == p.seqnum \in {B_seqnum, 1 - B_seqnum}

(* mutant: a duplicate gets no acknowledgement *)
SilentOnDuplicate(p) == UNCHANGED toA

Expected(p) == p.seqnum = B_seqnum

AcknowledgeAgain(p) == toA' \in tolayer3(toA, AckOf(p))

IgnoreDamaged ==
    /\ ArrivesAtB
    /\ ~Intact(pkt2B)
    /\ UNCHANGED <<toA, timer, cur_msg_sent, cur_msg_recv, exit_code,
                   protoVars>>

AckDuplicate ==
    /\ ArrivesAtB
    /\ Intact(pkt2B) /\ ~Expected(pkt2B)
    /\ AcknowledgeAgain(pkt2B)
    /\ UNCHANGED <<timer, cur_msg_sent, cur_msg_recv, exit_code, protoVars>>

DeliverAndAck ==
    /\ ArrivesAtB
    /\ Intact(pkt2B) /\ Expected(pkt2B)
    /\ B_seqnum' = Flip(B_seqnum)
    /\ exit_code' = tolayer5(cur_msg_recv, pkt2B.payload)
    /\ IF exit_code' = 0
       THEN /\ cur_msg_recv' = cur_msg_recv + 1
            /\ toA' \in tolayer3(toA, AckOf(pkt2B))
       ELSE UNCHANGED <<cur_msg_recv, toA>>
    /\ UNCHANGED <<timer, cur_msg_sent,
                   A_seqnum, sender_state, cur_packet, list>>

B_input == IgnoreDamaged \/ AckDuplicate \/ DeliverAndAck

Next == A_output \/ A_input \/ A_timerinterrupt \/ B_input

Spec == Init /\ [][Next]_vars

(***************************************************************************)
(* Fairness.  The simulator handles every event on its list, and           *)
(* lossprob and corruptprob are below 1 with an independent draw per       *)
(* packet: a packet that is sent again and again gets through undamaged.   *)
(***************************************************************************)
ResendGetsThrough ==
    A_timerinterrupt /\ toB' = Append(toB, cur_packet)

AckGetsThrough ==
    B_input /\ toA' = Append(toA, AckOf(pkt2B))

FairSpec ==
    /\ Spec
    /\ WF_vars(A_input) /\ WF_vars(B_input) /\ WF_vars(A_timerinterrupt)
    /\ SF_vars(ResendGetsThrough) /\ SF_vars(AckGetsThrough)
-----------------------------------------------------------------------------
(* The handlers keep every variable within its type; bits stay bits.       *)
TypeOK ==
    /\ SimTypeOK
    /\ A_seqnum \in {0, 1} /\ B_seqnum \in {0, 1}
    /\ sender_state \in {waiting_pkt, waititng_ack}
    /\ cur_packet \in Packets
    /\ list \in Seq(Payloads)

(* Messages layer 5 gave that A holds an acknowledgement for: all but the  *)
(* buffered ones and the one on its way.                                   *)
Acked == cur_msg_sent - Len(list) - sender_state

(* A message A counts as acknowledged was delivered at B, and B is at most *)
(* one message ahead of A, however packets, acknowledgements and stale     *)
(* timeouts interleave (abt.c A_input accepts on the bit alone).           *)
StopAndWait == Acked <= cur_msg_recv /\ cur_msg_recv <= Acked + 1

(* The sender never waits without a timer: A_input leaves the timer alone, *)
(* A_timerinterrupt restarts it only while waiting, and A_output may call  *)
(* starttimer while an old timer still runs.                               *)
WaitingHasTimer == Waiting => timer

(***************************************************************************)
(* The inductive invariant behind the safety properties.  Packets still    *)
(* under way fall into two groups, those of the message before the one A   *)
(* is working on and those of that message, and the groups never mix:      *)
(* FIFO delivery keeps the old ones in front.                              *)
(***************************************************************************)
Counters ==
    /\ Acked >= 0
    /\ StopAndWait
    /\ cur_msg_recv = Acked + 1 => Waiting
    /\ B_seqnum = IF cur_msg_recv = Acked THEN A_seqnum ELSE Flip(A_seqnum)

SenderHolds ==
    /\ \A i \in 1..Len(list) :
            list[i] = MsgPayload(cur_msg_sent - Len(list) + i - 1)
    /\ Waiting => cur_packet = Seal(A_seqnum, DEFAULT_ACK, MsgPayload(Acked))

PacketsToB ==
    /\ \A i \in 1..Len(toB) : Intact(toB[i]) =>
            /\ toB[i].seqnum \in {0, 1}
            /\ toB[i].payload \in Payloads
            /\ toB[i].seqnum = A_seqnum =>
                    Waiting /\ toB[i].payload = cur_packet.payload
            /\ cur_msg_recv = Acked + 1 => toB[i].seqnum = A_seqnum
    /\ \A i, j \in 1..Len(toB) :
            /\ i < j /\ Intact(toB[i]) /\ Intact(toB[j])
            /\ toB[i].seqnum = A_seqnum
            => toB[j].seqnum = A_seqnum

AcksToA ==
    /\ \A i \in 1..Len(toA) : Intact(toA[i]) =>
            /\ toA[i].acknum \in {0, 1}
            /\ toA[i].acknum = A_seqnum => cur_msg_recv = Acked + 1
    /\ \A i, j \in 1..Len(toA) :
            /\ i < j /\ Intact(toA[i]) /\ Intact(toA[j])
            /\ toA[i].acknum = A_seqnum
            => toA[j].acknum = A_seqnum

IInv ==
    /\ TypeOK /\ exit_code = 0
    /\ Counters /\ SenderHolds /\ PacketsToB /\ AcksToA
    /\ WaitingHasTimer

(* A_input does not look at sender_state: the bit must flip only for the   *)
(* packet that is outstanding, not for an acknowledgement that is late.    *)
FlipsOnlyWhileWaiting == [][A_seqnum' # A_seqnum => Waiting]_vars

(* Every packet that is sent is acknowledged in the end, in spite of loss  *)
(* and corruption both ways and of timeouts that come too early.           *)
SentIsAcknowledged == Waiting ~> ~Waiting

(* The run never ends in a panic of tolayer5, and deliveries are the given *)
(* messages in order: ABT implements the safe part of reliable delivery.   *)
RD == INSTANCE ReliableDelivery
        WITH given <- cur_msg_sent, delivered <- cur_msg_recv,
             code <- exit_code

ImplementsReliableDelivery == RD!Spec
=============================================================================
