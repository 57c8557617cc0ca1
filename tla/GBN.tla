-------------------------------- MODULE GBN --------------------------------
(***************************************************************************)
(* gbn.c, Go-Back-N: A keeps up to WINDOW packets unacknowledged in a ring *)
(* and resends all of them when its one timer goes off; B delivers packets *)
(* in sequence.                                                            *)
(*                                                                         *)
(* Two traits set it apart from the textbook.  B acknowledges a packet     *)
(* only when it sees it again, so every message is transmitted twice at    *)
(* least; and A accepts the acknowledgement of its oldest packet only, not *)
(* a cumulative one.                                                       *)
(***************************************************************************)
EXTENDS Simulator

CONSTANT WINDOW         \* getwinsize(), the -w argument

ASSUME WindowAssumption == WINDOW \in Nat \ {0}

VARIABLES
    B_seqnum,       \* the sequence number B expects
    nextseq,        \* the next sequence number A assigns
    pkt_in_window,  \* packets sent and not acknowledged
    packets,        \* the ring
    list,           \* messages waiting to be sent
    window_start,   \* slot of the oldest packet
    last            \* slot of the newest packet

ringVars == <<pkt_in_window, packets, window_start, last>>
protoVars == <<B_seqnum, nextseq, list, ringVars>>
vars == <<simVars, protoVars>>

Slots == 0..WINDOW-1

(* mutant: the ring does not wrap *)
UnwrappedSucc(slot) == slot + 1

Succ(slot) == (slot + 1) % WINDOW

Blank == [seqnum |-> 0, acknum |-> 0, checksum |-> 0,
          payload |-> [first |-> 0, rest |-> 0]]

(* A_init: the ring is allocated, not filled; no slot is read before it is *)
(* written.                                                                *)
Init ==
    /\ SimInit
    /\ B_seqnum = 0 /\ nextseq = 0
    /\ pkt_in_window = 0
    /\ packets = [slot \in Slots |-> Blank]
    /\ list = << >>
    /\ window_start = 0 /\ last = 0

(***************************************************************************)
(* A_output: the message joins the buffer.  With the window full that is   *)
(* all; else the oldest message is taken out and sent in the slot after    *)
(* `last' (in `last' itself when the window is empty) -- unless that slot  *)
(* is window_start, in which case the message taken out is forgotten.      *)
(***************************************************************************)
WindowFull == pkt_in_window = WINDOW

BufferMessage ==
    /\ FromLayer5
    /\ WindowFull
    /\ list' = Append(list, msg2give)
    /\ UNCHANGED <<toA, toB, timer, cur_msg_recv, exit_code,
                   B_seqnum, nextseq, ringVars>>

(* mutant: the newest slot moves even when the window is empty *)
AlwaysNextSlot == Succ(last)

FreeSlot == IF pkt_in_window = 0 THEN last ELSE Succ(last)

IsFirst(slot) == window_start = slot

SendMessage ==
    /\ FromLayer5
    /\ ~WindowFull
    /\ LET queue == Append(list, msg2give)
           packet == Seal(nextseq, DEFAULT_ACK, Head(queue))
       IN  /\ list' = Tail(queue)
           /\ IF Succ(last) = window_start
              THEN UNCHANGED <<nextseq, ringVars, toB, timer>>
              ELSE /\ last' = FreeSlot
                   /\ packets' = [packets EXCEPT ![FreeSlot] = packet]
                   /\ nextseq' = nextseq + 1
                   /\ pkt_in_window' = pkt_in_window + 1
                   /\ toB' \in tolayer3(toB, packet)
                   /\ IF IsFirst(FreeSlot) THEN starttimer
                                           ELSE UNCHANGED timer
                   /\ UNCHANGED window_start
    /\ UNCHANGED <<toA, cur_msg_recv, exit_code, B_seqnum>>

A_output == BufferMessage \/ SendMessage

(***************************************************************************)
(* A_input: only the acknowledgement of the oldest packet counts.  Its     *)
(* slot is blanked with seqnum -1, the window slides and a buffered        *)
(* message is sent in the slot that became free.                           *)
(***************************************************************************)
(* mutant: any intact packet acknowledges the oldest one *)
AcknowledgesAnything(p) == Intact(p)

Acknowledges(p) == Intact(p) /\ p.acknum = packets[window_start].seqnum

Acked(ring) == [ring EXCEPT ![window_start].seqnum = -1]

(* mutant: a window of one packet does not count as outstanding *)
SeveralOutstanding(start, end, count) == start # end

Outstanding(start, end, count) == start # end \/ count = 1

IgnoreAck ==
    /\ ArrivesAtA
    /\ ~Acknowledges(pkt2A)
    /\ UNCHANGED <<toB, timer, cur_msg_sent, cur_msg_recv, exit_code,
                   protoVars>>

(* The window becomes empty.  Were a message buffered now, the loop that   *)
(* sends it would never end: it does not pop another one.                  *)
EmptyWindow ==
    /\ ArrivesAtA
    /\ Acknowledges(pkt2A)
    /\ pkt_in_window = 1
    /\ packets' = Acked(packets)
    /\ pkt_in_window' = 0
    /\ timer' = Outstanding(window_start, last, 0)
    /\ exit_code' = IF list = << >> THEN 0 ELSE Hung
    /\ UNCHANGED <<toB, cur_msg_sent, cur_msg_recv,
                   B_seqnum, nextseq, list, window_start, last>>

Refill ==
    IF list = << >>
    THEN /\ packets' = Acked(packets)
         /\ pkt_in_window' = pkt_in_window - 1
         /\ UNCHANGED <<nextseq, list, last, toB>>
    ELSE LET packet == Seal(nextseq, DEFAULT_ACK, Head(list))
         IN  /\ last' = Succ(last)
             /\ packets' = [Acked(packets) EXCEPT ![Succ(last)] = packet]
             /\ nextseq' = nextseq + 1
             /\ list' = Tail(list)
             /\ toB' \in tolayer3(toB, packet)
             /\ UNCHANGED pkt_in_window

SlideWindow ==
    /\ ArrivesAtA
    /\ Acknowledges(pkt2A)
    /\ pkt_in_window # 1
    /\ window_start' = Succ(window_start)
    /\ Refill
    /\ timer' = Outstanding(window_start', last', pkt_in_window')
    /\ UNCHANGED <<cur_msg_sent, cur_msg_recv, exit_code, B_seqnum>>

A_input == IgnoreAck \/ EmptyWindow \/ SlideWindow

(***************************************************************************)
(* A_timerinterrupt: every slot from window_start to last is sent again.   *)
(***************************************************************************)
Window == [i \in 1..((last - window_start) % WINDOW) + 1
             |-> packets[(window_start + (i - 1)) % WINDOW]]

A_timerinterrupt ==
    /\ TimerGoesOff
    /\ toB' \in tolayer3Each(toB, Window)
    /\ timer' = Outstanding(window_start, last, pkt_in_window)
    /\ UNCHANGED <<toA, cur_msg_sent, cur_msg_recv, exit_code, protoVars>>

(***************************************************************************)
(* B_input: the expected packet is delivered without a reply, an older one *)
(* is acknowledged, a newer one is dropped.                                *)
(***************************************************************************)
(* mutant: B delivers whatever is not old *)
NotOld(p) == p.seqnum >= B_seqnum

Expected(p) == p.seqnum = B_seqnum

(* mutant: nothing is ever acknowledged *)
NeverOld(p) == FALSE

(* mutant: a packet that came too early is acknowledged too *)
OldOrNewer(p) == p.seqnum # B_seqnum

Old(p) == p.seqnum < B_seqnum

DropPacket ==
    /\ ArrivesAtB
    /\ Intact(pkt2B) => ~Expected(pkt2B) /\ ~Old(pkt2B)
    /\ UNCHANGED <<toA, timer, cur_msg_sent, cur_msg_recv, exit_code,
                   protoVars>>

AckOldPacket ==
    /\ ArrivesAtB
    /\ Intact(pkt2B) /\ ~Expected(pkt2B) /\ Old(pkt2B)
    /\ toA' \in tolayer3(toA, AckOf(pkt2B))
    /\ UNCHANGED <<timer, cur_msg_sent, cur_msg_recv, exit_code, protoVars>>

DeliverPacket ==
    /\ ArrivesAtB
    /\ Intact(pkt2B) /\ Expected(pkt2B)
    /\ B_seqnum' = B_seqnum + 1
    /\ exit_code' = tolayer5(cur_msg_recv, pkt2B.payload)
    /\ cur_msg_recv' = IF exit_code' = 0 THEN cur_msg_recv + 1
                                         ELSE cur_msg_recv
    /\ UNCHANGED <<toA, timer, cur_msg_sent, nextseq, list, ringVars>>

B_input == DropPacket \/ AckOldPacket \/ DeliverPacket

Next == A_output \/ A_input \/ A_timerinterrupt \/ B_input

Spec == Init /\ [][Next]_vars

(***************************************************************************)
(* Fairness.  Every event on the list is handled.  Layer 3 draws the fate  *)
(* of each packet independently, so the oldest packet, if it is resent     *)
(* for ever, and the acknowledgement of packet n, if it is sent for ever,  *)
(* get through undamaged.                                                  *)
(***************************************************************************)
OldestGetsThrough ==
    /\ A_timerinterrupt
    /\ Len(toB') > Len(toB)
    /\ toB'[Len(toB) + 1] = packets[window_start]

AckGetsThrough(n) ==
    /\ AckOldPacket
    /\ pkt2B.seqnum = n
    /\ toA' = Append(toA, AckOf(pkt2B))

FairSpec ==
    /\ Spec
    /\ WF_vars(A_input) /\ WF_vars(B_input) /\ WF_vars(A_timerinterrupt)
    /\ SF_vars(OldestGetsThrough)
    /\ \A n \in 0..MaxMsgs-1 : SF_vars(AckGetsThrough(n))
-----------------------------------------------------------------------------
(* The handlers keep every variable within its type, the ring indices      *)
(* within the ring.                                                        *)
TypeOK ==
    /\ SimTypeOK
    /\ B_seqnum \in 0..MaxMsgs /\ nextseq \in 0..MaxMsgs
    /\ pkt_in_window \in 0..WINDOW
    /\ packets \in [Slots -> Packets]
    /\ list \in Seq(Payloads)
    /\ window_start \in Slots /\ last \in Slots

(* Sequence number of the oldest packet A holds.                           *)
base == nextseq - pkt_in_window

(* The ring pointers and the count agree, and the slots from window_start  *)
(* on hold the unacknowledged packets in sequence, whatever mix of         *)
(* A_output, acknowledgements and refills went before.                     *)
WindowShape ==
    pkt_in_window > 0 =>
        /\ last = (window_start + (pkt_in_window - 1)) % WINDOW
        /\ \A i \in 0..pkt_in_window-1 :
              packets[(window_start + i) % WINDOW]
                = Seal(base + i, DEFAULT_ACK, MsgPayload(base + i))

(* The one timer runs exactly while packets are unacknowledged.            *)
TimerIffOutstanding == timer <=> pkt_in_window > 0

(* A packet A has dropped from its window was delivered at B, and B never  *)
(* expects a packet A has not sent.                                        *)
AckedImpliesDelivered == base <= cur_msg_recv /\ cur_msg_recv <= nextseq

(***************************************************************************)
(* The inductive invariant, for windows of more than one packet.           *)
(***************************************************************************)
(* An empty window has both pointers on one slot, whose packet is blanked  *)
(* unless it was never written: no acknowledgement matches it.             *)
EmptyShape ==
    pkt_in_window = 0 =>
        /\ last = window_start
        /\ nextseq = 0 \/ packets[window_start].seqnum = -1

(* The buffer holds the messages after those that were sent, and only      *)
(* while the window is full: the loop of A_input that never pops the next  *)
(* message (gbn.c:121) is never entered.                                   *)
BufferShape ==
    /\ cur_msg_sent = nextseq + Len(list)
    /\ \A i \in 1..Len(list) : list[i] = MsgPayload(nextseq + i - 1)
    /\ list # << >> => WindowFull

(* What arrives undamaged was sent: packet n carries message n, and an     *)
(* acknowledgement is for a packet that B has.                             *)
UnderWay ==
    /\ \A i \in 1..Len(toB) : Intact(toB[i]) =>
          /\ toB[i].seqnum \in 0..nextseq-1
          /\ toB[i].payload = MsgPayload(toB[i].seqnum)
    /\ \A i \in 1..Len(toA) :
          Intact(toA[i]) => toA[i].acknum \in 0..B_seqnum-1

IInv ==
    /\ TypeOK
    /\ exit_code = 0 /\ B_seqnum = cur_msg_recv
    /\ base >= 0 /\ AckedImpliesDelivered
    /\ WindowShape /\ EmptyShape /\ BufferShape
    /\ TimerIffOutstanding
    /\ UnderWay

(* The packets that were sent are acknowledged to A in the end, although B *)
(* answers duplicates only and A listens for its oldest packet only.       *)
EveryPacketAcknowledged == base < nextseq ~> base = nextseq

(* GBN implements reliable delivery: what was given is delivered in order, *)
(* once, in the end, and tolayer5 never ends the run.                      *)
RD == INSTANCE ReliableDelivery
        WITH given <- cur_msg_sent, delivered <- cur_msg_recv,
             code <- exit_code

ImplementsFairDelivery == RD!FairSpec
=============================================================================
