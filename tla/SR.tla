-------------------------------- MODULE SR ---------------------------------
(***************************************************************************)
(* sr.c, Selective Repeat: A resends each packet on its own deadline, kept *)
(* per slot and checked once per INTERVAL of the one timer; B stores the   *)
(* packets that come early and acknowledges every one it has or had.       *)
(*                                                                         *)
(* The clock current_time is folded into the slots: timeover is kept as    *)
(* the number of ticks left, and -1 stands for every deadline that passed. *)
(***************************************************************************)
EXTENDS Simulator, FiniteSets

CONSTANTS
    WINDOW,         \* getwinsize(), the -w argument
    TIMEOUT,        \* in intervals; 30 in sr.c
    MaxDrift        \* bound: how far below 0 pkt_in_window may be driven

ASSUME WindowAssumption == WINDOW \in Nat \ {0}
ASSUME TimeoutAssumption == TIMEOUT \in Nat
ASSUME MaxDriftAssumption == MaxDrift \in Nat

VARIABLES
    A_seqnum,           \* the next sequence number A assigns
    pkt_in_window,      \* A's count of the packets in its window
    A_packets,          \* A's ring: packet, acknowledged?, ticks left
    window_start, last, \* slots of A's oldest and newest packet
    is_timer_off,       \* 1 while the timer runs, whatever its name says
    list,               \* messages waiting to be sent
    B_seqnum,           \* the sequence number B expects
    B_packets,          \* B's ring: packet, sequence number the slot is for
    window_start_B      \* slot of the packet B expects

A_ring == <<pkt_in_window, A_packets, window_start, last>>
A_vars == <<A_seqnum, A_ring, is_timer_off, list>>
B_vars == <<B_seqnum, B_packets, window_start_B>>
vars == <<simVars, A_vars, B_vars>>

Slots == 0..WINDOW-1

(* mutant: the ring does not wrap *)
UnwrappedSucc(slot) == slot + 1

Succ(slot) == (slot + 1) % WINDOW

Reached(first, k) == (first + k) % WINDOW

(* Slots after window_start up to last. *)
Behind == (last - window_start) % WINDOW

(***************************************************************************)
(* A_init and B_init.  The rings come from malloc and are not filled (the  *)
(* loop of A_init compares ack with 0 and discards the result); they are   *)
(* the first blocks of a fresh heap, which hold zeros.                     *)
(***************************************************************************)
Blank == [seqnum |-> 0, acknum |-> 0, checksum |-> 0,
          payload |-> [first |-> 0, rest |-> 0]]

Init ==
    /\ toA = << >> /\ toB = << >>
    /\ timer = TRUE /\ is_timer_off = 1
    /\ cur_msg_sent = 0 /\ cur_msg_recv = 0
    /\ exit_code = 0
    /\ A_seqnum = 0 /\ B_seqnum = 0
    /\ pkt_in_window = 0
    /\ A_packets = [slot \in Slots |-> [pi |-> Blank, ack |-> 0, timeover |-> 0]]
    /\ window_start = 0 /\ last = 0 /\ window_start_B = 0
    /\ list = << >>
    /\ B_packets = [slot \in Slots |-> [pi |-> Blank, timeover |-> slot]]

(***************************************************************************)
(* A_output: as in gbn.c, with a deadline for the packet, and the timer    *)
(* started when the flag says it is off.                                   *)
(***************************************************************************)
WindowFull == pkt_in_window = WINDOW

Unacked(packet) == [pi |-> packet, ack |-> 0, timeover |-> TIMEOUT]

BufferMessage ==
    /\ FromLayer5
    /\ WindowFull
    /\ list' = Append(list, msg2give)
    /\ UNCHANGED <<toA, toB, timer, cur_msg_recv, exit_code,
                   A_seqnum, A_ring, is_timer_off, B_vars>>

FreeSlot == IF pkt_in_window = 0 THEN last ELSE Succ(last)

SendMessage ==
    /\ FromLayer5
    /\ ~WindowFull
    /\ LET queue == Append(list, msg2give)
           packet == Seal(A_seqnum, DEFAULT_ACK, Head(queue))
       IN  /\ list' = Tail(queue)
           /\ IF Succ(last) = window_start
              THEN UNCHANGED <<A_seqnum, A_ring, toB, timer, is_timer_off>>
              ELSE /\ last' = FreeSlot
                   /\ A_packets' = [A_packets EXCEPT
                                        ![FreeSlot] = Unacked(packet)]
                   /\ A_seqnum' = A_seqnum + 1
                   /\ pkt_in_window' = pkt_in_window + 1
                   /\ toB' \in tolayer3(toB, packet)
                   /\ is_timer_off' = 1
                   /\ IF is_timer_off = 0 THEN starttimer
                                          ELSE UNCHANGED timer
                   /\ UNCHANGED window_start
    /\ UNCHANGED <<toA, cur_msg_recv, exit_code, B_vars>>

A_output == BufferMessage \/ SendMessage

(***************************************************************************)
(* A_input for an acknowledgement of the packet in window_start: mark it,  *)
(* slide past it and past the acknowledged packets behind it, send one     *)
(* buffered message.                                                       *)
(***************************************************************************)
AckFor(slot) == Intact(pkt2A) /\ pkt2A.acknum = A_packets[slot].pi.seqnum

(* How many slots after window_start, up to last, are acknowledged.        *)
AckedBehind ==
    LET Run == {k \in 0..Behind :
                  \A j \in 1..k :
                      A_packets[Reached(window_start, j)].ack = 1}
    IN  CHOOSE k \in Run : \A j \in Run : j <= k

(* The oldest buffered message goes into the given slot.                   *)
Refill(slot, ring, count) ==
    IF list = << >>
    THEN /\ A_packets' = ring
         /\ pkt_in_window' = count
         /\ UNCHANGED <<A_seqnum, list, toB>>
    ELSE LET packet == Seal(A_seqnum, DEFAULT_ACK, Head(list))
         IN  /\ A_packets' = [ring EXCEPT ![slot] = Unacked(packet)]
             /\ pkt_in_window' = count + 1
             /\ A_seqnum' = A_seqnum + 1
             /\ list' = Tail(list)
             /\ toB' \in tolayer3(toB, packet)

Acked(slot) == [A_packets EXCEPT ![slot].ack = 1]

(* mutant: the flag still says that the timer runs *)
StopButNoFlag == stoptimer /\ UNCHANGED is_timer_off

TimerOff == stoptimer /\ is_timer_off' = 0

EmptyWindow ==
    /\ ArrivesAtA
    /\ AckFor(window_start)
    /\ pkt_in_window = 1
    /\ window_start' = Succ(window_start)
    /\ last' = Succ(last)
    /\ Refill(last', Acked(window_start), 0)
    /\ IF list = << >> THEN TimerOff
                       ELSE UNCHANGED <<is_timer_off, timer>>
    /\ UNCHANGED <<cur_msg_sent, cur_msg_recv, exit_code, B_vars>>

SlideWindow ==
    /\ ArrivesAtA
    /\ AckFor(window_start)
    /\ pkt_in_window # 1
    /\ LET count == pkt_in_window - 1 - AckedBehind
       IN  /\ count >= -MaxDrift
           /\ window_start' = Reached(window_start, AckedBehind + 1)
           /\ last' = IF count = 0 THEN window_start' ELSE last
           /\ Refill(last', Acked(window_start), count)
    /\ UNCHANGED <<timer, is_timer_off,
                   cur_msg_sent, cur_msg_recv, exit_code, B_vars>>

(* An acknowledgement of a packet behind window_start is noted in its slot *)
(* and anything else ignored.                                              *)
BehindStart == {Reached(window_start, j) : j \in 1..Behind}

NoteAck ==
    /\ ArrivesAtA
    /\ ~AckFor(window_start)
    /\ \E slot \in BehindStart :
          /\ AckFor(slot)
          /\ pkt2A.acknum > A_packets[window_start].pi.seqnum
          /\ A_packets' = Acked(slot)
    /\ UNCHANGED <<toB, timer, cur_msg_sent, cur_msg_recv, exit_code,
                   A_seqnum, pkt_in_window, window_start, last,
                   is_timer_off, list, B_vars>>

IgnoreAck ==
    /\ ArrivesAtA
    /\ ~AckFor(window_start)
    /\ \A slot \in BehindStart :
          AckFor(slot) => pkt2A.acknum <= A_packets[window_start].pi.seqnum
    /\ UNCHANGED <<toB, timer, cur_msg_sent, cur_msg_recv, exit_code,
                   A_vars, B_vars>>

A_input == EmptyWindow \/ SlideWindow \/ NoteAck \/ IgnoreAck

(***************************************************************************)
(* A_timerinterrupt: one interval passes; every unacknowledged packet past *)
(* its deadline gets a new one and is sent again -- except that the packet *)
(* sent for the slot `last' is the one in window_start.                    *)
(***************************************************************************)
TicksLeft(slot) ==
    IF A_packets[slot].timeover < 0 THEN -1 ELSE A_packets[slot].timeover - 1

InWindow == BehindStart \cup {window_start}

Due(slot) ==
    /\ pkt_in_window # 0
    /\ slot \in InWindow
    /\ A_packets[slot].ack = 0
    /\ TicksLeft(slot) < 0

(* mutant: the newest packet is sent for every slot *)
ResendNewest(slot) == A_packets[last].pi

ResentFor(slot) == A_packets[IF slot = last THEN window_start ELSE slot].pi

(* The offsets of the due packets, in the order the loop meets them.       *)
DueOffsets == {k \in 0..Behind : Due(Reached(window_start, k))}

DueInOrder ==
    {due \in [1..Cardinality(DueOffsets) -> DueOffsets] :
        \A i, j \in DOMAIN due : i < j => due[i] < due[j]}

Resent(due) == [i \in DOMAIN due |-> ResentFor(Reached(window_start, due[i]))]

A_timerinterrupt ==
    /\ TimerGoesOff
    /\ A_packets' = [slot \in Slots |->
                        [A_packets[slot] EXCEPT
                            !.timeover = IF Due(slot) THEN TIMEOUT
                                                      ELSE TicksLeft(slot)]]
    /\ \E due \in DueInOrder : toB' \in tolayer3Each(toB, Resent(due))
    /\ starttimer
    /\ UNCHANGED <<toA, cur_msg_sent, cur_msg_recv, exit_code,
                   A_seqnum, pkt_in_window, window_start, last,
                   is_timer_off, list, B_vars>>

Expected(p) == p.seqnum = B_seqnum

(* mutant: every packet that is not expected counts as old *)
OldOrEarly(p) == p.seqnum # B_seqnum

(* mutant: old packets are not acknowledged again *)
NeverOld(p) == FALSE

Old(p) == p.seqnum < B_seqnum

SlotsFor(p) == {slot \in Slots : B_packets[slot].timeover = p.seqnum}

Early(p) ==
    /\ p.seqnum > B_seqnum /\ p.seqnum <= B_seqnum + WINDOW
    /\ SlotsFor(p) # {}

Reply == toA' \in tolayer3(toA, AckOf(pkt2B))

(* The stored packets that follow the expected one without a gap.          *)
StoredBehind ==
    LET Run == {k \in Slots :
                  \A j \in 1..k :
                      B_packets[Reached(window_start_B, j)].pi.seqnum
                         = B_seqnum + j}
    IN  CHOOSE k \in Run : \A j \in Run : j <= k

Released == [k \in 0..StoredBehind |->
                IF k = 0 THEN pkt2B.payload
                ELSE B_packets[Reached(window_start_B, k)].pi.payload]

Refused == {k \in DOMAIN Released :
                tolayer5(cur_msg_recv + k, Released[k]) # 0}

(* mutant: B_seqnum is taken before it was advanced *)
OneTooFar(k) == B_seqnum + k + 1 + WINDOW

(* The sequence number the slot of the k-th released packet is for next.   *)
NextFor(k) == B_seqnum + k + WINDOW

(***************************************************************************)
(* B_input: the expected packet is acknowledged and delivered with the     *)
(* stored ones behind it, and the slots they leave are set up for the      *)
(* numbers one window further on.  Layer 5 may end the run at any of them. *)
(***************************************************************************)
DeliverPackets ==
    /\ ArrivesAtB
    /\ Intact(pkt2B) /\ Expected(pkt2B)
    /\ IF Refused = {}
       THEN LET n == StoredBehind + 1
                Offset(slot) == (slot - window_start_B) % WINDOW
            IN  /\ B_seqnum' = B_seqnum + n
                /\ cur_msg_recv' = cur_msg_recv + n
                /\ window_start_B' = Reached(window_start_B, n)
                /\ B_packets' =
                     [slot \in Slots |->
                        IF Offset(slot) < n
                        THEN [B_packets[slot] EXCEPT
                                !.timeover = NextFor(Offset(slot))]
                        ELSE B_packets[slot]]
                /\ Reply
                /\ UNCHANGED exit_code
       ELSE LET k == CHOOSE j \in Refused : \A i \in Refused : j <= i
            IN  /\ exit_code' = tolayer5(cur_msg_recv + k, Released[k])
                /\ cur_msg_recv' = cur_msg_recv + k
                /\ UNCHANGED <<toA, B_vars>>
    /\ UNCHANGED <<timer, cur_msg_sent, A_vars>>

(* A packet from further on in the window is stored and acknowledged.      *)
StorePacket ==
    /\ ArrivesAtB
    /\ Intact(pkt2B) /\ Early(pkt2B)
    /\ \E slot \in SlotsFor(pkt2B) :
          B_packets' = [B_packets EXCEPT ![slot].pi = pkt2B]
    /\ Reply
    /\ UNCHANGED <<timer, cur_msg_sent, cur_msg_recv, exit_code,
                   A_vars, B_seqnum, window_start_B>>

AckOldPacket ==
    /\ ArrivesAtB
    /\ Intact(pkt2B) /\ Old(pkt2B)
    /\ Reply
    /\ UNCHANGED <<timer, cur_msg_sent, cur_msg_recv, exit_code,
                   A_vars, B_vars>>

DropPacket ==
    /\ ArrivesAtB
    /\ Intact(pkt2B) => ~(Expected(pkt2B) \/ Early(pkt2B) \/ Old(pkt2B))
    /\ UNCHANGED <<toA, timer, cur_msg_sent, cur_msg_recv, exit_code,
                   A_vars, B_vars>>

B_input == DeliverPackets \/ StorePacket \/ AckOldPacket \/ DropPacket

Next == A_output \/ A_input \/ A_timerinterrupt \/ B_input

Spec == Init /\ [][Next]_vars

(***************************************************************************)
(* The same protocol on a network whose round trip is always shorter than  *)
(* TIMEOUT: no deadline passes while a packet is under way.                *)
(***************************************************************************)
PatientTimer ==
    /\ (\E slot \in Slots : Due(slot)) => toA = << >> /\ toB = << >>
    /\ A_timerinterrupt

PatientNext == A_output \/ A_input \/ PatientTimer \/ B_input

PatientSpec == Init /\ [][PatientNext]_vars

(* Fairness.  Every event is handled, and layer 3 draws the fate of each   *)
(* packet independently: of packets, and of acknowledgements, with number  *)
(* n that are sent for ever one gets through.                              *)
PacketGetsThrough(n) ==
    /\ PatientTimer
    /\ \E i \in Len(toB)+1..Len(toB') : Intact(toB'[i]) /\ toB'[i].seqnum = n

AckGetsThrough(n) ==
    /\ B_input
    /\ pkt2B.seqnum = n
    /\ toA' = Append(toA, AckOf(pkt2B))

PatientFairSpec ==
    /\ PatientSpec
    /\ WF_vars(A_input) /\ WF_vars(B_input) /\ WF_vars(PatientTimer)
    /\ \A n \in 0..MaxMsgs-1 : SF_vars(PacketGetsThrough(n))
                             /\ SF_vars(AckGetsThrough(n))
-----------------------------------------------------------------------------
(* The handlers keep every variable within its type; pkt_in_window is the  *)
(* one that leaves the range its name suggests.                            *)
TypeOK ==
    /\ SimTypeOK
    /\ A_seqnum \in 0..MaxMsgs /\ B_seqnum \in 0..MaxMsgs
    /\ pkt_in_window \in -MaxDrift..WINDOW
    /\ A_packets \in [Slots -> [pi : Packets, ack : {0, 1},
                                timeover : -1..TIMEOUT]]
    /\ window_start \in Slots /\ last \in Slots /\ window_start_B \in Slots
    /\ is_timer_off \in {0, 1}
    /\ list \in Seq(Payloads)
    /\ B_packets \in [Slots -> [pi : Packets, timeover : Nat]]

(* B's slots are set up for the next WINDOW sequence numbers, in order     *)
(* from window_start_B, after any mix of early, expected and old packets.  *)
ReceiverWindow ==
    \A i \in Slots :
        B_packets[Reached(window_start_B, i)].timeover = B_seqnum + i

(* B has packet n: delivered, or stored in the slot that waits for it.     *)
BHas(n) ==
    \/ n < B_seqnum
    \/ /\ n > B_seqnum
       /\ \E slot \in Slots : /\ B_packets[slot].timeover = n
                              /\ B_packets[slot].pi.seqnum = n

(* What B acknowledges it never loses: an intact acknowledgement under way *)
(* to A names a packet B has delivered or still stores.                    *)
AckMeansReceived ==
    \A i \in 1..Len(toA) : Intact(toA[i]) => BHas(toA[i].acknum)

(* is_timer_off, the sender's own idea of its timer, is never wrong (1     *)
(* means that the timer runs), across interrupts, stops and restarts.      *)
TimerFlagExact == timer <=> is_timer_off = 1

(***************************************************************************)
(* The inductive invariant of the receiver and of the timer.  Nothing of   *)
(* it depends on what A has in its ring, which A gets wrong.               *)
(***************************************************************************)
(* The messages given are those delivered and more, and A numbers at most  *)
(* those that it does not buffer.                                          *)
Counts ==
    /\ cur_msg_recv <= cur_msg_sent
    /\ A_seqnum + Len(list) <= cur_msg_sent
    /\ Running => B_seqnum = cur_msg_recv

IInv ==
    /\ TypeOK /\ Counts
    /\ ReceiverWindow /\ AckMeansReceived
    /\ TimerFlagExact

(* tolayer5 accepts what B delivers (simulator.c:546-568).                 *)
NoPanic == exit_code = 0

(* A packet that B does not have is still in A's ring, to be resent.       *)
UnreceivedIsKept ==
    \A n \in 0..A_seqnum-1 :
        BHas(n) \/ \E slot \in Slots : A_packets[slot].pi.seqnum = n

(* Once layer 5 has given its last message, A's window drains: every       *)
(* packet is acknowledged to A in the end.                                 *)
WindowDrains == (cur_msg_sent = MaxMsgs) ~> (pkt_in_window = 0)

RD == INSTANCE ReliableDelivery
        WITH given <- cur_msg_sent, delivered <- cur_msg_recv,
             code <- exit_code

(* SR implements reliable delivery in full -- on a patient network and     *)
(* while no message has to be buffered.                                    *)
ImplementsFairDelivery == RD!FairSpec
=============================================================================
