----------------------------- MODULE ABTProofs -----------------------------
(***************************************************************************)
(* The safety of abt.c for any number of messages, any channel bound and   *)
(* any set of corruptions, from the inductive invariant IInv of ABT.       *)
(***************************************************************************)
EXTENDS ABT, PacketProofs

(* Flipping a bit gives the other bit, and flipping again restores it.     *)
LEMMA FlipBit ==
    ASSUME NEW bit \in {0, 1}
    PROVE  Flip(bit) = 1 - bit
<1>1. CASE bit = 0
  BY <1>1 DEF Flip
<1>2. CASE bit = 1
  BY <1>2 DEF Flip
<1> QED
  BY <1>1, <1>2

LEMMA InitInvariant == Init => IInv
<1> SUFFICES ASSUME Init PROVE IInv
  OBVIOUS
<1>1. /\ toA = << >> /\ toB = << >> /\ list = << >>
      /\ cur_msg_sent = 0 /\ cur_msg_recv = 0 /\ exit_code = 0
      /\ A_seqnum = 0 /\ B_seqnum = 0 /\ sender_state = 0
  BY DEF Init, SimInit, waiting_pkt
<1>9. Len(toA) = 0 /\ Len(toB) = 0 /\ Len(list) = 0
  BY <1>1
<1>2. cur_packet \in Packets
  BY DEF Init, Packets
<1>3. toA \in Seq(Packets) /\ toB \in Seq(Packets) /\ list \in Seq(Payloads)
  BY <1>1
<1>4. sender_state # 1 /\ Acked = 0
  <2>1. cur_msg_sent = 0 /\ Len(list) = 0 /\ sender_state = 0
    BY <1>1, <1>9
  <2> QED
    BY <2>1 DEF Acked
<1>0. timer \in BOOLEAN
  BY DEF Init, SimInit
<1>5. TypeOK
  BY <1>0, <1>1, <1>9, <1>2, <1>3, MaxChanAssumption, MaxMsgsAssumption
     DEF TypeOK, SimTypeOK, waiting_pkt
<1>6. Counters
  BY <1>1, <1>4, <1>9 DEF Counters, StopAndWait
<1>7. SenderHolds
  BY <1>1, <1>4, <1>9 DEF SenderHolds, Waiting, waititng_ack
<1>8. PacketsToB /\ AcksToA
  BY <1>1, <1>9 DEF PacketsToB, AcksToA
<1> QED
  BY <1>1, <1>4, <1>5, <1>6, <1>7, <1>8
     DEF IInv, WaitingHasTimer, Waiting, waititng_ack

(* Facts about an unprimed state that most steps need.                     *)
LEMMA InvariantFacts ==
    ASSUME IInv
    PROVE  /\ toA \in Seq(Packets) /\ toB \in Seq(Packets)
           /\ Len(toA) <= MaxChan /\ Len(toB) <= MaxChan
           /\ Len(toA) \in Nat /\ Len(toB) \in Nat
           /\ list \in Seq(Payloads) /\ Len(list) \in Nat
           /\ cur_msg_sent \in 0..MaxMsgs /\ cur_msg_recv \in 0..MaxMsgs
           /\ cur_msg_sent \in Nat /\ cur_msg_recv \in Nat
           /\ A_seqnum \in {0, 1} /\ B_seqnum \in {0, 1}
           /\ sender_state \in {0, 1}
           /\ cur_packet \in Packets
           /\ Acked = cur_msg_sent - Len(list) - sender_state
           /\ Acked \in Nat
           /\ cur_msg_recv = Acked \/ cur_msg_recv = Acked + 1
           /\ cur_msg_recv = Acked + 1 => sender_state = 1
           /\ Flip(A_seqnum) = 1 - A_seqnum
<1>1. /\ toA \in Seq(Packets) /\ toB \in Seq(Packets)
      /\ Len(toA) <= MaxChan /\ Len(toB) <= MaxChan
      /\ list \in Seq(Payloads)
  BY DEF IInv, TypeOK, SimTypeOK
<1>2. Len(toA) \in Nat /\ Len(toB) \in Nat /\ Len(list) \in Nat
  BY <1>1
<1>3. /\ cur_msg_sent \in 0..MaxMsgs /\ cur_msg_recv \in 0..MaxMsgs
      /\ A_seqnum \in {0, 1} /\ B_seqnum \in {0, 1}
      /\ sender_state \in {0, 1}
      /\ cur_packet \in Packets
  BY DEF IInv, TypeOK, SimTypeOK, waiting_pkt, waititng_ack
<1>4. cur_msg_sent \in Nat /\ cur_msg_recv \in Nat
  BY <1>3, MaxMsgsAssumption
<1>5. Acked = cur_msg_sent - Len(list) - sender_state
  BY DEF Acked
<1>6. Acked \in Int
  BY <1>2, <1>3, <1>4, <1>5
<1>7. /\ Acked >= 0 /\ Acked <= cur_msg_recv /\ cur_msg_recv <= Acked + 1
      /\ cur_msg_recv = Acked + 1 => sender_state = 1
  BY DEF IInv, Counters, StopAndWait, Waiting, waititng_ack
<1>8. Flip(A_seqnum) = 1 - A_seqnum
  BY <1>3, FlipBit
<1> QED
  BY <1>1, <1>2, <1>3, <1>4, <1>5, <1>6, <1>7, <1>8

LEMMA BufferMessageStep == IInv /\ BufferMessage => IInv'
<1> SUFFICES ASSUME IInv, BufferMessage PROVE IInv'
  OBVIOUS
<1>1. /\ sender_state = 1
      /\ list' = Append(list, MsgPayload(cur_msg_sent))
      /\ cur_msg_sent' = cur_msg_sent + 1 /\ cur_msg_sent < MaxMsgs
  BY DEF BufferMessage, FromLayer5, msg2give, Waiting, waititng_ack
<1>2. /\ UNCHANGED <<toA, toB, cur_msg_recv, exit_code>>
      /\ UNCHANGED <<A_seqnum, B_seqnum, sender_state, cur_packet>>
  BY DEF BufferMessage
<1>3. UNCHANGED timer
  BY DEF BufferMessage
<1>4. /\ list' \in Seq(Payloads) /\ Len(list') = Len(list) + 1
      /\ \A i \in 1..Len(list) : list'[i] = list[i]
      /\ list'[Len(list) + 1] = MsgPayload(cur_msg_sent)
  BY <1>1, InvariantFacts, MessagesArePayloads
<1>5. Acked' = Acked
  BY <1>1, <1>2, <1>4, InvariantFacts DEF Acked
<1>6. TypeOK'
  <2>1. cur_msg_sent' \in 0..MaxMsgs
    BY <1>1, InvariantFacts, MaxMsgsAssumption
  <2> QED
    BY <1>2, <1>3, <1>4, <2>1 DEF IInv, TypeOK, SimTypeOK
<1>7. Counters'
  BY <1>2, <1>5 DEF IInv, Counters, StopAndWait, Waiting
<1>8. SenderHolds'
  <2>1. ASSUME NEW i \in 1..Len(list')
        PROVE  list'[i] = MsgPayload(cur_msg_sent' - Len(list') + i - 1)
    <3>1. cur_msg_sent' - Len(list') + i - 1 = cur_msg_sent - Len(list) + i - 1
      BY <1>1, <1>4, InvariantFacts
    <3>2. CASE i \in 1..Len(list)
      BY <3>1, <3>2, <1>4 DEF IInv, SenderHolds
    <3>3. CASE i = Len(list) + 1
      <4>1. cur_msg_sent - Len(list) + i - 1 = cur_msg_sent
        BY <3>3, InvariantFacts
      <4> QED
        BY <3>1, <4>1, <3>3, <1>4
    <3> QED
      BY <3>2, <3>3, <1>4, InvariantFacts
  <2> QED
    BY <2>1, <1>2, <1>5 DEF IInv, SenderHolds, Waiting
<1>9. PacketsToB' /\ AcksToA'
  BY <1>2, <1>5 DEF IInv, PacketsToB, AcksToA, Waiting
<1>10. WaitingHasTimer'
  BY <1>2, <1>3 DEF IInv, WaitingHasTimer, Waiting
<1> QED
  BY <1>2, <1>6, <1>7, <1>8, <1>9, <1>10 DEF IInv

(* A's packet joins the channel behind the others: the old packets stay in *)
(* front, and every packet with A's bit carries the message A works on.    *)
LEMMA SendKeepsOrder ==
    ASSUME IInv,
           NEW c \in tolayer3(toB, Seal(A_seqnum, DEFAULT_ACK,
                                        MsgPayload(Acked)))
    PROVE  /\ c \in Seq(Packets) /\ Len(c) <= MaxChan
           /\ \A i \in 1..Len(c) : Intact(c[i]) =>
                /\ c[i].seqnum \in {0, 1}
                /\ c[i].payload \in Payloads
                /\ c[i].seqnum = A_seqnum => c[i].payload = MsgPayload(Acked)
                /\ cur_msg_recv = Acked + 1 => c[i].seqnum = A_seqnum
           /\ \A i, j \in 1..Len(c) :
                /\ i < j /\ Intact(c[i]) /\ Intact(c[j])
                /\ c[i].seqnum = A_seqnum
                => c[j].seqnum = A_seqnum
<1> DEFINE m == MsgPayload(Acked)
           p == Seal(A_seqnum, DEFAULT_ACK, m)
<1>1. /\ toB \in Seq(Packets) /\ Len(toB) <= MaxChan /\ Len(toB) \in Nat
      /\ A_seqnum \in {0, 1} /\ Acked \in Nat
  BY InvariantFacts
<1>2. m \in Payloads
  BY <1>1, MessagesArePayloads
<1>3. Sealable(A_seqnum, DEFAULT_ACK, m)
  BY <1>1, <1>2 DEF Sealable, DEFAULT_ACK, BadNumber
<1>4. p.seqnum = A_seqnum /\ p.payload = m
  BY DEF Seal
<1>5. /\ \A i \in 1..Len(toB) : Intact(toB[i]) =>
            /\ toB[i].seqnum \in {0, 1}
            /\ toB[i].payload \in Payloads
            /\ toB[i].seqnum = A_seqnum => toB[i].payload = m
            /\ cur_msg_recv = Acked + 1 => toB[i].seqnum = A_seqnum
      /\ \A i, j \in 1..Len(toB) :
            /\ i < j /\ Intact(toB[i]) /\ Intact(toB[j])
            /\ toB[i].seqnum = A_seqnum
            => toB[j].seqnum = A_seqnum
  <2>1. Waiting => cur_packet.payload = m
    BY DEF IInv, SenderHolds, Seal
  <2> QED
    BY <2>1 DEF IInv, PacketsToB
<1>6. /\ c \in Seq(Packets) /\ Len(c) <= MaxChan
      /\ \/ c = toB
         \/ \E q \in Packets : c = Append(toB, q) /\ (q = p \/ ~Intact(q))
  BY <1>1, <1>3, Tolayer3Appends
<1>7. CASE c = toB
  BY <1>5, <1>6, <1>7
<1>8. CASE \E q \in Packets : c = Append(toB, q) /\ (q = p \/ ~Intact(q))
  <2>1. PICK q \in Packets : c = Append(toB, q) /\ (q = p \/ ~Intact(q))
    BY <1>8
  <2>2. /\ Len(c) = Len(toB) + 1 /\ c[Len(toB) + 1] = q
        /\ \A i \in 1..Len(toB) : c[i] = toB[i]
    BY <2>1, <1>1, AppendToChannel
  <2>3. \A i \in 1..Len(c) : i \in 1..Len(toB) \/ i = Len(toB) + 1
    BY <2>2, <1>1
  <2>4. Intact(q) => q.seqnum = A_seqnum /\ q.payload = m
    BY <2>1, <1>4
  <2>5. ASSUME NEW i \in 1..Len(c), Intact(c[i])
        PROVE  /\ c[i].seqnum \in {0, 1}
               /\ c[i].payload \in Payloads
               /\ c[i].seqnum = A_seqnum => c[i].payload = m
               /\ cur_msg_recv = Acked + 1 => c[i].seqnum = A_seqnum
    BY <2>2, <2>3, <2>4, <2>5, <1>1, <1>2, <1>5
  <2>6. ASSUME NEW i \in 1..Len(c), NEW j \in 1..Len(c), i < j,
               Intact(c[i]), Intact(c[j]), c[i].seqnum = A_seqnum
        PROVE  c[j].seqnum = A_seqnum
    <3>1. i \in 1..Len(toB)
      BY <2>6, <2>2, <1>1
    <3> QED
      BY <3>1, <2>2, <2>3, <2>4, <2>6, <1>5
  <2> QED
    BY <1>6, <2>5, <2>6
<1> QED
  BY <1>6, <1>7, <1>8

LEMMA SendMessageStep == IInv /\ SendMessage => IInv'
<1> SUFFICES ASSUME IInv, SendMessage PROVE IInv'
  OBVIOUS
<1> DEFINE m == MsgPayload(cur_msg_sent)
           queue == Append(list, m)
<1>1. /\ sender_state = 0 /\ sender_state' = 1
      /\ cur_msg_sent' = cur_msg_sent + 1 /\ cur_msg_sent < MaxMsgs
      /\ cur_packet' = Seal(A_seqnum, DEFAULT_ACK, Head(queue))
      /\ list' = Tail(queue)
      /\ toB' \in tolayer3(toB, cur_packet')
      /\ UNCHANGED <<toA, cur_msg_recv, exit_code, A_seqnum, B_seqnum>>
  <2>1. ~Waiting
    BY DEF SendMessage
  <2>2. sender_state # 1
    BY <2>1 DEF Waiting, waititng_ack
  <2> QED
    BY <2>2, InvariantFacts
       DEF SendMessage, FromLayer5, msg2give, waititng_ack
<1>2. timer' = TRUE
  BY DEF SendMessage, starttimer
<1>3. Waiting' /\ ~Waiting
  BY <1>1 DEF Waiting, waititng_ack
<1>4. /\ queue \in Seq(Payloads) /\ Len(queue) = Len(list) + 1
      /\ \A i \in 1..Len(queue) :
            queue[i] = MsgPayload(cur_msg_sent - Len(list) + i - 1)
  <2>1. /\ queue \in Seq(Payloads) /\ Len(queue) = Len(list) + 1
        /\ \A i \in 1..Len(list) : queue[i] = list[i]
        /\ queue[Len(list) + 1] = m
    BY InvariantFacts, MessagesArePayloads
  <2>2. ASSUME NEW i \in 1..Len(queue)
        PROVE  queue[i] = MsgPayload(cur_msg_sent - Len(list) + i - 1)
    <3>1. CASE i \in 1..Len(list)
      BY <2>1, <3>1 DEF IInv, SenderHolds
    <3>2. CASE i = Len(list) + 1
      <4>1. cur_msg_sent - Len(list) + i - 1 = cur_msg_sent
        BY <3>2, InvariantFacts
      <4> QED
        BY <2>1, <3>2, <4>1
    <3> QED
      BY <2>1, <3>1, <3>2, InvariantFacts
  <2> QED
    BY <2>1, <2>2
<1>5. /\ list' \in Seq(Payloads) /\ Len(list') = Len(list)
      /\ Head(queue) = queue[1] /\ 1 \in 1..Len(queue)
      /\ \A i \in 1..Len(list') : i + 1 \in 1..Len(queue)
                                  /\ list'[i] = queue[i + 1]
  <2>1. queue # << >>
    BY SMTT(30), <1>4, InvariantFacts
  <2> HIDE DEF queue
  <2>2. Len(list) \in Nat
    BY InvariantFacts
  <2>3. Tail(queue) \in Seq(Payloads) /\ Len(Tail(queue)) = Len(list)
    BY <2>1, <2>2, <1>4
  <2> QED
    BY <2>1, <2>2, <2>3, <1>1, <1>4
<1>6. Acked' = Acked /\ Acked = cur_msg_sent - Len(list)
  BY SMTT(30), <1>1, <1>5, InvariantFacts DEF Acked
<1>7. Head(queue) = MsgPayload(Acked)
  <2>1. cur_msg_sent - Len(list) + 1 - 1 = Acked
    BY <1>6, InvariantFacts
  <2> QED
    BY <2>1, <1>4, <1>5
<1>8. cur_packet' = Seal(A_seqnum, DEFAULT_ACK, MsgPayload(Acked))
  BY <1>1, <1>7
<1>9. cur_packet' \in Packets /\ cur_packet'.payload = MsgPayload(Acked)
  BY <1>8, SealedIsIntact, MessagesArePayloads, InvariantFacts
     DEF DEFAULT_ACK
<1>10. TypeOK'
  <2>1. toB' \in Seq(Packets) /\ Len(toB') <= MaxChan
    BY <1>1, <1>8, SendKeepsOrder
  <2>2. cur_msg_sent' \in 0..MaxMsgs
    BY <1>1, InvariantFacts, MaxMsgsAssumption
  <2>3. timer' \in BOOLEAN
    BY <1>2
  <2> QED
    BY <2>1, <2>2, <2>3, <1>1, <1>5, <1>9
       DEF IInv, TypeOK, SimTypeOK, waititng_ack
<1>11. Counters'
  BY <1>1, <1>3, <1>6 DEF IInv, Counters, StopAndWait
<1>12. SenderHolds'
  <2>1. ASSUME NEW i \in 1..Len(list')
        PROVE  list'[i] = MsgPayload(cur_msg_sent' - Len(list') + i - 1)
    <3>1. i + 1 \in 1..Len(queue) /\ list'[i] = queue[i + 1]
      BY <1>5
    <3>2. cur_msg_sent \in Nat /\ Len(list) \in Nat
      BY InvariantFacts
    <3>3. /\ cur_msg_sent' = cur_msg_sent + 1 /\ Len(list') = Len(list)
          /\ i \in Nat
      BY <1>1, <1>5, <3>2
    <3>4. cur_msg_sent - Len(list) + (i + 1) - 1
             = cur_msg_sent' - Len(list') + i - 1
      BY <3>2, <3>3
    <3> QED
      BY <3>1, <3>4, <1>4
  <2> QED
    BY <2>1, <1>1, <1>6, <1>8 DEF SenderHolds
<1>13. PacketsToB'
  BY <1>1, <1>3, <1>6, <1>8, <1>9, SendKeepsOrder DEF PacketsToB
<1>14. AcksToA'
  BY <1>1, <1>6 DEF IInv, AcksToA
<1> QED
  BY <1>1, <1>2, <1>10, <1>11, <1>12, <1>13, <1>14
     DEF IInv, WaitingHasTimer

LEMMA A_inputStep == IInv /\ A_input => IInv'
<1> SUFFICES ASSUME IInv, A_input PROVE IInv'
  OBVIOUS
<1>1. /\ toA # << >> /\ toA' = Tail(toA)
      /\ UNCHANGED <<toB, cur_msg_sent, cur_msg_recv, exit_code>>
      /\ UNCHANGED <<B_seqnum, cur_packet, list>>
  BY DEF A_input, ArrivesAtA
<1>2. UNCHANGED timer
  BY DEF A_input
<1>3. /\ toA' \in Seq(Packets) /\ Len(toA') = Len(toA) - 1
      /\ Len(toA') <= MaxChan
      /\ \A i \in 1..Len(toA') : i + 1 \in 1..Len(toA) /\ toA'[i] = toA[i + 1]
      /\ Head(toA) = toA[1] /\ 1 \in 1..Len(toA)
  <2>1. toA \in Seq(Packets) /\ Len(toA) \in Nat /\ Len(toA) <= MaxChan
    BY InvariantFacts
  <2>2. /\ Tail(toA) \in Seq(Packets) /\ Len(Tail(toA)) = Len(toA) - 1
        /\ \A i \in 1..Len(Tail(toA)) :
              i + 1 \in 1..Len(toA) /\ Tail(toA)[i] = toA[i + 1]
        /\ Head(toA) = toA[1] /\ 1 \in 1..Len(toA)
    BY <2>1, <1>1, TailOfChannel
  <2> QED
    BY <2>1, <2>2, <1>1, MaxChanAssumption
<1>4. CASE ~Acknowledges(pkt2A)
  <2>1. UNCHANGED <<A_seqnum, sender_state>>
    BY <1>4 DEF A_input
  <2>2. Acked' = Acked
    BY <2>1, <1>1 DEF Acked
  <2>3. TypeOK'
    BY <2>1, <1>1, <1>2, <1>3 DEF IInv, TypeOK, SimTypeOK
  <2>4. Counters' /\ SenderHolds' /\ PacketsToB'
    BY <2>1, <2>2, <1>1
       DEF IInv, Counters, StopAndWait, SenderHolds, PacketsToB, Waiting
  <2>5. AcksToA'
    <3>1. \A i, j \in 1..Len(toA') : i < j => i + 1 < j + 1
      OBVIOUS
    <3> QED
      BY <3>1, <2>1, <2>2, <1>1, <1>3 DEF IInv, AcksToA
  <2> QED
    BY <2>1, <2>3, <2>4, <2>5, <1>1, <1>2
       DEF IInv, WaitingHasTimer, Waiting
<1>5. CASE Acknowledges(pkt2A)
  <2>1. /\ A_seqnum' = 1 - A_seqnum /\ sender_state' = 0
        /\ Intact(toA[1]) /\ toA[1].acknum = A_seqnum
    BY <1>3, <1>5, InvariantFacts
       DEF A_input, Acknowledges, pkt2A, waiting_pkt
  <2>2. cur_msg_recv = Acked + 1 /\ sender_state = 1
    BY <2>1, <1>3, InvariantFacts DEF IInv, AcksToA
  <2>3. Acked' = Acked + 1 /\ cur_msg_recv' = Acked'
    BY <2>1, <2>2, <1>1, InvariantFacts DEF Acked
  <2>4. A_seqnum' \in {0, 1} /\ A_seqnum' # A_seqnum
    BY <2>1, InvariantFacts
  <2>5. ~Waiting'
    BY <2>1 DEF Waiting, waititng_ack
  <2>6. TypeOK'
    BY <2>1, <2>4, <1>1, <1>2, <1>3
       DEF IInv, TypeOK, SimTypeOK, waiting_pkt
  <2>7. Counters'
    <3>1. B_seqnum = 1 - A_seqnum
      BY <2>2, InvariantFacts DEF IInv, Counters
    <3>2. Acked' \in Nat /\ cur_msg_recv' # Acked' + 1
      BY <2>3, InvariantFacts
    <3> QED
      BY <3>1, <3>2, <2>1, <2>3, <1>1 DEF Counters, StopAndWait
  <2>8. SenderHolds'
    BY <2>5, <1>1 DEF IInv, SenderHolds
  <2>9. PacketsToB'
    <3>1. \A i \in 1..Len(toB) : Intact(toB[i]) =>
              /\ toB[i].seqnum = A_seqnum
              /\ toB[i].payload \in Payloads
              /\ toB[i].seqnum \in {0, 1}
      BY <2>2 DEF IInv, PacketsToB
    <3>2. cur_msg_recv' # Acked' + 1
      BY <2>3, InvariantFacts
    <3> QED
      BY <3>1, <3>2, <2>4, <1>1 DEF PacketsToB
  <2>10. AcksToA'
    <3>1. ASSUME NEW i \in 1..Len(toA'), Intact(toA'[i])
          PROVE  toA'[i].acknum = A_seqnum
      <4>1. i + 1 \in 1..Len(toA) /\ toA'[i] = toA[i + 1] /\ 1 < i + 1
        BY <1>3
      <4> QED
        BY <4>1, <3>1, <2>1, <1>3 DEF IInv, AcksToA
    <3>2. A_seqnum \in {0, 1}
      BY InvariantFacts
    <3> QED
      BY <3>1, <3>2, <2>4 DEF AcksToA
  <2> QED
    BY <2>5, <2>6, <2>7, <2>8, <2>9, <2>10, <1>1 DEF IInv, WaitingHasTimer
<1> QED
  BY <1>4, <1>5

LEMMA A_timerinterruptStep == IInv /\ A_timerinterrupt => IInv'
<1> SUFFICES ASSUME IInv, A_timerinterrupt PROVE IInv'
  OBVIOUS
<1>1. /\ UNCHANGED <<toA, cur_msg_sent, cur_msg_recv, exit_code>>
      /\ UNCHANGED <<A_seqnum, B_seqnum, sender_state, cur_packet, list>>
  BY DEF A_timerinterrupt, protoVars
<1>2. Acked' = Acked /\ (Waiting' <=> Waiting)
  BY <1>1 DEF Acked, Waiting
<1>3. Counters' /\ SenderHolds' /\ AcksToA'
  BY <1>1, <1>2
     DEF IInv, Counters, StopAndWait, SenderHolds, AcksToA
<1>4. CASE Waiting
  <2>1. toB' \in tolayer3(toB, cur_packet)
    BY <1>4 DEF A_timerinterrupt, Resend
  <2>2. timer' = TRUE
    BY <1>4 DEF A_timerinterrupt, Resend, starttimer
  <2>3. cur_packet = Seal(A_seqnum, DEFAULT_ACK, MsgPayload(Acked))
    BY <1>4 DEF IInv, SenderHolds
  <2>4. cur_packet.payload = MsgPayload(Acked)
    BY <2>3 DEF Seal
  <2>5. toB' \in Seq(Packets) /\ Len(toB') <= MaxChan
    BY <2>1, <2>3, SendKeepsOrder
  <2>6. TypeOK'
    <3>1. timer' \in BOOLEAN
      BY <2>2
    <3> QED
      BY <3>1, <2>5, <1>1 DEF IInv, TypeOK, SimTypeOK
  <2>7. PacketsToB'
    BY <2>1, <2>3, <2>4, <1>1, <1>2, <1>4, SendKeepsOrder DEF PacketsToB
  <2> QED
    BY <2>2, <2>6, <2>7, <1>1, <1>3 DEF IInv, WaitingHasTimer
<1>5. CASE ~Waiting
  <2>1. UNCHANGED toB
    BY <1>5 DEF A_timerinterrupt
  <2>2. timer' \in BOOLEAN
    BY <1>5 DEF A_timerinterrupt
  <2>3. TypeOK'
    BY <2>1, <2>2, <1>1 DEF IInv, TypeOK, SimTypeOK
  <2>4. PacketsToB'
    BY <2>1, <1>1, <1>2 DEF IInv, PacketsToB
  <2> QED
    BY <2>3, <2>4, <1>1, <1>2, <1>3, <1>5 DEF IInv, WaitingHasTimer
<1> QED
  BY <1>4, <1>5

(* An arrival at B takes the oldest packet out and leaves the others alone *)
LEMMA ArrivalAtB ==
    ASSUME IInv, toB # << >>, toB' = Tail(toB)
    PROVE  /\ toB' \in Seq(Packets) /\ Len(toB') <= MaxChan
           /\ \A i \in 1..Len(toB') :
                  i + 1 \in 1..Len(toB) /\ toB'[i] = toB[i + 1]
           /\ Head(toB) = toB[1] /\ 1 \in 1..Len(toB)
           /\ Head(toB) \in Packets
<1>1. toB \in Seq(Packets) /\ Len(toB) \in Nat /\ Len(toB) <= MaxChan
  BY InvariantFacts
<1>2. /\ Tail(toB) \in Seq(Packets) /\ Len(Tail(toB)) = Len(toB) - 1
      /\ \A i \in 1..Len(Tail(toB)) :
            i + 1 \in 1..Len(toB) /\ Tail(toB)[i] = toB[i + 1]
      /\ Head(toB) = toB[1] /\ 1 \in 1..Len(toB) /\ Head(toB) \in Packets
  BY <1>1, TailOfChannel
<1> QED
  BY <1>1, <1>2, MaxChanAssumption

(* The packets left in front of B satisfy what all of them did before.     *)
LEMMA RestOfPacketsToB ==
    ASSUME IInv, toB # << >>, toB' = Tail(toB), Acked' = Acked,
           UNCHANGED <<A_seqnum, sender_state, cur_packet, cur_msg_recv>>
    PROVE  PacketsToB'
<1>1. \A i \in 1..Len(toB') : i + 1 \in 1..Len(toB) /\ toB'[i] = toB[i + 1]
  BY ArrivalAtB
<1>2. \A i, j \in 1..Len(toB') : i < j => i + 1 < j + 1
  OBVIOUS
<1> QED
  BY <1>1, <1>2 DEF IInv, PacketsToB, Waiting

(* B's reply to an intact packet carries the packet's bit, or is damaged.  *)
LEMMA ReplyToPacket ==
    ASSUME IInv, NEW p \in Packets,
           p.seqnum \in {0, 1}, p.payload \in Payloads,
           NEW c \in tolayer3(toA, AckOf(p))
    PROVE  /\ c \in Seq(Packets) /\ Len(c) <= MaxChan
           /\ \/ c = toA
              \/ \E q \in Packets :
                    /\ c = Append(toA, q)
                    /\ Intact(q) => q.acknum = p.seqnum
<1>1. toA \in Seq(Packets) /\ Len(toA) <= MaxChan
  BY InvariantFacts
<1>2. Sealable(p.seqnum, p.seqnum, p.payload)
  BY DEF Sealable, BadNumber
<1>3. Seal(p.seqnum, p.seqnum, p.payload).acknum = p.seqnum
  BY DEF Seal
<1>4. c \in tolayer3(toA, Seal(p.seqnum, p.seqnum, p.payload))
  BY DEF AckOf
<1> QED
  BY <1>1, <1>2, <1>3, <1>4, Tolayer3Appends

(* The acknowledgements stay in order when one for the bit b joins them.   *)
LEMMA AckJoinsChannel ==
    ASSUME IInv, UNCHANGED A_seqnum, NEW b \in {0, 1},
           toA' \in Seq(Packets),
           toA' = toA \/ \E q \in Packets :
                            /\ toA' = Append(toA, q)
                            /\ Intact(q) => q.acknum = b,
           cur_msg_recv = Acked + 1 => cur_msg_recv' = Acked' + 1,
           b = A_seqnum => cur_msg_recv' = Acked' + 1,
           b # A_seqnum => cur_msg_recv = Acked
    PROVE  AcksToA'
<1>1. toA \in Seq(Packets) /\ Len(toA) \in Nat
  BY InvariantFacts
<1>2. CASE toA' = toA
  BY <1>2 DEF IInv, AcksToA
<1>3. CASE \E q \in Packets : /\ toA' = Append(toA, q)
                              /\ Intact(q) => q.acknum = b
  <2>1. PICK q \in Packets : /\ toA' = Append(toA, q)
                             /\ Intact(q) => q.acknum = b
    BY <1>3
  <2>2. /\ Len(toA') = Len(toA) + 1 /\ toA'[Len(toA) + 1] = q
        /\ \A i \in 1..Len(toA) : toA'[i] = toA[i]
    BY <2>1, <1>1, AppendToChannel
  <2>3. \A i \in 1..Len(toA') : i \in 1..Len(toA) \/ i = Len(toA) + 1
    BY <2>2, <1>1
  <2>4. ASSUME NEW i \in 1..Len(toA'), Intact(toA'[i])
        PROVE  /\ toA'[i].acknum \in {0, 1}
               /\ toA'[i].acknum = A_seqnum => cur_msg_recv' = Acked' + 1
    <3>1. CASE i \in 1..Len(toA)
      BY <3>1, <2>2, <2>4 DEF IInv, AcksToA
    <3>2. CASE i = Len(toA) + 1
      BY <3>2, <2>1, <2>2, <2>4
    <3> QED
      BY <3>1, <3>2, <2>3
  <2>5. ASSUME NEW i \in 1..Len(toA'), NEW j \in 1..Len(toA'), i < j,
               Intact(toA'[i]), Intact(toA'[j]), toA'[i].acknum = A_seqnum
        PROVE  toA'[j].acknum = A_seqnum
    <3>1. i \in 1..Len(toA)
      BY <2>5, <2>2, <1>1
    <3>2. CASE j \in 1..Len(toA)
      BY <3>1, <3>2, <2>2, <2>5 DEF IInv, AcksToA
    <3>3. CASE j = Len(toA) + 1
      <4>1. cur_msg_recv = Acked + 1
        BY <3>1, <2>2, <2>5 DEF IInv, AcksToA
      <4>2. b = A_seqnum
        <5>1. Acked \in Nat
          BY InvariantFacts
        <5> QED
          BY <4>1, <5>1
      <4> QED
        BY <4>2, <3>3, <2>1, <2>2, <2>5
    <3> QED
      BY <3>2, <3>3, <2>3
  <2> QED
    BY <2>4, <2>5 DEF AcksToA
<1> QED
  BY <1>2, <1>3

LEMMA IgnoreDamagedStep == IInv /\ IgnoreDamaged => IInv'
<1> SUFFICES ASSUME IInv, IgnoreDamaged PROVE IInv'
  OBVIOUS
<1>1. /\ toB # << >> /\ toB' = Tail(toB)
      /\ UNCHANGED <<toA, cur_msg_sent, cur_msg_recv, exit_code>>
      /\ UNCHANGED <<A_seqnum, B_seqnum, sender_state, cur_packet, list>>
  BY DEF IgnoreDamaged, ArrivesAtB, protoVars
<1>2. UNCHANGED timer
  BY DEF IgnoreDamaged
<1>3. Acked' = Acked /\ (Waiting' <=> Waiting)
  BY <1>1 DEF Acked, Waiting
<1>4. TypeOK'
  <2>1. toB' \in Seq(Packets) /\ Len(toB') <= MaxChan
    BY <1>1, ArrivalAtB
  <2> QED
    BY <2>1, <1>1, <1>2 DEF IInv, TypeOK, SimTypeOK
<1>5. Counters' /\ SenderHolds' /\ AcksToA'
  BY <1>1, <1>3 DEF IInv, Counters, StopAndWait, SenderHolds, AcksToA
<1>6. PacketsToB'
  BY <1>1, <1>3, RestOfPacketsToB
<1> QED
  BY <1>1, <1>2, <1>3, <1>4, <1>5, <1>6 DEF IInv, WaitingHasTimer

LEMMA AckDuplicateStep == IInv /\ AckDuplicate => IInv'
<1> SUFFICES ASSUME IInv, AckDuplicate PROVE IInv'
  OBVIOUS
<1> DEFINE p == Head(toB)
<1>1. /\ toB # << >> /\ toB' = Tail(toB)
      /\ Intact(p) /\ p.seqnum # B_seqnum
      /\ toA' \in tolayer3(toA, AckOf(p))
      /\ UNCHANGED <<cur_msg_sent, cur_msg_recv, exit_code>>
      /\ UNCHANGED <<A_seqnum, B_seqnum, sender_state, cur_packet, list>>
  BY DEF AckDuplicate, ArrivesAtB, pkt2B, Expected, AcknowledgeAgain,
         protoVars
<1>2. UNCHANGED timer
  BY DEF AckDuplicate
<1>3. Acked' = Acked /\ (Waiting' <=> Waiting)
  BY <1>1 DEF Acked, Waiting
<1>4. /\ p \in Packets /\ p.seqnum \in {0, 1} /\ p.payload \in Payloads
      /\ cur_msg_recv = Acked + 1 => p.seqnum = A_seqnum
  BY <1>1, ArrivalAtB DEF IInv, PacketsToB
<1>5. /\ toA' \in Seq(Packets) /\ Len(toA') <= MaxChan
      /\ \/ toA' = toA
         \/ \E q \in Packets : /\ toA' = Append(toA, q)
                               /\ Intact(q) => q.acknum = p.seqnum
  BY <1>1, <1>4, ReplyToPacket
<1>6. TypeOK'
  <2>1. toB' \in Seq(Packets) /\ Len(toB') <= MaxChan
    BY <1>1, ArrivalAtB
  <2> QED
    BY <2>1, <1>1, <1>2, <1>5 DEF IInv, TypeOK, SimTypeOK
<1>7. Counters' /\ SenderHolds'
  BY <1>1, <1>3 DEF IInv, Counters, StopAndWait, SenderHolds
<1>8. PacketsToB'
  BY <1>1, <1>3, RestOfPacketsToB
<1>9. AcksToA'
  <2>1. cur_msg_recv = Acked => B_seqnum = A_seqnum
    BY DEF IInv, Counters
  <2>2. p.seqnum = A_seqnum => cur_msg_recv = Acked + 1
    BY <2>1, <1>1, InvariantFacts
  <2>3. p.seqnum # A_seqnum => cur_msg_recv = Acked
    BY <1>4, InvariantFacts
  <2> QED
    BY <2>2, <2>3, <1>1, <1>3, <1>4, <1>5, AckJoinsChannel
<1> QED
  BY <1>1, <1>2, <1>3, <1>6, <1>7, <1>8, <1>9 DEF IInv, WaitingHasTimer

(* The expected packet is A's current one: B is not ahead of A, and its    *)
(* payload is the message layer 5 is owed, so tolayer5 accepts it.         *)
LEMMA ExpectedIsCurrent ==
    ASSUME IInv, toB # << >>, toB' = Tail(toB), Intact(Head(toB)),
           Head(toB).seqnum = B_seqnum
    PROVE  /\ cur_msg_recv = Acked /\ sender_state = 1
           /\ Head(toB).seqnum = A_seqnum
           /\ Head(toB).payload \in Payloads
           /\ tolayer5(cur_msg_recv, Head(toB).payload) = 0
<1> DEFINE p == Head(toB)
<1>1. /\ p = toB[1] /\ 1 \in 1..Len(toB)
  BY ArrivalAtB
<1>2. /\ p.payload \in Payloads
      /\ p.seqnum = A_seqnum => Waiting /\ p.payload = cur_packet.payload
      /\ cur_msg_recv = Acked + 1 => p.seqnum = A_seqnum
  BY <1>1 DEF IInv, PacketsToB
<1>3. cur_msg_recv = Acked
  <2>1. CASE cur_msg_recv = Acked + 1
    <3>1. Acked \in Nat /\ A_seqnum \in {0, 1} /\ Flip(A_seqnum) = 1 - A_seqnum
      BY InvariantFacts
    <3>2. B_seqnum = 1 - A_seqnum
      BY <2>1, <3>1 DEF IInv, Counters
    <3> QED
      BY <2>1, <3>1, <3>2, <1>2
  <2> QED
    BY <2>1, InvariantFacts
<1>4. p.seqnum = A_seqnum
  BY <1>3 DEF IInv, Counters
<1>5. Waiting /\ sender_state = 1
  BY <1>2, <1>4 DEF Waiting, waititng_ack
<1>6. p.payload = MsgPayload(Acked)
  BY <1>2, <1>4, <1>5 DEF IInv, SenderHolds, Seal
<1>7. cur_msg_recv < cur_msg_sent
  <2>1. /\ Acked = cur_msg_sent - Len(list) - sender_state
        /\ Len(list) \in Nat /\ cur_msg_sent \in Nat /\ cur_msg_recv \in Nat
    BY InvariantFacts
  <2> QED
    BY <2>1, <1>3, <1>5
<1>8. tolayer5(cur_msg_recv, p.payload) = 0
  <2>1. ~(cur_msg_recv >= cur_msg_sent)
    BY <1>7, InvariantFacts
  <2> QED
    BY <2>1, <1>3, <1>6 DEF tolayer5
<1> QED
  BY <1>2, <1>3, <1>4, <1>5, <1>8

LEMMA DeliverAndAckStep == IInv /\ DeliverAndAck => IInv'
<1> SUFFICES ASSUME IInv, DeliverAndAck PROVE IInv'
  OBVIOUS
<1> DEFINE p == Head(toB)
<1>1. /\ toB # << >> /\ toB' = Tail(toB)
      /\ Intact(p) /\ p.seqnum = B_seqnum
      /\ B_seqnum' = Flip(B_seqnum)
      /\ exit_code' = tolayer5(cur_msg_recv, p.payload)
      /\ UNCHANGED <<cur_msg_sent, A_seqnum, sender_state, cur_packet, list>>
  BY DEF DeliverAndAck, ArrivesAtB, pkt2B, Expected
<1>2. UNCHANGED timer
  BY DEF DeliverAndAck
<1>3. /\ cur_msg_recv = Acked /\ sender_state = 1 /\ p.seqnum = A_seqnum
      /\ p.payload \in Payloads
      /\ exit_code' = 0
  BY <1>1, ExpectedIsCurrent
<1>4. cur_msg_recv' = cur_msg_recv + 1 /\ toA' \in tolayer3(toA, AckOf(p))
  BY <1>3 DEF DeliverAndAck, pkt2B
<1>5. Acked' = Acked /\ (Waiting' <=> Waiting)
  BY <1>1 DEF Acked, Waiting
<1>6. /\ cur_msg_recv' = Acked' + 1
      /\ Acked \in Nat /\ A_seqnum \in {0, 1}
  BY <1>3, <1>4, <1>5, InvariantFacts
<1>7. p \in Packets
  BY <1>1, ArrivalAtB
<1>8. /\ toA' \in Seq(Packets) /\ Len(toA') <= MaxChan
      /\ \/ toA' = toA
         \/ \E q \in Packets : /\ toA' = Append(toA, q)
                               /\ Intact(q) => q.acknum = p.seqnum
  <2>1. p.seqnum \in {0, 1}
    BY <1>3, <1>6
  <2> QED
    BY <2>1, <1>3, <1>4, <1>7, ReplyToPacket
<1>9. B_seqnum' = 1 - A_seqnum
  BY <1>1, <1>3, <1>6, FlipBit
<1>10. TypeOK'
  <2>1. toB' \in Seq(Packets) /\ Len(toB') <= MaxChan
    BY <1>1, ArrivalAtB
  <2>2. cur_msg_recv' \in 0..MaxMsgs
    <3>1. /\ Acked = cur_msg_sent - Len(list) - sender_state
          /\ Len(list) \in Nat /\ cur_msg_sent \in Nat
          /\ cur_msg_sent \in 0..MaxMsgs /\ cur_msg_recv \in Nat
      BY InvariantFacts
    <3>2. cur_msg_recv' \in Nat /\ cur_msg_recv' <= cur_msg_sent
      BY <3>1, <1>3, <1>4
    <3> QED
      BY <3>1, <3>2, MaxMsgsAssumption
  <2>3. B_seqnum' \in {0, 1}
    BY <1>6, <1>9
  <2> QED
    BY <2>1, <2>2, <2>3, <1>1, <1>2, <1>3, <1>8 DEF IInv, TypeOK, SimTypeOK
<1>11. Counters'
  <2>1. Acked' >= 0 /\ cur_msg_recv' # Acked'
    BY <1>5, <1>6
  <2>2. StopAndWait'
    BY <1>5, <1>6 DEF StopAndWait
  <2>3. Waiting'
    BY <1>3, <1>5 DEF Waiting, waititng_ack
  <2>4. B_seqnum' = Flip(A_seqnum')
    BY <1>1, <1>6, <1>9, FlipBit
  <2> QED
    BY <2>1, <2>2, <2>3, <2>4 DEF Counters
<1>12. SenderHolds'
  BY <1>1, <1>5 DEF IInv, SenderHolds
<1>13. PacketsToB'
  <2>1. \A i \in 1..Len(toB') :
            i + 1 \in 1..Len(toB) /\ toB'[i] = toB[i + 1] /\ 1 < i + 1
    BY <1>1, ArrivalAtB
  <2>2. toB[1] = p /\ 1 \in 1..Len(toB)
    BY <1>1, ArrivalAtB
  <2>3. ASSUME NEW i \in 1..Len(toB'), Intact(toB'[i])
        PROVE  toB'[i].seqnum = A_seqnum
    BY <2>1, <2>2, <2>3, <1>1, <1>3 DEF IInv, PacketsToB
  <2>4. ASSUME NEW i \in 1..Len(toB'), Intact(toB'[i])
        PROVE  /\ toB'[i].seqnum \in {0, 1}
               /\ toB'[i].payload \in Payloads
               /\ Waiting /\ toB'[i].payload = cur_packet.payload
    BY <2>1, <2>3, <2>4 DEF IInv, PacketsToB
  <2> QED
    BY <2>3, <2>4, <1>1, <1>5 DEF PacketsToB
<1>14. AcksToA'
  BY <1>1, <1>3, <1>6, <1>8, AckJoinsChannel
<1> QED
  BY <1>1, <1>2, <1>3, <1>5, <1>10, <1>11, <1>12, <1>13, <1>14
     DEF IInv, WaitingHasTimer

(* No step of the protocol, and no stuttering step, leaves the invariant.  *)
LEMMA StepInvariant == IInv /\ [Next]_vars => IInv'
<1> SUFFICES ASSUME IInv, [Next]_vars PROVE IInv'
  OBVIOUS
<1>1. CASE BufferMessage
  BY <1>1, BufferMessageStep
<1>2. CASE SendMessage
  BY <1>2, SendMessageStep
<1>3. CASE A_input
  BY <1>3, A_inputStep
<1>4. CASE A_timerinterrupt
  BY <1>4, A_timerinterruptStep
<1>5. CASE IgnoreDamaged
  BY <1>5, IgnoreDamagedStep
<1>6. CASE AckDuplicate
  BY <1>6, AckDuplicateStep
<1>7. CASE DeliverAndAck
  BY <1>7, DeliverAndAckStep
<1>8. CASE UNCHANGED vars
  <2>1. /\ UNCHANGED <<toA, toB, cur_msg_sent, cur_msg_recv, exit_code>>
        /\ UNCHANGED <<A_seqnum, B_seqnum, sender_state, cur_packet, list>>
    BY <1>8 DEF vars, simVars, protoVars
  <2>2. UNCHANGED timer
    BY <1>8 DEF vars, simVars
  <2>3. Acked' = Acked /\ (Waiting' <=> Waiting)
    BY <2>1 DEF Acked, Waiting
  <2>4. TypeOK'
    BY <2>1, <2>2 DEF IInv, TypeOK, SimTypeOK
  <2>5. Counters' /\ SenderHolds' /\ PacketsToB' /\ AcksToA'
    BY <2>1, <2>3 DEF IInv, Counters, StopAndWait, SenderHolds, PacketsToB,
                      AcksToA
  <2> QED
    BY <2>1, <2>2, <2>3, <2>4, <2>5 DEF IInv, WaitingHasTimer
<1> QED
  BY <1>1, <1>2, <1>3, <1>4, <1>5, <1>6, <1>7, <1>8
     DEF Next, A_output, B_input
-----------------------------------------------------------------------------
(* Every variable of abt.c keeps its type, and IInv always holds.          *)
THEOREM Invariant == Spec => []IInv
<1> QED
  BY InitInvariant, StepInvariant, PTL DEF Spec

THEOREM TypeCorrect == Spec => []TypeOK
<1>1. IInv => TypeOK
  BY DEF IInv
<1> QED
  BY <1>1, Invariant, PTL

(* An acknowledged message was delivered, and B is at most one message     *)
(* ahead: StopAndWait holds in every state of abt.c's protocol.            *)
THEOREM AckedImpliesDelivered == Spec => []StopAndWait
<1>1. IInv => StopAndWait
  BY DEF IInv, Counters
<1> QED
  BY <1>1, Invariant, PTL

(* A sender that waits for an acknowledgement has its timer running.       *)
THEOREM TimerWhileWaiting == Spec => []WaitingHasTimer
<1>1. IInv => WaitingHasTimer
  BY DEF IInv
<1> QED
  BY <1>1, Invariant, PTL

(* A_input flips the bit only for the outstanding packet, although the     *)
(* code does not look at sender_state.                                     *)
THEOREM FlipsOnlyForOutstanding == Spec => FlipsOnlyWhileWaiting
<1>1. IInv /\ [Next]_vars => [A_seqnum' # A_seqnum => Waiting]_vars
  <2> SUFFICES ASSUME IInv, A_input, A_seqnum' # A_seqnum PROVE Waiting
    BY DEF Next, A_output, BufferMessage, SendMessage, A_timerinterrupt,
           B_input, IgnoreDamaged, AckDuplicate, DeliverAndAck, protoVars
  <2>1. Intact(Head(toA)) /\ Head(toA).acknum = A_seqnum
    BY DEF A_input, Acknowledges, pkt2A
  <2>2. Head(toA) = toA[1] /\ 1 \in 1..Len(toA)
    <3>1. toA \in Seq(Packets) /\ toA # << >>
      BY InvariantFacts DEF A_input, ArrivesAtA
    <3> QED
      BY <3>1, TailOfChannel
  <2>3. cur_msg_recv = Acked + 1
    BY <2>1, <2>2 DEF IInv, AcksToA
  <2> QED
    BY <2>3 DEF IInv, Counters
<1> QED
  BY <1>1, Invariant, PTL DEF Spec, FlipsOnlyWhileWaiting

(* abt.c implements the safe part of ReliableDelivery: messages are        *)
(* delivered in order, once each, and tolayer5 never ends the run.         *)
THEOREM Implementation == Spec => ImplementsReliableDelivery
<1>1. Init => RD!Init
  BY DEF Init, SimInit, RD!Init
<1>2. IInv /\ IInv' /\ [Next]_vars => [RD!Next]_(RD!vars)
  <2> SUFFICES ASSUME IInv, IInv', [Next]_vars
               PROVE  RD!Next \/ UNCHANGED RD!vars
    BY DEF RD!vars
  <2>0. exit_code = 0 /\ exit_code' = 0
    BY DEF IInv
  <2>1. CASE A_output
    <3>1. /\ cur_msg_sent < MaxMsgs /\ cur_msg_sent' = cur_msg_sent + 1
          /\ UNCHANGED <<cur_msg_recv, exit_code>>
      BY <2>1 DEF A_output, BufferMessage, SendMessage, FromLayer5
    <3> QED
      BY <3>1 DEF RD!Next, RD!Give
  <2>2. CASE A_input \/ A_timerinterrupt \/ IgnoreDamaged \/ AckDuplicate
    <3>1. UNCHANGED <<cur_msg_sent, cur_msg_recv, exit_code>>
      BY <2>2 DEF A_input, A_timerinterrupt, IgnoreDamaged, AckDuplicate
    <3> QED
      BY <3>1 DEF RD!vars
  <2>3. CASE DeliverAndAck
    <3>1. /\ cur_msg_recv = Acked /\ sender_state = 1
      BY <2>3, ExpectedIsCurrent
         DEF DeliverAndAck, ArrivesAtB, pkt2B, Expected
    <3>2. /\ cur_msg_recv' = cur_msg_recv + 1
          /\ UNCHANGED <<cur_msg_sent, exit_code>>
      BY <2>0, <2>3 DEF DeliverAndAck
    <3>3. /\ cur_msg_recv < cur_msg_sent
          /\ cur_msg_recv' \in (cur_msg_recv + 1)..cur_msg_sent
      <4>1. /\ Acked = cur_msg_sent - Len(list) - sender_state
            /\ Len(list) \in Nat
            /\ cur_msg_sent \in Nat /\ cur_msg_recv \in Nat
        BY InvariantFacts
      <4> QED
        BY <4>1, <3>1, <3>2
    <3> QED
      BY <3>2, <3>3 DEF RD!Next, RD!Deliver
  <2>4. CASE UNCHANGED vars
    BY <2>4 DEF vars, simVars, RD!vars
  <2> QED
    BY <2>1, <2>2, <2>3, <2>4 DEF Next, B_input
<1> QED
  BY <1>1, <1>2, Invariant, PTL
     DEF Spec, ImplementsReliableDelivery, RD!Spec
=============================================================================
