----------------------------- MODULE GBNProofs -----------------------------
(***************************************************************************)
(* The safety of gbn.c for every window of more than one packet, any       *)
(* number of messages, any channel bound and any set of corruptions, from  *)
(* the inductive invariant IInv of GBN.                                    *)
(***************************************************************************)
EXTENDS GBN, PacketProofs

-----------------------------------------------------------------------------
(* The ring: the slot i places after start, around the end of the array.   *)
At(start, i) == (start + i) % WINDOW

LEMMA SlotAt ==
    ASSUME NEW start \in Slots, NEW i \in 0..WINDOW
    PROVE  /\ At(start, i) \in Slots
           /\ At(start, i) = IF start + i < WINDOW THEN start + i
                                                  ELSE start + i - WINDOW
<1>1. CASE start + i < WINDOW
  <2>1. (start + i) % WINDOW = start + i
    BY <1>1, WindowAssumption DEF Slots
  <2> QED
    BY <1>1, <2>1, WindowAssumption DEF Slots, At
<1>2. CASE ~(start + i < WINDOW)
  <2>1. (start + i) % WINDOW = start + i - WINDOW
    BY <1>2, WindowAssumption DEF Slots
  <2> QED
    BY <1>2, <2>1, WindowAssumption DEF Slots, At
<1> QED
  BY <1>1, <1>2

LEMMA FirstSlot ==
    ASSUME NEW start \in Slots
    PROVE  At(start, 0) = start /\ At(start, WINDOW) = start
BY SlotAt, WindowAssumption DEF Slots

(* Succ goes one place on, from a slot and from the start of a window.     *)
LEMMA SuccAt ==
    ASSUME NEW start \in Slots, NEW i \in 0..WINDOW-1
    PROVE  /\ Succ(At(start, i)) = At(start, i + 1)
           /\ Succ(start) \in Slots
           /\ At(Succ(start), i) = At(start, i + 1)
<1>1. \A slot \in Slots : Succ(slot) = At(slot, 1)
  BY DEF Succ, At
<1>2. 1 \in 0..WINDOW /\ i \in 0..WINDOW /\ i + 1 \in 0..WINDOW
  BY WindowAssumption
<1>3. At(start, i) \in Slots
  BY <1>2, SlotAt
<1>4. Succ(At(start, i)) = At(start, i + 1)
  <2>1. Succ(At(start, i)) = At(At(start, i), 1)
    BY <1>1, <1>3
  <2>2. At(At(start, i), 1) = IF At(start, i) + 1 < WINDOW
                              THEN At(start, i) + 1
                              ELSE At(start, i) + 1 - WINDOW
    BY <1>2, <1>3, SlotAt
  <2>3. /\ At(start, i) = IF start + i < WINDOW THEN start + i
                                               ELSE start + i - WINDOW
        /\ At(start, i + 1) = IF start + (i + 1) < WINDOW
                              THEN start + (i + 1)
                              ELSE start + (i + 1) - WINDOW
    BY <1>2, SlotAt
  <2> QED
    BY <2>1, <2>2, <2>3, WindowAssumption DEF Slots
<1>5. Succ(start) \in Slots /\ Succ(start) = At(start, 1)
  BY <1>1, <1>2, SlotAt
<1>6. At(Succ(start), i) = At(start, i + 1)
  <2>1. /\ At(Succ(start), i) = IF Succ(start) + i < WINDOW
                                THEN Succ(start) + i
                                ELSE Succ(start) + i - WINDOW
        /\ Succ(start) = IF start + 1 < WINDOW THEN start + 1
                                               ELSE start + 1 - WINDOW
        /\ At(start, i + 1) = IF start + (i + 1) < WINDOW
                              THEN start + (i + 1)
                              ELSE start + (i + 1) - WINDOW
    BY <1>2, <1>5, SlotAt
  <2> QED
    BY <2>1, <1>5, WindowAssumption DEF Slots
<1> QED
  BY <1>4, <1>5, <1>6

(* How far it is from the first slot of a window to its last.              *)
LEMMA WindowLength ==
    ASSUME NEW start \in Slots, NEW i \in 0..WINDOW-1
    PROVE  (At(start, i) - start) % WINDOW = i
<1>1. At(start, i) = IF start + i < WINDOW THEN start + i
                                          ELSE start + i - WINDOW
  BY SlotAt, WindowAssumption
<1>2. CASE start + i < WINDOW
  <2>1. At(start, i) - start = i
    BY <1>1, <1>2, WindowAssumption DEF Slots
  <2> QED
    BY <2>1, WindowAssumption
<1>3. CASE ~(start + i < WINDOW)
  <2>1. At(start, i) - start = i - WINDOW
    BY <1>1, <1>3, WindowAssumption DEF Slots
  <2>2. (i - WINDOW) % WINDOW = i
    BY WindowAssumption
  <2> QED
    BY <2>1, <2>2
<1> QED
  BY <1>2, <1>3

(* The slots of a window are different ones.                               *)
LEMMA SlotsDiffer ==
    ASSUME NEW start \in Slots, NEW i \in 0..WINDOW-1, NEW j \in 0..WINDOW-1,
           At(start, i) = At(start, j)
    PROVE  i = j
<1>1. /\ (At(start, i) - start) % WINDOW = i
      /\ (At(start, j) - start) % WINDOW = j
  BY WindowLength
<1> QED
  BY <1>1
-----------------------------------------------------------------------------
(* Facts about an unprimed state that most steps need.                     *)
LEMMA InvariantFacts ==
    ASSUME IInv
    PROVE  /\ toA \in Seq(Packets) /\ toB \in Seq(Packets)
           /\ Len(toA) \in Nat /\ Len(toA) <= MaxChan
           /\ Len(toB) \in Nat /\ Len(toB) <= MaxChan
           /\ list \in Seq(Payloads) /\ Len(list) \in Nat
           /\ MaxMsgs \in Nat /\ MaxMsgs <= 1000
           /\ cur_msg_sent \in Nat /\ cur_msg_sent <= MaxMsgs
           /\ cur_msg_recv \in Nat /\ cur_msg_recv <= nextseq
           /\ nextseq \in Nat /\ nextseq <= MaxMsgs
           /\ cur_msg_sent = nextseq + Len(list)
           /\ pkt_in_window \in 0..WINDOW /\ WINDOW \in Nat
           /\ B_seqnum = cur_msg_recv /\ exit_code = 0
           /\ base = nextseq - pkt_in_window
           /\ base \in Nat /\ base <= cur_msg_recv
           /\ window_start \in Slots /\ last \in Slots
           /\ packets \in [Slots -> Packets]
<1>1. /\ toA \in Seq(Packets) /\ toB \in Seq(Packets)
      /\ Len(toA) <= MaxChan /\ Len(toB) <= MaxChan
      /\ list \in Seq(Payloads)
      /\ cur_msg_sent \in 0..MaxMsgs /\ cur_msg_recv \in 0..MaxMsgs
      /\ nextseq \in 0..MaxMsgs
      /\ pkt_in_window \in 0..WINDOW
      /\ window_start \in Slots /\ last \in Slots
      /\ packets \in [Slots -> Packets]
  BY DEF IInv, TypeOK, SimTypeOK
<1>2. Len(toA) \in Nat /\ Len(toB) \in Nat /\ Len(list) \in Nat
  BY <1>1
<1>3. /\ cur_msg_sent = nextseq + Len(list)
      /\ B_seqnum = cur_msg_recv /\ exit_code = 0
      /\ base >= 0 /\ base <= cur_msg_recv /\ cur_msg_recv <= nextseq
  BY DEF IInv, BufferShape, AckedImpliesDelivered
<1>4. base = nextseq - pkt_in_window
  BY DEF base
<1> QED
  BY <1>1, <1>2, <1>3, <1>4, MaxMsgsAssumption, WindowAssumption

(* Packet n as A builds it.                                                *)
Numbered(n) == Seal(n, DEFAULT_ACK, MsgPayload(n))

LEMMA NumberedPacket ==
    ASSUME NEW n \in Nat, n < 1000
    PROVE  /\ Numbered(n) \in Packets /\ IsSealed(Numbered(n))
           /\ Sealable(n, DEFAULT_ACK, MsgPayload(n))
           /\ Numbered(n).seqnum = n
           /\ Numbered(n).payload = MsgPayload(n)
<1>1. MsgPayload(n) \in Payloads
  BY MessagesArePayloads
<1>2. /\ Numbered(n) \in Packets
      /\ Numbered(n).seqnum = n /\ Numbered(n).acknum = DEFAULT_ACK
      /\ Numbered(n).payload = MsgPayload(n)
  BY <1>1, SealedIsIntact DEF Numbered, DEFAULT_ACK
<1>3. Sealable(n, DEFAULT_ACK, MsgPayload(n))
  BY <1>1 DEF Sealable, DEFAULT_ACK, BadNumber
<1> QED
  BY <1>2, <1>3 DEF IsSealed, Numbered

(* p is one of the first `count' packets, undamaged.                       *)
Sent(p, count) == \E n \in 0..count-1 : p = Numbered(n)

LEMMA SentPacket ==
    ASSUME NEW count \in Nat, count <= 1000, NEW p, Sent(p, count)
    PROVE  p.seqnum \in 0..count-1 /\ p.payload = MsgPayload(p.seqnum)
<1>1. PICK n \in 0..count-1 : p = Numbered(n)
  BY DEF Sent
<1>2. n \in Nat /\ n < 1000
  OBVIOUS
<1>3. Numbered(n).seqnum = n /\ Numbered(n).payload = MsgPayload(n)
  BY <1>2, NumberedPacket
<1> QED
  BY <1>1, <1>3

(* The channels after a step: what is there was there before, or was sent  *)
(* by the step.                                                            *)
LEMMA PacketsToBStep ==
    ASSUME IInv, nextseq' \in Nat, nextseq <= nextseq', nextseq' <= 1000,
           \A i \in 1..Len(toB') : Intact(toB'[i]) =>
              \/ \E j \in 1..Len(toB) : toB'[i] = toB[j]
              \/ Sent(toB'[i], nextseq')
    PROVE  \A i \in 1..Len(toB') : Intact(toB'[i]) =>
              /\ toB'[i].seqnum \in 0..nextseq'-1
              /\ toB'[i].payload = MsgPayload(toB'[i].seqnum)
<1> SUFFICES ASSUME NEW i \in 1..Len(toB'), Intact(toB'[i])
             PROVE  /\ toB'[i].seqnum \in 0..nextseq'-1
                    /\ toB'[i].payload = MsgPayload(toB'[i].seqnum)
  OBVIOUS
<1>1. CASE \E j \in 1..Len(toB) : toB'[i] = toB[j]
  <2>1. PICK j \in 1..Len(toB) : toB'[i] = toB[j]
    BY <1>1
  <2>2. /\ toB[j].seqnum \in 0..nextseq-1
        /\ toB[j].payload = MsgPayload(toB[j].seqnum)
    BY <2>1 DEF IInv, UnderWay
  <2>3. nextseq \in Nat
    BY InvariantFacts
  <2> QED
    BY <2>1, <2>2, <2>3
<1>2. CASE Sent(toB'[i], nextseq')
  BY <1>2, SentPacket
<1> QED
  BY <1>1, <1>2

LEMMA AcksToAStep ==
    ASSUME IInv, B_seqnum' \in Nat, B_seqnum <= B_seqnum',
           \A i \in 1..Len(toA') : Intact(toA'[i]) =>
              \/ \E j \in 1..Len(toA) : toA'[i] = toA[j]
              \/ toA'[i].acknum \in 0..B_seqnum'-1
    PROVE  \A i \in 1..Len(toA') :
              Intact(toA'[i]) => toA'[i].acknum \in 0..B_seqnum'-1
<1> SUFFICES ASSUME NEW i \in 1..Len(toA'), Intact(toA'[i])
             PROVE  toA'[i].acknum \in 0..B_seqnum'-1
  OBVIOUS
<1>1. CASE \E j \in 1..Len(toA) : toA'[i] = toA[j]
  <2>1. PICK j \in 1..Len(toA) : toA'[i] = toA[j]
    BY <1>1
  <2>2. toA[j].acknum \in 0..B_seqnum-1
    BY <2>1 DEF IInv, UnderWay
  <2>3. B_seqnum \in Nat
    BY InvariantFacts
  <2> QED
    BY <2>1, <2>2, <2>3
<1> QED
  BY <1>1

LEMMA InitInvariant == Init => IInv
<1> SUFFICES ASSUME Init PROVE IInv
  OBVIOUS
<1>1. /\ toA = << >> /\ toB = << >> /\ list = << >> /\ timer = FALSE
      /\ cur_msg_sent = 0 /\ cur_msg_recv = 0 /\ exit_code = 0
      /\ nextseq = 0 /\ B_seqnum = 0 /\ pkt_in_window = 0
      /\ window_start = 0 /\ last = 0
      /\ packets = [slot \in Slots |-> Blank]
  BY DEF Init, SimInit
<1>2. Len(toA) = 0 /\ Len(toB) = 0 /\ Len(list) = 0
  BY <1>1
<1>3. TypeOK
  <2>1. Blank \in Packets
    BY DEF Blank, Packets
  <2>2. 0 \in Slots /\ 0 \in 0..MaxMsgs /\ 0 \in 0..WINDOW
    BY WindowAssumption, MaxMsgsAssumption DEF Slots
  <2>3. toA \in Seq(Packets) /\ toB \in Seq(Packets) /\ list \in Seq(Payloads)
    BY <1>1
  <2> QED
    BY <1>1, <1>2, <2>1, <2>2, <2>3, MaxChanAssumption
       DEF TypeOK, SimTypeOK
<1>4. base = 0
  BY <1>1 DEF base
<1> QED
  BY <1>1, <1>2, <1>3, <1>4
     DEF IInv, AckedImpliesDelivered, WindowShape, EmptyShape, BufferShape,
         TimerIffOutstanding, UnderWay

(* An arrival takes the oldest packet out and leaves the others alone.     *)
LEMMA ArrivalAtA ==
    ASSUME IInv, toA # << >>, toA' = Tail(toA)
    PROVE  /\ toA' \in Seq(Packets) /\ Len(toA') <= MaxChan
           /\ \A i \in 1..Len(toA') : \E j \in 1..Len(toA) : toA'[i] = toA[j]
           /\ Head(toA) = toA[1] /\ 1 \in 1..Len(toA)
<1>1. toA \in Seq(Packets) /\ Len(toA) \in Nat /\ Len(toA) <= MaxChan
  BY InvariantFacts
<1>2. /\ Tail(toA) \in Seq(Packets) /\ Len(Tail(toA)) = Len(toA) - 1
      /\ \A i \in 1..Len(Tail(toA)) :
            i + 1 \in 1..Len(toA) /\ Tail(toA)[i] = toA[i + 1]
      /\ Head(toA) = toA[1] /\ 1 \in 1..Len(toA)
  BY <1>1, TailOfChannel
<1> QED
  BY <1>1, <1>2, MaxChanAssumption

LEMMA ArrivalAtB ==
    ASSUME IInv, toB # << >>, toB' = Tail(toB)
    PROVE  /\ toB' \in Seq(Packets) /\ Len(toB') <= MaxChan
           /\ \A i \in 1..Len(toB') : \E j \in 1..Len(toB) : toB'[i] = toB[j]
           /\ Head(toB) = toB[1] /\ 1 \in 1..Len(toB) /\ Head(toB) \in Packets
<1>1. toB \in Seq(Packets) /\ Len(toB) \in Nat /\ Len(toB) <= MaxChan
  BY InvariantFacts
<1>2. /\ Tail(toB) \in Seq(Packets) /\ Len(Tail(toB)) = Len(toB) - 1
      /\ \A i \in 1..Len(Tail(toB)) :
            i + 1 \in 1..Len(toB) /\ Tail(toB)[i] = toB[i + 1]
      /\ Head(toB) = toB[1] /\ 1 \in 1..Len(toB) /\ Head(toB) \in Packets
  BY <1>1, TailOfChannel
<1> QED
  BY <1>1, <1>2, MaxChanAssumption

(* What A_input takes for the acknowledgement of its oldest packet is one: *)
(* the window is not empty, and B has the packet.                          *)
LEMMA AckIsForOldest ==
    ASSUME IInv, toA # << >>, Acknowledges(Head(toA))
    PROVE  pkt_in_window > 0 /\ base < cur_msg_recv
<1>1. 1 \in 1..Len(toA) /\ Head(toA) = toA[1]
  BY InvariantFacts, TailOfChannel
<1>2. /\ toA[1].acknum \in 0..B_seqnum-1
      /\ toA[1].acknum = packets[window_start].seqnum
  BY <1>1 DEF IInv, UnderWay, Acknowledges
<1>3. /\ B_seqnum = cur_msg_recv /\ cur_msg_recv \in Nat
      /\ cur_msg_recv <= nextseq /\ nextseq \in Nat /\ nextseq <= 1000
      /\ pkt_in_window \in Nat /\ base \in Nat /\ base <= cur_msg_recv
      /\ base = nextseq - pkt_in_window
      /\ window_start \in Slots
  BY InvariantFacts
<1>4. pkt_in_window > 0
  BY <1>2, <1>3 DEF IInv, EmptyShape
<1>5. packets[window_start].seqnum = base
  <2>1. packets[At(window_start, 0)] = Numbered(base + 0)
    BY <1>3, <1>4 DEF IInv, WindowShape, At, Numbered
  <2>2. base < 1000 /\ base + 0 = base
    BY <1>3, <1>4
  <2> QED
    BY <2>1, <2>2, <1>3, FirstSlot, NumberedPacket
<1> QED
  BY <1>2, <1>3, <1>4, <1>5

LEMMA BufferMessageStep == IInv /\ BufferMessage => IInv'
<1> SUFFICES ASSUME IInv, BufferMessage PROVE IInv'
  OBVIOUS
<1>1. /\ pkt_in_window = WINDOW
      /\ list' = Append(list, MsgPayload(cur_msg_sent))
      /\ cur_msg_sent' = cur_msg_sent + 1 /\ cur_msg_sent < MaxMsgs
      /\ UNCHANGED <<toA, toB, timer, cur_msg_recv, exit_code, B_seqnum,
                     nextseq, ringVars>>
  BY DEF BufferMessage, FromLayer5, msg2give, WindowFull
<1>2. /\ list \in Seq(Payloads) /\ Len(list) \in Nat
      /\ cur_msg_sent \in Nat /\ MaxMsgs \in Nat /\ nextseq \in Nat
      /\ cur_msg_sent = nextseq + Len(list)
      /\ MsgPayload(cur_msg_sent) \in Payloads
  BY InvariantFacts, MessagesArePayloads
<1>3. /\ list' \in Seq(Payloads) /\ Len(list') = Len(list) + 1
      /\ \A i \in 1..Len(list) : list'[i] = list[i]
      /\ list'[Len(list) + 1] = MsgPayload(cur_msg_sent)
  BY <1>1, <1>2
<1>4. TypeOK'
  <2>1. cur_msg_sent' \in 0..MaxMsgs
    BY <1>1, <1>2
  <2> QED
    BY <1>1, <1>3, <2>1 DEF IInv, TypeOK, SimTypeOK, ringVars
<1>5. BufferShape'
  <2>1. ASSUME NEW i \in 1..Len(list')
        PROVE  list'[i] = MsgPayload(nextseq' + i - 1)
    <3>1. CASE i \in 1..Len(list)
      BY <3>1, <1>1, <1>3 DEF IInv, BufferShape
    <3>2. CASE i = Len(list) + 1
      <4>1. nextseq' + i - 1 = cur_msg_sent
        BY <3>2, <1>1, <1>2
      <4> QED
        BY <3>2, <4>1, <1>3
    <3> QED
      BY <3>1, <3>2, <1>2, <1>3
  <2>2. cur_msg_sent' = nextseq' + Len(list')
    BY <1>1, <1>2, <1>3
  <2>3. WindowFull'
    BY <1>1 DEF WindowFull, ringVars
  <2> QED
    BY <2>1, <2>2, <2>3 DEF BufferShape
<1>6. base' = base
  BY <1>1 DEF base, ringVars
<1>7. WindowShape' /\ EmptyShape'
  BY <1>1, <1>6 DEF IInv, WindowShape, EmptyShape, ringVars
<1> QED
  BY <1>1, <1>4, <1>5, <1>6, <1>7
     DEF IInv, AckedImpliesDelivered, TimerIffOutstanding, UnderWay, ringVars

(* A free slot follows the window: the message that was taken out of the   *)
(* buffer is never forgotten.                                              *)
LEMMA SlotIsFree ==
    ASSUME WINDOW > 1, IInv, pkt_in_window < WINDOW
    PROVE  /\ Succ(last) # window_start
           /\ FreeSlot = At(window_start, pkt_in_window)
           /\ FreeSlot \in Slots
           /\ IsFirst(FreeSlot) <=> pkt_in_window = 0
<1>1. /\ window_start \in Slots /\ last \in Slots
      /\ WINDOW \in Nat /\ pkt_in_window \in 0..WINDOW-1
  BY InvariantFacts
<1>2. At(window_start, 0) = window_start /\ 0 \in 0..WINDOW-1
  BY <1>1, FirstSlot
<1>3. CASE pkt_in_window = 0
  <2>1. last = window_start
    BY <1>3 DEF IInv, EmptyShape
  <2>2. Succ(last) = At(window_start, 1) /\ 1 \in 0..WINDOW-1
    BY <1>1, <2>1 DEF Succ, At
  <2>3. Succ(last) # window_start
    <3>1. At(window_start, 1) = At(window_start, 0) => 1 = 0
      BY <1>1, <1>2, <2>2, SlotsDiffer
    <3> QED
      BY <3>1, <2>2, <1>2
  <2> QED
    BY <1>1, <1>2, <1>3, <2>1, <2>3 DEF FreeSlot, IsFirst
<1>4. CASE pkt_in_window > 0
  <2>1. last = At(window_start, pkt_in_window - 1)
    BY <1>4 DEF IInv, WindowShape, At
  <2>2. Succ(last) = At(window_start, pkt_in_window)
    <3>1. /\ pkt_in_window - 1 \in 0..WINDOW-1
          /\ (pkt_in_window - 1) + 1 = pkt_in_window
      BY <1>1, <1>4
    <3> QED
      BY <3>1, <2>1, <1>1, SuccAt
  <2>3. Succ(last) # window_start
    <3>1. At(window_start, pkt_in_window) = At(window_start, 0)
          => pkt_in_window = 0
      BY <1>1, <1>2, SlotsDiffer
    <3> QED
      BY <3>1, <2>2, <1>2, <1>4
  <2>4. FreeSlot = Succ(last)
    BY <1>4 DEF FreeSlot
  <2>5. At(window_start, pkt_in_window) \in Slots
    <3>1. pkt_in_window \in 0..WINDOW
      BY <1>1
    <3> QED
      BY <3>1, <1>1, SlotAt
  <2> QED
    BY <1>4, <2>2, <2>3, <2>4, <2>5 DEF IsFirst
<1> QED
  BY <1>1, <1>3, <1>4

LEMMA SendMessageStep == WINDOW > 1 /\ IInv /\ SendMessage => IInv'
<1> SUFFICES ASSUME WINDOW > 1, IInv, SendMessage PROVE IInv'
  OBVIOUS
<1>1. /\ pkt_in_window \in 0..WINDOW-1 /\ pkt_in_window \in Nat
      /\ WINDOW \in Nat
      /\ nextseq \in Nat /\ nextseq < 1000 /\ nextseq < MaxMsgs
      /\ MaxMsgs \in Nat /\ MaxMsgs <= 1000
      /\ list = << >> /\ cur_msg_sent = nextseq
      /\ cur_msg_sent' = cur_msg_sent + 1
      /\ window_start \in Slots
  <2>1. pkt_in_window # WINDOW /\ list = << >>
    BY DEF IInv, BufferShape, SendMessage, WindowFull
  <2>2. Len(list) = 0
    BY <2>1
  <2> QED
    BY <2>1, <2>2, InvariantFacts DEF SendMessage, FromLayer5
<1> DEFINE packet == Numbered(nextseq)
<1>2. /\ Succ(last) # window_start
      /\ FreeSlot = At(window_start, pkt_in_window)
      /\ FreeSlot \in Slots
      /\ IsFirst(FreeSlot) <=> pkt_in_window = 0
  <2>1. pkt_in_window < WINDOW
    BY <1>1
  <2> QED
    BY <2>1, SlotIsFree
<1>3. /\ list' = << >>
      /\ last' = FreeSlot
      /\ packets' = [packets EXCEPT ![FreeSlot] = packet]
      /\ nextseq' = nextseq + 1
      /\ pkt_in_window' = pkt_in_window + 1
      /\ toB' \in tolayer3(toB, packet)
      /\ IF IsFirst(FreeSlot) THEN timer' = TRUE ELSE UNCHANGED timer
      /\ UNCHANGED window_start
      /\ UNCHANGED <<toA, cur_msg_recv, exit_code, B_seqnum>>
  <2>1. /\ Head(Append(list, msg2give)) = MsgPayload(nextseq)
        /\ Tail(Append(list, msg2give)) = << >>
    <3>1. Append(list, msg2give) = <<MsgPayload(nextseq)>>
      BY <1>1 DEF msg2give
    <3> QED
      BY <3>1
  <2> QED
    BY <2>1, <1>2 DEF SendMessage, starttimer, Numbered
<1>4. packet \in Packets /\ Sealable(nextseq, DEFAULT_ACK, MsgPayload(nextseq))
  BY <1>1, NumberedPacket
<1>5. /\ toB' \in Seq(Packets) /\ Len(toB') <= MaxChan
      /\ \A i \in 1..Len(toB') : Intact(toB'[i]) =>
            \/ \E j \in 1..Len(toB) : toB'[i] = toB[j]
            \/ toB'[i] = packet
  <2>1. toB \in Seq(Packets) /\ Len(toB) <= MaxChan
    BY InvariantFacts
  <2>2. toB' \in tolayer3(toB, Seal(nextseq, DEFAULT_ACK, MsgPayload(nextseq)))
    BY <1>3 DEF Numbered
  <2>3. toB' \in Seq(Packets) /\ Len(toB') <= MaxChan
    BY <2>1, <2>2, <1>4, Tolayer3Appends
  <2>4. \A i \in 1..Len(toB') : Intact(toB'[i]) =>
            \/ \E j \in 1..Len(toB) : toB'[i] = toB[j]
            \/ toB'[i] = packet
    BY <2>1, <2>2, <1>4, Tolayer3Intact DEF Numbered
  <2> QED
    BY <2>3, <2>4
<1>6. packets' \in [Slots -> Packets]
  BY <1>2, <1>3, <1>4, InvariantFacts
<1>7. TypeOK'
  <2>1. /\ pkt_in_window' \in 0..WINDOW /\ nextseq' \in 0..MaxMsgs
        /\ cur_msg_sent' \in 0..MaxMsgs
    BY <1>1, <1>3
  <2>2. timer' \in BOOLEAN
    BY <1>3 DEF IInv, TypeOK, SimTypeOK
  <2>3. list' \in Seq(Payloads)
    BY <1>3
  <2> QED
    BY <1>2, <1>3, <1>5, <1>6, <2>1, <2>2, <2>3 DEF IInv, TypeOK, SimTypeOK
<1>8. base' = base /\ base = nextseq - pkt_in_window
  BY <1>1, <1>3 DEF base
<1>9. WindowShape'
  <2>1. last' = At(window_start', pkt_in_window' - 1)
    <3>1. pkt_in_window' - 1 = pkt_in_window
      BY <1>1, <1>3
    <3> QED
      BY <3>1, <1>2, <1>3
  <2>2. ASSUME NEW i \in 0..pkt_in_window'-1
        PROVE  packets'[At(window_start', i)] = Numbered(base' + i)
    <3>1. i \in 0..pkt_in_window /\ i \in 0..WINDOW-1
      BY <1>1, <1>3
    <3>2. At(window_start, i) \in Slots
      <4>1. i \in 0..WINDOW
        BY <3>1, <1>1
      <4> QED
        BY <4>1, <1>1, SlotAt
    <3>3. CASE i = pkt_in_window
      <4>1. packets'[At(window_start, i)] = packet
        BY <3>2, <3>3, <1>2, <1>3, InvariantFacts
      <4>2. base' + i = nextseq
        BY <3>3, <1>1, <1>8
      <4> QED
        BY <4>1, <4>2, <1>3
    <3>4. CASE i # pkt_in_window
      <4>1. i \in 0..pkt_in_window-1 /\ pkt_in_window > 0
        BY <3>1, <3>4, <1>1
      <4>2. At(window_start, i) # FreeSlot
        BY <3>1, <3>4, <1>1, <1>2, SlotsDiffer
      <4>3. packets'[At(window_start, i)] = packets[At(window_start, i)]
        BY <3>2, <4>2, <1>2, <1>3, InvariantFacts
      <4>4. packets[At(window_start, i)] = Numbered(base + i)
        BY <4>1 DEF IInv, WindowShape, At, Numbered
      <4> QED
        BY <4>3, <4>4, <1>3, <1>8
    <3> QED
      BY <3>3, <3>4
  <2> QED
    BY <2>1, <2>2 DEF WindowShape, At, Numbered
<1>10. EmptyShape' /\ TimerIffOutstanding'
  <2>1. pkt_in_window' > 0 /\ pkt_in_window' # 0
    BY <1>1, <1>3
  <2>2. timer' = TRUE
    <3>1. CASE pkt_in_window = 0
      BY <3>1, <1>2, <1>3
    <3>2. CASE pkt_in_window # 0
      <4>1. pkt_in_window > 0
        BY <3>2, <1>1
      <4>2. timer = TRUE
        BY <4>1 DEF IInv, TimerIffOutstanding, TypeOK, SimTypeOK
      <4> QED
        BY <3>2, <4>2, <1>2, <1>3
    <3> QED
      BY <3>1, <3>2
  <2> QED
    BY <2>1, <2>2 DEF EmptyShape, TimerIffOutstanding
<1>11. BufferShape'
  <2>1. Len(list') = 0
    BY <1>3
  <2>2. cur_msg_sent' = nextseq' + Len(list')
    BY <2>1, <1>1, <1>3
  <2> QED
    BY <2>1, <2>2, <1>3 DEF BufferShape
<1>12. UnderWay'
  <2>1. \A i \in 1..Len(toB') : Intact(toB'[i]) =>
           /\ toB'[i].seqnum \in 0..nextseq'-1
           /\ toB'[i].payload = MsgPayload(toB'[i].seqnum)
    <3>1. nextseq' \in Nat /\ nextseq <= nextseq' /\ nextseq' <= 1000
          /\ nextseq \in 0..nextseq'-1
      BY <1>1, <1>3
    <3>2. Sent(packet, nextseq')
      BY <3>1 DEF Sent
    <3> QED
      BY ZenonT(30), <3>1, <3>2, <1>5, PacketsToBStep
  <2> QED
    BY <2>1, <1>3 DEF IInv, UnderWay
<1>13. AckedImpliesDelivered' /\ base' >= 0
  <2>1. /\ base <= cur_msg_recv /\ cur_msg_recv <= nextseq /\ base \in Nat
        /\ cur_msg_recv \in Nat
    BY InvariantFacts
  <2> QED
    BY <2>1, <1>1, <1>3, <1>8 DEF AckedImpliesDelivered
<1> QED
  BY <1>3, <1>7, <1>9, <1>10, <1>11, <1>12, <1>13 DEF IInv

LEMMA IgnoreAckStep == IInv /\ IgnoreAck => IInv'
<1> SUFFICES ASSUME IInv, IgnoreAck PROVE IInv'
  OBVIOUS
<1>1. /\ toA # << >> /\ toA' = Tail(toA)
      /\ UNCHANGED <<toB, timer, cur_msg_sent, cur_msg_recv, exit_code>>
      /\ UNCHANGED <<B_seqnum, nextseq, list, pkt_in_window, packets,
                     window_start, last>>
  BY DEF IgnoreAck, ArrivesAtA, protoVars, ringVars
<1>2. base' = base
  BY <1>1 DEF base
<1>3. TypeOK'
  BY <1>1, ArrivalAtA DEF IInv, TypeOK, SimTypeOK
<1>4. UnderWay'
  <2>1. B_seqnum' \in Nat /\ B_seqnum <= B_seqnum'
    BY <1>1, InvariantFacts
  <2>2. \A i \in 1..Len(toA') :
           Intact(toA'[i]) => toA'[i].acknum \in 0..B_seqnum'-1
    BY <2>1, <1>1, ArrivalAtA, AcksToAStep
  <2> QED
    BY <2>2, <1>1 DEF IInv, UnderWay
<1> QED
  BY <1>1, <1>2, <1>3, <1>4
     DEF IInv, AckedImpliesDelivered, WindowShape, EmptyShape, BufferShape,
         WindowFull, TimerIffOutstanding

LEMMA EmptyWindowStep == WINDOW > 1 /\ IInv /\ EmptyWindow => IInv'
<1> SUFFICES ASSUME WINDOW > 1, IInv, EmptyWindow PROVE IInv'
  OBVIOUS
<1>1. /\ toA # << >> /\ toA' = Tail(toA) /\ Acknowledges(Head(toA))
      /\ pkt_in_window = 1 /\ pkt_in_window' = 0
      /\ packets' = [packets EXCEPT ![window_start].seqnum = -1]
      /\ timer' = Outstanding(window_start, last, 0)
      /\ exit_code' = IF list = << >> THEN 0 ELSE Hung
      /\ UNCHANGED <<toB, cur_msg_sent, cur_msg_recv>>
      /\ UNCHANGED <<B_seqnum, nextseq, list, window_start, last>>
  BY DEF EmptyWindow, ArrivesAtA, pkt2A, Acked
<1>2. /\ window_start \in Slots /\ packets \in [Slots -> Packets]
      /\ base \in Nat /\ base = nextseq - pkt_in_window /\ nextseq \in Nat
      /\ WINDOW \in Nat /\ cur_msg_recv \in Nat /\ cur_msg_recv <= nextseq
  BY InvariantFacts
<1>3. last = window_start
  <2>1. last = At(window_start, 0)
    BY <1>1 DEF IInv, WindowShape, At
  <2> QED
    BY <2>1, <1>2, FirstSlot
<1>4. list = << >> /\ exit_code' = 0
  BY <1>1 DEF IInv, BufferShape, WindowFull
<1>5. timer' = FALSE
  <2>1. ~Outstanding(window_start, last, 0)
    BY <1>3 DEF Outstanding
  <2>2. Outstanding(window_start, last, 0) \in BOOLEAN
    BY DEF Outstanding
  <2> QED
    BY <1>1, <2>1, <2>2, Zenon
<1>6. packets' \in [Slots -> Packets] /\ packets'[window_start].seqnum = -1
  <2>1. packets[window_start] \in Packets
    BY <1>2
  <2>2. /\ [packets[window_start] EXCEPT !.seqnum = -1] \in Packets
        /\ [packets[window_start] EXCEPT !.seqnum = -1].seqnum = -1
    BY <2>1 DEF Packets
  <2> QED
    BY <1>1, <1>2, <2>2
<1>7. TypeOK'
  <2>1. pkt_in_window' \in 0..WINDOW
    BY <1>1, <1>2
  <2>2. timer' \in BOOLEAN
    BY <1>5
  <2> QED
    BY <2>1, <2>2, <1>1, <1>4, <1>6, ArrivalAtA DEF IInv, TypeOK, SimTypeOK
<1>8. base' = base + 1 /\ base' = nextseq'
  BY <1>1, <1>2 DEF base
<1>9. AckedImpliesDelivered' /\ base' >= 0
  <2>1. base < cur_msg_recv
    BY <1>1, AckIsForOldest
  <2> QED
    BY <2>1, <1>1, <1>2, <1>8 DEF AckedImpliesDelivered
<1>10. WindowShape' /\ EmptyShape' /\ TimerIffOutstanding'
  BY <1>1, <1>3, <1>5, <1>6 DEF WindowShape, EmptyShape, TimerIffOutstanding
<1>11. BufferShape'
  BY <1>1, <1>4 DEF IInv, BufferShape
<1>12. UnderWay'
  <2>1. B_seqnum' \in Nat /\ B_seqnum <= B_seqnum'
    BY <1>1, InvariantFacts
  <2>2. \A i \in 1..Len(toA') :
           Intact(toA'[i]) => toA'[i].acknum \in 0..B_seqnum'-1
    BY <2>1, <1>1, ArrivalAtA, AcksToAStep
  <2> QED
    BY <2>2, <1>1 DEF IInv, UnderWay
<1> QED
  BY <1>1, <1>4, <1>7, <1>9, <1>10, <1>11, <1>12 DEF IInv

(* The window one packet on, in terms of the window before.                *)
LEMMA SlideFacts ==
    ASSUME WINDOW > 1, IInv, SlideWindow
    PROVE  /\ toA # << >> /\ toA' = Tail(toA) /\ Acknowledges(Head(toA))
           /\ pkt_in_window \in 2..WINDOW /\ WINDOW \in Nat
           /\ window_start \in Slots /\ Succ(window_start) \in Slots
           /\ window_start' = Succ(window_start)
           /\ last = At(window_start, pkt_in_window - 1)
           /\ Succ(last) = At(window_start, pkt_in_window)
           /\ Succ(last) \in Slots
           /\ Acked(packets) \in [Slots -> Packets]
           /\ \A i \in 1..pkt_in_window-1 :
                 Acked(packets)[At(window_start, i)] = Numbered(base + i)
           /\ \A i \in 0..WINDOW-1 :
                 At(Succ(window_start), i) = At(window_start, i + 1)
           /\ base < cur_msg_recv
           /\ UNCHANGED <<cur_msg_sent, cur_msg_recv, exit_code, B_seqnum>>
<1>1. /\ toA # << >> /\ toA' = Tail(toA) /\ Acknowledges(Head(toA))
      /\ pkt_in_window # 1 /\ window_start' = Succ(window_start)
      /\ UNCHANGED <<cur_msg_sent, cur_msg_recv, exit_code, B_seqnum>>
  BY DEF SlideWindow, ArrivesAtA, pkt2A
<1>2. /\ window_start \in Slots /\ packets \in [Slots -> Packets]
      /\ pkt_in_window \in 0..WINDOW /\ WINDOW \in Nat
  BY InvariantFacts
<1>3. pkt_in_window > 0 /\ base < cur_msg_recv
  BY <1>1, AckIsForOldest
<1>4. pkt_in_window \in 2..WINDOW
  BY <1>1, <1>2, <1>3
<1>5. /\ last = At(window_start, pkt_in_window - 1)
      /\ \A i \in 0..pkt_in_window-1 :
            packets[At(window_start, i)] = Numbered(base + i)
  BY <1>3 DEF IInv, WindowShape, At, Numbered
<1>6. /\ Succ(last) = At(window_start, pkt_in_window)
      /\ Succ(window_start) \in Slots
  <2>1. /\ pkt_in_window - 1 \in 0..WINDOW-1
        /\ (pkt_in_window - 1) + 1 = pkt_in_window
    BY <1>4, <1>2
  <2> QED
    BY <2>1, <1>2, <1>5, SuccAt
<1>7. At(window_start, pkt_in_window) \in Slots
  BY <1>2, SlotAt
<1>8. Acked(packets) \in [Slots -> Packets]
  BY <1>2 DEF Acked, Packets
<1>9. ASSUME NEW i \in 1..pkt_in_window-1
      PROVE  Acked(packets)[At(window_start, i)] = Numbered(base + i)
  <2>1. i \in 0..pkt_in_window-1 /\ i \in 0..WINDOW-1 /\ i \in 0..WINDOW
        /\ 0 \in 0..WINDOW-1 /\ i # 0
    BY <1>4, <1>2
  <2>2. At(window_start, i) # window_start /\ At(window_start, i) \in Slots
    BY <2>1, <1>2, FirstSlot, SlotsDiffer, SlotAt
  <2>3. Acked(packets)[At(window_start, i)] = packets[At(window_start, i)]
    BY <2>2, <1>2 DEF Acked
  <2> QED
    BY <2>1, <2>3, <1>5
<1>10. \A i \in 0..WINDOW-1 :
          At(Succ(window_start), i) = At(window_start, i + 1)
  BY <1>2, SuccAt
<1> QED
  BY <1>1, <1>2, <1>3, <1>4, <1>5, <1>6, <1>7, <1>8, <1>9, <1>10

(* Two slots of a window that follow one another are not outstanding as    *)
(* one: the timer test of A_input sees more than one packet.               *)
LEMMA LongWindowOutstanding ==
    ASSUME NEW start \in Slots, NEW count \in 1..WINDOW
    PROVE  Outstanding(start, At(start, count - 1), count)
<1>1. CASE count = 1
  BY <1>1 DEF Outstanding
<1>2. CASE count # 1
  <2>1. count - 1 \in 0..WINDOW-1 /\ 0 \in 0..WINDOW-1 /\ count - 1 # 0
    BY <1>2, WindowAssumption
  <2>2. At(start, count - 1) # start
    BY <2>1, FirstSlot, SlotsDiffer
  <2> QED
    BY <2>2 DEF Outstanding
<1> QED
  BY <1>1, <1>2
(* The acknowledgements under way once one of them has arrived.            *)
LEMMA AcksAfterArrival ==
    ASSUME IInv, toA # << >>, toA' = Tail(toA), UNCHANGED B_seqnum
    PROVE  \A i \in 1..Len(toA') :
              Intact(toA'[i]) => toA'[i].acknum \in 0..B_seqnum'-1
<1>1. B_seqnum' \in Nat /\ B_seqnum <= B_seqnum'
  BY InvariantFacts
<1> QED
  BY <1>1, ArrivalAtA, AcksToAStep

(* The first half of A_input's slide: nothing waits in the buffer.         *)
LEMMA SlideWithoutRefill ==
    WINDOW > 1 /\ IInv /\ SlideWindow /\ list = << >> => IInv'
<1> SUFFICES ASSUME WINDOW > 1, IInv, SlideWindow, list = << >> PROVE IInv'
  OBVIOUS
<1>1. /\ packets' = Acked(packets)
      /\ pkt_in_window' = pkt_in_window - 1
      /\ UNCHANGED <<nextseq, list, last, toB>>
      /\ timer' = Outstanding(window_start', last', pkt_in_window')
  BY DEF SlideWindow, Refill
<1>2. /\ toA # << >> /\ toA' = Tail(toA)
      /\ pkt_in_window \in 2..WINDOW /\ WINDOW \in Nat
      /\ window_start \in Slots /\ Succ(window_start) \in Slots
      /\ window_start' = Succ(window_start)
      /\ last = At(window_start, pkt_in_window - 1)
      /\ Acked(packets) \in [Slots -> Packets]
      /\ \A i \in 1..pkt_in_window-1 :
            Acked(packets)[At(window_start, i)] = Numbered(base + i)
      /\ \A i \in 0..WINDOW-1 :
            At(Succ(window_start), i) = At(window_start, i + 1)
      /\ base < cur_msg_recv
      /\ UNCHANGED <<cur_msg_sent, cur_msg_recv, exit_code, B_seqnum>>
  BY SlideFacts
<1>3. /\ nextseq \in Nat /\ cur_msg_recv \in Nat /\ cur_msg_recv <= nextseq
      /\ base \in Nat /\ base = nextseq - pkt_in_window
  BY InvariantFacts
<1>4. base' = base + 1
  BY <1>1, <1>2, <1>3 DEF base
<1>5. last' = At(window_start', pkt_in_window' - 1)
  <2>1. /\ pkt_in_window' - 1 \in 0..WINDOW-1
        /\ (pkt_in_window' - 1) + 1 = pkt_in_window - 1
    BY <1>1, <1>2
  <2>2. At(Succ(window_start), pkt_in_window' - 1)
          = At(window_start, pkt_in_window - 1)
    BY <2>1, <1>2
  <2> QED
    BY <2>2, <1>1, <1>2
<1>6. timer' = TRUE
  <2>1. pkt_in_window' \in 1..WINDOW
    BY <1>1, <1>2
  <2>2. Outstanding(window_start', last', pkt_in_window')
    BY <2>1, <1>2, <1>5, LongWindowOutstanding
  <2>3. Outstanding(window_start', last', pkt_in_window') \in BOOLEAN
    BY DEF Outstanding
  <2> QED
    BY <1>1, <2>2, <2>3, Zenon
<1>7. TypeOK'
  <2>1. pkt_in_window' \in 0..WINDOW
    BY <1>1, <1>2
  <2>2. timer' \in BOOLEAN
    BY <1>6
  <2> QED
    BY <2>1, <2>2, <1>1, <1>2, ArrivalAtA DEF IInv, TypeOK, SimTypeOK
<1>8. WindowShape'
  <2>1. ASSUME NEW i \in 0..pkt_in_window'-1
        PROVE  packets'[At(window_start', i)] = Numbered(base' + i)
    <3>1. /\ i \in 0..WINDOW-1 /\ i + 1 \in 1..pkt_in_window-1
          /\ base' + i = base + (i + 1)
      BY <1>1, <1>2, <1>3, <1>4
    <3>2. At(window_start', i) = At(window_start, i + 1)
      BY <3>1, <1>2
    <3> QED
      BY <3>1, <3>2, <1>1, <1>2
  <2> QED
    BY <2>1, <1>5 DEF WindowShape, At, Numbered
<1>9. EmptyShape' /\ TimerIffOutstanding'
  <2>1. pkt_in_window' > 0 /\ pkt_in_window' # 0
    BY <1>1, <1>2
  <2> QED
    BY <2>1, <1>6 DEF EmptyShape, TimerIffOutstanding
<1>10. BufferShape'
  BY <1>1, <1>2 DEF IInv, BufferShape
<1>11. UnderWay'
  BY <1>1, <1>2, AcksAfterArrival DEF IInv, UnderWay
<1>12. AckedImpliesDelivered' /\ base' >= 0
  BY <1>1, <1>2, <1>3, <1>4 DEF AckedImpliesDelivered
<1>13. exit_code' = 0 /\ B_seqnum' = cur_msg_recv'
  BY <1>2, InvariantFacts
<1> QED
  BY <1>7, <1>8, <1>9, <1>10, <1>11, <1>12, <1>13 DEF IInv

(* The other half: a buffered message takes the slot that became free.     *)
LEMMA SlideWithRefill ==
    WINDOW > 1 /\ IInv /\ SlideWindow /\ list # << >> => IInv'
<1> SUFFICES ASSUME WINDOW > 1, IInv, SlideWindow, list # << >> PROVE IInv'
  OBVIOUS
<1> DEFINE packet == Numbered(nextseq)
<1>1. /\ list \in Seq(Payloads) /\ Len(list) \in Nat /\ Len(list) > 0
      /\ Head(list) = list[1] /\ Tail(list) \in Seq(Payloads)
      /\ Len(Tail(list)) = Len(list) - 1
      /\ \A i \in 1..Len(Tail(list)) :
            i + 1 \in 1..Len(list) /\ Tail(list)[i] = list[i + 1]
      /\ 1 \in 1..Len(list)
  <2>1. list \in Seq(Payloads)
    BY InvariantFacts
  <2> QED
    BY <2>1
<1>2. /\ nextseq \in Nat /\ nextseq < MaxMsgs /\ nextseq < 1000
      /\ MaxMsgs \in Nat /\ MaxMsgs <= 1000
      /\ cur_msg_sent = nextseq + Len(list)
      /\ pkt_in_window = WINDOW
      /\ Head(list) = MsgPayload(nextseq)
  <2>1. Head(list) = MsgPayload(nextseq + 1 - 1)
    BY <1>1 DEF IInv, BufferShape
  <2>2. nextseq \in Nat /\ nextseq + 1 - 1 = nextseq
    BY InvariantFacts
  <2>3. pkt_in_window = WINDOW
    BY DEF IInv, BufferShape, WindowFull
  <2> QED
    BY <2>1, <2>2, <2>3, <1>1, InvariantFacts
<1>3. /\ toA # << >> /\ toA' = Tail(toA)
      /\ WINDOW \in Nat
      /\ window_start \in Slots /\ Succ(window_start) \in Slots
      /\ window_start' = Succ(window_start)
      /\ Succ(last) = At(window_start, WINDOW)
      /\ Acked(packets) \in [Slots -> Packets]
      /\ \A i \in 1..WINDOW-1 :
            Acked(packets)[At(window_start, i)] = Numbered(base + i)
      /\ \A i \in 0..WINDOW-1 :
            At(Succ(window_start), i) = At(window_start, i + 1)
      /\ base < cur_msg_recv
      /\ UNCHANGED <<cur_msg_sent, cur_msg_recv, exit_code, B_seqnum>>
  BY <1>2, SlideFacts
<1>4. Succ(last) = window_start
  BY <1>3, FirstSlot
<1>5. /\ last' = window_start
      /\ packets' = [Acked(packets) EXCEPT ![window_start] = packet]
      /\ nextseq' = nextseq + 1
      /\ list' = Tail(list)
      /\ toB' \in tolayer3(toB, packet)
      /\ UNCHANGED pkt_in_window
      /\ timer' = Outstanding(window_start', last', pkt_in_window')
  BY <1>2, <1>4 DEF SlideWindow, Refill, Numbered
<1>6. packet \in Packets /\ Sealable(nextseq, DEFAULT_ACK, MsgPayload(nextseq))
  BY <1>2, NumberedPacket
<1>7. /\ toB' \in Seq(Packets) /\ Len(toB') <= MaxChan
      /\ \A i \in 1..Len(toB') : Intact(toB'[i]) =>
            \/ \E j \in 1..Len(toB) : toB'[i] = toB[j]
            \/ toB'[i] = packet
  <2>1. toB \in Seq(Packets) /\ Len(toB) <= MaxChan
    BY InvariantFacts
  <2>2. toB' \in tolayer3(toB, Seal(nextseq, DEFAULT_ACK, MsgPayload(nextseq)))
    BY <1>5 DEF Numbered
  <2>3. toB' \in Seq(Packets) /\ Len(toB') <= MaxChan
    BY <2>1, <2>2, <1>6, Tolayer3Appends
  <2>4. \A i \in 1..Len(toB') : Intact(toB'[i]) =>
            \/ \E j \in 1..Len(toB) : toB'[i] = toB[j]
            \/ toB'[i] = packet
    BY <2>1, <2>2, <1>6, Tolayer3Intact DEF Numbered
  <2> QED
    BY <2>3, <2>4
<1>8. /\ cur_msg_recv \in Nat /\ cur_msg_recv <= nextseq
      /\ base \in Nat /\ base = nextseq - WINDOW
  BY <1>2, InvariantFacts
<1>9. base' = base + 1
  BY <1>2, <1>3, <1>5, <1>8 DEF base
<1>10. last' = At(window_start', pkt_in_window' - 1)
  <2>1. /\ pkt_in_window' - 1 \in 0..WINDOW-1
        /\ (pkt_in_window' - 1) + 1 = WINDOW
    BY <1>2, <1>3, <1>5, WindowAssumption
  <2>2. At(Succ(window_start), pkt_in_window' - 1) = At(window_start, WINDOW)
    BY <2>1, <1>3
  <2> QED
    BY <2>2, <1>3, <1>4, <1>5
<1>11. timer' = TRUE
  <2>1. pkt_in_window' \in 1..WINDOW
    BY <1>2, <1>3, <1>5, WindowAssumption
  <2>2. Outstanding(window_start', last', pkt_in_window')
    BY <2>1, <1>3, <1>10, LongWindowOutstanding
  <2>3. Outstanding(window_start', last', pkt_in_window') \in BOOLEAN
    BY DEF Outstanding
  <2> QED
    BY <1>5, <2>2, <2>3, Zenon
<1>12. TypeOK'
  <2>1. pkt_in_window' \in 0..WINDOW /\ nextseq' \in 0..MaxMsgs
    BY <1>2, <1>3, <1>5
  <2>2. timer' \in BOOLEAN
    BY <1>11
  <2>3. packets' \in [Slots -> Packets]
    BY <1>3, <1>5, <1>6
  <2> QED
    BY <2>1, <2>2, <2>3, <1>1, <1>3, <1>5, <1>7, ArrivalAtA
       DEF IInv, TypeOK, SimTypeOK
<1>13. WindowShape'
  <2>1. ASSUME NEW i \in 0..pkt_in_window'-1
        PROVE  packets'[At(window_start', i)] = Numbered(base' + i)
    <3>1. /\ i \in 0..WINDOW-1 /\ base' + i = base + (i + 1)
      BY <1>2, <1>3, <1>5, <1>8, <1>9
    <3>2. At(window_start', i) = At(window_start, i + 1)
      BY <3>1, <1>3
    <3>3. CASE i = WINDOW - 1
      <4>1. i + 1 = WINDOW /\ base + (i + 1) = nextseq
        BY <3>3, <1>2, <1>3, <1>8
      <4>2. At(window_start', i) = window_start
        BY <4>1, <3>2, <1>3, <1>4
      <4>3. packets'[window_start] = packet
        BY <1>3, <1>5
      <4> QED
        BY <4>1, <4>2, <4>3, <3>1
    <3>4. CASE i # WINDOW - 1
      <4>1. /\ i + 1 \in 1..WINDOW-1 /\ i + 1 \in 0..WINDOW-1
            /\ i + 1 \in 0..WINDOW /\ 0 \in 0..WINDOW-1 /\ i + 1 # 0
        BY <3>1, <3>4, <1>3
      <4>2. /\ At(window_start, i + 1) # window_start
            /\ At(window_start, i + 1) \in Slots
        BY <4>1, <1>3, FirstSlot, SlotsDiffer, SlotAt
      <4>3. packets'[At(window_start, i + 1)]
              = Acked(packets)[At(window_start, i + 1)]
        BY <4>2, <1>3, <1>5
      <4> QED
        BY <4>1, <4>3, <3>1, <3>2, <1>3
    <3> QED
      BY <3>3, <3>4
  <2> QED
    BY <2>1, <1>10 DEF WindowShape, At, Numbered
<1>14. EmptyShape' /\ TimerIffOutstanding'
  <2>1. pkt_in_window' > 0 /\ pkt_in_window' # 0
    BY <1>2, <1>3, <1>5, WindowAssumption
  <2> QED
    BY <2>1, <1>11 DEF EmptyShape, TimerIffOutstanding
<1>15. BufferShape'
  <2>1. cur_msg_sent' = nextseq' + Len(list')
    BY <1>1, <1>2, <1>3, <1>5
  <2>2. ASSUME NEW i \in 1..Len(list')
        PROVE  list'[i] = MsgPayload(nextseq' + i - 1)
    <3>1. list'[i] = list[i + 1] /\ i + 1 \in 1..Len(list)
      BY <1>1, <1>5
    <3>2. list[i + 1] = MsgPayload(nextseq + (i + 1) - 1)
      BY <3>1 DEF IInv, BufferShape
    <3>3. nextseq + (i + 1) - 1 = nextseq' + i - 1
      BY <1>2, <1>5, <3>1
    <3> QED
      BY <3>1, <3>2, <3>3
  <2>3. WindowFull'
    BY <1>2, <1>5 DEF WindowFull
  <2> QED
    BY <2>1, <2>2, <2>3 DEF BufferShape
<1>16. UnderWay'
  <2>1. \A i \in 1..Len(toB') : Intact(toB'[i]) =>
           /\ toB'[i].seqnum \in 0..nextseq'-1
           /\ toB'[i].payload = MsgPayload(toB'[i].seqnum)
    <3>1. nextseq' \in Nat /\ nextseq <= nextseq' /\ nextseq' <= 1000
          /\ nextseq \in 0..nextseq'-1
      BY <1>2, <1>5
    <3>2. Sent(packet, nextseq')
      BY <3>1 DEF Sent
    <3> QED
      BY ZenonT(30), <3>1, <3>2, <1>7, PacketsToBStep
  <2> QED
    BY <2>1, <1>3, AcksAfterArrival DEF UnderWay
<1>17. AckedImpliesDelivered' /\ base' >= 0
  BY <1>2, <1>3, <1>5, <1>8, <1>9 DEF AckedImpliesDelivered
<1>18. exit_code' = 0 /\ B_seqnum' = cur_msg_recv'
  BY <1>3, InvariantFacts
<1> QED
  BY <1>12, <1>13, <1>14, <1>15, <1>16, <1>17, <1>18 DEF IInv

LEMMA SlideWindowStep == WINDOW > 1 /\ IInv /\ SlideWindow => IInv'
BY SlideWithoutRefill, SlideWithRefill

(* What A_timerinterrupt sends again: the packets of the window, in order. *)
LEMMA WindowPackets ==
    ASSUME IInv, pkt_in_window > 0
    PROVE  /\ Len(Window) = pkt_in_window
           /\ \A i \in 1..pkt_in_window :
                 Window[i] = Numbered(base + (i - 1))
<1>1. /\ window_start \in Slots /\ pkt_in_window \in 1..WINDOW
      /\ WINDOW \in Nat
  BY InvariantFacts
<1>2. /\ last = At(window_start, pkt_in_window - 1)
      /\ \A i \in 0..pkt_in_window-1 :
            packets[At(window_start, i)] = Numbered(base + i)
  BY DEF IInv, WindowShape, At, Numbered
<1>3. (last - window_start) % WINDOW = pkt_in_window - 1
  <2>1. pkt_in_window - 1 \in 0..WINDOW-1
    BY <1>1
  <2> QED
    BY <2>1, <1>1, <1>2, WindowLength
<1>4. Window = [i \in 1..pkt_in_window |-> packets[At(window_start, i - 1)]]
  <2>1. ((last - window_start) % WINDOW) + 1 = pkt_in_window
    BY <1>1, <1>3
  <2> QED
    BY <2>1 DEF Window, At
<1>5. ASSUME NEW i \in 1..pkt_in_window
      PROVE  Window[i] = Numbered(base + (i - 1))
  <2>1. i - 1 \in 0..pkt_in_window-1
    BY <1>1
  <2>2. Window[i] = packets[At(window_start, i - 1)]
    BY <1>4
  <2> QED
    BY <2>1, <2>2, <1>2
<1>6. Len(Window) = pkt_in_window
  <2>1. pkt_in_window \in Nat
    BY <1>1
  <2> QED
    BY <2>1, <1>4
<1> QED
  BY <1>5, <1>6

LEMMA TimerStep == IInv /\ A_timerinterrupt => IInv'
<1> SUFFICES ASSUME IInv, A_timerinterrupt PROVE IInv'
  OBVIOUS
<1>1. /\ timer /\ toB' \in tolayer3Each(toB, Window)
      /\ timer' = Outstanding(window_start, last, pkt_in_window)
      /\ UNCHANGED <<toA, cur_msg_sent, cur_msg_recv, exit_code>>
      /\ UNCHANGED <<B_seqnum, nextseq, list, pkt_in_window, packets,
                     window_start, last>>
  BY DEF A_timerinterrupt, TimerGoesOff, protoVars, ringVars
<1>2. pkt_in_window > 0
  BY <1>1 DEF IInv, TimerIffOutstanding
<1>3. /\ window_start \in Slots /\ pkt_in_window \in 1..WINDOW
      /\ base \in Nat /\ base = nextseq - pkt_in_window
      /\ nextseq \in Nat /\ nextseq <= 1000
      /\ toB \in Seq(Packets) /\ Len(toB) <= MaxChan
  BY <1>2, InvariantFacts
<1>4. timer' = TRUE
  <2>1. last = At(window_start, pkt_in_window - 1)
    BY <1>2 DEF IInv, WindowShape, At
  <2>2. Outstanding(window_start, last, pkt_in_window)
    BY <2>1, <1>3, LongWindowOutstanding
  <2>3. Outstanding(window_start, last, pkt_in_window) \in BOOLEAN
    BY DEF Outstanding
  <2> QED
    BY <1>1, <2>2, <2>3, Zenon
<1>5. /\ Len(Window) = pkt_in_window
      /\ \A i \in 1..Len(Window) :
            /\ Window[i] = Numbered(base + (i - 1))
            /\ base + (i - 1) \in 0..nextseq-1
  <2>1. /\ Len(Window) = pkt_in_window
        /\ \A i \in 1..pkt_in_window :
              Window[i] = Numbered(base + (i - 1))
    BY <1>2, WindowPackets
  <2>2. \A i \in 1..pkt_in_window : base + (i - 1) \in 0..nextseq-1
    BY <1>3
  <2> QED
    BY <2>1, <2>2
<1>6. /\ toB' \in Seq(Packets) /\ Len(toB') <= MaxChan
      /\ \A i \in 1..Len(toB') : Intact(toB'[i]) =>
            \/ \E j \in 1..Len(toB) : toB'[i] = toB[j]
            \/ \E j \in 1..Len(Window) : toB'[i] = Window[j]
  <2>1. ASSUME NEW i \in 1..Len(Window) PROVE IsSealed(Window[i])
    <3>1. base + (i - 1) \in Nat /\ base + (i - 1) < 1000
      BY <1>3, <1>5
    <3> QED
      BY <3>1, <1>5, NumberedPacket
  <2>2. Len(Window) \in Nat
    BY <1>3, <1>5
  <2> QED
    BY <2>1, <2>2, <1>1, <1>3, Tolayer3EachIntact
<1>7. TypeOK'
  <2>1. timer' \in BOOLEAN
    BY <1>4
  <2> QED
    BY <2>1, <1>1, <1>6 DEF IInv, TypeOK, SimTypeOK
<1>8. base' = base
  BY <1>1 DEF base
<1>9. UnderWay'
  <2>1. nextseq' = nextseq /\ nextseq' \in Nat /\ nextseq <= nextseq'
        /\ nextseq' <= 1000
    BY <1>1, <1>3
  <2>2. \A i \in 1..Len(toB') : Intact(toB'[i]) =>
           \/ \E j \in 1..Len(toB) : toB'[i] = toB[j]
           \/ Sent(toB'[i], nextseq')
    <3>1. \A j \in 1..Len(Window) : Sent(Window[j], nextseq')
      BY <2>1, <1>5 DEF Sent
    <3> QED
      BY <3>1, <1>6
  <2>3. \A i \in 1..Len(toB') : Intact(toB'[i]) =>
           /\ toB'[i].seqnum \in 0..nextseq'-1
           /\ toB'[i].payload = MsgPayload(toB'[i].seqnum)
    BY <2>1, <2>2, PacketsToBStep
  <2> QED
    BY <2>3, <1>1 DEF IInv, UnderWay
<1>10. TimerIffOutstanding'
  BY <1>1, <1>2, <1>4 DEF TimerIffOutstanding
<1> QED
  BY <1>1, <1>7, <1>8, <1>9, <1>10
     DEF IInv, AckedImpliesDelivered, WindowShape, EmptyShape, BufferShape,
         WindowFull

(* The packets under way to B once one of them has arrived.                *)
LEMMA PacketsAfterArrival ==
    ASSUME IInv, toB # << >>, toB' = Tail(toB), UNCHANGED nextseq
    PROVE  \A i \in 1..Len(toB') : Intact(toB'[i]) =>
              /\ toB'[i].seqnum \in 0..nextseq'-1
              /\ toB'[i].payload = MsgPayload(toB'[i].seqnum)
<1>1. nextseq' \in Nat /\ nextseq <= nextseq' /\ nextseq' <= 1000
  BY InvariantFacts
<1> QED
  BY <1>1, ArrivalAtB, PacketsToBStep

LEMMA DropPacketStep == IInv /\ DropPacket => IInv'
<1> SUFFICES ASSUME IInv, DropPacket PROVE IInv'
  OBVIOUS
<1>1. /\ toB # << >> /\ toB' = Tail(toB)
      /\ UNCHANGED <<toA, timer, cur_msg_sent, cur_msg_recv, exit_code>>
      /\ UNCHANGED <<B_seqnum, nextseq, list, pkt_in_window, packets,
                     window_start, last>>
  BY DEF DropPacket, ArrivesAtB, protoVars, ringVars
<1>2. base' = base
  BY <1>1 DEF base
<1>3. TypeOK'
  BY <1>1, ArrivalAtB DEF IInv, TypeOK, SimTypeOK
<1>4. UnderWay'
  BY <1>1, PacketsAfterArrival DEF IInv, UnderWay
<1> QED
  BY <1>1, <1>2, <1>3, <1>4
     DEF IInv, AckedImpliesDelivered, WindowShape, EmptyShape, BufferShape,
         WindowFull, TimerIffOutstanding

LEMMA AckOldPacketStep == IInv /\ AckOldPacket => IInv'
<1> SUFFICES ASSUME IInv, AckOldPacket PROVE IInv'
  OBVIOUS
<1> DEFINE n == Head(toB).seqnum
           d == Head(toB).payload
<1>1. /\ toB # << >> /\ toB' = Tail(toB)
      /\ Intact(Head(toB)) /\ n < B_seqnum
      /\ toA' \in tolayer3(toA, Seal(n, n, d))
      /\ UNCHANGED <<timer, cur_msg_sent, cur_msg_recv, exit_code>>
      /\ UNCHANGED <<B_seqnum, nextseq, list, pkt_in_window, packets,
                     window_start, last>>
  BY DEF AckOldPacket, ArrivesAtB, pkt2B, Old, AckOf, protoVars, ringVars
<1>2. /\ B_seqnum \in Nat /\ B_seqnum <= 1000
      /\ toA \in Seq(Packets) /\ Len(toA) <= MaxChan
  BY InvariantFacts
<1>3. n \in 0..B_seqnum-1 /\ n \in Nat /\ n < 1000 /\ d = MsgPayload(n)
  <2>1. Head(toB) = toB[1] /\ 1 \in 1..Len(toB)
    BY <1>1, ArrivalAtB
  <2>2. n \in 0..nextseq-1 /\ d = MsgPayload(n)
    BY <2>1, <1>1 DEF IInv, UnderWay
  <2> QED
    BY <2>2, <1>1, <1>2
<1> HIDE DEF n, d
<1>4. Sealable(n, n, d) /\ Seal(n, n, d).acknum = n
  <2>1. d \in Payloads
    BY <1>3, MessagesArePayloads
  <2> QED
    BY <2>1, <1>3 DEF Sealable, BadNumber, Seal
<1>5. toA' \in Seq(Packets) /\ Len(toA') <= MaxChan
  BY <1>1, <1>2, <1>4, Tolayer3Appends
<1>6. \A i \in 1..Len(toA') : Intact(toA'[i]) =>
         \/ \E j \in 1..Len(toA) : toA'[i] = toA[j]
         \/ toA'[i] = Seal(n, n, d)
  BY <1>1, <1>2, <1>4, Tolayer3Intact
<1>7. TypeOK'
  BY <1>1, <1>5, ArrivalAtB DEF IInv, TypeOK, SimTypeOK
<1>8. base' = base
  BY <1>1 DEF base
<1>9. UnderWay'
  <2>1. B_seqnum' = B_seqnum /\ B_seqnum' \in Nat /\ B_seqnum <= B_seqnum'
    BY <1>1, <1>2
  <2>2. \A i \in 1..Len(toA') : Intact(toA'[i]) =>
           \/ \E j \in 1..Len(toA) : toA'[i] = toA[j]
           \/ toA'[i].acknum \in 0..B_seqnum'-1
    BY <2>1, <1>3, <1>4, <1>6
  <2>3. \A i \in 1..Len(toA') :
           Intact(toA'[i]) => toA'[i].acknum \in 0..B_seqnum'-1
    BY <2>1, <2>2, AcksToAStep
  <2> QED
    BY <2>3, <1>1, PacketsAfterArrival DEF UnderWay
<1> QED
  BY <1>1, <1>7, <1>8, <1>9
     DEF IInv, AckedImpliesDelivered, WindowShape, EmptyShape, BufferShape,
         WindowFull, TimerIffOutstanding

(* The packet B expects carries the message layer 5 at B expects, and that *)
(* message was given: tolayer5 accepts it.                                 *)
LEMMA ExpectedIsAccepted ==
    ASSUME IInv, DeliverPacket
    PROVE  /\ exit_code' = 0 /\ cur_msg_recv' = cur_msg_recv + 1
           /\ cur_msg_recv < nextseq /\ cur_msg_recv < cur_msg_sent
<1>1. /\ toB # << >> /\ toB' = Tail(toB)
      /\ Intact(Head(toB)) /\ Head(toB).seqnum = B_seqnum
      /\ exit_code' = tolayer5(cur_msg_recv, Head(toB).payload)
      /\ cur_msg_recv' = IF exit_code' = 0 THEN cur_msg_recv + 1
                                           ELSE cur_msg_recv
  BY DEF DeliverPacket, ArrivesAtB, pkt2B, Expected
<1>2. Head(toB) = toB[1] /\ 1 \in 1..Len(toB)
  BY <1>1, ArrivalAtB
<1>3. /\ Head(toB).seqnum \in 0..nextseq-1
      /\ Head(toB).payload = MsgPayload(Head(toB).seqnum)
  BY <1>1, <1>2 DEF IInv, UnderWay
<1>4. /\ B_seqnum = cur_msg_recv /\ cur_msg_recv \in Nat /\ nextseq \in Nat
      /\ cur_msg_sent = nextseq + Len(list) /\ Len(list) \in Nat
  BY InvariantFacts
<1>5. /\ cur_msg_recv < nextseq /\ cur_msg_recv < cur_msg_sent
      /\ Head(toB).payload = MsgPayload(cur_msg_recv)
  BY <1>1, <1>3, <1>4
<1>6. tolayer5(cur_msg_recv, Head(toB).payload) = 0
  <2>1. cur_msg_sent \in Nat
    BY <1>4
  <2> QED
    BY <2>1, <1>4, <1>5 DEF tolayer5
<1> QED
  BY <1>1, <1>5, <1>6

LEMMA DeliverPacketStep == IInv /\ DeliverPacket => IInv'
<1> SUFFICES ASSUME IInv, DeliverPacket PROVE IInv'
  OBVIOUS
<1>1. /\ toB # << >> /\ toB' = Tail(toB)
      /\ B_seqnum' = B_seqnum + 1
      /\ UNCHANGED <<toA, timer, cur_msg_sent, nextseq, list, pkt_in_window,
                     packets, window_start, last>>
  BY DEF DeliverPacket, ArrivesAtB, ringVars
<1>2. /\ exit_code' = 0 /\ cur_msg_recv' = cur_msg_recv + 1
      /\ cur_msg_recv < nextseq /\ cur_msg_recv < cur_msg_sent
  BY ExpectedIsAccepted
<1>3. /\ cur_msg_recv \in Nat /\ B_seqnum = cur_msg_recv /\ nextseq \in Nat
      /\ MaxMsgs \in Nat /\ cur_msg_sent \in Nat /\ cur_msg_sent <= MaxMsgs
      /\ base \in Nat /\ base <= cur_msg_recv
  BY InvariantFacts
<1>4. base' = base
  BY <1>1 DEF base
<1>5. TypeOK'
  <2>1. cur_msg_recv' \in 0..MaxMsgs /\ B_seqnum' \in 0..MaxMsgs
    BY <1>1, <1>2, <1>3
  <2> QED
    BY <2>1, <1>1, <1>2, ArrivalAtB DEF IInv, TypeOK, SimTypeOK
<1>6. UnderWay'
  <2>1. B_seqnum' \in Nat /\ B_seqnum <= B_seqnum'
    BY <1>1, <1>3
  <2>2. \A i \in 1..Len(toA') :
           Intact(toA'[i]) => toA'[i].acknum \in 0..B_seqnum'-1
    BY <2>1, <1>1, AcksToAStep
  <2> QED
    BY <2>2, <1>1, PacketsAfterArrival DEF UnderWay
<1>7. AckedImpliesDelivered' /\ base' >= 0 /\ B_seqnum' = cur_msg_recv'
  BY <1>1, <1>2, <1>3, <1>4 DEF AckedImpliesDelivered
<1> QED
  BY <1>1, <1>2, <1>4, <1>5, <1>6, <1>7
     DEF IInv, WindowShape, EmptyShape, BufferShape, WindowFull,
         TimerIffOutstanding

LEMMA StepInvariant == WINDOW > 1 /\ IInv /\ [Next]_vars => IInv'
<1> SUFFICES ASSUME WINDOW > 1, IInv, [Next]_vars PROVE IInv'
  OBVIOUS
<1>1. CASE A_output
  BY <1>1, BufferMessageStep, SendMessageStep DEF A_output
<1>2. CASE A_input
  BY <1>2, IgnoreAckStep, EmptyWindowStep, SlideWindowStep DEF A_input
<1>3. CASE A_timerinterrupt
  BY <1>3, TimerStep
<1>4. CASE B_input
  BY <1>4, DropPacketStep, AckOldPacketStep, DeliverPacketStep DEF B_input
<1>5. CASE UNCHANGED vars
  <2>1. base' = base
    BY <1>5 DEF vars, protoVars, ringVars, base
  <2> QED
    BY <1>5, <2>1
       DEF vars, simVars, protoVars, ringVars, IInv, TypeOK, SimTypeOK,
           AckedImpliesDelivered, WindowShape, EmptyShape, BufferShape,
           WindowFull, TimerIffOutstanding, UnderWay
<1> QED
  BY <1>1, <1>2, <1>3, <1>4, <1>5 DEF Next
-----------------------------------------------------------------------------
(* A window of one packet is left out: A_output then takes each message    *)
(* out of the buffer and forgets it (gbn.c:64), so nothing is ever sent.   *)
SeveralSlots == WINDOW > 1

(* IInv holds in every state gbn.c's protocol reaches.                     *)
THEOREM Invariant == SeveralSlots => (Spec => []IInv)
<1> SUFFICES ASSUME SeveralSlots PROVE Spec => []IInv
  OBVIOUS
<1>1. IInv /\ [Next]_vars => IInv'
  BY StepInvariant DEF SeveralSlots
<1> QED
  BY <1>1, InitInvariant, PTL DEF Spec

(* The variables stay within their types, the ring indices in the ring.    *)
THEOREM TypeCorrect == SeveralSlots => (Spec => []TypeOK)
<1>1. IInv => TypeOK
  BY DEF IInv
<1> QED
  BY <1>1, Invariant, PTL

(* The ring pointers and the count agree, and the ring holds the packets   *)
(* that are not acknowledged in sequence.                                  *)
THEOREM RingIsAWindow == SeveralSlots => (Spec => []WindowShape)
<1>1. IInv => WindowShape
  BY DEF IInv
<1> QED
  BY <1>1, Invariant, PTL

(* A_output and A_input never leave packets unacknowledged without a       *)
(* timer, or a timer without packets.                                      *)
THEOREM TimerIsExact == SeveralSlots => (Spec => []TimerIffOutstanding)
<1>1. IInv => TimerIffOutstanding
  BY DEF IInv
<1> QED
  BY <1>1, Invariant, PTL

(* What A slides its window over was delivered at B.                       *)
THEOREM SlidesOverDelivered ==
    SeveralSlots => (Spec => []AckedImpliesDelivered)
<1>1. IInv => AckedImpliesDelivered
  BY DEF IInv
<1> QED
  BY <1>1, Invariant, PTL

(* gbn.c implements the safe part of ReliableDelivery: messages are        *)
(* delivered in order, once each, and tolayer5 never ends the run.         *)
THEOREM Implementation == SeveralSlots => (Spec => RD!Spec)
<1> SUFFICES ASSUME SeveralSlots PROVE Spec => RD!Spec
  OBVIOUS
<1>1. Init => RD!Init
  BY DEF Init, SimInit, RD!Init
<1>2. IInv /\ [Next]_vars => [RD!Next]_(RD!vars)
  <2> SUFFICES ASSUME IInv, [Next]_vars
               PROVE  RD!Next \/ UNCHANGED RD!vars
    BY DEF RD!vars
  <2>0. /\ exit_code = 0 /\ cur_msg_recv \in Nat /\ cur_msg_sent \in Nat
    BY InvariantFacts
  <2>1. CASE A_output
    <3>1. /\ cur_msg_sent < MaxMsgs /\ cur_msg_sent' = cur_msg_sent + 1
          /\ UNCHANGED <<cur_msg_recv, exit_code>>
      BY <2>1 DEF A_output, BufferMessage, SendMessage, FromLayer5
    <3> QED
      BY <3>1 DEF RD!Next, RD!Give
  <2>2. CASE IgnoreAck \/ SlideWindow \/ A_timerinterrupt \/ DropPacket
             \/ AckOldPacket
    <3>1. UNCHANGED <<cur_msg_sent, cur_msg_recv, exit_code>>
      BY <2>2 DEF IgnoreAck, SlideWindow, A_timerinterrupt, DropPacket,
                  AckOldPacket
    <3> QED
      BY <3>1 DEF RD!vars
  <2>3. CASE EmptyWindow
    <3>1. list = << >>
      BY <2>3 DEF SeveralSlots, EmptyWindow, IInv, BufferShape, WindowFull
    <3>2. UNCHANGED <<cur_msg_sent, cur_msg_recv, exit_code>>
      BY <2>0, <2>3, <3>1 DEF EmptyWindow
    <3> QED
      BY <3>2 DEF RD!vars
  <2>4. CASE DeliverPacket
    <3>1. /\ exit_code' = 0 /\ cur_msg_recv' = cur_msg_recv + 1
          /\ cur_msg_recv < cur_msg_sent
      BY <2>4, ExpectedIsAccepted
    <3>2. cur_msg_sent' = cur_msg_sent
      BY <2>4 DEF DeliverPacket
    <3>3. cur_msg_recv' \in (cur_msg_recv + 1)..cur_msg_sent
      BY <2>0, <3>1
    <3> QED
      BY <2>0, <3>1, <3>2, <3>3 DEF RD!Next, RD!Deliver
  <2>5. CASE UNCHANGED vars
    BY <2>5 DEF vars, simVars, RD!vars
  <2> QED
    BY <2>1, <2>2, <2>3, <2>4, <2>5 DEF Next, A_input, B_input
<1> QED
  BY <1>1, <1>2, Invariant, PTL DEF Spec, RD!Spec
=============================================================================
