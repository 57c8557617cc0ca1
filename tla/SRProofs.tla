------------------------------ MODULE SRProofs ------------------------------
(***************************************************************************)
(* What sr.c keeps for every window, timeout, number of messages, channel  *)
(* bound and set of corruptions, and whatever its sender gets wrong: the   *)
(* receiver's window, what an acknowledgement means, and the timer's flag. *)
(***************************************************************************)
EXTENDS SR, PacketProofs, FiniteSetTheorems

-----------------------------------------------------------------------------
(* The ring: the slot i places after first, around the end of the array,   *)
(* and how far a slot is from first.                                       *)
LEMMA ReachedSlot ==
    ASSUME NEW first \in Slots, NEW i \in 0..WINDOW
    PROVE  /\ Reached(first, i) \in Slots
           /\ Reached(first, i) = IF first + i < WINDOW
                                  THEN first + i ELSE first + i - WINDOW
<1>1. CASE first + i < WINDOW
  <2>1. (first + i) % WINDOW = first + i
    BY <1>1, WindowAssumption DEF Slots
  <2> QED
    BY <1>1, <2>1, WindowAssumption DEF Slots, Reached
<1>2. CASE ~(first + i < WINDOW)
  <2>1. (first + i) % WINDOW = first + i - WINDOW
    BY <1>2, WindowAssumption DEF Slots
  <2> QED
    BY <1>2, <2>1, WindowAssumption DEF Slots, Reached
<1> QED
  BY <1>1, <1>2

LEMMA NextSlot ==
    ASSUME NEW slot \in Slots
    PROVE  Succ(slot) \in Slots
<1>1. Succ(slot) = Reached(slot, 1) /\ 1 \in 0..WINDOW
  BY WindowAssumption DEF Succ, Reached
<1> QED
  BY <1>1, ReachedSlot

Offset(slot, first) == (slot - first) % WINDOW

LEMMA OffsetOfSlot ==
    ASSUME NEW first \in Slots, NEW slot \in Slots
    PROVE  /\ Offset(slot, first) \in Slots
           /\ Reached(first, Offset(slot, first)) = slot
<1>1. CASE slot >= first
  <2>1. (slot - first) % WINDOW = slot - first
    BY <1>1, WindowAssumption DEF Slots
  <2>2. slot - first \in 0..WINDOW /\ slot - first \in Slots
    BY <1>1, WindowAssumption DEF Slots
  <2>3. Reached(first, slot - first) = slot
    BY <2>2, ReachedSlot, WindowAssumption DEF Slots
  <2> QED
    BY <2>1, <2>2, <2>3 DEF Offset
<1>2. CASE ~(slot >= first)
  <2>1. (slot - first) % WINDOW = slot - first + WINDOW
    BY <1>2, WindowAssumption DEF Slots
  <2>2. /\ slot - first + WINDOW \in 0..WINDOW
        /\ slot - first + WINDOW \in Slots
    BY <1>2, WindowAssumption DEF Slots
  <2>3. Reached(first, slot - first + WINDOW) = slot
    BY <2>2, ReachedSlot, WindowAssumption DEF Slots
  <2> QED
    BY <2>1, <2>2, <2>3 DEF Offset
<1> QED
  BY <1>1, <1>2

LEMMA SlotOfOffset ==
    ASSUME NEW first \in Slots, NEW i \in Slots
    PROVE  Offset(Reached(first, i), first) = i
<1>1. Reached(first, i) = IF first + i < WINDOW
                          THEN first + i ELSE first + i - WINDOW
  BY ReachedSlot, WindowAssumption DEF Slots
<1>2. CASE first + i < WINDOW
  <2>1. Reached(first, i) - first = i
    BY <1>1, <1>2, WindowAssumption DEF Slots
  <2> QED
    BY <2>1, WindowAssumption DEF Slots, Offset
<1>3. CASE ~(first + i < WINDOW)
  <2>1. Reached(first, i) - first = i - WINDOW
    BY <1>1, <1>3, WindowAssumption DEF Slots
  <2>2. (i - WINDOW) % WINDOW = i
    BY WindowAssumption DEF Slots
  <2> QED
    BY <2>1, <2>2 DEF Offset
<1> QED
  BY <1>2, <1>3

(* The i-th slot of a window that starts n slots further on.               *)
LEMMA ReachedFurther ==
    ASSUME NEW first \in Slots, NEW n \in 1..WINDOW, NEW i \in Slots
    PROVE  Reached(Reached(first, n), i)
             = Reached(first, IF n + i < WINDOW THEN n + i
                                                ELSE n + i - WINDOW)
<1> DEFINE start == Reached(first, n)
           k == IF n + i < WINDOW THEN n + i ELSE n + i - WINDOW
<1>1. n \in 0..WINDOW /\ i \in 0..WINDOW /\ k \in 0..WINDOW
  BY WindowAssumption DEF Slots
<1>2. /\ start \in Slots
      /\ start = IF first + n < WINDOW THEN first + n ELSE first + n - WINDOW
  BY <1>1, ReachedSlot
<1>3. /\ Reached(start, i) = IF start + i < WINDOW
                             THEN start + i ELSE start + i - WINDOW
      /\ Reached(first, k) = IF first + k < WINDOW
                             THEN first + k ELSE first + k - WINDOW
  BY <1>1, <1>2, ReachedSlot
<1> QED
  BY <1>2, <1>3, WindowAssumption DEF Slots

(* CHOOSE finds the least number of a set and the greatest of a bounded    *)
(* one.                                                                    *)
LEMMA LeastIsChosen ==
    ASSUME NEW S \in SUBSET Nat, S # {}
    PROVE  LET m == CHOOSE j \in S : \A i \in S : j <= i
           IN  m \in S /\ \A i \in S : m <= i
<1>1. \E x \in S : \A y \in S : ~(<<y, x>> \in OpToRel(<, Nat))
  <2> HIDE DEF OpToRel
  <2> QED
    BY NatLessThanWellFounded, WFMin
<1>2. PICK x \in S : \A y \in S : ~(y < x)
  BY <1>1 DEF OpToRel
<1>3. \A y \in S : x <= y
  BY <1>2
<1> QED
  BY <1>3

LEMMA GreatestIsChosen ==
    ASSUME NEW n \in Nat, NEW S \in SUBSET (0..n), S # {}
    PROVE  LET m == CHOOSE k \in S : \A j \in S : j <= k
           IN  m \in S /\ \A j \in S : j <= m
<1> DEFINE T == {i \in Nat : \E k \in S : i = n - k}
           least == CHOOSE j \in T : \A i \in T : j <= i
<1>1. \A k \in S : n - k \in T
  OBVIOUS
<1>2. T \in SUBSET Nat /\ T # {}
  BY <1>1
<1>3. least \in T /\ \A i \in T : least <= i
  <2> HIDE DEF T
  <2> QED
    BY <1>2, LeastIsChosen
<1>4. PICK k \in S : least = n - k
  BY <1>3
<1>5. \A j \in S : j <= k
  <2> TAKE j \in S
  <2>1. n - k <= n - j
    BY <1>1, <1>3, <1>4
  <2> QED
    BY <2>1
<1> QED
  BY <1>5
-----------------------------------------------------------------------------
(* Facts about an unprimed state that most steps need.                     *)
Entries == [pi : Packets, ack : {0, 1}, timeover : -1..TIMEOUT]
Places == [pi : Packets, timeover : Nat]

LEMMA Channels ==
    ASSUME IInv
    PROVE  /\ toA \in Seq(Packets) /\ Len(toA) \in Nat /\ Len(toA) <= MaxChan
           /\ toB \in Seq(Packets) /\ Len(toB) \in Nat /\ Len(toB) <= MaxChan
           /\ list \in Seq(Payloads) /\ Len(list) \in Nat
<1>1. /\ toA \in Seq(Packets) /\ Len(toA) <= MaxChan
      /\ toB \in Seq(Packets) /\ Len(toB) <= MaxChan
      /\ list \in Seq(Payloads)
  BY DEF IInv, TypeOK, SimTypeOK
<1> QED
  BY <1>1, LenProperties

LEMMA Numbers ==
    ASSUME IInv
    PROVE  /\ MaxMsgs \in Nat /\ MaxMsgs <= 1000
           /\ cur_msg_sent \in Nat /\ cur_msg_sent <= MaxMsgs
           /\ cur_msg_recv \in Nat /\ cur_msg_recv <= cur_msg_sent
           /\ Len(list) \in Nat
           /\ A_seqnum \in Nat /\ A_seqnum + Len(list) <= cur_msg_sent
           /\ B_seqnum \in Nat /\ B_seqnum <= MaxMsgs
           /\ exit_code = 0 => B_seqnum = cur_msg_recv
<1>1. /\ cur_msg_sent \in 0..MaxMsgs /\ cur_msg_recv \in 0..MaxMsgs
      /\ A_seqnum \in 0..MaxMsgs /\ B_seqnum \in 0..MaxMsgs
  BY DEF IInv, TypeOK, SimTypeOK
<1>2. /\ cur_msg_recv <= cur_msg_sent
      /\ A_seqnum + Len(list) <= cur_msg_sent
      /\ exit_code = 0 => B_seqnum = cur_msg_recv
  BY DEF IInv, Counts, Running
<1>3. Len(list) \in Nat
  BY Channels
<1> QED
  BY <1>1, <1>2, <1>3, MaxMsgsAssumption

LEMMA WindowCount ==
    ASSUME IInv
    PROVE  /\ MaxDrift \in Nat /\ pkt_in_window \in Int
           /\ -MaxDrift <= pkt_in_window /\ pkt_in_window <= WINDOW
BY MaxDriftAssumption, WindowAssumption DEF IInv, TypeOK

LEMMA WindowSize == WINDOW \in Nat /\ WINDOW > 0
BY WindowAssumption

LEMMA Rings ==
    ASSUME IInv
    PROVE  /\ A_packets \in [Slots -> Entries]
           /\ B_packets \in [Slots -> Places]
           /\ window_start \in Slots /\ last \in Slots
           /\ window_start_B \in Slots
           /\ is_timer_off \in {0, 1} /\ timer \in BOOLEAN
BY DEF IInv, TypeOK, SimTypeOK, Entries, Places

(* An event that leaves B alone leaves it its window and what it has, and  *)
(* the acknowledgements under way stay true when A takes one of them.      *)
LEMMA ReceiverUntouched ==
    ASSUME IInv, UNCHANGED B_vars,
           UNCHANGED toA \/ (toA # << >> /\ toA' = Tail(toA))
    PROVE  /\ toA' \in Seq(Packets) /\ Len(toA') <= MaxChan
           /\ ReceiverWindow' /\ AckMeansReceived'
<1>1. UNCHANGED <<B_seqnum, B_packets, window_start_B>>
  BY DEF B_vars
<1>2. ReceiverWindow'
  BY <1>1 DEF IInv, ReceiverWindow
<1>3. /\ toA' \in Seq(Packets) /\ Len(toA') <= MaxChan
      /\ \A i \in 1..Len(toA') : \E j \in 1..Len(toA) : toA'[i] = toA[j]
  <2>1. CASE UNCHANGED toA
    BY <2>1, Channels
  <2>2. CASE toA # << >> /\ toA' = Tail(toA)
    <3>1. /\ toA' \in Seq(Packets) /\ Len(toA') = Len(toA) - 1
          /\ \A i \in 1..Len(toA') :
                i + 1 \in 1..Len(toA) /\ toA'[i] = toA[i + 1]
      BY <2>2, Channels, TailOfChannel
    <3>2. Len(toA') <= MaxChan
      BY <3>1, Channels, MaxChanAssumption
    <3> QED
      BY <3>1, <3>2
  <2> QED
    BY <2>1, <2>2
<1>4. \A j \in 1..Len(toA) : Intact(toA[j]) => BHas(toA[j].acknum)
  BY DEF IInv, AckMeansReceived
<1>5. AckMeansReceived'
  <2> SUFFICES ASSUME NEW i \in 1..Len(toA'), Intact(toA'[i])
               PROVE  BHas(toA[i].acknum)'
    BY DEF AckMeansReceived
  <2>1. PICK j \in 1..Len(toA) : toA'[i] = toA[j]
    BY <1>3
  <2> QED
    BY <2>1, <1>1, <1>4 DEF BHas
<1> QED
  BY <1>2, <1>3, <1>5
-----------------------------------------------------------------------------
(* The sender: A_output, A_input and A_timerinterrupt.                     *)
LEMMA InitInvariant == Init => IInv
<1> SUFFICES ASSUME Init PROVE IInv
  OBVIOUS
<1>1. 0 \in Slots /\ WINDOW \in Nat /\ WINDOW > 0
  BY WindowAssumption DEF Slots
<1>2. Blank \in Packets
  BY DEF Blank, Packets
<1>3. A_packets \in [Slots -> Entries]
  BY <1>2, TimeoutAssumption DEF Init, Entries
<1>4. B_packets \in [Slots -> [pi : Packets, timeover : Nat]]
  BY <1>2 DEF Init, Slots
<1>5. TypeOK
  BY <1>1, <1>3, <1>4, MaxChanAssumption, MaxMsgsAssumption,
     MaxDriftAssumption
     DEF Init, TypeOK, SimTypeOK, Entries
<1>6. ReceiverWindow
  <2> SUFFICES ASSUME NEW i \in Slots
               PROVE  B_packets[Reached(window_start_B, i)].timeover
                        = B_seqnum + i
    BY DEF ReceiverWindow
  <2>1. Reached(0, i) = i
    BY <1>1, ReachedSlot DEF Slots
  <2> QED
    BY <2>1 DEF Init, Slots
<1>7. AckMeansReceived
  BY DEF Init, AckMeansReceived
<1>8. Counts
  BY DEF Init, Counts
<1>9. TimerFlagExact
  BY DEF Init, TimerFlagExact
<1> QED
  BY <1>5, <1>6, <1>7, <1>8, <1>9 DEF IInv

(* A packet A builds.                                                      *)
LEMMA BuiltPacket ==
    ASSUME NEW n \in Nat, NEW d \in Payloads
    PROVE  /\ Seal(n, DEFAULT_ACK, d) \in Packets
           /\ Unacked(Seal(n, DEFAULT_ACK, d)) \in Entries
<1>1. Seal(n, DEFAULT_ACK, d) \in Packets
  BY SealedIsIntact DEF DEFAULT_ACK
<1> QED
  BY <1>1, TimeoutAssumption DEF Unacked, Entries

(* The queue of A_output: never empty.                                     *)
LEMMA AppendedQueue ==
    ASSUME NEW S, NEW s \in Seq(S), NEW m \in S
    PROVE  LET queue == Append(s, m)
           IN  /\ queue \in Seq(S) /\ Head(queue) \in S
               /\ Tail(queue) \in Seq(S)
               /\ Len(Tail(queue)) = Len(s) /\ Len(queue) = Len(s) + 1
<1> DEFINE queue == Append(s, m)
<1>1. queue \in Seq(S) /\ Len(queue) = Len(s) + 1 /\ Len(s) \in Nat
  BY AppendProperties, LenProperties
<1> HIDE DEF queue
<1>2. queue # << >>
  BY <1>1, EmptySeq
<1>3. /\ Head(queue) \in S /\ Tail(queue) \in Seq(S)
      /\ Len(Tail(queue)) = Len(queue) - 1
  BY <1>1, <1>2, HeadTailProperties
<1> QED
  BY <1>1, <1>3 DEF queue

LEMMA QueueWithMessage ==
    ASSUME IInv
    PROVE  LET queue == Append(list, msg2give)
           IN  /\ queue \in Seq(Payloads)
               /\ Head(queue) \in Payloads
               /\ Tail(queue) \in Seq(Payloads)
               /\ Len(Tail(queue)) = Len(list)
               /\ Len(queue) = Len(list) + 1
<1>1. msg2give \in Payloads
  BY Numbers, MessagesArePayloads DEF msg2give
<1>2. list \in Seq(Payloads)
  BY Channels
<1> QED
  BY <1>1, <1>2, AppendedQueue

LEMMA BufferMessageStep == IInv /\ BufferMessage => IInv'
<1> SUFFICES ASSUME IInv, BufferMessage PROVE IInv'
  OBVIOUS
<1>1. /\ exit_code = 0 /\ cur_msg_sent < MaxMsgs
      /\ cur_msg_sent' = cur_msg_sent + 1
      /\ list' = Append(list, msg2give)
      /\ UNCHANGED <<toA, toB, timer, cur_msg_recv, exit_code, A_seqnum,
                     A_ring, is_timer_off, B_vars>>
  BY DEF BufferMessage, FromLayer5, Running
<1>2. /\ UNCHANGED <<pkt_in_window, A_packets, window_start, last>>
      /\ UNCHANGED <<B_seqnum, B_packets, window_start_B>>
  BY <1>1 DEF A_ring, B_vars
<1>3. list' \in Seq(Payloads) /\ Len(list') = Len(list) + 1
  BY <1>1, QueueWithMessage
<1>4. Counts'
  BY <1>1, <1>2, <1>3, Numbers DEF Counts, Running
<1>5. TypeOK'
  <2>1. cur_msg_sent' \in 0..MaxMsgs
    BY <1>1, Numbers
  <2> QED
    BY <2>1, <1>1, <1>2, <1>3 DEF IInv, TypeOK, SimTypeOK
<1>6. ReceiverWindow' /\ AckMeansReceived'
  BY <1>1, ReceiverUntouched
<1> QED
  BY <1>1, <1>4, <1>5, <1>6 DEF IInv, TimerFlagExact

LEMMA SendMessageStep == IInv /\ SendMessage => IInv'
<1> SUFFICES ASSUME IInv, SendMessage PROVE IInv'
  OBVIOUS
<1> DEFINE queue == Append(list, msg2give)
           packet == Seal(A_seqnum, DEFAULT_ACK, Head(queue))
<1>1. /\ exit_code = 0 /\ cur_msg_sent < MaxMsgs
      /\ cur_msg_sent' = cur_msg_sent + 1
      /\ pkt_in_window # WINDOW
      /\ list' = Tail(queue)
      /\ UNCHANGED <<toA, cur_msg_recv, exit_code, B_vars>>
  BY DEF SendMessage, FromLayer5, WindowFull, Running
<1>2. /\ list' \in Seq(Payloads) /\ Len(list') = Len(list)
      /\ Head(queue) \in Payloads
  BY <1>1, QueueWithMessage
<1>3. /\ A_packets' \in [Slots -> Entries]
      /\ pkt_in_window' \in -MaxDrift..WINDOW
      /\ A_seqnum' \in {A_seqnum, A_seqnum + 1}
      /\ toB' \in Seq(Packets) /\ Len(toB') <= MaxChan
      /\ window_start' = window_start /\ last' \in Slots
      /\ timer' \in BOOLEAN /\ is_timer_off' \in {0, 1} /\ TimerFlagExact'
  <2>1. CASE Succ(last) = window_start
    <3>1. UNCHANGED <<A_seqnum, pkt_in_window, A_packets, window_start,
                      last, toB, timer, is_timer_off>>
      BY <2>1 DEF SendMessage, A_ring
    <3>2. pkt_in_window' \in -MaxDrift..WINDOW
      BY <3>1, WindowCount, WindowSize
    <3> QED
      BY <3>1, <3>2, Rings, Channels DEF IInv, TimerFlagExact
  <2>2. CASE Succ(last) # window_start
    <3>1. /\ last' = FreeSlot
          /\ A_packets' = [A_packets EXCEPT ![FreeSlot] = Unacked(packet)]
          /\ A_seqnum' = A_seqnum + 1
          /\ pkt_in_window' = pkt_in_window + 1
          /\ toB' \in tolayer3(toB, packet)
          /\ is_timer_off' = 1
          /\ IF is_timer_off = 0 THEN timer' = TRUE ELSE UNCHANGED timer
          /\ UNCHANGED window_start
      BY <2>2 DEF SendMessage, starttimer
    <3>2. packet \in Packets /\ Unacked(packet) \in Entries
      BY <1>2, Numbers, BuiltPacket
    <3>3. FreeSlot \in Slots
      BY Rings, NextSlot DEF FreeSlot
    <3>4. toB' \in Seq(Packets) /\ Len(toB') <= MaxChan
      <4> HIDE DEF packet
      <4> QED
        BY <3>1, <3>2, Channels, Tolayer3Copies
    <3>5. A_packets' \in [Slots -> Entries]
      <4> HIDE DEF packet
      <4> QED
        BY <3>1, <3>2, Rings
    <3>6. pkt_in_window' \in -MaxDrift..WINDOW
      <4>1. pkt_in_window' = pkt_in_window + 1 /\ pkt_in_window # WINDOW
        BY <1>1, <3>1
      <4> QED
        BY <4>1, WindowCount, WindowSize
    <3>7. timer' = TRUE /\ TimerFlagExact'
      BY <3>1, Rings DEF IInv, TimerFlagExact
    <3> QED
      BY <3>1, <3>3, <3>4, <3>5, <3>6, <3>7
  <2> QED
    BY <2>1, <2>2
<1> HIDE DEF queue
<1>4. UNCHANGED <<B_seqnum, B_packets, window_start_B>>
  BY <1>1 DEF B_vars
<1>5. /\ A_seqnum' \in {A_seqnum, A_seqnum + 1} /\ Len(list') = Len(list)
      /\ cur_msg_sent' = cur_msg_sent + 1 /\ cur_msg_sent < MaxMsgs
      /\ UNCHANGED <<cur_msg_recv, B_seqnum, exit_code>>
  BY <1>1, <1>2, <1>3, <1>4
<1>6. /\ Counts'
      /\ cur_msg_sent' \in 0..MaxMsgs /\ A_seqnum' \in 0..MaxMsgs
  BY <1>5, Numbers DEF Counts, Running
<1>7. TypeOK'
  BY <1>1, <1>2, <1>3, <1>4, <1>6 DEF IInv, TypeOK, SimTypeOK, Entries
<1>8. ReceiverWindow' /\ AckMeansReceived'
  BY <1>1, ReceiverUntouched
<1> QED
  BY <1>3, <1>6, <1>7, <1>8 DEF IInv

(* Refill puts the oldest buffered message, if any, into a slot.           *)
LEMMA RefillStep ==
    ASSUME IInv, NEW slot \in Slots, NEW ring \in [Slots -> Entries],
           NEW count \in Int, -MaxDrift <= count, count < WINDOW,
           Refill(slot, ring, count)
    PROVE  /\ A_packets' \in [Slots -> Entries]
           /\ pkt_in_window' \in -MaxDrift..WINDOW
           /\ A_seqnum' \in 0..MaxMsgs /\ list' \in Seq(Payloads)
           /\ A_seqnum' + Len(list') <= cur_msg_sent
           /\ toB' \in Seq(Packets) /\ Len(toB') <= MaxChan
<1>1. CASE list = << >>
  <2>1. /\ A_packets' = ring /\ pkt_in_window' = count
        /\ UNCHANGED <<A_seqnum, list, toB>>
    BY <1>1 DEF Refill
  <2>2. pkt_in_window' \in -MaxDrift..WINDOW
    BY <2>1, WindowCount, WindowSize
  <2>3. A_seqnum' \in 0..MaxMsgs /\ A_seqnum' + Len(list') <= cur_msg_sent
    BY <2>1, Numbers
  <2> QED
    BY <2>1, <2>2, <2>3, Channels
<1>2. CASE list # << >>
  <2> DEFINE packet == Seal(A_seqnum, DEFAULT_ACK, Head(list))
  <2>1. /\ A_packets' = [ring EXCEPT ![slot] = Unacked(packet)]
        /\ pkt_in_window' = count + 1
        /\ A_seqnum' = A_seqnum + 1
        /\ list' = Tail(list)
        /\ toB' \in tolayer3(toB, packet)
    BY <1>2 DEF Refill
  <2>2. /\ Head(list) \in Payloads /\ list' \in Seq(Payloads)
        /\ Len(list') = Len(list) - 1
    BY <1>2, <2>1, Channels, HeadTailProperties
  <2>3. packet \in Packets /\ Unacked(packet) \in Entries
    BY <2>2, Numbers, BuiltPacket
  <2> HIDE DEF packet
  <2>4. toB' \in Seq(Packets) /\ Len(toB') <= MaxChan
    BY <2>1, <2>3, Channels, Tolayer3Copies
  <2>5. A_packets' \in [Slots -> Entries]
    BY <2>1, <2>3
  <2>6. pkt_in_window' \in -MaxDrift..WINDOW
    BY <2>1, WindowCount, WindowSize
  <2>7. A_seqnum' \in 0..MaxMsgs /\ A_seqnum' + Len(list') <= cur_msg_sent
    <3>1. Len(list') \in Nat
      BY <2>2, LenProperties
    <3> QED
      BY <2>1, <2>2, <3>1, Numbers
  <2> QED
    BY <2>2, <2>4, <2>5, <2>6, <2>7
<1> QED
  BY <1>1, <1>2

LEMMA AckedRing ==
    ASSUME IInv, NEW slot \in Slots
    PROVE  Acked(slot) \in [Slots -> Entries]
<1>1. A_packets \in [Slots -> Entries]
  BY Rings
<1>2. Acked(slot)
        = [A_packets EXCEPT ![slot] = [A_packets[slot] EXCEPT !.ack = 1]]
  BY <1>1 DEF Acked
<1>3. [A_packets[slot] EXCEPT !.ack = 1] \in Entries
  BY <1>1 DEF Entries
<1> QED
  BY <1>1, <1>2, <1>3

LEMMA EmptyWindowStep == IInv /\ EmptyWindow => IInv'
<1> SUFFICES ASSUME IInv, EmptyWindow PROVE IInv'
  OBVIOUS
<1>1. /\ exit_code = 0 /\ toA # << >> /\ toA' = Tail(toA)
      /\ window_start' = Succ(window_start) /\ last' = Succ(last)
      /\ Refill(last', Acked(window_start), 0)
      /\ IF list = << >> THEN timer' = FALSE /\ is_timer_off' = 0
                         ELSE UNCHANGED <<is_timer_off, timer>>
      /\ UNCHANGED <<cur_msg_sent, cur_msg_recv, exit_code, B_vars>>
  BY DEF EmptyWindow, ArrivesAtA, Running, TimerOff, stoptimer
<1>2. UNCHANGED <<B_seqnum, B_packets, window_start_B>>
  BY <1>1 DEF B_vars
<1>3. window_start' \in Slots /\ last' \in Slots
  BY <1>1, Rings, NextSlot
<1>4. /\ A_packets' \in [Slots -> Entries]
      /\ pkt_in_window' \in -MaxDrift..WINDOW
      /\ A_seqnum' \in 0..MaxMsgs /\ list' \in Seq(Payloads)
      /\ A_seqnum' + Len(list') <= cur_msg_sent
      /\ toB' \in Seq(Packets) /\ Len(toB') <= MaxChan
  <2>1. Acked(window_start) \in [Slots -> Entries]
    BY Rings, AckedRing
  <2>2. 0 \in Int /\ -MaxDrift <= 0 /\ 0 < WINDOW
    BY WindowCount, WindowSize
  <2> QED
    BY <1>1, <1>3, <2>1, <2>2, RefillStep
<1>5. timer' \in BOOLEAN /\ is_timer_off' \in {0, 1} /\ TimerFlagExact'
  <2>1. CASE list = << >>
    <3>1. timer' = FALSE /\ is_timer_off' = 0
      BY <1>1, <2>1
    <3>2. is_timer_off' # 1 /\ is_timer_off' \in {0, 1}
      BY <3>1
    <3>3. TimerFlagExact'
      BY <3>1, <3>2, Zenon DEF TimerFlagExact
    <3> QED
      BY <3>1, <3>2, <3>3
  <2>2. CASE list # << >>
    <3>1. UNCHANGED <<is_timer_off, timer>>
      BY <1>1, <2>2
    <3> QED
      BY <3>1, Rings DEF IInv, TimerFlagExact
  <2> QED
    BY <2>1, <2>2
<1>6. toA' \in Seq(Packets) /\ Len(toA') <= MaxChan
      /\ ReceiverWindow' /\ AckMeansReceived'
  BY <1>1, ReceiverUntouched
<1>7. TypeOK'
  BY <1>1, <1>2, <1>3, <1>4, <1>5, <1>6
     DEF IInv, TypeOK, SimTypeOK, Entries
<1>8. Counts'
  BY <1>1, <1>2, <1>4 DEF IInv, Counts, Running
<1> QED
  BY <1>5, <1>6, <1>7, <1>8 DEF IInv

(* How far the window slides: not past last.                               *)
LEMMA AckedRun ==
    ASSUME IInv
    PROVE  AckedBehind \in Slots
<1> DEFINE Run == {k \in 0..Behind :
                     \A j \in 1..k :
                        A_packets[Reached(window_start, j)].ack = 1}
<1>1. Behind \in Slots
  BY Rings, OffsetOfSlot DEF Behind, Offset
<1>2. Behind \in Nat /\ 0..Behind \subseteq Slots
  BY <1>1, WindowSize DEF Slots
<1>3. Run \in SUBSET (0..Behind) /\ 0 \in Run
  BY <1>2
<1>4. AckedBehind = CHOOSE k \in Run : \A j \in Run : j <= k
  BY DEF AckedBehind
<1> HIDE DEF Run
<1>5. AckedBehind \in Run
  BY <1>2, <1>3, <1>4, GreatestIsChosen
<1> QED
  BY <1>2, <1>3, <1>5

LEMMA SlideWindowStep == IInv /\ SlideWindow => IInv'
<1> SUFFICES ASSUME IInv, SlideWindow PROVE IInv'
  OBVIOUS
<1> DEFINE count == pkt_in_window - 1 - AckedBehind
<1>1. /\ exit_code = 0 /\ toA # << >> /\ toA' = Tail(toA)
      /\ count >= -MaxDrift
      /\ window_start' = Reached(window_start, AckedBehind + 1)
      /\ last' \in {window_start', last}
      /\ Refill(last', Acked(window_start), count)
      /\ UNCHANGED <<timer, is_timer_off,
                     cur_msg_sent, cur_msg_recv, exit_code, B_vars>>
  BY DEF SlideWindow, ArrivesAtA, Running
<1>2. UNCHANGED <<B_seqnum, B_packets, window_start_B>>
  BY <1>1 DEF B_vars
<1>3. AckedBehind \in 0..WINDOW-1
  BY AckedRun DEF Slots
<1>4. window_start' \in Slots /\ last' \in Slots
  <2>1. AckedBehind + 1 \in 0..WINDOW
    BY <1>3, WindowSize
  <2>2. window_start' \in Slots
    BY <1>1, <2>1, Rings, ReachedSlot
  <2> QED
    BY <1>1, <2>2, Rings
<1>5. /\ A_packets' \in [Slots -> Entries]
      /\ pkt_in_window' \in -MaxDrift..WINDOW
      /\ A_seqnum' \in 0..MaxMsgs /\ list' \in Seq(Payloads)
      /\ A_seqnum' + Len(list') <= cur_msg_sent
      /\ toB' \in Seq(Packets) /\ Len(toB') <= MaxChan
  <2>1. Acked(window_start) \in [Slots -> Entries]
    BY Rings, AckedRing
  <2>2. count \in Int /\ -MaxDrift <= count /\ count < WINDOW
    <3>1. count >= -MaxDrift
      BY <1>1
    <3> QED
      BY <1>3, <3>1, WindowCount, WindowSize
  <2> HIDE DEF count
  <2> QED
    BY <1>1, <1>4, <2>1, <2>2, RefillStep
<1> HIDE DEF count
<1>6. timer' \in BOOLEAN /\ is_timer_off' \in {0, 1} /\ TimerFlagExact'
  BY <1>1, Rings DEF IInv, TimerFlagExact
<1>7. toA' \in Seq(Packets) /\ Len(toA') <= MaxChan
      /\ ReceiverWindow' /\ AckMeansReceived'
  BY <1>1, ReceiverUntouched
<1>8. TypeOK'
  BY <1>1, <1>2, <1>4, <1>5, <1>6, <1>7
     DEF IInv, TypeOK, SimTypeOK, Entries
<1>9. Counts'
  BY <1>1, <1>2, <1>5 DEF IInv, Counts, Running
<1> QED
  BY <1>6, <1>7, <1>8, <1>9 DEF IInv

LEMMA NoteAckStep == IInv /\ NoteAck => IInv'
<1> SUFFICES ASSUME IInv, NoteAck PROVE IInv'
  OBVIOUS
<1>1. /\ exit_code = 0 /\ toA # << >> /\ toA' = Tail(toA)
      /\ \E slot \in BehindStart : A_packets' = Acked(slot)
      /\ UNCHANGED <<toB, timer, cur_msg_sent, cur_msg_recv, exit_code,
                     A_seqnum, pkt_in_window, window_start, last,
                     is_timer_off, list, B_vars>>
  BY DEF NoteAck, ArrivesAtA, Running
<1>2. UNCHANGED <<B_seqnum, B_packets, window_start_B>>
  BY <1>1 DEF B_vars
<1>3. BehindStart \subseteq Slots
  <2> SUFFICES ASSUME NEW j \in 1..Behind
               PROVE  Reached(window_start, j) \in Slots
    BY DEF BehindStart
  <2>1. Behind \in Slots
    BY Rings, OffsetOfSlot DEF Behind, Offset
  <2>2. j \in 0..WINDOW
    BY <2>1, WindowSize DEF Slots
  <2> QED
    BY <2>2, Rings, ReachedSlot
<1>4. A_packets' \in [Slots -> Entries]
  BY <1>1, <1>3, AckedRing
<1>5. toA' \in Seq(Packets) /\ Len(toA') <= MaxChan
      /\ ReceiverWindow' /\ AckMeansReceived'
  BY <1>1, ReceiverUntouched
<1>6. TypeOK'
  BY <1>1, <1>2, <1>4, <1>5 DEF IInv, TypeOK, SimTypeOK, Entries
<1> QED
  BY <1>1, <1>2, <1>5, <1>6 DEF IInv, Counts, Running, TimerFlagExact

LEMMA IgnoreAckStep == IInv /\ IgnoreAck => IInv'
<1> SUFFICES ASSUME IInv, IgnoreAck PROVE IInv'
  OBVIOUS
<1>1. /\ exit_code = 0 /\ toA # << >> /\ toA' = Tail(toA)
      /\ UNCHANGED <<toB, timer, cur_msg_sent, cur_msg_recv, exit_code,
                     A_vars, B_vars>>
  BY DEF IgnoreAck, ArrivesAtA, Running
<1>2. UNCHANGED <<B_seqnum, B_packets, window_start_B, A_seqnum,
                  pkt_in_window, A_packets, window_start, last,
                  is_timer_off, list>>
  BY <1>1 DEF A_vars, A_ring, B_vars
<1>3. toA' \in Seq(Packets) /\ Len(toA') <= MaxChan
      /\ ReceiverWindow' /\ AckMeansReceived'
  BY <1>1, ReceiverUntouched
<1>4. TypeOK'
  BY <1>1, <1>2, <1>3 DEF IInv, TypeOK, SimTypeOK
<1> QED
  BY <1>1, <1>2, <1>3, <1>4 DEF IInv, Counts, Running, TimerFlagExact

(* What A_timerinterrupt sends again are packets of the ring.              *)
LEMMA ResentPackets ==
    ASSUME IInv, NEW due \in DueInOrder
    PROVE  /\ Len(Resent(due)) \in Nat
           /\ \A i \in 1..Len(Resent(due)) : Resent(due)[i] \in Packets
<1> DEFINE n == Cardinality(DueOffsets)
<1>1. Behind \in Slots
  BY Rings, OffsetOfSlot DEF Behind, Offset
<1>2. n \in Nat
  <2>1. Behind \in Int /\ IsFiniteSet(0..Behind)
    BY <1>1, FS_Interval, Numbers DEF Slots
  <2>2. DueOffsets \subseteq 0..Behind
    BY DEF DueOffsets
  <2>3. IsFiniteSet(DueOffsets)
    BY <2>1, <2>2, FS_Subset
  <2> QED
    BY <2>3, FS_CardinalityType
<1> HIDE DEF n
<1>3. due \in [1..n -> DueOffsets]
  BY DEF DueInOrder, n
<1>4. \A i \in 1..n : ResentFor(Reached(window_start, due[i])) \in Packets
  <2> TAKE i \in 1..n
  <2>1. due[i] \in 0..Behind
    BY <1>3 DEF DueOffsets
  <2>2. due[i] \in 0..WINDOW
    BY <1>1, <2>1, WindowSize DEF Slots
  <2>3. Reached(window_start, due[i]) \in Slots
    BY <2>2, Rings, ReachedSlot
  <2>4. \A slot \in Slots : A_packets[slot].pi \in Packets
    BY Rings DEF Entries
  <2> QED
    BY <2>3, <2>4, Rings DEF ResentFor
<1>5. Resent(due)
        = [i \in 1..n |-> ResentFor(Reached(window_start, due[i]))]
  BY <1>3 DEF Resent
<1>6. Resent(due) \in [1..n -> Packets]
  BY <1>4, <1>5
<1> QED
  BY <1>2, <1>6

LEMMA TimerStep == IInv /\ A_timerinterrupt => IInv'
<1> SUFFICES ASSUME IInv, A_timerinterrupt PROVE IInv'
  OBVIOUS
<1>1. /\ exit_code = 0 /\ timer /\ timer' = TRUE
      /\ A_packets' = [slot \in Slots |->
                          [A_packets[slot] EXCEPT
                              !.timeover = IF Due(slot) THEN TIMEOUT
                                                        ELSE TicksLeft(slot)]]
      /\ \E due \in DueInOrder : toB' \in tolayer3Each(toB, Resent(due))
      /\ UNCHANGED <<toA, cur_msg_sent, cur_msg_recv, exit_code, A_seqnum,
                     pkt_in_window, window_start, last, is_timer_off, list,
                     B_vars>>
  BY DEF A_timerinterrupt, TimerGoesOff, Running, starttimer
<1>2. UNCHANGED <<B_seqnum, B_packets, window_start_B>>
  BY <1>1 DEF B_vars
<1>3. A_packets' \in [Slots -> Entries]
  <2> SUFFICES ASSUME NEW slot \in Slots
               PROVE  [A_packets[slot] EXCEPT
                         !.timeover = IF Due(slot) THEN TIMEOUT
                                                   ELSE TicksLeft(slot)]
                        \in Entries
    BY <1>1
  <2>1. A_packets[slot] \in Entries
    BY Rings
  <2>2. TIMEOUT \in -1..TIMEOUT /\ TicksLeft(slot) \in -1..TIMEOUT
    BY <2>1, TimeoutAssumption DEF Entries, TicksLeft
  <2> QED
    BY <2>1, <2>2 DEF Entries
<1>4. toB' \in Seq(Packets) /\ Len(toB') <= MaxChan
  <2>1. PICK due \in DueInOrder : toB' \in tolayer3Each(toB, Resent(due))
    BY <1>1
  <2>2. /\ Len(Resent(due)) \in Nat
        /\ \A i \in 1..Len(Resent(due)) : Resent(due)[i] \in Packets
    BY ResentPackets
  <2>3. toB \in Seq(Packets) /\ Len(toB) <= MaxChan
    BY Channels
  <2>4. toB' \in Seq(Packets)
    BY <2>1, <2>2, <2>3, Tolayer3EachCopies
  <2>5. Len(toB') <= MaxChan
    BY <2>1, <2>2, <2>3, Tolayer3EachCopies
  <2> QED
    BY <2>4, <2>5
<1>5. toA' \in Seq(Packets) /\ Len(toA') <= MaxChan
      /\ ReceiverWindow' /\ AckMeansReceived'
  BY <1>1, ReceiverUntouched
<1>6. TypeOK'
  BY <1>1, <1>2, <1>3, <1>4, <1>5 DEF IInv, TypeOK, SimTypeOK, Entries
<1> QED
  BY <1>1, <1>2, <1>5, <1>6 DEF IInv, Counts, Running, TimerFlagExact
-----------------------------------------------------------------------------
(* The receiver: B_input.                                                  *)
LEMMA ArrivalAtB ==
    ASSUME IInv, toB # << >>
    PROVE  /\ pkt2B \in Packets
           /\ pkt2B.seqnum \in Int /\ pkt2B.payload \in [first : Int, rest : Int]
           /\ Tail(toB) \in Seq(Packets) /\ Len(Tail(toB)) <= MaxChan
<1>1. /\ Tail(toB) \in Seq(Packets) /\ Len(Tail(toB)) = Len(toB) - 1
      /\ pkt2B \in Packets
  BY Channels, TailOfChannel DEF pkt2B
<1>2. Len(toB) - 1 <= MaxChan
  BY Channels, MaxChanAssumption
<1> QED
  BY <1>1, <1>2 DEF Packets

(* The acknowledgements under way after a reply: those before it, and one  *)
(* for the packet that arrived.                                            *)
LEMMA AcksAfterReply ==
    ASSUME IInv, toB # << >>, Reply
    PROVE  /\ toA' \in Seq(Packets) /\ Len(toA') <= MaxChan
           /\ \A i \in 1..Len(toA') : Intact(toA'[i]) =>
                 \/ \E j \in 1..Len(toA) : toA'[i] = toA[j]
                 \/ toA'[i].acknum = pkt2B.seqnum
<1> DEFINE n == pkt2B.seqnum
           d == pkt2B.payload
           reply == Seal(n, n, d)
<1>1. n \in Int /\ d \in [first : Int, rest : Int]
  BY ArrivalAtB
<1>2. toA' \in tolayer3(toA, reply)
  BY DEF Reply, AckOf
<1> HIDE DEF n, d
<1>3. reply \in Packets /\ reply.acknum = n
  BY <1>1 DEF Seal, Packets
<1>4. \A fate \in Fates : Intact(Damage(reply, fate)) =>
                           Damage(reply, fate) = reply
  BY <1>1, IntactCopy
<1> HIDE DEF reply
<1>5. /\ toA' \in Seq(Packets) /\ Len(toA') <= MaxChan
      /\ \A i \in 1..Len(toA') :
            \/ \E j \in 1..Len(toA) : toA'[i] = toA[j]
            \/ \E fate \in Fates : toA'[i] = Damage(reply, fate)
  BY <1>2, <1>3, Channels, Tolayer3Copies
<1>6. \A i \in 1..Len(toA') : Intact(toA'[i]) =>
         \/ \E j \in 1..Len(toA) : toA'[i] = toA[j]
         \/ toA'[i].acknum = n
  BY <1>3, <1>4, <1>5
<1> QED
  BY <1>5, <1>6 DEF n

(* BHas, with B's two variables as arguments.                              *)
Has(n, expected, ring) ==
    \/ n < expected
    \/ n > expected /\ \E slot \in Slots : /\ ring[slot].timeover = n
                                           /\ ring[slot].pi.seqnum = n

(* A reply for a packet that B has keeps every acknowledgement true, if B  *)
(* still has what it had.                                                  *)
LEMMA RepliesAreTrue ==
    ASSUME IInv, toB # << >>, Reply,
           Has(pkt2B.seqnum, B_seqnum', B_packets'),
           \A n \in Int : Has(n, B_seqnum, B_packets)
                            => Has(n, B_seqnum', B_packets')
    PROVE  AckMeansReceived'
<1> SUFFICES ASSUME NEW i \in 1..Len(toA'), Intact(toA'[i])
             PROVE  Has(toA'[i].acknum, B_seqnum', B_packets')
  BY DEF AckMeansReceived, BHas, Has
<1>1. CASE \E j \in 1..Len(toA) : toA'[i] = toA[j]
  <2>1. PICK j \in 1..Len(toA) : toA'[i] = toA[j]
    BY <1>1
  <2>2. Has(toA[j].acknum, B_seqnum, B_packets)
    BY <2>1 DEF IInv, AckMeansReceived, BHas, Has
  <2>3. toA[j].acknum \in Int
    <3>1. toA[j] \in Packets
      BY Channels
    <3> QED
      BY <3>1 DEF Packets
  <2> QED
    BY <2>1, <2>2, <2>3
<1>2. CASE toA'[i].acknum = pkt2B.seqnum
  BY <1>2
<1> QED
  BY <1>1, <1>2, AcksAfterReply

LEMMA DropPacketStep == IInv /\ DropPacket => IInv'
<1> SUFFICES ASSUME IInv, DropPacket PROVE IInv'
  OBVIOUS
<1>1. /\ exit_code = 0 /\ toB # << >> /\ toB' = Tail(toB)
      /\ UNCHANGED <<toA, timer, cur_msg_sent, cur_msg_recv, exit_code,
                     A_vars, B_vars>>
  BY DEF DropPacket, ArrivesAtB, Running
<1>2. UNCHANGED <<B_seqnum, B_packets, window_start_B, A_seqnum,
                  pkt_in_window, A_packets, window_start, last,
                  is_timer_off, list>>
  BY <1>1 DEF A_vars, A_ring, B_vars
<1>3. ReceiverWindow' /\ AckMeansReceived'
  BY <1>1, ReceiverUntouched
<1>4. TypeOK'
  BY <1>1, <1>2, ArrivalAtB DEF IInv, TypeOK, SimTypeOK
<1> QED
  BY <1>1, <1>2, <1>3, <1>4 DEF IInv, Counts, Running, TimerFlagExact

LEMMA AckOldPacketStep == IInv /\ AckOldPacket => IInv'
<1> SUFFICES ASSUME IInv, AckOldPacket PROVE IInv'
  OBVIOUS
<1>1. /\ exit_code = 0 /\ toB # << >> /\ toB' = Tail(toB)
      /\ pkt2B.seqnum < B_seqnum /\ Reply
      /\ UNCHANGED <<timer, cur_msg_sent, cur_msg_recv, exit_code,
                     A_vars, B_vars>>
  BY DEF AckOldPacket, ArrivesAtB, Running, Old
<1>2. UNCHANGED <<B_seqnum, B_packets, window_start_B, A_seqnum,
                  pkt_in_window, A_packets, window_start, last,
                  is_timer_off, list>>
  BY <1>1 DEF A_vars, A_ring, B_vars
<1>3. AckMeansReceived'
  <2>1. Has(pkt2B.seqnum, B_seqnum', B_packets')
    BY <1>1, <1>2 DEF Has
  <2>2. \A n \in Int : Has(n, B_seqnum, B_packets)
                         => Has(n, B_seqnum', B_packets')
    BY <1>2
  <2> QED
    BY <1>1, <2>1, <2>2, RepliesAreTrue
<1>4. TypeOK'
  BY <1>1, <1>2, AcksAfterReply, ArrivalAtB DEF IInv, TypeOK, SimTypeOK
<1> QED
  BY <1>1, <1>2, <1>3, <1>4
     DEF IInv, Counts, Running, TimerFlagExact, ReceiverWindow

LEMMA StorePacketStep == IInv /\ StorePacket => IInv'
<1> SUFFICES ASSUME IInv, StorePacket PROVE IInv'
  OBVIOUS
<1>1. /\ exit_code = 0 /\ toB # << >> /\ toB' = Tail(toB)
      /\ pkt2B.seqnum > B_seqnum /\ Reply
      /\ \E slot \in SlotsFor(pkt2B) :
            B_packets' = [B_packets EXCEPT ![slot].pi = pkt2B]
      /\ UNCHANGED <<timer, cur_msg_sent, cur_msg_recv, exit_code,
                     A_vars, B_seqnum, window_start_B>>
  BY DEF StorePacket, ArrivesAtB, Running, Early
<1>2. UNCHANGED <<A_seqnum, pkt_in_window, A_packets, window_start, last,
                  is_timer_off, list>>
  BY <1>1 DEF A_vars, A_ring
<1>3. PICK home \in Slots :
        /\ B_packets[home].timeover = pkt2B.seqnum
        /\ B_packets' = [B_packets EXCEPT ![home].pi = pkt2B]
  BY <1>1 DEF SlotsFor
<1>4. \A slot \in Slots :
         /\ B_packets'[slot] \in Places
         /\ B_packets'[slot].timeover = B_packets[slot].timeover
         /\ B_packets'[slot].pi = IF slot = home THEN pkt2B
                                                 ELSE B_packets[slot].pi
  <2> TAKE slot \in Slots
  <2>1. B_packets[slot] \in Places /\ B_packets \in [Slots -> Places]
    BY Rings
  <2>2. pkt2B \in Packets
    BY <1>1, ArrivalAtB
  <2>3. B_packets'[slot] = IF slot = home
                           THEN [B_packets[slot] EXCEPT !.pi = pkt2B]
                           ELSE B_packets[slot]
    BY <1>3, <2>1
  <2> QED
    BY <2>1, <2>2, <2>3 DEF Places
<1>5. B_packets' \in [Slots -> Places]
  <2>1. DOMAIN B_packets' = Slots
            /\ B_packets' = [slot \in Slots |-> B_packets'[slot]]
    BY <1>3, Rings
  <2> QED
    BY <1>4, <2>1
<1>6. ReceiverWindow'
  <2> SUFFICES ASSUME NEW i \in Slots
               PROVE  B_packets'[Reached(window_start_B, i)].timeover
                        = B_seqnum + i
    BY <1>1 DEF ReceiverWindow, Reached
  <2>1. Reached(window_start_B, i) \in Slots
    <3>1. i \in 0..WINDOW
      BY WindowSize DEF Slots
    <3> QED
      BY <3>1, Rings, ReachedSlot
  <2> QED
    BY <2>1, <1>4 DEF IInv, ReceiverWindow
<1>7. AckMeansReceived'
  <2>1. Has(pkt2B.seqnum, B_seqnum', B_packets')
    BY <1>1, <1>3, <1>4 DEF Has
  <2>2. \A n \in Int : Has(n, B_seqnum, B_packets)
                         => Has(n, B_seqnum', B_packets')
    BY <1>1, <1>3, <1>4 DEF Has
  <2> QED
    BY <1>1, <2>1, <2>2, RepliesAreTrue
<1>8. TypeOK'
  BY <1>1, <1>2, <1>5, AcksAfterReply, ArrivalAtB
     DEF IInv, TypeOK, SimTypeOK, Places
<1> QED
  BY <1>1, <1>2, <1>6, <1>7, <1>8 DEF IInv, Counts, Running, TimerFlagExact

(* StoredBehind stops at the first gap: the slots up to it hold the next   *)
(* packets and the one after it does not.                                  *)
LEMMA StoredRun ==
    ASSUME IInv
    PROVE  /\ StoredBehind \in 0..WINDOW-1
           /\ StoredBehind + 1 \in Slots =>
                 B_packets[Reached(window_start_B, StoredBehind + 1)].pi.seqnum
                   # B_seqnum + (StoredBehind + 1)
<1> DEFINE Holds(j) == B_packets[Reached(window_start_B, j)].pi.seqnum
                         = B_seqnum + j
           Run == {k \in Slots : \A j \in 1..k : Holds(j)}
<1>1. StoredBehind = CHOOSE k \in Run : \A j \in Run : j <= k
  BY DEF StoredBehind
<1>2. Run \in SUBSET (0..WINDOW-1) /\ 0 \in Run /\ WINDOW - 1 \in Nat
  BY WindowSize DEF Slots
<1>3. StoredBehind \in Run /\ \A j \in Run : j <= StoredBehind
  <2> HIDE DEF Run
  <2> QED
    BY <1>1, <1>2, GreatestIsChosen
<1>4. ASSUME StoredBehind + 1 \in Slots, Holds(StoredBehind + 1)
      PROVE  FALSE
  <2>1. StoredBehind \in Nat /\ \A j \in 1..StoredBehind : Holds(j)
    BY <1>3 DEF Slots
  <2> HIDE DEF Holds
  <2>2. \A j \in 1..StoredBehind + 1 : Holds(j)
    BY <1>4, <2>1
  <2>3. StoredBehind + 1 \in Run
    BY <1>4, <2>2
  <2> QED
    BY <1>3, <2>1, <2>3
<1> QED
  BY <1>3, <1>4 DEF Slots

(* Layer 5 takes the released packets until it refuses one.                *)
LEMMA RefusedStep ==
    ASSUME IInv, DeliverPackets, Refused # {}
    PROVE  IInv'
<1> DEFINE k == CHOOSE j \in Refused : \A i \in Refused : j <= i
<1>1. /\ exit_code = 0 /\ toB # << >> /\ toB' = Tail(toB)
      /\ exit_code' = tolayer5(cur_msg_recv + k, Released[k])
      /\ cur_msg_recv' = cur_msg_recv + k
      /\ UNCHANGED <<toA, B_vars, timer, cur_msg_sent, A_vars>>
  BY DEF DeliverPackets, ArrivesAtB, Running
<1>2. UNCHANGED <<B_seqnum, B_packets, window_start_B, A_seqnum,
                  pkt_in_window, A_packets, window_start, last,
                  is_timer_off, list>>
  BY <1>1 DEF A_vars, A_ring, B_vars
<1>3. DOMAIN Released = 0..StoredBehind /\ StoredBehind \in Nat
  BY StoredRun DEF Released
<1>4. Refused \in SUBSET Nat
  BY <1>3 DEF Refused
<1>5. k \in Refused /\ \A i \in Refused : k <= i
  BY <1>4, LeastIsChosen
<1> HIDE DEF k
<1>6. k \in 0..StoredBehind /\ tolayer5(cur_msg_recv + k, Released[k]) # 0
  BY <1>3, <1>5 DEF Refused
<1>7. exit_code' \in {NonExistent, Unexpected}
  BY <1>1, <1>6 DEF tolayer5
<1>8. cur_msg_recv' \in Nat /\ cur_msg_recv' <= cur_msg_sent
  <2>1. CASE k = 0
    BY <2>1, <1>1, Numbers
  <2>2. CASE k # 0
    <3>1. k - 1 \in 0..StoredBehind /\ k - 1 \notin Refused
      BY <1>3, <1>5, <1>6, <2>2
    <3>2. tolayer5(cur_msg_recv + (k - 1), Released[k - 1]) = 0
      BY <1>3, <3>1 DEF Refused
    <3>3. cur_msg_recv + (k - 1) < cur_msg_sent
      <4>1. ~(cur_msg_recv + (k - 1) >= cur_msg_sent)
        BY <3>2 DEF tolayer5, NonExistent
      <4> QED
        BY <4>1, <1>3, <1>6, Numbers
    <3> QED
      BY <1>1, <1>3, <1>6, <3>3, Numbers
  <2> QED
    BY <2>1, <2>2
<1>9. ReceiverWindow' /\ AckMeansReceived'
  BY <1>1, ReceiverUntouched
<1>10. TypeOK'
  <2>1. cur_msg_recv' \in 0..MaxMsgs
    BY <1>8, Numbers
  <2> QED
    BY <2>1, <1>1, <1>2, <1>7, ArrivalAtB DEF IInv, TypeOK, SimTypeOK
<1>11. Counts'
  <2>1. exit_code' # 0
    BY <1>7 DEF NonExistent, Unexpected
  <2> QED
    BY <2>1, <1>1, <1>2, <1>8 DEF IInv, Counts, Running
<1> QED
  BY <1>1, <1>2, <1>9, <1>10, <1>11 DEF IInv, TimerFlagExact

(* The slots after n deliveries: the first n are renumbered.               *)
Renumbered(n, ring) ==
    /\ n \in 1..WINDOW
    /\ ring = [slot \in Slots |->
                 IF Offset(slot, window_start_B) < n
                 THEN [B_packets[slot] EXCEPT
                         !.timeover = NextFor(Offset(slot, window_start_B))]
                 ELSE B_packets[slot]]

LEMMA RenumberedSlot ==
    ASSUME IInv, NEW n, NEW ring, Renumbered(n, ring), NEW i \in Slots
    PROVE  LET slot == Reached(window_start_B, i)
           IN  /\ slot \in Slots
               /\ B_packets[slot].timeover = B_seqnum + i
               /\ i < n => ring[slot].timeover = B_seqnum + i + WINDOW
               /\ ~(i < n) => ring[slot] = B_packets[slot]
<1> DEFINE slot == Reached(window_start_B, i)
<1>1. slot \in Slots /\ window_start_B \in Slots
  <2>1. i \in 0..WINDOW
    BY WindowSize DEF Slots
  <2> QED
    BY <2>1, Rings, ReachedSlot
<1>2. Offset(slot, window_start_B) = i
  BY <1>1, SlotOfOffset
<1>3. B_packets[slot].timeover = B_seqnum + i
  BY DEF IInv, ReceiverWindow
<1> HIDE DEF slot
<1>4. B_packets[slot] \in Places
  BY <1>1, Rings
<1>5. ring[slot] = IF i < n
                   THEN [B_packets[slot] EXCEPT !.timeover = NextFor(i)]
                   ELSE B_packets[slot]
  BY <1>1, <1>2 DEF Renumbered
<1>6. i < n => ring[slot].timeover = B_seqnum + i + WINDOW
  BY <1>4, <1>5 DEF Places, NextFor
<1> QED
  BY <1>1, <1>3, <1>5, <1>6 DEF slot

LEMMA RenumberedType ==
    ASSUME IInv, NEW n, NEW ring, Renumbered(n, ring)
    PROVE  ring \in [Slots -> Places]
<1> SUFFICES ASSUME NEW slot \in Slots
             PROVE  (IF Offset(slot, window_start_B) < n
                     THEN [B_packets[slot] EXCEPT
                             !.timeover = NextFor(Offset(slot, window_start_B))]
                     ELSE B_packets[slot]) \in Places
  BY DEF Renumbered
<1>1. Offset(slot, window_start_B) \in Nat
  BY Rings, OffsetOfSlot DEF Slots
<1>2. NextFor(Offset(slot, window_start_B)) \in Nat
  BY <1>1, Numbers, WindowSize DEF NextFor
<1>3. B_packets[slot] \in Places
  BY Rings
<1> QED
  BY <1>2, <1>3 DEF Places

(* The window moves by the number of packets delivered.                    *)
LEMMA WindowMoves ==
    ASSUME IInv, NEW n, NEW ring, Renumbered(n, ring), NEW i \in Slots
    PROVE  ring[Reached(Reached(window_start_B, n), i)].timeover
             = (B_seqnum + n) + i
<1> DEFINE k == IF n + i < WINDOW THEN n + i ELSE n + i - WINDOW
<1>1. n \in 1..WINDOW /\ i \in 0..WINDOW-1 /\ B_seqnum \in Nat /\ WINDOW \in Nat
  BY Numbers, WindowSize DEF Renumbered, Slots
<1>2. k \in Slots
  BY <1>1 DEF Slots
<1>3. Reached(Reached(window_start_B, n), i) = Reached(window_start_B, k)
  BY <1>1, Rings, ReachedFurther
<1>4. ring[Reached(window_start_B, k)].timeover
        = IF k < n THEN B_seqnum + k + WINDOW ELSE B_seqnum + k
  <2> HIDE DEF k
  <2> QED
    BY <1>2, RenumberedSlot
<1>5. (IF k < n THEN B_seqnum + k + WINDOW ELSE B_seqnum + k)
        = (B_seqnum + n) + i
  BY <1>1
<1> QED
  BY <1>3, <1>4, <1>5

(* B has all it had once it has delivered the packets up to the first gap. *)
LEMMA DeliveryKeeps ==
    ASSUME IInv, NEW ring, Renumbered(StoredBehind + 1, ring),
           NEW m \in Int, Has(m, B_seqnum, B_packets)
    PROVE  Has(m, B_seqnum + (StoredBehind + 1), ring)
<1> DEFINE n == StoredBehind + 1
<1>1. n \in 1..WINDOW /\ B_seqnum \in Nat
  BY Numbers, WindowSize, StoredRun
<1>2. CASE m < B_seqnum + n
  BY <1>2 DEF Has
<1>3. CASE ~(m < B_seqnum + n)
  <2>1. m > B_seqnum
    BY <1>1, <1>3
  <2>2. PICK slot \in Slots : /\ B_packets[slot].timeover = m
                              /\ B_packets[slot].pi.seqnum = m
    BY <2>1, Numbers DEF Has
  <2> DEFINE i == Offset(slot, window_start_B)
  <2>3. i \in Slots /\ Reached(window_start_B, i) = slot
    BY Rings, OffsetOfSlot
  <2> HIDE DEF i
  <2>4. m = B_seqnum + i
    BY <2>2, <2>3, RenumberedSlot
  <2>5. i \in Int /\ i >= n
    BY <1>1, <1>3, <2>3, <2>4, Numbers DEF Slots
  <2>6. i # n
    BY <2>2, <2>3, <2>4, StoredRun
  <2>7. ring[slot] = B_packets[slot]
    <3>1. ~(i < n)
      BY <1>1, <2>5
    <3> QED
      BY <2>3, <3>1, RenumberedSlot
  <2>8. m > B_seqnum + n
    BY <1>1, <2>4, <2>5, <2>6
  <2> QED
    BY <2>2, <2>7, <2>8 DEF Has
<1> QED
  BY <1>2, <1>3

LEMMA AcceptedStep ==
    ASSUME IInv, DeliverPackets, Refused = {}
    PROVE  IInv'
<1> DEFINE n == StoredBehind + 1
<1>1. /\ exit_code = 0 /\ exit_code' = 0
      /\ toB # << >> /\ toB' = Tail(toB)
      /\ pkt2B.seqnum = B_seqnum /\ Reply
      /\ B_seqnum' = B_seqnum + n
      /\ cur_msg_recv' = cur_msg_recv + n
      /\ window_start_B' = Reached(window_start_B, n)
      /\ UNCHANGED <<timer, cur_msg_sent, A_vars>>
  BY DEF DeliverPackets, ArrivesAtB, Running, Expected
<1>2. UNCHANGED <<A_seqnum, pkt_in_window, A_packets, window_start, last,
                  is_timer_off, list>>
  BY <1>1 DEF A_vars, A_ring
<1>3. n \in 1..WINDOW
  BY WindowSize, StoredRun
<1>4. Renumbered(n, B_packets')
  BY <1>3 DEF DeliverPackets, Renumbered, Offset
<1>5. B_packets' \in [Slots -> Places]
  BY <1>4, RenumberedType
<1>6. cur_msg_recv + n <= cur_msg_sent
  <2>1. StoredBehind \in DOMAIN Released /\ StoredBehind \in Nat
    BY StoredRun DEF Released
  <2>2. tolayer5(cur_msg_recv + StoredBehind, Released[StoredBehind]) = 0
    BY <2>1 DEF Refused
  <2>3. ~(cur_msg_recv + StoredBehind >= cur_msg_sent)
    BY <2>2 DEF tolayer5, NonExistent
  <2> QED
    BY <2>1, <2>3, Numbers
<1>7. ReceiverWindow'
  <2> SUFFICES ASSUME NEW i \in Slots
               PROVE  B_packets'[Reached(Reached(window_start_B, n), i)].timeover
                        = (B_seqnum + n) + i
    BY <1>1 DEF ReceiverWindow, Reached
  <2> HIDE DEF n
  <2> QED
    BY <1>4, WindowMoves
<1>8. AckMeansReceived'
  <2>1. Has(pkt2B.seqnum, B_seqnum', B_packets')
    BY <1>1, <1>3, Numbers DEF Has
  <2>2. \A m \in Int : Has(m, B_seqnum, B_packets)
                         => Has(m, B_seqnum', B_packets')
    BY <1>1, <1>4, DeliveryKeeps
  <2> QED
    BY <1>1, <2>1, <2>2, RepliesAreTrue
<1> HIDE DEF n
<1>9. window_start_B' \in Slots
  BY <1>1, <1>3, Rings, ReachedSlot, Numbers
<1>10. cur_msg_recv' \in 0..MaxMsgs /\ B_seqnum' \in 0..MaxMsgs /\ Counts'
  <2>1. /\ B_seqnum = cur_msg_recv
        /\ B_seqnum' = B_seqnum + n /\ cur_msg_recv' = cur_msg_recv + n
        /\ cur_msg_sent' = cur_msg_sent
        /\ A_seqnum' = A_seqnum /\ list' = list
    BY <1>1, <1>2, Numbers
  <2> QED
    BY <2>1, <1>3, <1>6, Numbers DEF Counts, Running
<1>11. TypeOK'
  BY <1>1, <1>2, <1>5, <1>9, <1>10, AcksAfterReply, ArrivalAtB
     DEF IInv, TypeOK, SimTypeOK, Places
<1> QED
  BY <1>1, <1>2, <1>7, <1>8, <1>10, <1>11 DEF IInv, TimerFlagExact

LEMMA StepInvariant == IInv /\ [Next]_vars => IInv'
<1> SUFFICES ASSUME IInv, [Next]_vars PROVE IInv'
  OBVIOUS
<1>1. CASE A_output
  BY <1>1, BufferMessageStep, SendMessageStep DEF A_output
<1>2. CASE A_input
  BY <1>2, EmptyWindowStep, SlideWindowStep, NoteAckStep, IgnoreAckStep
     DEF A_input
<1>3. CASE A_timerinterrupt
  BY <1>3, TimerStep
<1>4. CASE B_input
  <2>1. DeliverPackets => IInv'
    BY AcceptedStep, RefusedStep
  <2> QED
    BY <2>1, <1>4, StorePacketStep, AckOldPacketStep, DropPacketStep
       DEF B_input
<1>5. CASE UNCHANGED vars
  <2>1. UNCHANGED <<toA, toB, timer, cur_msg_sent, cur_msg_recv, exit_code>>
    BY <1>5 DEF vars, simVars
  <2>2. UNCHANGED <<A_seqnum, pkt_in_window, A_packets, window_start, last,
                    is_timer_off, list, B_vars>>
    BY <1>5 DEF vars, A_vars, A_ring
  <2>3. UNCHANGED <<B_seqnum, B_packets, window_start_B>>
    BY <2>2 DEF B_vars
  <2>4. ReceiverWindow' /\ AckMeansReceived'
    BY <2>1, <2>2, ReceiverUntouched
  <2> QED
    BY <2>1, <2>2, <2>3, <2>4
       DEF IInv, TypeOK, SimTypeOK, Counts, Running, TimerFlagExact
<1> QED
  BY <1>1, <1>2, <1>3, <1>4, <1>5 DEF Next
-----------------------------------------------------------------------------
(* IInv holds in every state sr.c's protocol reaches, on any network and   *)
(* whatever the sender does to its own ring.                               *)
THEOREM Invariant == Spec => []IInv
BY InitInvariant, StepInvariant, PTL DEF Spec

(* The variables stay within their types, every slot index in its ring.    *)
THEOREM TypeCorrect == Spec => []TypeOK
<1>1. IInv => TypeOK
  BY DEF IInv
<1> QED
  BY <1>1, Invariant, PTL

(* B's slots are numbered for the next WINDOW packets, in order, after any *)
(* mix of early, expected and old packets.                                 *)
THEOREM ReceiverKeepsItsWindow == Spec => []ReceiverWindow
<1>1. IInv => ReceiverWindow
  BY DEF IInv
<1> QED
  BY <1>1, Invariant, PTL

(* An intact acknowledgement under way to A names a packet that B has      *)
(* delivered or still stores.                                              *)
THEOREM AcknowledgedIsReceived == Spec => []AckMeansReceived
<1>1. IInv => AckMeansReceived
  BY DEF IInv
<1> QED
  BY <1>1, Invariant, PTL

(* is_timer_off is 1 exactly while the timer runs.                         *)
THEOREM TimerFlagIsExact == Spec => []TimerFlagExact
<1>1. IInv => TimerFlagExact
  BY DEF IInv
<1> QED
  BY <1>1, Invariant, PTL
=============================================================================
