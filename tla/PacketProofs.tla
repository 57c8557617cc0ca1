---------------------------- MODULE PacketProofs ----------------------------
(***************************************************************************)
(* What the protocols may rely on about layer 3: damage never escapes the  *)
(* checksum, and a call of tolayer3 adds at most one packet, at the end,   *)
(* which is the packet that was sent unless its checksum is wrong.         *)
(***************************************************************************)
EXTENDS Packet, SequenceTheorems, TLAPS

(* The packets the protocols build: both numbers are real ones, not the    *)
(* value corruption writes, and the payload is one layer 5 gave.           *)
Sealable(seqnum, acknum, payload) ==
    /\ seqnum \in Int /\ seqnum # BadNumber
    /\ acknum \in Int /\ acknum # BadNumber
    /\ payload \in Payloads

(* calc_checksum accepts a packet that was not touched.                    *)
LEMMA SealedIsIntact ==
    ASSUME NEW n \in Int, NEW a \in Int, NEW d \in Payloads
    PROVE  /\ Seal(n, a, d) \in Packets
           /\ Intact(Seal(n, a, d))
           /\ Seal(n, a, d).seqnum = n
           /\ Seal(n, a, d).acknum = a
           /\ Seal(n, a, d).payload = d
BY DEF Seal, Intact, calc_checksum, Packets, Payloads

(* Layer 5's messages are payloads, whatever their number.                 *)
LEMMA MessagesArePayloads ==
    ASSUME NEW k \in Int
    PROVE  MsgPayload(k) \in Payloads
<1>1. k % 26 \in 0..25
  OBVIOUS
<1> QED
  BY <1>1 DEF MsgPayload, Payloads

(* The additive checksum catches each corruption tolayer3 can make.        *)
LEMMA DamageIsDetected ==
    ASSUME NEW n, NEW a, NEW d, Sealable(n, a, d), NEW fate \in Corruptions
    PROVE  /\ Damage(Seal(n, a, d), fate) \in Packets
           /\ ~Intact(Damage(Seal(n, a, d), fate))
<1> DEFINE p == Seal(n, a, d)
<1>1. /\ n \in Int /\ n # 999999 /\ a \in Int /\ a # 999999
      /\ d \in [first : 97..122, rest : 97..122]
  BY DEF Sealable, BadNumber, Payloads
<1>2. p = [seqnum |-> n, acknum |-> a,
           checksum |-> d.first + 19 * d.rest + n + a, payload |-> d]
  BY DEF Seal
<1>3. CASE fate = "payload"
  <2>1. Damage(p, fate) = [p EXCEPT !.payload = [d EXCEPT !.first = 90]]
    BY <1>2, <1>3 DEF Damage, BadLetter
  <2> QED
    BY <1>1, <1>2, <2>1 DEF Intact, calc_checksum, Packets
<1>4. CASE fate = "seqnum"
  <2>1. Damage(p, fate) = [p EXCEPT !.seqnum = 999999]
    BY <1>4 DEF Damage, BadNumber
  <2> QED
    BY <1>1, <1>2, <2>1 DEF Intact, calc_checksum, Packets
<1>5. CASE fate = "acknum"
  <2>1. Damage(p, fate) = [p EXCEPT !.acknum = 999999]
    BY <1>5 DEF Damage, BadNumber
  <2> QED
    BY <1>1, <1>2, <2>1 DEF Intact, calc_checksum, Packets
<1> QED
  BY <1>3, <1>4, <1>5, CorruptionsAssumption DEF FieldsCorrupted

(* One call of tolayer3: the channel is as before, or one packet longer.   *)
LEMMA Tolayer3Appends ==
    ASSUME NEW chan \in Seq(Packets), Len(chan) <= MaxChan,
           NEW n, NEW a, NEW d, Sealable(n, a, d),
           NEW chan2 \in tolayer3(chan, Seal(n, a, d))
    PROVE  /\ chan2 \in Seq(Packets) /\ Len(chan2) <= MaxChan
           /\ \/ chan2 = chan
              \/ \E q \in Packets : /\ chan2 = Append(chan, q)
                                    /\ q = Seal(n, a, d) \/ ~Intact(q)
<1> DEFINE p == Seal(n, a, d)
<1>1. p \in Packets
  BY SealedIsIntact DEF Sealable
<1>2. CASE chan2 = chan
  BY <1>2
<1>3. CASE chan2 # chan
  <2>1. /\ Len(chan) < MaxChan
        /\ \E fate \in Fates : chan2 = Append(chan, Damage(p, fate))
    BY <1>3 DEF tolayer3
  <2>2. PICK fate \in Fates : chan2 = Append(chan, Damage(p, fate))
    BY <2>1
  <2>3. Damage(p, fate) \in Packets
        /\ (Damage(p, fate) = p \/ ~Intact(Damage(p, fate)))
    <3>1. CASE fate = "none"
      BY <3>1, <1>1 DEF Damage
    <3>2. CASE fate \in Corruptions
      BY <3>2, DamageIsDetected
    <3> QED
      BY <3>1, <3>2 DEF Fates
  <2>4. /\ Append(chan, Damage(p, fate)) \in Seq(Packets)
        /\ Len(Append(chan, Damage(p, fate))) = Len(chan) + 1
    BY <2>3
  <2> QED
    BY <2>1, <2>2, <2>3, <2>4, MaxChanAssumption
<1> QED
  BY <1>2, <1>3

(* A channel after one arrival, and after one packet more.                 *)
LEMMA TailOfChannel ==
    ASSUME NEW chan \in Seq(Packets), chan # << >>
    PROVE  /\ Tail(chan) \in Seq(Packets)
           /\ Len(Tail(chan)) = Len(chan) - 1
           /\ \A i \in 1..Len(Tail(chan)) :
                  i + 1 \in 1..Len(chan) /\ Tail(chan)[i] = chan[i + 1]
           /\ Head(chan) = chan[1] /\ Head(chan) \in Packets
           /\ 1 \in 1..Len(chan)
OBVIOUS

LEMMA AppendToChannel ==
    ASSUME NEW chan \in Seq(Packets), NEW q \in Packets
    PROVE  /\ Append(chan, q) \in Seq(Packets)
           /\ Len(Append(chan, q)) = Len(chan) + 1
           /\ \A i \in 1..Len(chan) : Append(chan, q)[i] = chan[i]
           /\ Append(chan, q)[Len(chan) + 1] = q
OBVIOUS

(* What an intact packet of a channel can be after one call of tolayer3.   *)
LEMMA Tolayer3Intact ==
    ASSUME NEW chan \in Seq(Packets), Len(chan) <= MaxChan,
           NEW n, NEW a, NEW d, Sealable(n, a, d),
           NEW chan2 \in tolayer3(chan, Seal(n, a, d)),
           NEW i \in 1..Len(chan2), Intact(chan2[i])
    PROVE  \/ \E j \in 1..Len(chan) : chan2[i] = chan[j]
           \/ chan2[i] = Seal(n, a, d)
<1>1. \/ chan2 = chan
      \/ \E q \in Packets : /\ chan2 = Append(chan, q)
                            /\ q = Seal(n, a, d) \/ ~Intact(q)
  BY Tolayer3Appends
<1>2. CASE \E q \in Packets : /\ chan2 = Append(chan, q)
                              /\ q = Seal(n, a, d) \/ ~Intact(q)
  <2>1. PICK q \in Packets : /\ chan2 = Append(chan, q)
                             /\ q = Seal(n, a, d) \/ ~Intact(q)
    BY <1>2
  <2>2. /\ Len(chan2) = Len(chan) + 1 /\ chan2[Len(chan) + 1] = q
        /\ \A j \in 1..Len(chan) : chan2[j] = chan[j]
    BY <2>1, AppendToChannel
  <2>3. i \in 1..Len(chan) \/ i = Len(chan) + 1
    BY <2>2
  <2> QED
    BY <2>1, <2>2, <2>3
<1> QED
  BY <1>1, <1>2

IsSealed(p) ==
    /\ p = Seal(p.seqnum, p.acknum, p.payload)
    /\ Sealable(p.seqnum, p.acknum, p.payload)

(* A packet after its fate: in a channel, and damaged if it is another.    *)
LEMMA FateOfPacket ==
    ASSUME NEW p, IsSealed(p), NEW fate \in Fates
    PROVE  /\ Damage(p, fate) \in Packets
           /\ Damage(p, fate) = p \/ ~Intact(Damage(p, fate))
<1> DEFINE n == p.seqnum
           a == p.acknum
           d == p.payload
<1>1. p = Seal(n, a, d) /\ Sealable(n, a, d)
  BY DEF IsSealed
<1> HIDE DEF n, a, d
<1>2. p \in Packets
  BY <1>1, SealedIsIntact DEF Sealable
<1>3. CASE fate = "none"
  BY <1>2, <1>3 DEF Damage
<1>4. CASE fate \in Corruptions
  BY <1>1, <1>4, DamageIsDetected
<1> QED
  BY <1>3, <1>4 DEF Fates

-----------------------------------------------------------------------------
(* The same for packets that are not sealed, like those of a slot that was *)
(* never written: the channel holds copies of them.                        *)
LEMMA DamagedCopy ==
    ASSUME NEW p \in Packets, NEW fate \in Fates
    PROVE  Damage(p, fate) \in Packets
<1>1. CASE fate = "none"
  BY <1>1 DEF Damage
<1>2. CASE fate = "payload"
  <2>1. p.payload \in [first : Int, rest : Int]
    BY DEF Packets
  <2>2. Damage(p, fate) = [p EXCEPT !.payload = [p.payload EXCEPT !.first = 90]]
    BY <1>2 DEF Damage, BadLetter
  <2> QED
    BY <2>1, <2>2 DEF Packets
<1>3. CASE fate = "seqnum"
  BY <1>3 DEF Damage, BadNumber, Packets
<1>4. CASE fate = "acknum"
  BY <1>4 DEF Damage, BadNumber, Packets
<1> QED
  BY <1>1, <1>2, <1>3, <1>4, CorruptionsAssumption DEF Fates, FieldsCorrupted

(* calc_checksum accepts a copy of a sealed packet only if it is the same. *)
LEMMA IntactCopy ==
    ASSUME NEW n \in Int, NEW a \in Int, NEW d \in [first : Int, rest : Int],
           NEW fate \in Fates, Intact(Damage(Seal(n, a, d), fate))
    PROVE  Damage(Seal(n, a, d), fate) = Seal(n, a, d)
<1> DEFINE p == Seal(n, a, d)
<1>1. p = [seqnum |-> n, acknum |-> a,
           checksum |-> d.first + 19 * d.rest + n + a, payload |-> d]
  BY DEF Seal
<1>2. CASE fate = "none"
  BY <1>2 DEF Damage
<1>3. CASE fate = "payload"
  <2>1. Damage(p, fate) = [p EXCEPT !.payload = [d EXCEPT !.first = 90]]
    BY <1>1, <1>3 DEF Damage, BadLetter
  <2>2. d.first = 90
    BY <1>1, <2>1 DEF Intact, calc_checksum
  <2>3. [d EXCEPT !.first = 90] = d
    BY <2>2
  <2> QED
    BY <1>1, <2>1, <2>3
<1>4. CASE fate = "seqnum"
  <2>1. Damage(p, fate) = [p EXCEPT !.seqnum = 999999]
    BY <1>4 DEF Damage, BadNumber
  <2>2. n = 999999
    BY <1>1, <2>1 DEF Intact, calc_checksum
  <2> QED
    BY <1>1, <2>1, <2>2
<1>5. CASE fate = "acknum"
  <2>1. Damage(p, fate) = [p EXCEPT !.acknum = 999999]
    BY <1>5 DEF Damage, BadNumber
  <2>2. a = 999999
    BY <1>1, <2>1 DEF Intact, calc_checksum
  <2> QED
    BY <1>1, <2>1, <2>2
<1> QED
  BY <1>2, <1>3, <1>4, <1>5, CorruptionsAssumption DEF Fates, FieldsCorrupted

LEMMA Tolayer3Copies ==
    ASSUME NEW chan \in Seq(Packets), Len(chan) <= MaxChan,
           NEW p \in Packets, NEW chan2 \in tolayer3(chan, p)
    PROVE  /\ chan2 \in Seq(Packets) /\ Len(chan2) <= MaxChan
           /\ \A i \in 1..Len(chan2) :
                 \/ \E j \in 1..Len(chan) : chan2[i] = chan[j]
                 \/ \E fate \in Fates : chan2[i] = Damage(p, fate)
<1>1. CASE chan2 = chan
  BY <1>1
<1>2. CASE chan2 # chan
  <2>1. /\ Len(chan) < MaxChan
        /\ \E fate \in Fates : chan2 = Append(chan, Damage(p, fate))
    BY <1>2 DEF tolayer3
  <2>2. PICK fate \in Fates : chan2 = Append(chan, Damage(p, fate))
    BY <2>1
  <2>3. Damage(p, fate) \in Packets
    BY DamagedCopy
  <2>4. /\ chan2 \in Seq(Packets) /\ Len(chan2) = Len(chan) + 1
        /\ \A i \in 1..Len(chan) : chan2[i] = chan[i]
        /\ chan2[Len(chan) + 1] = Damage(p, fate)
    BY <2>2, <2>3, AppendToChannel
  <2>5. Len(chan) \in Nat
    OBVIOUS
  <2>6. \A i \in 1..Len(chan2) : i \in 1..Len(chan) \/ i = Len(chan) + 1
    BY <2>4, <2>5
  <2> QED
    BY <2>1, <2>4, <2>5, <2>6, MaxChanAssumption
<1> QED
  BY <1>1, <1>2

LEMMA Tolayer3EachCopies ==
    ASSUME NEW chan \in Seq(Packets), Len(chan) <= MaxChan,
           NEW ps, Len(ps) \in Nat, \A i \in 1..Len(ps) : ps[i] \in Packets,
           NEW chan2 \in tolayer3Each(chan, ps)
    PROVE  /\ chan2 \in Seq(Packets) /\ Len(chan2) <= MaxChan
           /\ \A i \in 1..Len(chan2) :
                 \/ \E j \in 1..Len(chan) : chan2[i] = chan[j]
                 \/ \E j \in 1..Len(ps), fate \in Fates :
                       chan2[i] = Damage(ps[j], fate)
<1> DEFINE Sent(k, f, fate) == [i \in 1..k |-> Damage(ps[f[i]], fate[i])]
           After(k, f, fate) == chan \o Sent(k, f, fate)
           Outcomes(k) == {After(k, f, fate) :
                             f \in Increasing(k, Len(ps)),
                             fate \in [1..k -> Fates]}
           Counts == {n \in 0..Len(ps) : Len(chan) + n <= MaxChan}
<1>1. tolayer3Each(chan, ps) = UNION {Outcomes(k) : k \in Counts}
  BY DEF tolayer3Each
<1>2. PICK k \in Counts : chan2 \in Outcomes(k)
  <2> HIDE DEF Outcomes, Counts
  <2> QED
    BY <1>1
<1>3. PICK f \in Increasing(k, Len(ps)), fate \in [1..k -> Fates] :
        chan2 = After(k, f, fate)
  <2> HIDE DEF After, Counts
  <2> QED
    BY <1>2
<1> DEFINE sent == Sent(k, f, fate)
<1>4. k \in Nat /\ Len(chan) + k <= MaxChan
  BY <1>2
<1>5. \A i \in 1..k : /\ f[i] \in 1..Len(ps)
                      /\ sent[i] \in Packets
                      /\ \E g \in Fates : sent[i] = Damage(ps[f[i]], g)
  <2>1. f \in [1..k -> 1..Len(ps)]
    BY <1>3 DEF Increasing
  <2> TAKE i \in 1..k
  <2>2. f[i] \in 1..Len(ps) /\ fate[i] \in Fates
    BY <2>1, <1>3
  <2>3. ps[f[i]] \in Packets
    BY <2>2
  <2>4. sent[i] = Damage(ps[f[i]], fate[i])
    OBVIOUS
  <2> QED
    BY <2>2, <2>3, <2>4, DamagedCopy
<1>6. sent \in Seq(Packets) /\ Len(sent) = k
  <2>1. sent \in [1..k -> Packets]
    BY <1>5
  <2> HIDE DEF sent
  <2>2. sent \in Seq(Packets)
    BY <2>1, <1>4, SeqDef
  <2>3. DOMAIN sent = 1..Len(sent) /\ Len(sent) \in Nat
    BY <2>2, LenProperties
  <2> QED
    BY <2>1, <2>2, <2>3, <1>4
<1>7. chan2 = chan \o sent
  BY <1>3
<1> HIDE DEF sent
<1>8. /\ chan \o sent \in Seq(Packets)
      /\ Len(chan \o sent) = Len(chan) + k
      /\ \A i \in 1..Len(chan) + k :
            (chan \o sent)[i] = IF i <= Len(chan) THEN chan[i]
                                ELSE sent[i - Len(chan)]
  BY <1>6, ConcatProperties
<1>9. ASSUME NEW i \in 1..Len(chan2)
      PROVE  \/ \E j \in 1..Len(chan) : chan2[i] = chan[j]
             \/ \E j \in 1..Len(ps), g \in Fates :
                   chan2[i] = Damage(ps[j], g)
  <2>1. Len(chan) \in Nat /\ i \in 1..Len(chan) + k
    BY <1>7, <1>8
  <2>2. CASE i <= Len(chan)
    BY <2>1, <2>2, <1>7, <1>8
  <2>3. CASE ~(i <= Len(chan))
    <3>1. i - Len(chan) \in 1..k /\ chan2[i] = sent[i - Len(chan)]
      BY <2>1, <2>3, <1>7, <1>4, <1>8
    <3> QED
      BY <3>1, <1>5
  <2> QED
    BY <2>2, <2>3
<1> QED
  BY <1>7, <1>4, <1>8, <1>9

(* The same when a handler sends several packets.                          *)
LEMMA Tolayer3EachIntact ==
    ASSUME NEW chan \in Seq(Packets), Len(chan) <= MaxChan,
           NEW ps, Len(ps) \in Nat, \A i \in 1..Len(ps) : IsSealed(ps[i]),
           NEW chan2 \in tolayer3Each(chan, ps)
    PROVE  /\ chan2 \in Seq(Packets) /\ Len(chan2) <= MaxChan
           /\ \A i \in 1..Len(chan2) : Intact(chan2[i]) =>
                 \/ \E j \in 1..Len(chan) : chan2[i] = chan[j]
                 \/ \E j \in 1..Len(ps) : chan2[i] = ps[j]
<1>1. \A i \in 1..Len(ps) : ps[i] \in Packets
  BY SealedIsIntact DEF IsSealed, Sealable
<1>2. /\ chan2 \in Seq(Packets) /\ Len(chan2) <= MaxChan
      /\ \A i \in 1..Len(chan2) :
            \/ \E j \in 1..Len(chan) : chan2[i] = chan[j]
            \/ \E j \in 1..Len(ps), fate \in Fates :
                  chan2[i] = Damage(ps[j], fate)
  <2> HIDE DEF Packets, Damage
  <2>1. chan2 \in Seq(Packets)
    BY <1>1, Tolayer3EachCopies
  <2>2. Len(chan2) <= MaxChan
    BY <1>1, Tolayer3EachCopies
  <2>3. \A i \in 1..Len(chan2) :
            \/ \E j \in 1..Len(chan) : chan2[i] = chan[j]
            \/ \E j \in 1..Len(ps), fate \in Fates :
                  chan2[i] = Damage(ps[j], fate)
    BY <1>1, Tolayer3EachCopies
  <2> QED
    BY <2>1, <2>2, <2>3
<1>3. \A j \in 1..Len(ps), fate \in Fates :
         Damage(ps[j], fate) = ps[j] \/ ~Intact(Damage(ps[j], fate))
  BY FateOfPacket
<1> QED
  BY <1>2, <1>3
=============================================================================
