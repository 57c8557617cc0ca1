------------------------------- MODULE Packet -------------------------------
(***************************************************************************)
(* The data that crosses the layer 3/4 interface (simulator.h) and what    *)
(* layer 3 may do to it on the way (tolayer3 in simulator.c).              *)
(*                                                                         *)
(* A payload is 20 characters.  The simulator fills a message with twenty  *)
(* copies of one letter and corruption overwrites only the first, so a     *)
(* payload is kept as its first character and the letter of the other 19.  *)
(***************************************************************************)
EXTENDS Integers, Sequences

CONSTANTS
    Corruptions,    \* the fields tolayer3 may overwrite
    MaxChan         \* bound: packets in flight towards one entity

FieldsCorrupted == {"payload", "seqnum", "acknum"}

ASSUME CorruptionsAssumption == Corruptions \subseteq FieldsCorrupted
ASSUME MaxChanAssumption == MaxChan \in Nat \ {0}

DEFAULT_ACK == 111
BadNumber   == 999999      \* what a corrupted seqnum or acknum becomes
BadLetter   == 90          \* 'Z', what a corrupted payload starts with

(* The message layer 5 gives as number k: twenty times the letter k % 26.  *)
MsgPayload(k) == [first |-> 97 + (k % 26), rest |-> 97 + (k % 26)]

Payloads == [first : 97..122, rest : 97..122]

Packets == [seqnum : Int, acknum : Int, checksum : Int,
            payload : [first : Int, rest : Int]]

(* The sum every protocol computes over the 20 characters and both numbers *)
calc_checksum(p) ==
    p.payload.first + 19 * p.payload.rest + p.seqnum + p.acknum

Intact(p) == p.checksum = calc_checksum(p)

(* A packet with its checksum filled in, as A_output and B_input build it. *)
Seal(seqnum, acknum, payload) ==
    [seqnum   |-> seqnum,
     acknum   |-> acknum,
     checksum |-> payload.first + 19 * payload.rest + seqnum + acknum,
     payload  |-> payload]

(* The reply B sends for packet p: p itself, acknowledged and re-summed.   *)
AckOf(p) == Seal(p.seqnum, p.seqnum, p.payload)

Fates == {"none"} \cup Corruptions

(* Layer 3 corrupts its copy of p, never p's checksum.                     *)
Damage(p, fate) ==
    CASE fate = "none"    -> p
      [] fate = "payload" -> [p EXCEPT !.payload.first = BadLetter]
      [] fate = "seqnum"  -> [p EXCEPT !.seqnum = BadNumber]
      [] fate = "acknum"  -> [p EXCEPT !.acknum = BadNumber]

(***************************************************************************)
(* The contents `chan' may have after one call of tolayer3 with p: p is    *)
(* lost, or a copy of it, possibly damaged, joins the end of the channel   *)
(* ("medium can not reorder").  A full channel loses the packet: MaxChan   *)
(* bounds the model, and losing a packet is always allowed.                *)
(***************************************************************************)
tolayer3(chan, p) ==
    {chan} \cup (IF Len(chan) < MaxChan
                 THEN {Append(chan, Damage(p, fate)) : fate \in Fates}
                 ELSE {})

Increasing(k, n) ==
    {f \in [1..k -> 1..n] : \A i, j \in 1..k : i < j => f[i] < f[j]}

(* The same for a handler that calls tolayer3 with ps[1], ps[2], ... in    *)
(* turn: f picks the packets that survive, in order, fate what each meets. *)
tolayer3Each(chan, ps) ==
    UNION { { chan \o [i \in 1..k |-> Damage(ps[f[i]], fate[i])]
                : f \in Increasing(k, Len(ps)), fate \in [1..k -> Fates] }
            : k \in {n \in 0..Len(ps) : Len(chan) + n <= MaxChan} }
=============================================================================
