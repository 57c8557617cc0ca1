------------------------- MODULE MessageBufferProofs -------------------------
(***************************************************************************)
(* The linked list of abt.c, gbn.c and sr.c is a FIFO buffer, for any heap *)
(* and any messages, through failing mallocs and nodes that are reused.    *)
(***************************************************************************)
EXTENDS MessageBuffer, FiniteSetTheorems, SequenceTheorems, TLAPS

-----------------------------------------------------------------------------
(* The least number of a set.                                              *)
LEMMA MinIsLeast ==
    ASSUME NEW S \in SUBSET Nat, S # {}
    PROVE  Min(S) \in S /\ \A y \in S : Min(S) <= y
<1>1. \E x \in S : \A y \in S : ~(<<y, x>> \in OpToRel(<, Nat))
  <2> HIDE DEF OpToRel
  <2> QED
    BY NatLessThanWellFounded, WFMin
<1>2. PICK x \in S : \A y \in S : ~(<<y, x>> \in OpToRel(<, Nat))
  BY <1>1
<1>3. ASSUME NEW y \in S PROVE x <= y
  <2>1. ~(y < x)
    BY <1>2 DEF OpToRel
  <2> QED
    BY <2>1
<1> QED
  BY <1>3 DEF Min

-----------------------------------------------------------------------------
(* The walk along the next pointers.                                       *)
Place == Nodes \cup {NULL}

Heaps == [Nodes -> [message : Messages, next : Place]]

Most == Cardinality(Nodes) + 1

LEMMA MostIsNatural == Most \in Nat /\ Most > 0
BY NodesAssumption, FS_CardinalityType DEF Most

(* met is what the walk loads: the head, and pointer after pointer.        *)
Follows(met, n, head, memory) ==
    \A i \in 1..n :
        met[i] = IF i = 1 THEN head
                 ELSE IF met[i - 1] = NULL THEN NULL
                      ELSE memory[met[i - 1]].next

LEMMA SameWalk ==
    ASSUME NEW head, NEW memory, NEW n \in Nat,
           NEW f, Follows(f, n, head, memory), NEW g, Follows(g, n, head, memory)
    PROVE  \A i \in 1..n : f[i] = g[i]
<1> DEFINE S == {i \in 1..n : f[i] # g[i]}
<1> SUFFICES ASSUME S # {} PROVE FALSE
  OBVIOUS
<1> DEFINE m == Min(S)
<1>1. m \in S /\ \A k \in S : m <= k
  <2>1. S \in SUBSET Nat
    OBVIOUS
  <2> HIDE DEF S
  <2> QED
    BY <2>1, MinIsLeast
<1> HIDE DEF m
<1>2. m \in 1..n /\ f[m] # g[m]
  BY <1>1
<1>3. m = 1 \/ (m - 1 \in 1..n /\ f[m - 1] = g[m - 1])
  BY <1>1, <1>2
<1> QED
  BY <1>2, <1>3 DEF Follows

(* A chain that ends: its nodes, from the head on.                         *)
IsChain(s, head, memory) ==
    /\ s \in Seq(Nodes) /\ Len(s) <= Cardinality(Nodes)
    /\ head = IF s = << >> THEN NULL ELSE s[1]
    /\ \A i \in 1..Len(s) :
          memory[s[i]].next = IF i = Len(s) THEN NULL ELSE s[i + 1]

LEMMA ChainLength ==
    ASSUME NEW s, NEW head, NEW memory, IsChain(s, head, memory)
    PROVE  /\ s \in Seq(Nodes) /\ DOMAIN s = 1..Len(s)
           /\ Len(s) \in Nat /\ Len(s) + 1 \in 1..Most
           /\ \A i \in 1..Len(s) : s[i] \in Nodes /\ s[i] # NULL
           /\ Len(s) = 0 <=> s = << >>
<1>1. s \in Seq(Nodes) /\ Len(s) <= Cardinality(Nodes)
  BY DEF IsChain
<1>2. Len(s) \in Nat /\ DOMAIN s = 1..Len(s)
  BY <1>1, LenProperties
<1>3. Len(s) + 1 \in 1..Most
  BY <1>1, <1>2, MostIsNatural, NodesAssumption, FS_CardinalityType DEF Most
<1>4. \A i \in 1..Len(s) : s[i] \in Nodes /\ s[i] # NULL
  BY <1>1, ElementOfSeq, NodesAssumption
<1>5. Len(s) = 0 <=> s = << >>
  BY <1>1, EmptySeq
<1> QED
  BY <1>1, <1>2, <1>3, <1>4, <1>5

LEMMA ChainIsFollowed ==
    ASSUME NEW s, NEW head, NEW memory, IsChain(s, head, memory)
    PROVE  Follows([i \in 1..Most |-> IF i <= Len(s) THEN s[i] ELSE NULL],
                   Most, head, memory)
<1> DEFINE f == [i \in 1..Most |-> IF i <= Len(s) THEN s[i] ELSE NULL]
<1>1. /\ Len(s) \in Nat /\ Len(s) + 1 \in 1..Most
      /\ \A i \in 1..Len(s) : s[i] # NULL
      /\ Len(s) = 0 <=> s = << >>
  BY ChainLength
<1> SUFFICES ASSUME NEW i \in 1..Most
             PROVE  f[i] = IF i = 1 THEN head
                           ELSE IF f[i - 1] = NULL THEN NULL
                                ELSE memory[f[i - 1]].next
  BY DEF Follows
<1>2. CASE i = 1
  <2>1. f[1] = IF s = << >> THEN NULL ELSE s[1]
    BY <1>1, <1>2
  <2> QED
    BY <1>2, <2>1 DEF IsChain
<1>3. CASE i # 1 /\ i - 1 <= Len(s)
  <2>1. i - 1 \in 1..Len(s) /\ i - 1 \in 1..Most
    BY <1>1, <1>3, MostIsNatural
  <2>2. memory[s[i - 1]].next = IF i - 1 = Len(s) THEN NULL ELSE s[(i - 1) + 1]
    BY <2>1 DEF IsChain
  <2>3. f[i - 1] = s[i - 1] /\ s[i - 1] # NULL
    BY <1>1, <1>3, <2>1
  <2>4. f[i] = IF i - 1 = Len(s) THEN NULL ELSE s[i]
    BY <1>1, <1>3, <2>1
  <2> QED
    BY <1>3, <2>2, <2>3, <2>4
<1>4. CASE i # 1 /\ ~(i - 1 <= Len(s))
  <2>1. i - 1 \in 1..Most /\ ~(i <= Len(s))
    BY <1>1, <1>4, MostIsNatural
  <2> QED
    BY <1>4, <2>1
<1> QED
  BY <1>2, <1>3, <1>4

(* The walk meets the nodes of the chain.                                  *)
LEMMA WalkAlongChain ==
    ASSUME NEW s, NEW head, NEW memory, IsChain(s, head, memory)
    PROVE  NodesFrom(head, memory) = s
<1> DEFINE f == [i \in 1..Most |-> IF i <= Len(s) THEN s[i] ELSE NULL]
           met == CHOOSE met :
                     met = [i \in 1..Most |->
                              IF i = 1 THEN head
                              ELSE IF met[i - 1] = NULL THEN NULL
                                   ELSE memory[met[i - 1]].next]
           ends == {i \in 1..Most : met[i] = NULL}
           w == NodesFrom(head, memory)
<1>1. /\ s \in Seq(Nodes) /\ s = [i \in 1..Len(s) |-> s[i]]
      /\ Len(s) \in Nat /\ Len(s) + 1 \in 1..Most
      /\ \A i \in 1..Len(s) : s[i] # NULL
  BY ChainLength
<1>2. Follows(f, Most, head, memory)
  BY ChainIsFollowed
<1>3. f = [i \in 1..Most |->
             IF i = 1 THEN head
             ELSE IF f[i - 1] = NULL THEN NULL ELSE memory[f[i - 1]].next]
  BY <1>2 DEF Follows
<1>4. met = [i \in 1..Most |->
               IF i = 1 THEN head
               ELSE IF met[i - 1] = NULL THEN NULL
                    ELSE memory[met[i - 1]].next]
  <2> HIDE DEF f
  <2> QED
    BY <1>3
<1>5. w = [i \in 1..(IF ends = {} THEN Most ELSE Min(ends) - 1) |-> met[i]]
  BY DEF NodesFrom, Most
<1> HIDE DEF met, w
<1>6. Follows(met, Most, head, memory)
  BY <1>4 DEF Follows
<1>7. \A i \in 1..Most : met[i] = f[i]
  <2> HIDE DEF f
  <2> QED
    BY <1>2, <1>6, MostIsNatural, SameWalk
<1>8. \A i \in 1..Most : met[i] = IF i <= Len(s) THEN s[i] ELSE NULL
  BY <1>7
<1>9. Len(s) + 1 \in ends /\ \A i \in ends : i >= Len(s) + 1
  BY <1>1, <1>8, MostIsNatural
<1>10. Min(ends) = Len(s) + 1
  <2>1. ends \in SUBSET Nat
    OBVIOUS
  <2> HIDE DEF ends
  <2>2. Min(ends) \in ends /\ Min(ends) <= Len(s) + 1
    BY <1>9, <2>1, MinIsLeast
  <2> QED
    BY <1>1, <1>9, <2>1, <2>2
<1> HIDE DEF ends
<1>11. w = [i \in 1..Len(s) |-> met[i]]
  BY <1>1, <1>5, <1>9, <1>10
<1>12. \A i \in 1..Len(s) : met[i] = s[i]
  BY <1>1, <1>8, MostIsNatural
<1>13. w = s
  BY <1>1, <1>11, <1>12
<1> QED
  BY <1>13 DEF w

-----------------------------------------------------------------------------
(* A buffer b whose nodes, in order, are s.                                *)
Buffers == [heap : Heaps, allocated : SUBSET Nodes,
            head : Place, end : Place]

Holds(b, s) ==
    /\ IsChain(s, b.head, b.heap)
    /\ \A i \in 1..Len(s) : s[i] \in b.allocated
    /\ \A i, j \in 1..Len(s) : i # j => s[i] # s[j]
    /\ b.end = IF s = << >> THEN NULL ELSE s[Len(s)]

(* The messages in it.                                                     *)
Contents(b, s) == [i \in 1..Len(s) |-> b.heap[s[i]].message]

LEMMA ContentsType ==
    ASSUME NEW b \in Buffers, NEW s, Holds(b, s)
    PROVE  /\ Contents(b, s) \in Seq(Messages)
           /\ Len(Contents(b, s)) = Len(s)
           /\ \A i \in 1..Len(s) : Contents(b, s)[i] = b.heap[s[i]].message
<1>1. Len(s) \in Nat /\ \A i \in 1..Len(s) : s[i] \in Nodes
  BY ChainLength DEF Holds
<1>2. \A i \in 1..Len(s) : b.heap[s[i]].message \in Messages
  BY <1>1 DEF Buffers, Heaps
<1> QED
  BY <1>1, <1>2 DEF Contents

(* There is a node for one more than a buffer holds.                       *)
LEMMA FreeIsRoom ==
    ASSUME NEW b \in Buffers, NEW s, Holds(b, s),
           NEW node \in Nodes \ b.allocated
    PROVE  Len(s) + 1 <= Cardinality(Nodes)
<1> DEFINE T == Nodes \ {node}
           f == [i \in 1..Len(s) |-> s[i]]
<1>1. Len(s) \in Nat /\ \A i \in 1..Len(s) : s[i] \in Nodes
  BY ChainLength DEF Holds
<1>2. /\ IsFiniteSet(T) /\ Cardinality(T) = Cardinality(Nodes) - 1
      /\ Cardinality(Nodes) \in Nat
  BY NodesAssumption, FS_RemoveElement, FS_CardinalityType
<1>3. f \in Injection(1..Len(s), T)
  BY <1>1 DEF Holds, Injection, IsInjective
<1>4. Cardinality(1..Len(s)) <= Cardinality(T)
  BY <1>2, <1>3, FS_Injection
<1>5. Cardinality(1..Len(s)) = Len(s)
  <2>1. Cardinality(1..Len(s)) = IF 1 > Len(s) THEN 0 ELSE Len(s) - 1 + 1
    BY <1>1, FS_Interval
  <2> QED
    BY <1>1, <2>1
<1> HIDE DEF T
<1> QED
  BY <1>1, <1>2, <1>4, <1>5

(* What append_msg leaves in memory.                                       *)
LEMMA AppendMemory ==
    ASSUME NEW b \in Buffers, NEW m \in Messages,
           NEW node \in Nodes, node # b.end
    PROVE  /\ append_msg(b, m, node) \in Buffers
           /\ append_msg(b, m, node).allocated = b.allocated \cup {node}
           /\ append_msg(b, m, node).head = IF b.end = NULL THEN node
                                            ELSE b.head
           /\ append_msg(b, m, node).end = node
<1> DEFINE filled == [b.heap EXCEPT ![node] = [message |-> m, next |-> NULL]]
           after == IF b.end = NULL THEN filled
                    ELSE [filled EXCEPT ![b.end].next = node]
<1>1. node # NULL
  BY NodesAssumption
<1>2. append_msg(b, m, node) =
        [heap      |-> after,
         allocated |-> b.allocated \cup {node},
         head      |-> IF b.end = NULL THEN node ELSE b.head,
         end       |-> node]
  BY <1>1 DEF append_msg
<1>3. b.heap \in Heaps /\ b.head \in Place /\ b.end \in Place
      /\ b.allocated \subseteq Nodes
  BY DEF Buffers
<1>4. filled \in Heaps
  BY <1>3 DEF Heaps, Place
<1> HIDE DEF filled
<1>5. after \in Heaps
  <2>1. CASE b.end = NULL
    BY <1>4, <2>1, NodesAssumption
  <2>2. CASE b.end # NULL
    <3>1. b.end \in Nodes /\ after = [filled EXCEPT ![b.end].next = node]
      BY <1>3, <2>2 DEF Place
    <3> QED
      BY <1>4, <3>1 DEF Heaps, Place
  <2> QED
    BY <2>1, <2>2
<1> HIDE DEF after
<1>6. append_msg(b, m, node) \in Buffers
  BY <1>2, <1>3, <1>5 DEF Buffers, Place
<1> QED
  BY <1>2, <1>6

LEMMA AppendHeap ==
    ASSUME NEW b \in Buffers, NEW m \in Messages,
           NEW node \in Nodes, node # b.end
    PROVE  \A n \in Nodes :
                 append_msg(b, m, node).heap[n] =
                   IF n = node THEN [message |-> m, next |-> NULL]
                   ELSE IF n = b.end
                   THEN [message |-> b.heap[n].message, next |-> node]
                   ELSE b.heap[n]
<1> DEFINE filled == [b.heap EXCEPT ![node] = [message |-> m, next |-> NULL]]
           after == IF b.end = NULL THEN filled
                    ELSE [filled EXCEPT ![b.end].next = node]
<1>1. node # NULL
  BY NodesAssumption
<1>2. append_msg(b, m, node) =
        [heap      |-> after,
         allocated |-> b.allocated \cup {node},
         head      |-> IF b.end = NULL THEN node ELSE b.head,
         end       |-> node]
  BY <1>1 DEF append_msg
<1>3. b.heap \in Heaps /\ b.head \in Place /\ b.end \in Place
      /\ b.allocated \subseteq Nodes
  BY DEF Buffers
<1>4. /\ filled \in Heaps
      /\ \A n \in Nodes : filled[n] = IF n = node
                                      THEN [message |-> m, next |-> NULL]
                                      ELSE b.heap[n]
  BY <1>3 DEF Heaps, Place
<1> HIDE DEF filled
<1>5. /\ after \in Heaps
      /\ \A n \in Nodes :
            after[n] = IF n = b.end THEN [filled[n] EXCEPT !.next = node]
                       ELSE filled[n]
  <2>1. CASE b.end = NULL
    BY <1>4, <2>1, NodesAssumption
  <2>2. CASE b.end # NULL
    <3>1. b.end \in Nodes /\ after = [filled EXCEPT ![b.end].next = node]
      BY <1>3, <2>2 DEF Place
    <3> QED
      BY <1>4, <3>1 DEF Heaps, Place
  <2> QED
    BY <2>1, <2>2
<1> HIDE DEF after
<1>6. \A n \in Nodes : [b.heap[n] EXCEPT !.next = node]
                          = [message |-> b.heap[n].message, next |-> node]
  <2>1. \A n \in Nodes : b.heap[n] \in [message : Messages, next : Place]
    BY <1>3 DEF Heaps
  <2> QED
    BY <2>1
<1>7. \A n \in Nodes :
         after[n] = IF n = node THEN [message |-> m, next |-> NULL]
                    ELSE IF n = b.end
                    THEN [message |-> b.heap[n].message, next |-> node]
                    ELSE b.heap[n]
  <2> TAKE n \in Nodes
  <2>1. CASE n = node
    BY <1>4, <1>5, <2>1
  <2>2. CASE n # node /\ n = b.end
    <3>1. filled[n] = b.heap[n]
      BY <1>4, <2>2
    <3>2. after[n] = [filled[n] EXCEPT !.next = node]
      BY <1>5, <2>2
    <3>3. after[n] = [message |-> b.heap[n].message, next |-> node]
      BY <1>6, <3>1, <3>2
    <3> QED
      BY <2>2, <3>3
  <2>3. CASE n # node /\ n # b.end
    BY <1>4, <1>5, <2>3
  <2> QED
    BY <2>1, <2>2, <2>3
<1> QED
  BY <1>2, <1>7

(* append_msg puts the message behind the others.                          *)
LEMMA AppendHolds ==
    ASSUME NEW b \in Buffers, NEW s, Holds(b, s), NEW m \in Messages,
           NEW node \in Nodes \ b.allocated
    PROVE  /\ append_msg(b, m, node) \in Buffers
           /\ Holds(append_msg(b, m, node), Append(s, node))
           /\ Contents(append_msg(b, m, node), Append(s, node))
                = Append(Contents(b, s), m)
<1> DEFINE after == append_msg(b, m, node)
           t == Append(s, node)
<1>1. /\ s \in Seq(Nodes) /\ Len(s) \in Nat
      /\ \A i \in 1..Len(s) : s[i] \in Nodes /\ s[i] # NULL
      /\ Len(s) = 0 <=> s = << >>
  BY ChainLength DEF Holds
<1>2. /\ \A i \in 1..Len(s) : s[i] \in b.allocated /\ s[i] # node
      /\ \A i, j \in 1..Len(s) : i # j => s[i] # s[j]
      /\ b.end = IF s = << >> THEN NULL ELSE s[Len(s)]
      /\ b.head = IF s = << >> THEN NULL ELSE s[1]
      /\ \A i \in 1..Len(s) :
            b.heap[s[i]].next = IF i = Len(s) THEN NULL ELSE s[i + 1]
  BY DEF Holds, IsChain
<1>3. /\ t \in Seq(Nodes) /\ Len(t) = Len(s) + 1 /\ t # << >>
      /\ \A i \in 1..Len(s) : t[i] = s[i]
      /\ t[Len(s) + 1] = node
  BY <1>1, AppendProperties
<1>4. node # NULL /\ node \in Nodes /\ node # b.end
  <2>1. s # << >> => Len(s) \in 1..Len(s)
    BY <1>1
  <2> QED
    BY <1>2, <2>1, NodesAssumption
<1>5. /\ after \in Buffers
      /\ after.allocated = b.allocated \cup {node}
      /\ after.head = IF b.end = NULL THEN node ELSE b.head
      /\ after.end = node
  <2>1. after \in Buffers
    BY <1>4, AppendMemory
  <2>2. after.allocated = b.allocated \cup {node} /\ after.end = node
    BY <1>4, AppendMemory
  <2>3. after.head = IF b.end = NULL THEN node ELSE b.head
    BY <1>4, AppendMemory
  <2> QED
    BY <2>1, <2>2, <2>3
<1>6. \A n \in Nodes :
          after.heap[n] = IF n = node THEN [message |-> m, next |-> NULL]
                          ELSE IF n = b.end
                          THEN [message |-> b.heap[n].message, next |-> node]
                          ELSE b.heap[n]
  BY <1>4, AppendHeap
<1> HIDE DEF after
<1>7. \A i \in 1..Len(s) :
         after.heap[s[i]] =
           IF s[i] = b.end
           THEN [message |-> b.heap[s[i]].message, next |-> node]
           ELSE b.heap[s[i]]
  BY <1>1, <1>2, <1>6
<1>8. after.heap[node] = [message |-> m, next |-> NULL]
  BY <1>4, <1>6
<1>9. \A i \in 1..Len(s) : s[i] = b.end <=> i = Len(s)
  BY <1>1, <1>2
<1> HIDE DEF after, t
<1>10. \A i \in 1..Len(t) : i \in 1..Len(s) \/ i = Len(s) + 1
  BY <1>1, <1>3
<1>11. ASSUME NEW i \in 1..Len(t)
       PROVE  after.heap[t[i]].next = IF i = Len(t) THEN NULL ELSE t[i + 1]
  <2>1. CASE i = Len(s) + 1
    BY <1>3, <1>8, <2>1
  <2>2. CASE i \in 1..Len(s) /\ i = Len(s)
    <3>1. after.heap[s[i]] = [message |-> b.heap[s[i]].message, next |-> node]
      BY <1>7, <1>9, <2>2
    <3> QED
      BY <1>1, <1>3, <2>2, <3>1
  <2>3. CASE i \in 1..Len(s) /\ i # Len(s)
    <3>1. after.heap[s[i]] = b.heap[s[i]]
      BY <1>7, <1>9, <2>3
    <3>2. b.heap[s[i]].next = s[i + 1]
      BY <1>2, <2>3
    <3>3. i + 1 \in 1..Len(s) /\ i # Len(t)
      BY <1>1, <1>3, <2>3
    <3> QED
      BY <1>3, <2>3, <3>1, <3>2, <3>3
  <2> QED
    BY <1>10, <2>1, <2>2, <2>3
<1>12. after.head = t[1]
  <2>1. CASE s = << >>
    BY <1>1, <1>2, <1>3, <1>5, <2>1
  <2>2. CASE s # << >>
    <3>1. 1 \in 1..Len(s) /\ Len(s) \in 1..Len(s)
      BY <1>1, <2>2
    <3>2. b.end # NULL
      BY <1>1, <1>2, <2>2, <3>1
    <3> QED
      BY <1>2, <1>3, <1>5, <2>2, <3>1, <3>2
  <2> QED
    BY <2>1, <2>2
<1>13. IsChain(t, after.head, after.heap)
  BY <1>3, <1>11, <1>12, FreeIsRoom DEF IsChain
<1>14. Holds(after, t)
  <2>1. \A i \in 1..Len(t) : t[i] \in after.allocated
    BY <1>2, <1>3, <1>5, <1>10
  <2>2. \A i, j \in 1..Len(t) : i # j => t[i] # t[j]
    BY <1>2, <1>3, <1>10
  <2>3. after.end = t[Len(t)]
    BY <1>3, <1>5
  <2> QED
    BY <1>3, <1>13, <2>1, <2>2, <2>3 DEF Holds
<1>15. Contents(after, t) = Append(Contents(b, s), m)
  <2> DEFINE c == Contents(b, s)
             d == Contents(after, t)
  <2>1. c \in Seq(Messages) /\ Len(c) = Len(s)
        /\ \A i \in 1..Len(s) : c[i] = b.heap[s[i]].message
    BY ContentsType
  <2>2. d \in Seq(Messages) /\ Len(d) = Len(t)
        /\ \A i \in 1..Len(t) : d[i] = after.heap[t[i]].message
    BY <1>5, <1>14, ContentsType
  <2> HIDE DEF c, d
  <2>3. /\ Append(c, m) \in Seq(Messages) /\ Len(Append(c, m)) = Len(t)
        /\ \A i \in 1..Len(s) : Append(c, m)[i] = c[i]
        /\ Append(c, m)[Len(s) + 1] = m
    BY <1>3, <2>1, AppendProperties
  <2>4. \A i \in 1..Len(s) : d[i] = c[i]
    <3>1. \A i \in 1..Len(s) : i \in 1..Len(t)
      BY <1>1, <1>3
    <3>2. \A i \in 1..Len(s) : after.heap[s[i]].message = b.heap[s[i]].message
      <4> TAKE i \in 1..Len(s)
      <4>1. CASE s[i] = b.end
        <5>1. after.heap[s[i]]
                = [message |-> b.heap[s[i]].message, next |-> node]
          BY <1>7, <4>1
        <5> QED
          BY <5>1
      <4>2. CASE s[i] # b.end
        BY <1>7, <4>2
      <4> QED
        BY <4>1, <4>2
    <3> QED
      BY <1>3, <2>1, <2>2, <3>1, <3>2
  <2>5. d[Len(s) + 1] = m
    BY <1>1, <1>3, <1>8, <2>2
  <2>6. \A i \in 1..Len(d) : d[i] = Append(c, m)[i]
    BY <1>10, <2>2, <2>3, <2>4, <2>5
  <2>7. d = Append(c, m)
    BY <2>2, <2>3, <2>6, SeqEqual
  <2> QED
    BY <2>7 DEF c, d
<1> QED
  BY <1>5, <1>14, <1>15 DEF after, t

(* pop_msg takes the first node off.                                       *)
LEMMA PopHolds ==
    ASSUME NEW b \in Buffers, NEW s, Holds(b, s), b.head # NULL
    PROVE  /\ s # << >> /\ b.head = s[1] /\ b.head \in Nodes
           /\ pop_msg(b) \in Buffers
           /\ Holds(pop_msg(b), Tail(s))
           /\ \A i \in 1..Len(Tail(s)) : Tail(s)[i] # b.head
           /\ pop_msg(b).heap = b.heap /\ pop_msg(b).allocated = b.allocated
<1> DEFINE after == pop_msg(b)
           t == Tail(s)
           rest == b.heap[b.head].next
<1>1. /\ s \in Seq(Nodes) /\ Len(s) \in Nat
      /\ Len(s) <= Cardinality(Nodes)
      /\ \A i \in 1..Len(s) : s[i] \in Nodes /\ s[i] # NULL
      /\ Len(s) = 0 <=> s = << >>
  BY ChainLength DEF Holds, IsChain
<1>2. /\ \A i \in 1..Len(s) : s[i] \in b.allocated
      /\ \A i, j \in 1..Len(s) : i # j => s[i] # s[j]
      /\ b.end = IF s = << >> THEN NULL ELSE s[Len(s)]
      /\ b.head = IF s = << >> THEN NULL ELSE s[1]
      /\ \A i \in 1..Len(s) :
            b.heap[s[i]].next = IF i = Len(s) THEN NULL ELSE s[i + 1]
  BY DEF Holds, IsChain
<1>3. s # << >> /\ 1 \in 1..Len(s) /\ b.head = s[1] /\ b.head \in Nodes
  BY <1>1, <1>2
<1>4. /\ t \in Seq(Nodes) /\ Len(t) = Len(s) - 1
      /\ \A i \in 1..Len(t) : t[i] = s[i + 1]
  BY <1>1, <1>3, HeadTailProperties
<1>5. rest = IF Len(s) = 1 THEN NULL ELSE s[2]
  <2>1. b.heap[s[1]].next = IF 1 = Len(s) THEN NULL ELSE s[1 + 1]
    BY <1>2, <1>3
  <2> QED
    BY <1>3, <2>1
<1>6. b.heap \in Heaps /\ b.head \in Place /\ b.end \in Place
      /\ b.allocated \subseteq Nodes
  BY DEF Buffers
<1>7. after = [b EXCEPT !.head = rest,
                        !.end = IF rest = NULL THEN NULL ELSE b.end]
  BY DEF pop_msg, Buffers
<1>8. rest \in Place
  BY <1>3, <1>6 DEF Heaps
<1> HIDE DEF rest
<1>9. /\ after \in Buffers /\ after.heap = b.heap
      /\ after.allocated = b.allocated
      /\ after.head = rest
      /\ after.end = IF rest = NULL THEN NULL ELSE b.end
  BY <1>6, <1>7, <1>8 DEF Buffers, Place
<1> HIDE DEF after, t
<1>10. \A i \in 1..Len(t) : i \in 1..Len(s) /\ i + 1 \in 1..Len(s) /\ i + 1 # 1
  BY <1>1, <1>4
<1>11. t = << >> <=> Len(s) = 1
  <2>1. Len(t) = 0 <=> t = << >>
    BY <1>4, EmptySeq
  <2> QED
    BY <1>1, <1>4, <2>1
<1>12. rest = IF t = << >> THEN NULL ELSE t[1]
  <2>1. t # << >> => 1 \in 1..Len(t)
    BY <1>1, <1>3, <1>4, <1>11
  <2> QED
    BY <1>4, <1>5, <1>11, <2>1
<1>13. \A i \in 1..Len(t) :
          b.heap[t[i]].next = IF i = Len(t) THEN NULL ELSE t[i + 1]
  <2> TAKE i \in 1..Len(t)
  <2>1. b.heap[s[i + 1]].next = IF i + 1 = Len(s) THEN NULL ELSE s[(i + 1) + 1]
    BY <1>2, <1>10
  <2>2. i # Len(t) => i + 1 \in 1..Len(t)
    BY <1>1, <1>4
  <2>3. i # Len(t) => t[i + 1] = s[(i + 1) + 1]
    BY <1>4, <2>2
  <2>4. i = Len(t) <=> i + 1 = Len(s)
    BY <1>1, <1>4
  <2> QED
    BY <1>4, <2>1, <2>3, <2>4
<1>14. IsChain(t, after.head, after.heap)
  <2>1. Len(t) <= Cardinality(Nodes)
    BY <1>1, <1>4, NodesAssumption, FS_CardinalityType
  <2> QED
    BY <1>4, <1>9, <1>12, <1>13, <2>1 DEF IsChain
<1>15. after.end = IF t = << >> THEN NULL ELSE t[Len(t)]
  <2>1. CASE t = << >>
    BY <1>9, <1>12, <2>1
  <2>2. CASE t # << >>
    <3>1. Len(t) \in 1..Len(t) /\ 1 \in 1..Len(t) /\ Len(t) + 1 = Len(s)
      BY <1>1, <1>3, <1>4, <1>11, <2>2
    <3>2. t[1] # NULL
      BY <1>1, <1>4, <1>10, <3>1
    <3> QED
      BY <1>2, <1>3, <1>4, <1>9, <1>12, <2>2, <3>1, <3>2
  <2> QED
    BY <2>1, <2>2
<1>16. Holds(after, t)
  <2>1. \A i \in 1..Len(t) : t[i] \in after.allocated
    BY <1>2, <1>4, <1>9, <1>10
  <2>2. \A i, j \in 1..Len(t) : i # j => t[i] # t[j]
    <3> SUFFICES ASSUME NEW i \in 1..Len(t), NEW j \in 1..Len(t), i # j
                 PROVE  s[i + 1] # s[j + 1]
      BY <1>4
    <3>1. i + 1 # j + 1
      BY <1>1, <1>4
    <3> QED
      BY <1>2, <1>10, <3>1
  <2> QED
    BY <1>14, <1>15, <2>1, <2>2 DEF Holds
<1>17. \A i \in 1..Len(t) : t[i] # b.head
  BY <1>2, <1>3, <1>4, <1>10
<1> QED
  BY <1>3, <1>9, <1>16, <1>17 DEF after, t

(* What is popped is the oldest message.                                   *)
LEMMA PopContents ==
    ASSUME NEW b \in Buffers, NEW s, Holds(b, s), b.head # NULL
    PROVE  /\ Contents(b, s) # << >>
           /\ b.heap[b.head].message = Head(Contents(b, s))
           /\ Contents(pop_msg(b), Tail(s)) = Tail(Contents(b, s))
<1> DEFINE c == Contents(b, s)
           d == Contents(pop_msg(b), Tail(s))
<1>1. /\ s # << >> /\ s \in Seq(Nodes) /\ Len(s) \in Nat
      /\ Len(s) = 0 <=> s = << >>
      /\ b.head = s[1]
  BY PopHolds, ChainLength DEF Holds
<1>2. /\ Len(Tail(s)) = Len(s) - 1
      /\ \A i \in 1..Len(Tail(s)) : Tail(s)[i] = s[i + 1]
  BY <1>1, HeadTailProperties
<1>3. /\ c \in Seq(Messages) /\ Len(c) = Len(s)
      /\ \A i \in 1..Len(s) : c[i] = b.heap[s[i]].message
  BY ContentsType
<1>4. /\ d \in Seq(Messages) /\ Len(d) = Len(Tail(s))
      /\ \A i \in 1..Len(Tail(s)) : d[i] = b.heap[Tail(s)[i]].message
  <2>1. /\ pop_msg(b) \in Buffers /\ Holds(pop_msg(b), Tail(s))
        /\ pop_msg(b).heap = b.heap
    BY PopHolds
  <2>2. /\ d \in Seq(Messages) /\ Len(d) = Len(Tail(s))
        /\ \A i \in 1..Len(Tail(s)) :
              d[i] = pop_msg(b).heap[Tail(s)[i]].message
    BY <2>1, ContentsType
  <2> HIDE DEF d
  <2> QED
    BY <2>1, <2>2
<1> HIDE DEF c, d
<1>5. c # << >> /\ Head(c) = c[1] /\ c[1] = b.heap[s[1]].message
  <2>1. Len(c) # 0
    BY <1>1, <1>3
  <2>2. c # << >>
    BY <2>1, EmptySeq
  <2> QED
    BY <1>1, <1>3, <2>2
<1>6. /\ Tail(c) \in Seq(Messages) /\ Len(Tail(c)) = Len(c) - 1
      /\ \A i \in 1..Len(Tail(c)) : Tail(c)[i] = c[i + 1]
  BY <1>3, <1>5, HeadTailProperties
<1>7. \A i \in 1..Len(d) : d[i] = Tail(c)[i]
  <2> TAKE i \in 1..Len(d)
  <2>1. i \in 1..Len(Tail(s)) /\ i \in 1..Len(Tail(c)) /\ i + 1 \in 1..Len(s)
    BY <1>1, <1>2, <1>3, <1>4, <1>6
  <2> QED
    BY <1>2, <1>3, <1>4, <1>6, <2>1
<1>8. d = Tail(c)
  BY <1>2, <1>3, <1>4, <1>6, <1>7, SeqEqual
<1> QED
  BY <1>1, <1>5, <1>8 DEF c, d

(* Freeing a node that is not in the buffer.                               *)
LEMMA FreeHolds ==
    ASSUME NEW b \in Buffers, NEW s, Holds(b, s), NEW node,
           \A i \in 1..Len(s) : s[i] # node
    PROVE  /\ free(b, node) \in Buffers
           /\ Holds(free(b, node), s)
           /\ Contents(free(b, node), s) = Contents(b, s)
<1> DEFINE after == free(b, node)
<1>1. after = [b EXCEPT !.allocated = b.allocated \ {node}]
  BY DEF free, Buffers
<1>2. /\ after.heap = b.heap /\ after.head = b.head /\ after.end = b.end
      /\ after.allocated = b.allocated \ {node}
      /\ after \in Buffers
  BY <1>1 DEF Buffers
<1> HIDE DEF after
<1>3. Holds(after, s) /\ Contents(after, s) = Contents(b, s)
  BY <1>2 DEF Holds, Contents
<1> QED
  BY <1>2, <1>3 DEF after

-----------------------------------------------------------------------------
(* The state before and after a step, as a buffer and its nodes.           *)
LEMMA BufferNow ==
    ASSUME IInv
    PROVE  /\ Buffer \in Buffers /\ Holds(Buffer, Linked)
           /\ Queue = Contents(Buffer, Linked)
<1>1. Buffer \in Buffers
  BY DEF IInv, WellLinked, TypeOK, Buffer, Buffers, Heaps, Place
<1>2. IsChain(Linked, list_head, heap)
  BY DEF IInv, EndsWithNull, IsChain
<1>3. Holds(Buffer, Linked)
  BY <1>2 DEF IInv, WellLinked, Holds, Buffer
<1>4. Queue = Contents(Buffer, Linked)
  BY DEF Queue, Contents, Buffer
<1> QED
  BY <1>1, <1>3, <1>4

LEMMA BufferThen ==
    ASSUME NEW b \in Buffers, NEW s, Holds(b, s), Becomes(b),
           given' \in Messages \cup {NULL}, taken' \in Messages \cup {NULL}
    PROVE  IInv' /\ Queue' = Contents(b, s)
<1>1. /\ heap' = b.heap /\ allocated' = b.allocated
      /\ list_head' = b.head /\ list_end' = b.end
  BY DEF Becomes
<1>2. IsChain(s, b.head, b.heap)
  BY DEF Holds
<1>3. Linked' = s
  BY <1>1, <1>2, WalkAlongChain DEF Linked
<1>4. TypeOK'
  BY <1>1 DEF TypeOK, Buffers, Heaps, Place
<1>5. WellLinked'
  BY <1>1, <1>3, <1>4 DEF WellLinked, Holds
<1>6. EndsWithNull'
  BY <1>1, <1>2, <1>3 DEF EndsWithNull, IsChain
<1>7. Queue' = Contents(b, s)
  BY <1>1, <1>3 DEF Queue, Contents
<1> QED
  BY <1>5, <1>6, <1>7 DEF IInv

(* What waits after an attempt to put m in.                                *)
Longer(m) == IF allocated = Nodes THEN Queue ELSE Append(Queue, m)

LEMMA AfterAppend ==
    ASSUME IInv, NEW m \in Messages, NEW node \in malloc
    PROVE  /\ append_msg(Buffer, m, node) \in Buffers
           /\ \E s : /\ Holds(append_msg(Buffer, m, node), s)
                     /\ Contents(append_msg(Buffer, m, node), s) = Longer(m)
<1>1. /\ Buffer \in Buffers /\ Holds(Buffer, Linked)
      /\ Queue = Contents(Buffer, Linked)
  BY BufferNow
<1>2. CASE allocated = Nodes
  <2>1. append_msg(Buffer, m, node) = Buffer
    BY <1>2 DEF malloc, append_msg
  <2> QED
    BY <1>1, <1>2, <2>1 DEF Longer
<1>3. CASE allocated # Nodes
  <2>1. node \in Nodes \ Buffer.allocated
    BY <1>3 DEF malloc, Buffer
  <2> HIDE DEF Buffer, Linked
  <2>2. /\ append_msg(Buffer, m, node) \in Buffers
        /\ Holds(append_msg(Buffer, m, node), Append(Linked, node))
        /\ Contents(append_msg(Buffer, m, node), Append(Linked, node))
             = Append(Contents(Buffer, Linked), m)
    BY <1>1, <2>1, AppendHolds
  <2> QED
    BY <1>1, <1>3, <2>2 DEF Longer
<1> QED
  BY <1>2, <1>3

LEMMA EmptyContents ==
    ASSUME NEW b \in Buffers, NEW s, Holds(b, s)
    PROVE  b.head = NULL <=> Contents(b, s) = << >>
<1>1. /\ s \in Seq(Nodes) /\ Len(s) \in Nat /\ Len(s) = 0 <=> s = << >>
      /\ \A i \in 1..Len(s) : s[i] # NULL
  BY ChainLength DEF Holds
<1>2. b.head = IF s = << >> THEN NULL ELSE s[1]
  BY DEF Holds, IsChain
<1>3. b.head = NULL <=> Len(s) = 0
  BY <1>1, <1>2
<1>4. Contents(b, s) \in Seq(Messages) /\ Len(Contents(b, s)) = Len(s)
  BY ContentsType
<1>5. Len(Contents(b, s)) = 0 <=> Contents(b, s) = << >>
  BY <1>4, EmptySeq
<1> QED
  BY <1>3, <1>4, <1>5

LEMMA AfterPop ==
    ASSUME NEW b \in Buffers, NEW s, Holds(b, s), PopFrom(b),
           given' \in Messages \cup {NULL}
    PROVE  /\ IInv'
           /\ IF Contents(b, s) = << >>
              THEN Queue' = << >> /\ taken' = NULL
              ELSE /\ Queue' = Tail(Contents(b, s))
                   /\ taken' = Head(Contents(b, s))
<1>1. CASE b.head = NULL
  <2>1. Becomes(b) /\ taken' = NULL
    BY <1>1 DEF PopFrom
  <2>2. Contents(b, s) = << >>
    BY <1>1, EmptyContents
  <2> QED
    BY <2>1, <2>2, BufferThen
<1>2. CASE b.head # NULL
  <2> DEFINE c == pop_msg(b)
             d == free(c, b.head)
  <2>1. /\ c \in Buffers /\ Holds(c, Tail(s))
        /\ \A i \in 1..Len(Tail(s)) : Tail(s)[i] # b.head
    BY <1>2, PopHolds
  <2>2. /\ Contents(b, s) # << >>
        /\ b.heap[b.head].message = Head(Contents(b, s))
        /\ Contents(c, Tail(s)) = Tail(Contents(b, s))
    BY <1>2, PopContents
  <2> HIDE DEF c
  <2>3. /\ d \in Buffers /\ Holds(d, Tail(s))
        /\ Contents(d, Tail(s)) = Contents(c, Tail(s))
    BY <2>1, FreeHolds
  <2> HIDE DEF d
  <2>4. Becomes(c) \/ Becomes(d)
    BY <1>2 DEF PopFrom, c, d
  <2>5. taken' = Head(Contents(b, s))
    BY <1>2, <2>2 DEF PopFrom
  <2>6. taken' \in Messages
    <3>1. Contents(b, s) \in Seq(Messages)
      BY ContentsType
    <3> QED
      BY <2>2, <2>5, <3>1, HeadTailProperties
  <2>7. IInv' /\ Queue' = Tail(Contents(b, s))
    BY <2>1, <2>2, <2>3, <2>4, <2>6, BufferThen
  <2> QED
    BY <2>2, <2>5, <2>7
<1> QED
  BY <1>1, <1>2

-----------------------------------------------------------------------------
(* What a step does to the queue.                                          *)
Taken(waiting) ==
    IF waiting = << >>
    THEN Queue' = << >> /\ taken' = NULL
    ELSE Queue' = Tail(waiting) /\ taken' = Head(waiting)

LEMMA AppendOnlyStep ==
    ASSUME IInv, NEW m \in Messages, AppendOnly(m)
    PROVE  IInv' /\ given' = m /\ Queue' = Longer(m) /\ taken' = NULL
<1>1. PICK node \in malloc : Becomes(append_msg(Buffer, m, node))
  BY DEF AppendOnly
<1>2. given' = m /\ taken' = NULL
  BY DEF AppendOnly
<1>3. PICK s : /\ Holds(append_msg(Buffer, m, node), s)
               /\ Contents(append_msg(Buffer, m, node), s) = Longer(m)
  BY AfterAppend
<1>4. append_msg(Buffer, m, node) \in Buffers
  BY AfterAppend
<1> QED
  BY <1>1, <1>2, <1>3, <1>4, BufferThen

LEMMA AppendAndPopStep ==
    ASSUME IInv, NEW m \in Messages, AppendAndPop(m)
    PROVE  IInv' /\ given' = m /\ Taken(Longer(m))
<1>1. PICK node \in malloc : PopFrom(append_msg(Buffer, m, node))
  BY DEF AppendAndPop
<1>2. given' = m
  BY DEF AppendAndPop
<1>3. PICK s : /\ Holds(append_msg(Buffer, m, node), s)
               /\ Contents(append_msg(Buffer, m, node), s) = Longer(m)
  BY AfterAppend
<1>4. append_msg(Buffer, m, node) \in Buffers
  BY AfterAppend
<1> QED
  BY <1>1, <1>2, <1>3, <1>4, AfterPop DEF Taken

LEMMA PopOnlyStep ==
    ASSUME IInv, PopOnly
    PROVE  IInv' /\ given' = NULL /\ Taken(Queue)
<1>1. PopFrom(Buffer) /\ given' = NULL
  BY DEF PopOnly
<1>2. /\ Buffer \in Buffers /\ Holds(Buffer, Linked)
      /\ Queue = Contents(Buffer, Linked)
  BY BufferNow
<1> HIDE DEF Buffer, Linked
<1> QED
  BY <1>1, <1>2, AfterPop DEF Taken

LEMMA InitInvariant == Init => IInv /\ Queue = << >>
<1> SUFFICES ASSUME Init PROVE IInv /\ Queue = << >>
  OBVIOUS
<1>1. IsChain(<< >>, list_head, heap)
  BY NodesAssumption, FS_CardinalityType, EmptySeq DEF Init, IsChain
<1>2. Linked = << >>
  BY <1>1, WalkAlongChain DEF Linked
<1>3. heap \in [Nodes -> [message : Messages, next : Nodes \cup {NULL}]]
  BY MessagesAssumption DEF Init
<1>4. TypeOK
  BY <1>3 DEF Init, TypeOK
<1>5. EndsWithNull
  BY <1>1, <1>2 DEF EndsWithNull, IsChain
<1>6. WellLinked
  BY <1>2, <1>4 DEF Init, WellLinked
<1> QED
  BY <1>2, <1>5, <1>6 DEF IInv, Queue

LEMMA StepInvariant == IInv /\ [Next]_vars => IInv'
<1>1. IInv /\ UNCHANGED vars => IInv'
  BY DEF IInv, WellLinked, EndsWithNull, TypeOK, Linked, vars
<1> QED
  BY <1>1, AppendOnlyStep, AppendAndPopStep, PopOnlyStep DEF Next

LEMMA StepIsFifo == IInv /\ [Next]_vars => [FB!Next]_FB!vars
<1> SUFFICES ASSUME IInv, [Next]_vars PROVE [FB!Next]_FB!vars
  OBVIOUS
<1> DEFINE short == allocated = Nodes
<1>0. short' \in BOOLEAN
  OBVIOUS
<1>1. CASE \E m \in Messages : AppendOnly(m)
  <2>1. PICK m \in Messages : AppendOnly(m)
    BY <1>1
  <2>2. given' = m /\ Queue' = Longer(m) /\ taken' = NULL
    BY <2>1, AppendOnlyStep
  <2> QED
    BY <1>0, <2>2 DEF FB!Next, FB!Put, FB!With, Longer
<1>2. CASE \E m \in Messages : AppendAndPop(m)
  <2>1. PICK m \in Messages : AppendAndPop(m)
    BY <1>2
  <2>2. given' = m /\ Taken(Longer(m))
    BY <2>1, AppendAndPopStep
  <2> QED
    BY <1>0, <2>2 DEF FB!Next, FB!Take, FB!With, Longer, Taken
<1>3. CASE PopOnly
  <2>1. given' = NULL /\ Taken(Queue)
    BY <1>3, PopOnlyStep
  <2> QED
    BY <1>0, <2>1 DEF FB!Next, FB!Take, Taken
<1>4. CASE UNCHANGED vars
  BY <1>4 DEF vars, FB!vars, Queue, Linked
<1> QED
  BY <1>1, <1>2, <1>3, <1>4 DEF Next

-----------------------------------------------------------------------------
(* IInv holds in every state of the buffer, whatever malloc returns and    *)
(* whichever nodes are freed.                                              *)
THEOREM Invariant == Spec => []IInv
BY InitInvariant, StepInvariant, PTL DEF Spec

(* The list never runs into a freed node, has no cycle, and list_end is    *)
(* its last node (append_msg, pop_msg).                                    *)
THEOREM LinksAreSound == Spec => []WellLinked
<1>1. IInv => WellLinked
  BY DEF IInv
<1> QED
  BY <1>1, Invariant, PTL

(* The pointers of append_msg and pop_msg implement a FIFO buffer that     *)
(* loses a message only when malloc fails.                                 *)
THEOREM Implementation == Spec => ImplementsFifo
<1>1. Init => FB!Init
  BY InitInvariant DEF Init, FB!Init
<1> QED
  BY <1>1, Invariant, StepIsFifo, PTL DEF Spec, ImplementsFifo, FB!Spec
=============================================================================
