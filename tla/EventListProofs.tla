--------------------------- MODULE EventListProofs ---------------------------
(***************************************************************************)
(* The event list of simulator.c is a doubly linked list in order of time, *)
(* for any memory, any draws and any handlers, rounded times included; and *)
(* while no time is rounded it is the medium of Medium.tla.                *)
(***************************************************************************)
EXTENDS EventList, FiniteSetTheorems, SequenceTheorems, TLAPS

-----------------------------------------------------------------------------
(* The least and the greatest number of a set, and the size of 1..n.       *)
LEMMA MinIsLeast ==
    ASSUME NEW S \in SUBSET Nat, S # {}
    PROVE  Min(S) \in S /\ \A y \in S : Min(S) <= y
<1>1. \E x \in S : \A y \in S : ~(<<y, x>> \in OpToRel(<, Nat))
  <2> HIDE DEF OpToRel
  <2> QED
    BY NatLessThanWellFounded, WFMin
<1>2. PICK x \in S : \A y \in S : ~(<<y, x>> \in OpToRel(<, Nat))
  BY <1>1
<1>3. ASSUME NEW y \in S PROVE x <= y
  <2>1. ~(y < x)
    BY <1>2 DEF OpToRel
  <2> QED
    BY <2>1
<1> QED
  BY <1>3 DEF Min

LEMMA MaxIsGreatest ==
    ASSUME NEW n \in Nat, NEW S \in SUBSET (1..n), S # {}
    PROVE  Max(S) \in S /\ \A y \in S : Max(S) >= y
<1> DEFINE T == {y \in 0..n : \E x \in S : y = n - x}
<1>1. T \in SUBSET Nat /\ \A x \in S : n - x \in T
  OBVIOUS
<1> DEFINE m == Min(T)
<1>2. m \in T /\ \A y \in T : m <= y
  <2> HIDE DEF T
  <2> QED
    BY <1>1, MinIsLeast
<1> HIDE DEF m
<1>3. PICK x \in S : m = n - x
  BY <1>2 DEF T
<1>4. \A y \in S : x >= y
  <2> TAKE y \in S
  <2>1. m <= n - y
    <3> HIDE DEF T
    <3> QED
      BY <1>1, <1>2
  <2>2. x \in 1..n /\ y \in 1..n
    OBVIOUS
  <2> QED
    BY <1>3, <2>1, <2>2
<1> QED
  BY <1>4 DEF Max

LEMMA UpTo ==
    ASSUME NEW n \in Nat
    PROVE  Cardinality(1..n) = n
<1>1. Cardinality(1..n) = IF 1 > n THEN 0 ELSE n - 1 + 1
  BY FS_Interval
<1> QED
  BY <1>1

-----------------------------------------------------------------------------
(* The walk along the next pointers.                                       *)
Place == Cells \cup {NULL}

Events == [evtime : Nat, evtype : 0..2, eventity : {"A", "B"},
           prev : Place, next : Place]

Structs == [Cells -> Events]

Most == Cardinality(Cells) + 1

LEMMA MostIsNatural == Most \in Nat /\ Most > 0
BY CellsAssumption, FS_CardinalityType DEF Most

(* met is what the walk loads: the head, and pointer after pointer.        *)
Follows(met, n, head, structs) ==
    \A i \in 1..n :
        met[i] = IF i = 1 THEN head
                 ELSE IF met[i - 1] = NULL THEN NULL
                      ELSE structs[met[i - 1]].next

(* A chain that ends: its events, from the head on.                        *)
IsChain(w, head, structs) ==
    /\ w \in Seq(Cells) /\ Len(w) <= Cardinality(Cells)
    /\ head = IF w = << >> THEN NULL ELSE w[1]
    /\ \A i \in 1..Len(w) :
          structs[w[i]].next = IF i = Len(w) THEN NULL ELSE w[i + 1]

LEMMA ChainLength ==
    ASSUME NEW w, NEW head, NEW structs, IsChain(w, head, structs)
    PROVE  /\ w \in Seq(Cells) /\ w = [i \in 1..Len(w) |-> w[i]]
           /\ Len(w) \in Nat /\ Len(w) + 1 \in 1..Most
           /\ \A i \in 1..Len(w) : w[i] \in Cells /\ w[i] # NULL
           /\ Len(w) = 0 <=> w = << >>
<1>1. w \in Seq(Cells) /\ Len(w) <= Cardinality(Cells)
  BY DEF IsChain
<1>2. Len(w) \in Nat /\ w = [i \in 1..Len(w) |-> w[i]]
  BY <1>1, LenProperties
<1>3. Len(w) + 1 \in 1..Most
  BY <1>1, <1>2, MostIsNatural, CellsAssumption, FS_CardinalityType DEF Most
<1>4. \A i \in 1..Len(w) : w[i] \in Cells /\ w[i] # NULL
  BY <1>1, ElementOfSeq, CellsAssumption
<1>5. Len(w) = 0 <=> w = << >>
  BY <1>1, EmptySeq
<1> QED
  BY <1>1, <1>2, <1>3, <1>4, <1>5

LEMMA ChainIsFollowed ==
    ASSUME NEW w, NEW head, NEW structs, IsChain(w, head, structs)
    PROVE  Follows([i \in 1..Most |-> IF i <= Len(w) THEN w[i] ELSE NULL],
                   Most, head, structs)
<1> DEFINE f == [i \in 1..Most |-> IF i <= Len(w) THEN w[i] ELSE NULL]
<1>1. /\ Len(w) \in Nat /\ Len(w) + 1 \in 1..Most
      /\ \A i \in 1..Len(w) : w[i] # NULL
      /\ Len(w) = 0 <=> w = << >>
  BY ChainLength
<1> SUFFICES ASSUME NEW i \in 1..Most
             PROVE  f[i] = IF i = 1 THEN head
                           ELSE IF f[i - 1] = NULL THEN NULL
                                ELSE structs[f[i - 1]].next
  BY DEF Follows
<1>2. CASE i = 1
  <2>1. f[1] = IF w = << >> THEN NULL ELSE w[1]
    BY <1>1, <1>2
  <2> QED
    BY <1>2, <2>1 DEF IsChain
<1>3. CASE i # 1 /\ i - 1 <= Len(w)
  <2>1. i - 1 \in 1..Len(w) /\ i - 1 \in 1..Most
    BY <1>1, <1>3, MostIsNatural
  <2>2. structs[w[i - 1]].next = IF i - 1 = Len(w) THEN NULL ELSE w[(i - 1) + 1]
    BY <2>1 DEF IsChain
  <2>3. f[i - 1] = w[i - 1] /\ w[i - 1] # NULL
    BY <1>1, <1>3, <2>1
  <2>4. f[i] = IF i - 1 = Len(w) THEN NULL ELSE w[i]
    BY <1>1, <1>3, <2>1
  <2> QED
    BY <1>3, <2>2, <2>3, <2>4
<1>4. CASE i # 1 /\ ~(i - 1 <= Len(w))
  <2>1. i - 1 \in 1..Most /\ ~(i <= Len(w))
    BY <1>1, <1>4, MostIsNatural
  <2> QED
    BY <1>4, <2>1
<1> QED
  BY <1>2, <1>3, <1>4

(* The walk meets the events of the chain.                                 *)
LEMMA WalkAlongChain ==
    ASSUME NEW w, NEW head, NEW structs, IsChain(w, head, structs),
           head \in Place
    PROVE  From(head, structs) = w
<1> DEFINE f == [i \in 1..Most |-> IF i <= Len(w) THEN w[i] ELSE NULL]
           behind == [q \in Place |->
                        IF q = NULL THEN NULL ELSE structs[q].next]
           met == CHOOSE met :
                     met = [i \in 1..Most |->
                              IF i = 1 THEN head ELSE behind[met[i - 1]]]
           S == {i \in 1..Most : met[i] # NULL}
           v == From(head, structs)
<1>1. /\ w \in Seq(Cells) /\ w = [i \in 1..Len(w) |-> w[i]]
      /\ Len(w) \in Nat /\ Len(w) + 1 \in 1..Most
      /\ \A i \in 1..Len(w) : w[i] \in Cells /\ w[i] # NULL
  BY ChainLength
<1>2. Follows(f, Most, head, structs)
  BY ChainIsFollowed
<1>3. \A i \in 1..Most : f[i] \in Place
  BY <1>1 DEF Place
<1>4. f = [i \in 1..Most |-> IF i = 1 THEN head ELSE behind[f[i - 1]]]
  <2>1. \A i \in 1..Most : i # 1 => i - 1 \in 1..Most
    BY MostIsNatural
  <2>2. \A i \in 1..Most :
           f[i] = IF i = 1 THEN head
                  ELSE IF f[i - 1] = NULL THEN NULL
                       ELSE structs[f[i - 1]].next
    BY <1>2 DEF Follows
  <2>3. f = [i \in 1..Most |-> f[i]]
    OBVIOUS
  <2> HIDE DEF f
  <2>4. \A i \in 1..Most : f[i] = IF i = 1 THEN head ELSE behind[f[i - 1]]
    BY <1>3, <2>1, <2>2
  <2> HIDE DEF behind
  <2> QED
    BY <2>3, <2>4
<1>5. met = [i \in 1..Most |->
               IF i = 1 THEN head ELSE behind[met[i - 1]]]
  <2> HIDE DEF f, behind
  <2> QED
    BY <1>4
<1>6. v = [i \in 1..Cardinality(S) |-> met[i]]
  BY DEF From, Most, Place
<1> HIDE DEF met, v
<1>7. \A i \in 1..Most : met[i] = f[i]
  <2> SUFFICES ASSUME {i \in 1..Most : met[i] # f[i]} # {} PROVE FALSE
    OBVIOUS
  <2> DEFINE D == {i \in 1..Most : met[i] # f[i]}
             k == Min(D)
  <2>1. k \in D /\ \A i \in D : k <= i
    <3>1. D \in SUBSET Nat
      BY MostIsNatural
    <3> HIDE DEF D
    <3> QED
      BY <3>1, MinIsLeast DEF D
  <2> HIDE DEF k, f, behind
  <2>2. k \in 1..Most /\ met[k] # f[k]
    BY <2>1
  <2>3. k = 1 \/ (k - 1 \in 1..Most /\ met[k - 1] = f[k - 1])
    BY <2>1, <2>2, MostIsNatural
  <2>4. met[k] = IF k = 1 THEN head ELSE behind[met[k - 1]]
    BY <1>5, <2>2
  <2>5. f[k] = IF k = 1 THEN head ELSE behind[f[k - 1]]
    BY <1>4, <2>2
  <2> QED
    BY <2>2, <2>3, <2>4, <2>5
<1>8. \A i \in 1..Most : met[i] = IF i <= Len(w) THEN w[i] ELSE NULL
  BY <1>7
<1>9. S = 1..Len(w)
  BY <1>1, <1>8, MostIsNatural DEF S
<1> HIDE DEF S
<1>10. Cardinality(S) = Len(w)
  BY <1>1, <1>9, UpTo
<1>11. \A i \in 1..Len(w) : met[i] = w[i]
  BY <1>1, <1>8, MostIsNatural
<1>12. v = w
  BY <1>1, <1>6, <1>10, <1>11
<1> QED
  BY <1>12 DEF v

-----------------------------------------------------------------------------
(* A memory m whose list, in order, is w.                                  *)
Memories == [event : Structs, evlist : Place, used : SUBSET Cells]

IsList(w, m) ==
    /\ IsChain(w, m.evlist, m.event)
    /\ \A i \in 1..Len(w) :
          m.event[w[i]].prev = IF i = 1 THEN NULL ELSE w[i - 1]
    /\ \A i \in 1..Len(w) : w[i] \in m.used
    /\ \A i, j \in 1..Len(w) : i # j => w[i] # w[j]

LEMMA ListFacts ==
    ASSUME NEW m \in Memories, NEW w, IsList(w, m)
    PROVE  /\ w \in Seq(Cells) /\ Len(w) \in Nat
           /\ Len(w) <= Cardinality(Cells)
           /\ Len(w) = 0 <=> w = << >>
           /\ m.evlist = IF Len(w) = 0 THEN NULL ELSE w[1]
           /\ Walk(m) = w
<1>1. IsChain(w, m.evlist, m.event) /\ m.evlist \in Place
  BY DEF IsList, Memories
<1>2. /\ w \in Seq(Cells) /\ Len(w) \in Nat
      /\ Len(w) = 0 <=> w = << >>
  BY <1>1, ChainLength
<1>3. Walk(m) = w
  BY <1>1, WalkAlongChain DEF Walk
<1> QED
  BY <1>1, <1>2, <1>3 DEF IsChain

LEMMA OnListFacts ==
    ASSUME NEW m \in Memories, NEW w, IsList(w, m), NEW i \in 1..Len(w)
    PROVE  /\ w[i] \in Cells /\ w[i] \in m.used /\ w[i] # NULL
           /\ m.event[w[i]] \in Events
           /\ m.event[w[i]].next = IF i = Len(w) THEN NULL ELSE w[i + 1]
           /\ m.event[w[i]].prev = IF i = 1 THEN NULL ELSE w[i - 1]
           /\ m.event[w[i]].evtime \in Nat
<1>1. IsChain(w, m.evlist, m.event)
  BY DEF IsList
<1>2. w[i] \in Cells /\ w[i] # NULL
  BY <1>1, ChainLength
<1>3. m.event[w[i]] \in Events
  BY <1>2 DEF Memories, Structs
<1>4. m.event[w[i]].evtime \in Nat
  BY <1>3 DEF Events
<1> QED
  BY <1>2, <1>3, <1>4 DEF IsList, IsChain

(* The sequence with p put in at k, and without its k-th element.          *)
Inserted(w, k, p) ==
    [i \in 1..(Len(w) + 1) |-> IF i < k THEN w[i]
                               ELSE IF i = k THEN p ELSE w[i - 1]]

Removed(w, k) ==
    [i \in 1..(Len(w) - 1) |-> IF i < k THEN w[i] ELSE w[i + 1]]

LEMMA InsertedFacts ==
    ASSUME NEW w \in Seq(Cells), NEW k \in 1..(Len(w) + 1), NEW p \in Cells
    PROVE  /\ Inserted(w, k, p) \in Seq(Cells)
           /\ Len(Inserted(w, k, p)) = Len(w) + 1
           /\ Inserted(w, k, p)[k] = p
           /\ \A i \in 1..(k - 1) :
                 i \in 1..Len(w) /\ Inserted(w, k, p)[i] = w[i]
           /\ \A i \in (k + 1)..(Len(w) + 1) :
                 i - 1 \in 1..Len(w) /\ Inserted(w, k, p)[i] = w[i - 1]
           /\ \A i \in 1..(Len(w) + 1) :
                 i \in 1..(k - 1) \/ i = k \/ i \in (k + 1)..(Len(w) + 1)
<1> DEFINE v == Inserted(w, k, p)
<1>1. Len(w) \in Nat /\ \A i \in 1..Len(w) : w[i] \in Cells
  BY LenProperties, ElementOfSeq
<1>2. v = [i \in 1..(Len(w) + 1) |-> IF i < k THEN w[i]
                               ELSE IF i = k THEN p ELSE w[i - 1]]
  BY DEF Inserted
<1> HIDE DEF v
<1>3. \A i \in 1..(Len(w) + 1) : v[i] \in Cells
  BY <1>1, <1>2
<1>4. v \in Seq(Cells) /\ Len(v) = Len(w) + 1
  BY <1>1, <1>2, <1>3
<1>5. /\ v[k] = p
      /\ \A i \in 1..(k - 1) : i \in 1..Len(w) /\ v[i] = w[i]
      /\ \A i \in (k + 1)..(Len(w) + 1) : i - 1 \in 1..Len(w) /\ v[i] = w[i - 1]
  BY <1>1, <1>2
<1>6. \A i \in 1..(Len(w) + 1) :
         i \in 1..(k - 1) \/ i = k \/ i \in (k + 1)..(Len(w) + 1)
  BY <1>1
<1> QED
  BY <1>4, <1>5, <1>6 DEF v

LEMMA RemovedFacts ==
    ASSUME NEW w \in Seq(Cells), NEW k \in 1..Len(w)
    PROVE  /\ Removed(w, k) \in Seq(Cells)
           /\ Len(Removed(w, k)) = Len(w) - 1
           /\ \A i \in 1..(k - 1) : i \in 1..Len(w) /\ Removed(w, k)[i] = w[i]
           /\ \A i \in k..(Len(w) - 1) :
                 i + 1 \in 1..Len(w) /\ Removed(w, k)[i] = w[i + 1]
           /\ \A i \in 1..(Len(w) - 1) :
                 i \in 1..(k - 1) \/ i \in k..(Len(w) - 1)
<1> DEFINE v == Removed(w, k)
<1>1. Len(w) \in Nat /\ \A i \in 1..Len(w) : w[i] \in Cells
  BY LenProperties, ElementOfSeq
<1>2. v = [i \in 1..(Len(w) - 1) |-> IF i < k THEN w[i] ELSE w[i + 1]]
  BY DEF Removed
<1> HIDE DEF v
<1>3. \A i \in 1..(Len(w) - 1) : v[i] \in Cells
  BY <1>1, <1>2
<1>4. v \in Seq(Cells) /\ Len(v) = Len(w) - 1
  BY <1>1, <1>2, <1>3
<1>5. /\ \A i \in 1..(k - 1) : i \in 1..Len(w) /\ v[i] = w[i]
      /\ \A i \in k..(Len(w) - 1) : i + 1 \in 1..Len(w) /\ v[i] = w[i + 1]
  BY <1>1, <1>2
<1>6. \A i \in 1..(Len(w) - 1) : i \in 1..(k - 1) \/ i \in k..(Len(w) - 1)
  BY <1>1
<1> QED
  BY <1>4, <1>5, <1>6 DEF v

-----------------------------------------------------------------------------
(* insertevent.  The new event goes to place k of the list: what is before *)
(* k is earlier, what was at k is not.                                     *)
Neighbours(w, structs, t, k) ==
    /\ k \in 1..(Len(w) + 1)
    /\ \A i \in 1..(k - 1) : structs[w[i]].evtime < t
    /\ k <= Len(w) => t <= structs[w[k]].evtime

NextAt(w, k) == IF k = Len(w) + 1 THEN NULL ELSE w[k]
PrevAt(w, k) == IF k = 1 THEN NULL ELSE w[k - 1]

LEMMA BeforeIsNext ==
    ASSUME NEW m \in Memories, NEW w, IsList(w, m), NEW t \in Nat
    PROVE  \E k : Neighbours(w, m.event, t, k) /\ Before(m, t) = NextAt(w, k)
<1> DEFINE later == {i \in 1..Len(w) : t <= m.event[w[i]].evtime}
<1>1. Len(w) \in Nat /\ Walk(m) = w
  BY ListFacts
<1>2. \A i \in 1..Len(w) : m.event[w[i]].evtime \in Nat
  BY OnListFacts
<1>3. Before(m, t) = IF later = {} THEN NULL ELSE w[Min(later)]
  BY <1>1 DEF Before
<1>4. CASE later = {}
  <2>1. Neighbours(w, m.event, t, Len(w) + 1)
    BY <1>1, <1>2, <1>4 DEF Neighbours
  <2>2. Before(m, t) = NextAt(w, Len(w) + 1)
    BY <1>3, <1>4 DEF NextAt
  <2> QED
    BY <2>1, <2>2
<1>5. CASE later # {}
  <2> DEFINE k == Min(later)
  <2>1. k \in later /\ \A i \in later : k <= i
    <3>1. later \in SUBSET Nat
      OBVIOUS
    <3> HIDE DEF later
    <3> QED
      BY <1>5, <3>1, MinIsLeast
  <2>2. Before(m, t) = w[k]
    BY <1>3, <1>5
  <2> HIDE DEF k
  <2>3. k \in 1..Len(w) /\ t <= m.event[w[k]].evtime
    BY <2>1
  <2>4. \A i \in 1..(k - 1) : i \in 1..Len(w) /\ i \notin later
    BY <1>1, <2>1, <2>3
  <2>5. Neighbours(w, m.event, t, k)
    BY <1>1, <1>2, <2>3, <2>4 DEF Neighbours
  <2>6. Before(m, t) = NextAt(w, k)
    BY <1>1, <2>2, <2>3 DEF NextAt
  <2> QED
    BY <2>5, <2>6
<1> QED
  BY <1>4, <1>5

LEMMA MallocIsFree ==
    ASSUME NEW m \in Memories, Cells \ m.used # {}
    PROVE  malloc(m) \in Cells /\ malloc(m) \notin m.used /\ malloc(m) # NULL
<1> DEFINE S == Cells \ m.used
<1>1. S \in SUBSET Nat
  BY CellsAssumption
<1> HIDE DEF S
<1>2. Min(S) \in S
  BY <1>1, MinIsLeast DEF S
<1> QED
  BY <1>2, CellsAssumption DEF malloc, S

(* What insertevent writes.                                                *)
Written(m, fields, p, prev, next) ==
    [c \in Cells |->
        IF c = p THEN [fields EXCEPT !.prev = prev, !.next = next]
        ELSE IF c = prev THEN [m.event[c] EXCEPT !.next = p]
        ELSE IF c = next THEN [m.event[c] EXCEPT !.prev = p]
        ELSE m.event[c]]

LEMMA InsertWrites ==
    ASSUME NEW m \in Memories, NEW w, IsList(w, m), Cells \ m.used # {},
           NEW fields \in Events, NEW k,
           Neighbours(w, m.event, fields.evtime, k),
           Before(m, fields.evtime) = NextAt(w, k)
    PROVE  insertevent(m, fields) =
             [event |-> Written(m, fields, malloc(m),
                                PrevAt(w, k), NextAt(w, k)),
              evlist |-> IF k = 1 THEN malloc(m) ELSE m.evlist,
              used |-> m.used \cup {malloc(m)}]
<1> DEFINE p == malloc(m)
           next == Before(m, fields.evtime)
           prev == IF next # NULL THEN m.event[next].prev
                   ELSE IF m.evlist = NULL THEN NULL
                   ELSE Walk(m)[Len(Walk(m))]
<1>1. /\ Len(w) \in Nat /\ Walk(m) = w
      /\ m.evlist = IF Len(w) = 0 THEN NULL ELSE w[1]
  BY ListFacts
<1>2. k \in 1..(Len(w) + 1)
  BY DEF Neighbours
<1>3. \A i \in 1..Len(w) : w[i] # NULL
  BY OnListFacts
<1>4. \A i \in 1..Len(w) :
         m.event[w[i]].prev = IF i = 1 THEN NULL ELSE w[i - 1]
  BY OnListFacts
<1>5. prev = PrevAt(w, k)
  <2>1. CASE k = Len(w) + 1
    <3>1. next = NULL
      BY <2>1 DEF NextAt
    <3>2. m.evlist = NULL <=> Len(w) = 0
      BY <1>1, <1>3
    <3> QED
      BY <1>1, <2>1, <3>1, <3>2 DEF PrevAt
  <2>2. CASE k # Len(w) + 1
    <3>1. k \in 1..Len(w) /\ next = w[k]
      BY <1>1, <1>2, <2>2 DEF NextAt
    <3> HIDE DEF next
    <3> QED
      BY <1>3, <1>4, <3>1 DEF PrevAt
  <2> QED
    BY <2>1, <2>2
<1>6. PrevAt(w, k) = NULL <=> k = 1
  <2>1. k # 1 => k - 1 \in 1..Len(w)
    BY <1>1, <1>2
  <2> QED
    BY <1>3, <2>1 DEF PrevAt
<1>7. insertevent(m, fields) =
        [event  |-> [c \in Cells |->
                        CASE c = p    -> [fields EXCEPT !.prev = prev,
                                                        !.next = next]
                          [] c = prev -> [m.event[c] EXCEPT !.next = p]
                          [] c = next -> [m.event[c] EXCEPT !.prev = p]
                          [] OTHER    -> m.event[c]],
         evlist |-> IF prev = NULL THEN p ELSE m.evlist,
         used   |-> m.used \cup {p}]
  BY DEF insertevent
<1>8. prev # next \/ prev = NULL
  <2>1. k # 1 /\ k # Len(w) + 1
           => k - 1 \in 1..Len(w) /\ k \in 1..Len(w) /\ k - 1 # k
    BY <1>1, <1>2
  <2>2. k # 1 /\ k = Len(w) + 1 => k - 1 \in 1..Len(w)
    BY <1>1, <1>2
  <2>3. \A i, j \in 1..Len(w) : i # j => w[i] # w[j]
    BY DEF IsList
  <2> HIDE DEF prev, next
  <2>4. next = NextAt(w, k) /\ prev = PrevAt(w, k)
    BY <1>5 DEF next
  <2> QED
    BY <1>3, <2>1, <2>2, <2>3, <2>4 DEF NextAt, PrevAt
<1>9. next = NextAt(w, k)
  OBVIOUS
<1>10. p \notin m.used /\ p # NULL
  BY MallocIsFree
<1> HIDE DEF p, next, prev
<1>11. p # next /\ p # prev
  <2>1. k # 1 => k - 1 \in 1..Len(w)
    BY <1>1, <1>2
  <2>2. k # Len(w) + 1 => k \in 1..Len(w)
    BY <1>1, <1>2
  <2>3. \A i \in 1..Len(w) : w[i] # p
    BY <1>10, OnListFacts
  <2> QED
    BY <1>5, <1>9, <1>10, <2>1, <2>2, <2>3 DEF NextAt, PrevAt
<1>12. \A c \in Cells :
         (CASE c = p    -> [fields EXCEPT !.prev = prev, !.next = next]
            [] c = prev -> [m.event[c] EXCEPT !.next = p]
            [] c = next -> [m.event[c] EXCEPT !.prev = p]
            [] OTHER    -> m.event[c])
         = IF c = p THEN [fields EXCEPT !.prev = prev, !.next = next]
           ELSE IF c = prev THEN [m.event[c] EXCEPT !.next = p]
           ELSE IF c = next THEN [m.event[c] EXCEPT !.prev = p]
           ELSE m.event[c]
  BY <1>8, <1>11, CellsAssumption
<1> QED
  BY <1>5, <1>6, <1>7, <1>9, <1>12 DEF p, Written

(* Where the neighbours of place k are.                                    *)
LEMMA NeighbourFacts ==
    ASSUME NEW m \in Memories, NEW w, IsList(w, m), NEW k \in 1..(Len(w) + 1)
    PROVE  /\ PrevAt(w, k) \in Place /\ NextAt(w, k) \in Place
           /\ PrevAt(w, k) = NULL <=> k = 1
           /\ \A i \in 1..Len(w) : w[i] = PrevAt(w, k) <=> i = k - 1
           /\ \A i \in 1..Len(w) : w[i] = NextAt(w, k) <=> i = k
           /\ PrevAt(w, k) # NextAt(w, k) \/ PrevAt(w, k) = NULL
<1>1. Len(w) \in Nat
  BY ListFacts
<1>2. \A i \in 1..Len(w) : w[i] # NULL /\ w[i] \in Cells
  BY OnListFacts
<1>3. \A i, j \in 1..Len(w) : i # j => w[i] # w[j]
  BY DEF IsList
<1>4. k # 1 => k - 1 \in 1..Len(w) /\ k - 1 # k
  BY <1>1
<1>5. k # Len(w) + 1 => k \in 1..Len(w)
  BY <1>1
<1>6. ~(0 \in 1..Len(w)) /\ ~(Len(w) + 1 \in 1..Len(w))
  BY <1>1
<1>7. PrevAt(w, k) = NULL <=> k = 1
  BY <1>2, <1>4 DEF PrevAt
<1>8. \A i \in 1..Len(w) : w[i] = PrevAt(w, k) <=> i = k - 1
  <2>1. CASE k = 1
    BY <1>1, <1>2, <2>1 DEF PrevAt
  <2>2. CASE k # 1
    BY <1>3, <1>4, <2>2 DEF PrevAt
  <2> QED
    BY <2>1, <2>2
<1>9. \A i \in 1..Len(w) : w[i] = NextAt(w, k) <=> i = k
  <2>1. CASE k = Len(w) + 1
    BY <1>2, <1>6, <2>1 DEF NextAt
  <2>2. CASE k # Len(w) + 1
    BY <1>3, <1>5, <2>2 DEF NextAt
  <2> QED
    BY <2>1, <2>2
<1>10. PrevAt(w, k) \in Place /\ NextAt(w, k) \in Place
  BY <1>2, <1>4, <1>5 DEF PrevAt, NextAt, Place
<1>11. PrevAt(w, k) # NextAt(w, k) \/ PrevAt(w, k) = NULL
  BY <1>2, <1>4, <1>9 DEF PrevAt
<1> QED
  BY <1>7, <1>8, <1>9, <1>10, <1>11

LEMMA PrevOfEvent ==
    ASSUME NEW e \in Events, NEW p \in Place
    PROVE  /\ [e EXCEPT !.prev = p] \in Events
           /\ [e EXCEPT !.prev = p].prev = p
           /\ [e EXCEPT !.prev = p].next = e.next
           /\ [e EXCEPT !.prev = p].evtime = e.evtime
           /\ [e EXCEPT !.prev = p].evtype = e.evtype
           /\ [e EXCEPT !.prev = p].eventity = e.eventity
BY DEF Events

LEMMA NextOfEvent ==
    ASSUME NEW e \in Events, NEW p \in Place
    PROVE  /\ [e EXCEPT !.next = p] \in Events
           /\ [e EXCEPT !.next = p].prev = e.prev
           /\ [e EXCEPT !.next = p].next = p
           /\ [e EXCEPT !.next = p].evtime = e.evtime
           /\ [e EXCEPT !.next = p].evtype = e.evtype
           /\ [e EXCEPT !.next = p].eventity = e.eventity
BY DEF Events

(* What an event is about: routines on the list leave it alone.            *)
SameContent(e, f) ==
    e.evtime = f.evtime /\ e.evtype = f.evtype /\ e.eventity = f.eventity

(* The memory after insertevent, field by field.                           *)
LEMMA InsertFields ==
    ASSUME NEW m \in Memories, NEW w, IsList(w, m), Cells \ m.used # {},
           NEW fields \in Events, NEW k,
           Neighbours(w, m.event, fields.evtime, k),
           Before(m, fields.evtime) = NextAt(w, k)
    PROVE  /\ insertevent(m, fields) \in Memories
           /\ insertevent(m, fields).used = m.used \cup {malloc(m)}
           /\ insertevent(m, fields).evlist = IF k = 1 THEN malloc(m)
                                              ELSE m.evlist
           /\ \A c \in Cells :
                 /\ insertevent(m, fields).event[c].next =
                      IF c = malloc(m) THEN NextAt(w, k)
                      ELSE IF c = PrevAt(w, k) THEN malloc(m)
                      ELSE m.event[c].next
                 /\ insertevent(m, fields).event[c].prev =
                      IF c = malloc(m) THEN PrevAt(w, k)
                      ELSE IF c = NextAt(w, k) THEN malloc(m)
                      ELSE m.event[c].prev
                 /\ SameContent(insertevent(m, fields).event[c],
                                IF c = malloc(m) THEN fields ELSE m.event[c])
<1> DEFINE p == malloc(m)
           after == insertevent(m, fields)
           prev == PrevAt(w, k)
           next == NextAt(w, k)
           written == Written(m, fields, p, prev, next)
<1>1. after = [event |-> written, evlist |-> IF k = 1 THEN p ELSE m.evlist,
               used |-> m.used \cup {p}]
  BY InsertWrites
<1>2. p \in Cells /\ p \in Place
  BY MallocIsFree DEF Place
<1>3. k \in 1..(Len(w) + 1)
  BY DEF Neighbours
<1>4. /\ prev \in Place /\ next \in Place
      /\ prev # next \/ prev = NULL
  BY <1>3, NeighbourFacts
<1> HIDE DEF p, prev, next, after, written
<1>5. ASSUME NEW c \in Cells
      PROVE  /\ written[c] \in Events
             /\ written[c].next = IF c = p THEN next
                                  ELSE IF c = prev THEN p ELSE m.event[c].next
             /\ written[c].prev = IF c = p THEN prev
                                  ELSE IF c = next THEN p ELSE m.event[c].prev
             /\ SameContent(written[c], IF c = p THEN fields ELSE m.event[c])
  <2>1. m.event[c] \in Events /\ c # NULL
    BY CellsAssumption DEF Memories, Structs
  <2>2. CASE c = p
    <3>1. written[c] = [fields EXCEPT !.prev = prev, !.next = next]
      BY <2>2 DEF written, Written
    <3> DEFINE e == [fields EXCEPT !.prev = prev, !.next = next]
    <3>2. prev \in Place /\ next \in Place
      BY <1>4
    <3>3. e \in Events /\ e.next = next /\ e.prev = prev
      BY <3>2 DEF Events
    <3>4. SameContent(e, fields)
      BY <3>2 DEF SameContent, Events
    <3> HIDE DEF e
    <3> QED
      BY <2>2, <3>1, <3>3, <3>4 DEF e
  <2>3. CASE c # p /\ c = prev
    <3>1. written[c] = [m.event[c] EXCEPT !.next = p] /\ c # next
      BY <1>4, <2>1, <2>3 DEF written, Written
    <3> QED
      BY <1>2, <2>1, <2>3, <3>1, NextOfEvent DEF SameContent
  <2>4. CASE c # p /\ c # prev /\ c = next
    <3>1. written[c] = [m.event[c] EXCEPT !.prev = p]
      BY <2>4 DEF written, Written
    <3> QED
      BY <1>2, <2>1, <2>4, <3>1, PrevOfEvent DEF SameContent
  <2>5. CASE c # p /\ c # prev /\ c # next
    <3>1. written[c] = m.event[c]
      BY <2>5 DEF written, Written
    <3> QED
      BY <2>1, <2>5, <3>1 DEF SameContent
  <2> QED
    BY <2>2, <2>3, <2>4, <2>5
<1>6. written \in Structs
  <2>1. written = [c \in Cells |-> written[c]]
    BY DEF written, Written
  <2> QED
    BY <1>5, <2>1 DEF Structs
<1>7. after \in Memories
  BY <1>1, <1>2, <1>6 DEF Memories
<1> QED
  BY <1>1, <1>5, <1>7 DEF p, prev, next, after

(* There is a cell for one event more than the list holds.                 *)
LEMMA FreeIsRoom ==
    ASSUME NEW m \in Memories, NEW w, IsList(w, m),
           NEW p \in Cells \ m.used
    PROVE  Len(w) + 1 <= Cardinality(Cells)
<1> DEFINE T == Cells \ {p}
           f == [i \in 1..Len(w) |-> w[i]]
<1>1. Len(w) \in Nat
  BY ListFacts
<1>2. /\ IsFiniteSet(T) /\ Cardinality(T) = Cardinality(Cells) - 1
      /\ Cardinality(Cells) \in Nat
  BY CellsAssumption, FS_RemoveElement, FS_CardinalityType
<1>3. \A i \in 1..Len(w) : w[i] \in T
  BY OnListFacts
<1>4. f \in Injection(1..Len(w), T)
  BY <1>3 DEF IsList, Injection, IsInjective
<1>5. Cardinality(1..Len(w)) <= Cardinality(T)
  BY <1>2, <1>4, FS_Injection
<1> HIDE DEF T, f
<1>6. Cardinality(1..Len(w)) = Len(w)
  BY <1>1, UpTo
<1> QED
  BY <1>1, <1>2, <1>5, <1>6

(* insertevent leaves a list, with the new event at place k.               *)
LEMMA InsertLinks ==
    ASSUME NEW m \in Memories, NEW w, IsList(w, m), Cells \ m.used # {},
           NEW fields \in Events, NEW k,
           Neighbours(w, m.event, fields.evtime, k),
           Before(m, fields.evtime) = NextAt(w, k)
    PROVE  IsList(Inserted(w, k, malloc(m)), insertevent(m, fields))
<1> DEFINE p == malloc(m)
           after == insertevent(m, fields)
           v == Inserted(w, k, p)
           prev == PrevAt(w, k)
           next == NextAt(w, k)
<1>1. /\ w \in Seq(Cells) /\ Len(w) \in Nat
      /\ Len(w) = 0 <=> w = << >>
      /\ m.evlist = IF Len(w) = 0 THEN NULL ELSE w[1]
  BY ListFacts
<1>2. p \in Cells /\ p \notin m.used /\ p # NULL
  BY MallocIsFree
<1>3. k \in 1..(Len(w) + 1)
  BY DEF Neighbours
<1>4. /\ \A i \in 1..Len(w) : w[i] = prev <=> i = k - 1
      /\ \A i \in 1..Len(w) : w[i] = next <=> i = k
  BY <1>3, NeighbourFacts
<1>5. /\ after.used = m.used \cup {p}
      /\ after.evlist = IF k = 1 THEN p ELSE m.evlist
  BY InsertFields
<1>6. \A c \in Cells :
         /\ after.event[c].next = IF c = p THEN next
                                  ELSE IF c = prev THEN p ELSE m.event[c].next
         /\ after.event[c].prev = IF c = p THEN prev
                                  ELSE IF c = next THEN p ELSE m.event[c].prev
  BY InsertFields
<1>7. /\ v \in Seq(Cells) /\ Len(v) = Len(w) + 1 /\ v[k] = p
      /\ \A i \in 1..(k - 1) : i \in 1..Len(w) /\ v[i] = w[i]
      /\ \A i \in (k + 1)..(Len(w) + 1) : i - 1 \in 1..Len(w) /\ v[i] = w[i - 1]
      /\ \A i \in 1..(Len(w) + 1) :
            i \in 1..(k - 1) \/ i = k \/ i \in (k + 1)..(Len(w) + 1)
  BY <1>1, <1>2, <1>3, InsertedFacts
<1>8. \A i \in 1..Len(w) :
         /\ w[i] \in Cells /\ w[i] \in m.used /\ w[i] # NULL
         /\ m.event[w[i]].next = IF i = Len(w) THEN NULL ELSE w[i + 1]
         /\ m.event[w[i]].prev = IF i = 1 THEN NULL ELSE w[i - 1]
  BY OnListFacts
<1>9. /\ prev = IF k = 1 THEN NULL ELSE w[k - 1]
      /\ next = IF k = Len(w) + 1 THEN NULL ELSE w[k]
  BY DEF PrevAt, NextAt
<1>10. Len(w) + 1 <= Cardinality(Cells)
  BY <1>2, FreeIsRoom
<1> HIDE DEF p, after, v, prev, next
<1>11. \A i \in 1..Len(w) :
          /\ after.event[w[i]].next = IF i = k - 1 THEN p
                                      ELSE m.event[w[i]].next
          /\ after.event[w[i]].prev = IF i = k THEN p ELSE m.event[w[i]].prev
  BY <1>2, <1>4, <1>6, <1>8
<1>12. after.event[p].next = next /\ after.event[p].prev = prev
  BY <1>2, <1>6
<1>13. ASSUME NEW i \in 1..Len(v)
       PROVE  /\ after.event[v[i]].next = IF i = Len(v) THEN NULL ELSE v[i + 1]
              /\ after.event[v[i]].prev = IF i = 1 THEN NULL ELSE v[i - 1]
  <2>1. CASE i = k
    <3>1. v[i] = p
      BY <1>7, <2>1
    <3>2. next = IF i = Len(v) THEN NULL ELSE v[i + 1]
      <4>1. CASE k = Len(w) + 1
        BY <1>7, <1>9, <2>1, <4>1
      <4>2. CASE k # Len(w) + 1
        <5>1. k + 1 \in (k + 1)..(Len(w) + 1)
          BY <1>1, <1>3, <4>2
        <5>2. v[k + 1] = w[(k + 1) - 1]
          BY <1>7, <5>1
        <5>3. (k + 1) - 1 = k
          BY <1>3
        <5> QED
          BY <1>7, <1>9, <2>1, <4>2, <5>2, <5>3
      <4> QED
        BY <4>1, <4>2
    <3>3. prev = IF i = 1 THEN NULL ELSE v[i - 1]
      <4>1. CASE k = 1
        BY <1>9, <2>1, <4>1
      <4>2. CASE k # 1
        <5>1. k - 1 \in 1..(k - 1)
          BY <1>3, <4>2
        <5> QED
          BY <1>7, <1>9, <2>1, <4>2, <5>1
      <4> QED
        BY <4>1, <4>2
    <3> QED
      BY <1>12, <3>1, <3>2, <3>3
  <2>2. CASE i \in 1..(k - 1)
    <3>1. i \in 1..Len(w) /\ v[i] = w[i] /\ i # k /\ i # Len(v)
      BY <1>1, <1>3, <1>7, <2>2
    <3>2. after.event[w[i]].next = v[i + 1]
      <4>1. CASE i = k - 1
        <5>1. i + 1 = k
          BY <1>3, <4>1
        <5> QED
          BY <1>7, <1>11, <3>1, <4>1, <5>1
      <4>2. CASE i # k - 1
        <5>1. i + 1 \in 1..(k - 1) /\ i # Len(w)
          BY <1>3, <2>2, <4>2
        <5>2. after.event[w[i]].next = w[i + 1]
          BY <1>8, <1>11, <3>1, <4>2, <5>1
        <5> QED
          BY <1>7, <5>1, <5>2
      <4> QED
        BY <4>1, <4>2
    <3>3. after.event[w[i]].prev = IF i = 1 THEN NULL ELSE v[i - 1]
      <4>1. after.event[w[i]].prev = IF i = 1 THEN NULL ELSE w[i - 1]
        BY <1>8, <1>11, <3>1
      <4>2. i # 1 => i - 1 \in 1..(k - 1)
        BY <1>3, <2>2
      <4> QED
        BY <1>7, <4>1, <4>2
    <3> QED
      BY <3>1, <3>2, <3>3
  <2>3. CASE i \in (k + 1)..(Len(w) + 1)
    <3>1. /\ i - 1 \in 1..Len(w) /\ v[i] = w[i - 1] /\ i # 1
          /\ i - 1 # k - 1
      BY <1>3, <1>7, <2>3
    <3>2. after.event[w[i - 1]].next = IF i = Len(v) THEN NULL ELSE v[i + 1]
      <4>1. after.event[w[i - 1]].next = IF i - 1 = Len(w) THEN NULL
                                         ELSE w[(i - 1) + 1]
        BY <1>8, <1>11, <3>1
      <4>2. CASE i = Len(v)
        BY <1>1, <1>7, <4>1, <4>2
      <4>3. CASE i # Len(v)
        <5> DEFINE n == Len(w)
        <5>1. n \in Nat /\ i # n + 1
          BY <1>1, <1>7, <4>3
        <5>2. k \in 1..(n + 1) /\ i \in (k + 1)..(n + 1)
          BY <1>3, <2>3
        <5> HIDE DEF n
        <5>3. /\ i + 1 \in (k + 1)..(n + 1) /\ i - 1 # n
              /\ (i - 1) + 1 = i /\ (i + 1) - 1 = i
          BY <5>1, <5>2
        <5>4. /\ i + 1 \in (k + 1)..(Len(w) + 1) /\ i - 1 # Len(w)
              /\ (i - 1) + 1 = i /\ (i + 1) - 1 = i
          BY <5>3 DEF n
        <5>5. v[i + 1] = w[(i + 1) - 1]
          BY <1>7, <5>4
        <5> QED
          BY <4>1, <4>3, <5>4, <5>5
      <4> QED
        BY <4>2, <4>3
    <3>3. after.event[w[i - 1]].prev = v[i - 1]
      <4>1. CASE i - 1 = k
        BY <1>7, <1>11, <3>1, <4>1
      <4>2. CASE i - 1 # k
        <5>1. i - 1 \in (k + 1)..(Len(w) + 1) /\ i - 1 # 1
          BY <1>1, <1>3, <2>3, <4>2
        <5>2. v[i - 1] = w[(i - 1) - 1]
          BY <1>7, <5>1
        <5>3. after.event[w[i - 1]].prev = w[(i - 1) - 1]
          BY <1>8, <1>11, <3>1, <4>2, <5>1
        <5> QED
          BY <5>2, <5>3
      <4> QED
        BY <4>1, <4>2
    <3> QED
      BY <3>1, <3>2, <3>3
  <2> QED
    BY <1>7, <2>1, <2>2, <2>3
<1>14. \A i \in 1..Len(v) : v[i] \in after.used
  BY <1>5, <1>7, <1>8
<1>15. \A i, j \in 1..Len(v) : i # j => v[i] # v[j]
  <2>1. \A i, j \in 1..Len(w) : i # j => w[i] # w[j]
    BY DEF IsList
  <2>2. \A i \in 1..Len(w) : w[i] # p
    BY <1>2, <1>8
  <2> SUFFICES ASSUME NEW i \in 1..Len(v), NEW j \in 1..Len(v), i # j
               PROVE  v[i] # v[j]
    OBVIOUS
  <2>3. CASE i = k \/ j = k
    BY <1>7, <2>2, <2>3
  <2>4. CASE i \in 1..(k - 1) /\ j \in 1..(k - 1)
    BY <1>7, <2>1, <2>4
  <2>5. CASE i \in 1..(k - 1) /\ j \in (k + 1)..(Len(w) + 1)
    <3>1. i # j - 1
      BY <1>1, <1>3, <2>5
    <3> QED
      BY <1>7, <2>1, <2>5, <3>1
  <2>6. CASE i \in (k + 1)..(Len(w) + 1) /\ j \in 1..(k - 1)
    <3>1. i - 1 # j
      BY <1>1, <1>3, <2>6
    <3> QED
      BY <1>7, <2>1, <2>6, <3>1
  <2>7. CASE i \in (k + 1)..(Len(w) + 1) /\ j \in (k + 1)..(Len(w) + 1)
    <3>1. i - 1 # j - 1
      BY <1>1, <1>3, <2>7
    <3> QED
      BY <1>7, <2>1, <2>7, <3>1
  <2> QED
    BY <1>7, <2>3, <2>4, <2>5, <2>6, <2>7
<1>16. after.evlist = IF v = << >> THEN NULL ELSE v[1]
  <2>1. v # << >>
    BY <1>1, <1>7, EmptySeq
  <2>2. after.evlist = v[1]
    <3>1. CASE k = 1
      BY <1>5, <1>7, <3>1
    <3>2. CASE k # 1
      <4>1. 1 \in 1..(k - 1) /\ Len(w) # 0
        BY <1>1, <1>3, <3>2
      <4> QED
        BY <1>1, <1>5, <1>7, <3>2, <4>1
    <3> QED
      BY <3>1, <3>2
  <2> QED
    BY <2>1, <2>2
<1>17. IsChain(v, after.evlist, after.event)
  BY <1>7, <1>10, <1>13, <1>16 DEF IsChain
<1> QED
  BY <1>13, <1>14, <1>15, <1>17 DEF IsList, p, after, v

(* The times on the list: in order, none before t, and as a float has them. *)
Ordered(w, m, t) ==
    /\ \A i, j \in 1..Len(w) :
          i < j => m.event[w[i]].evtime <= m.event[w[j]].evtime
    /\ \A i \in 1..Len(w) : /\ t <= m.event[w[i]].evtime
                            /\ Representable(m.event[w[i]].evtime)

OnList(w) == {w[i] : i \in 1..Len(w)}

LEMMA InsertOrder ==
    ASSUME NEW m \in Memories, NEW w, IsList(w, m), Cells \ m.used # {},
           NEW t \in Nat, Ordered(w, m, t),
           NEW fields \in Events, t <= fields.evtime,
           Representable(fields.evtime), NEW k,
           Neighbours(w, m.event, fields.evtime, k),
           Before(m, fields.evtime) = NextAt(w, k)
    PROVE  /\ Ordered(Inserted(w, k, malloc(m)), insertevent(m, fields), t)
           /\ OnList(Inserted(w, k, malloc(m))) = OnList(w) \cup {malloc(m)}
<1> DEFINE p == malloc(m)
           after == insertevent(m, fields)
           v == Inserted(w, k, p)
           now == fields.evtime
           T(i) == m.event[w[i]].evtime
           U(i) == after.event[v[i]].evtime
<1>1. w \in Seq(Cells) /\ Len(w) \in Nat
  BY ListFacts
<1>2. p \in Cells /\ p \notin m.used /\ p # NULL
  BY MallocIsFree
<1>3. k \in 1..(Len(w) + 1)
  BY DEF Neighbours
<1>4. \A i \in 1..Len(w) : w[i] \in Cells /\ w[i] # p /\ T(i) \in Nat
  BY <1>2, OnListFacts
<1>5. now \in Nat
  BY DEF Events
<1>6. \A c \in Cells :
         SameContent(after.event[c], IF c = p THEN fields ELSE m.event[c])
  BY InsertFields
<1>7. /\ Len(v) = Len(w) + 1 /\ v[k] = p
      /\ \A i \in 1..(k - 1) : i \in 1..Len(w) /\ v[i] = w[i]
      /\ \A i \in (k + 1)..(Len(w) + 1) : i - 1 \in 1..Len(w) /\ v[i] = w[i - 1]
      /\ \A i \in 1..(Len(w) + 1) :
            i \in 1..(k - 1) \/ i = k \/ i \in (k + 1)..(Len(w) + 1)
  BY <1>1, <1>2, <1>3, InsertedFacts
<1>8. /\ \A i \in 1..(k - 1) : T(i) < now
      /\ k <= Len(w) => now <= T(k)
  BY DEF Neighbours
<1>9. /\ \A i, j \in 1..Len(w) : i < j => T(i) <= T(j)
      /\ \A i \in 1..Len(w) : t <= T(i) /\ Representable(T(i))
  BY DEF Ordered
<1> HIDE DEF after, v
<1>10. U(k) = now
  BY <1>2, <1>6, <1>7 DEF SameContent
<1>11. \A i \in 1..Len(w) : after.event[w[i]].evtime = T(i)
  BY <1>4, <1>6 DEF SameContent
<1>12. \A i \in 1..(k - 1) : i \in 1..Len(w) /\ U(i) = T(i)
  BY <1>7, <1>11
<1>13. \A i \in (k + 1)..(Len(w) + 1) : i - 1 \in 1..Len(w) /\ U(i) = T(i - 1)
  BY <1>7, <1>11
<1>14. OnList(v) = OnList(w) \cup {p}
  <2>1. OnList(v) \subseteq OnList(w) \cup {p}
    <3> SUFFICES ASSUME NEW i \in 1..Len(v) PROVE v[i] \in OnList(w) \cup {p}
      BY DEF OnList
    <3> QED
      BY <1>7 DEF OnList
  <2>2. p \in OnList(v)
    BY <1>3, <1>7 DEF OnList
  <2>3. ASSUME NEW i \in 1..Len(w) PROVE w[i] \in OnList(v)
    <3>1. CASE i \in 1..(k - 1)
      <4>1. i \in 1..Len(v)
        BY <1>1, <1>7
      <4> QED
        BY <1>7, <3>1, <4>1 DEF OnList
    <3>2. CASE ~(i \in 1..(k - 1))
      <4>1. i + 1 \in (k + 1)..(Len(w) + 1) /\ (i + 1) - 1 = i
            /\ i + 1 \in 1..(Len(w) + 1)
        BY <1>1, <1>3, <3>2
      <4>2. v[i + 1] = w[i]
        BY <1>7, <4>1
      <4> QED
        BY <1>7, <4>1, <4>2 DEF OnList
    <3> QED
      BY <3>1, <3>2
  <2> QED
    BY <2>1, <2>2, <2>3 DEF OnList
<1> HIDE DEF T, U, now
<1>15. \A i \in 1..Len(v) : t <= U(i) /\ Representable(U(i))
  <2> TAKE i \in 1..Len(v)
  <2>1. CASE i = k
    BY <1>10, <2>1 DEF now
  <2>2. CASE i \in 1..(k - 1)
    BY <1>9, <1>12, <2>2
  <2>3. CASE i \in (k + 1)..(Len(w) + 1)
    BY <1>9, <1>13, <2>3
  <2> QED
    BY <1>7, <2>1, <2>2, <2>3
<1>16. \A i \in (k + 1)..(Len(w) + 1) : now <= U(i)
  <2> TAKE i \in (k + 1)..(Len(w) + 1)
  <2>1. k <= Len(w) /\ k \in 1..Len(w) /\ (i - 1 = k \/ k < i - 1)
    BY <1>1, <1>3
  <2>2. now <= T(k)
    BY <1>8, <2>1
  <2>3. i - 1 \in 1..Len(w) /\ U(i) = T(i - 1)
    BY <1>13
  <2>4. T(k) <= T(i - 1)
    <3>1. T(k) \in Nat
      BY <1>4, <2>1
    <3> QED
      BY <1>9, <2>1, <2>3, <3>1
  <2> QED
    BY <1>4, <1>5, <2>1, <2>2, <2>3, <2>4
<1>17. ASSUME NEW i \in 1..Len(v), NEW j \in 1..Len(v), i < j
       PROVE  U(i) <= U(j)
  <2>1. CASE i \in 1..(k - 1) /\ j \in 1..(k - 1)
    BY <1>9, <1>12, <1>17, <2>1
  <2>2. CASE i \in 1..(k - 1) /\ j = k
    BY <1>4, <1>5, <1>8, <1>10, <1>12, <2>2
  <2>3. CASE i \in 1..(k - 1) /\ j \in (k + 1)..(Len(w) + 1)
    <3>1. T(i) < now /\ now <= U(j) /\ U(i) = T(i)
      BY <1>8, <1>12, <1>16, <2>3
    <3>2. T(i) \in Nat /\ U(j) \in Nat
      BY <1>4, <1>12, <1>13, <2>3
    <3> QED
      BY <1>5, <3>1, <3>2
  <2>4. CASE i = k /\ j \in (k + 1)..(Len(w) + 1)
    BY <1>10, <1>16, <2>4
  <2>5. CASE i \in (k + 1)..(Len(w) + 1) /\ j \in (k + 1)..(Len(w) + 1)
    <3>1. i - 1 < j - 1
      BY <1>17
    <3> QED
      BY <1>9, <1>13, <2>5, <3>1
  <2>6. ~(i = k /\ j \in 1..(k - 1)) /\ ~(i = k /\ j = k)
        /\ ~(i \in (k + 1)..(Len(w) + 1) /\ j \in 1..(k - 1))
        /\ ~(i \in (k + 1)..(Len(w) + 1) /\ j = k)
    BY <1>3, <1>17
  <2> QED
    BY <1>7, <2>1, <2>2, <2>3, <2>4, <2>5, <2>6
<1> QED
  BY <1>14, <1>15, <1>17 DEF Ordered, p, after, v, U

(* What insertevent does with a list in order of time.                     *)
LEMMA InsertHolds ==
    ASSUME NEW m \in Memories, NEW w, IsList(w, m), Cells \ m.used # {},
           NEW t \in Nat, Ordered(w, m, t),
           NEW fields \in Events, t <= fields.evtime,
           Representable(fields.evtime)
    PROVE  /\ insertevent(m, fields) \in Memories
           /\ insertevent(m, fields).used = m.used \cup {malloc(m)}
           /\ malloc(m) \in Cells /\ malloc(m) \notin m.used
           /\ \E v : /\ IsList(v, insertevent(m, fields))
                     /\ Ordered(v, insertevent(m, fields), t)
                     /\ OnList(v) = OnList(w) \cup {malloc(m)}
<1>1. fields.evtime \in Nat
  BY DEF Events
<1>2. PICK k : /\ Neighbours(w, m.event, fields.evtime, k)
               /\ Before(m, fields.evtime) = NextAt(w, k)
  BY <1>1, BeforeIsNext
<1>3. /\ insertevent(m, fields) \in Memories
      /\ insertevent(m, fields).used = m.used \cup {malloc(m)}
  BY <1>2, InsertFields
<1>4. malloc(m) \in Cells /\ malloc(m) \notin m.used
  BY MallocIsFree
<1>5. IsList(Inserted(w, k, malloc(m)), insertevent(m, fields))
  BY <1>2, InsertLinks
<1>6. /\ Ordered(Inserted(w, k, malloc(m)), insertevent(m, fields), t)
      /\ OnList(Inserted(w, k, malloc(m))) = OnList(w) \cup {malloc(m)}
  BY <1>2, InsertOrder
<1> QED
  BY <1>3, <1>4, <1>5, <1>6

-----------------------------------------------------------------------------
(* Unlink, field by field: q is the k-th event of the list.                *)
Left(m, prev, next) ==
    [c \in Cells |-> IF c = prev THEN [m.event[c] EXCEPT !.next = next]
                     ELSE IF c = next THEN [m.event[c] EXCEPT !.prev = prev]
                     ELSE m.event[c]]

LEMMA UnlinkFields ==
    ASSUME NEW m \in Memories, NEW w, IsList(w, m), NEW k \in 1..Len(w)
    PROVE  /\ Unlink(m, w[k]) \in Memories
           /\ Unlink(m, w[k]).used = m.used
           /\ Unlink(m, w[k]).evlist =
                IF k = 1 THEN NextAt(w, k + 1) ELSE m.evlist
           /\ \A c \in Cells :
                 /\ Unlink(m, w[k]).event[c].next =
                      IF c = PrevAt(w, k) THEN NextAt(w, k + 1)
                      ELSE m.event[c].next
                 /\ Unlink(m, w[k]).event[c].prev =
                      IF c = NextAt(w, k + 1) THEN PrevAt(w, k)
                      ELSE m.event[c].prev
                 /\ SameContent(Unlink(m, w[k]).event[c], m.event[c])
<1> DEFINE q == w[k]
           after == Unlink(m, q)
           prev == m.event[q].prev
           next == m.event[q].next
           left == Left(m, prev, next)
<1>1. Len(w) \in Nat
  BY ListFacts
<1>2. /\ next = IF k = Len(w) THEN NULL ELSE w[k + 1]
      /\ prev = IF k = 1 THEN NULL ELSE w[k - 1]
  BY OnListFacts
<1>3. k \in 1..(Len(w) + 1) /\ k + 1 \in 1..(Len(w) + 1)
      /\ (k + 1 = Len(w) + 1 <=> k = Len(w))
  BY <1>1
<1>4. prev = PrevAt(w, k) /\ next = NextAt(w, k + 1)
  BY <1>2, <1>3 DEF PrevAt, NextAt
<1>5. prev \in Place /\ next \in Place /\ (prev = NULL <=> k = 1)
  BY <1>3, <1>4, NeighbourFacts
<1>6. prev # next \/ prev = NULL
  <2>1. k # 1 => k - 1 \in 1..Len(w) /\ k - 1 # (k + 1) - 1 /\ k - 1 # k + 1
    BY <1>1
  <2>2. \A i \in 1..Len(w) : w[i] = NextAt(w, k + 1) <=> i = k + 1
    BY <1>3, NeighbourFacts
  <2> HIDE DEF prev, next
  <2> QED
    BY <1>4, <1>5, <2>1, <2>2 DEF PrevAt
<1>7. after = [m EXCEPT !.event = [c \in Cells |->
                          CASE c = prev -> [m.event[c] EXCEPT !.next = next]
                            [] c = next -> [m.event[c] EXCEPT !.prev = prev]
                            [] OTHER    -> m.event[c]],
                        !.evlist = IF prev = NULL THEN next ELSE m.evlist]
  BY DEF Unlink, Memories
<1> HIDE DEF q, after, prev, next, left
<1>8. \A c \in Cells :
         (CASE c = prev -> [m.event[c] EXCEPT !.next = next]
            [] c = next -> [m.event[c] EXCEPT !.prev = prev]
            [] OTHER    -> m.event[c])
         = IF c = prev THEN [m.event[c] EXCEPT !.next = next]
           ELSE IF c = next THEN [m.event[c] EXCEPT !.prev = prev]
           ELSE m.event[c]
  BY <1>6, CellsAssumption
<1>9. after = [m EXCEPT !.event = left,
                        !.evlist = IF prev = NULL THEN next ELSE m.evlist]
  BY <1>7, <1>8 DEF left, Left
<1>10. ASSUME NEW c \in Cells
       PROVE  /\ left[c] \in Events
              /\ left[c].next = IF c = prev THEN next ELSE m.event[c].next
              /\ left[c].prev = IF c = next THEN prev ELSE m.event[c].prev
              /\ SameContent(left[c], m.event[c])
  <2>1. m.event[c] \in Events /\ c # NULL
    BY CellsAssumption DEF Memories, Structs
  <2>2. CASE c = prev
    <3>1. left[c] = [m.event[c] EXCEPT !.next = next] /\ c # next
      BY <1>6, <2>1, <2>2 DEF left, Left
    <3> QED
      BY <1>5, <2>1, <2>2, <3>1, NextOfEvent DEF SameContent
  <2>3. CASE c # prev /\ c = next
    <3>1. left[c] = [m.event[c] EXCEPT !.prev = prev]
      BY <2>3 DEF left, Left
    <3> QED
      BY <1>5, <2>1, <2>3, <3>1, PrevOfEvent DEF SameContent
  <2>4. CASE c # prev /\ c # next
    <3>1. left[c] = m.event[c]
      BY <2>4 DEF left, Left
    <3> QED
      BY <2>1, <2>4, <3>1 DEF SameContent
  <2> QED
    BY <2>2, <2>3, <2>4
<1>11. left \in Structs
  <2>1. left = [c \in Cells |-> left[c]]
    BY DEF left, Left
  <2> QED
    BY <1>10, <2>1 DEF Structs
<1>12. /\ after \in Memories /\ after.event = left /\ after.used = m.used
       /\ after.evlist = IF prev = NULL THEN next ELSE m.evlist
  BY <1>5, <1>9, <1>11 DEF Memories
<1> QED
  BY <1>4, <1>5, <1>10, <1>12 DEF q, after

(* Unlink leaves a list, without q.                                        *)
LEMMA UnlinkLinks ==
    ASSUME NEW m \in Memories, NEW w, IsList(w, m), NEW k \in 1..Len(w)
    PROVE  IsList(Removed(w, k), Unlink(m, w[k]))
<1> DEFINE after == Unlink(m, w[k])
           v == Removed(w, k)
           prev == PrevAt(w, k)
           next == NextAt(w, k + 1)
           n == Len(w)
<1>1. /\ w \in Seq(Cells) /\ n \in Nat /\ n <= Cardinality(Cells)
      /\ m.evlist = IF n = 0 THEN NULL ELSE w[1]
  BY ListFacts
<1>2. k \in 1..(n + 1) /\ k + 1 \in 1..(n + 1) /\ (k + 1) - 1 = k
  BY <1>1
<1>3. \A i \in 1..n : w[i] = prev <=> i = k - 1
  BY <1>2, NeighbourFacts
<1>4. \A i \in 1..n : w[i] = next <=> i = k + 1
  BY <1>2, NeighbourFacts
<1>5. /\ after.used = m.used
      /\ after.evlist = IF k = 1 THEN next ELSE m.evlist
  BY UnlinkFields
<1>6. \A c \in Cells :
         /\ after.event[c].next = IF c = prev THEN next ELSE m.event[c].next
         /\ after.event[c].prev = IF c = next THEN prev ELSE m.event[c].prev
  BY UnlinkFields
<1>7. /\ v \in Seq(Cells) /\ Len(v) = n - 1
      /\ \A i \in 1..(k - 1) : i \in 1..n /\ v[i] = w[i]
      /\ \A i \in k..(n - 1) : i + 1 \in 1..n /\ v[i] = w[i + 1]
      /\ \A i \in 1..(n - 1) : i \in 1..(k - 1) \/ i \in k..(n - 1)
  BY <1>1, RemovedFacts
<1>8. \A i \in 1..n :
         /\ w[i] \in Cells /\ w[i] \in m.used /\ w[i] # NULL
         /\ m.event[w[i]].next = IF i = n THEN NULL ELSE w[i + 1]
         /\ m.event[w[i]].prev = IF i = 1 THEN NULL ELSE w[i - 1]
  BY OnListFacts
<1>9. prev = IF k = 1 THEN NULL ELSE w[k - 1]
  BY DEF PrevAt
<1>10. next = IF k + 1 = n + 1 THEN NULL ELSE w[k + 1]
  BY DEF NextAt
<1>11. k \in 1..n
  OBVIOUS
<1> HIDE DEF after, v, prev, next, n
<1>12. \A i \in 1..n :
          /\ after.event[w[i]].next = IF i = k - 1 THEN next
                                      ELSE m.event[w[i]].next
          /\ after.event[w[i]].prev = IF i = k + 1 THEN prev
                                      ELSE m.event[w[i]].prev
  BY <1>3, <1>4, <1>6, <1>8
<1>13. k <= n - 1 => k \in k..(n - 1) /\ v[k] = w[k + 1]
  BY <1>1, <1>7, <1>11
<1>14. next = IF k = n THEN NULL ELSE v[k]
  BY <1>1, <1>10, <1>11, <1>13
<1>15. prev = IF k = 1 THEN NULL ELSE v[k - 1]
  <2>1. k # 1 => k - 1 \in 1..(k - 1)
    BY <1>11
  <2> QED
    BY <1>7, <1>9, <2>1
<1>16. ASSUME NEW i \in 1..(n - 1)
       PROVE  /\ after.event[v[i]].next = IF i = n - 1 THEN NULL ELSE v[i + 1]
              /\ after.event[v[i]].prev = IF i = 1 THEN NULL ELSE v[i - 1]
  <2>1. CASE i \in 1..(k - 1)
    <3>1. i \in 1..n /\ v[i] = w[i] /\ i # n /\ i # k + 1
      BY <1>1, <1>7, <1>11, <2>1
    <3>2. after.event[w[i]].next = IF i = n - 1 THEN NULL ELSE v[i + 1]
      <4>1. CASE i = k - 1
        <5>1. i + 1 = k /\ (i = n - 1 <=> k = n)
          BY <1>1, <1>11, <4>1
        <5> QED
          BY <1>12, <1>14, <3>1, <4>1, <5>1
      <4>2. CASE i # k - 1
        <5>1. i + 1 \in 1..(k - 1) /\ i # n - 1
          BY <1>1, <1>11, <2>1, <4>2
        <5>2. after.event[w[i]].next = w[i + 1]
          BY <1>8, <1>12, <3>1, <4>2
        <5> QED
          BY <1>7, <5>1, <5>2
      <4> QED
        BY <4>1, <4>2
    <3>3. after.event[w[i]].prev = IF i = 1 THEN NULL ELSE v[i - 1]
      <4>1. after.event[w[i]].prev = IF i = 1 THEN NULL ELSE w[i - 1]
        BY <1>8, <1>12, <3>1
      <4>2. i # 1 => i - 1 \in 1..(k - 1)
        BY <1>11, <2>1
      <4> QED
        BY <1>7, <4>1, <4>2
    <3> QED
      BY <3>1, <3>2, <3>3
  <2>2. CASE i \in k..(n - 1)
    <3>1. /\ i + 1 \in 1..n /\ v[i] = w[i + 1]
          /\ i + 1 # k - 1 /\ i + 1 # 1
      BY <1>1, <1>7, <1>11, <2>2
    <3>2. after.event[w[i + 1]].next = IF i = n - 1 THEN NULL ELSE v[i + 1]
      <4>1. after.event[w[i + 1]].next = IF i + 1 = n THEN NULL
                                         ELSE w[(i + 1) + 1]
        BY <1>8, <1>12, <3>1
      <4>2. i + 1 = n <=> i = n - 1
        BY <1>1, <1>11, <2>2
      <4>3. i # n - 1 => i + 1 \in k..(n - 1)
        BY <1>1, <1>11, <2>2
      <4>4. i # n - 1 => v[i + 1] = w[(i + 1) + 1]
        BY <1>7, <4>3
      <4> QED
        BY <4>1, <4>2, <4>4
    <3>3. after.event[w[i + 1]].prev = IF i = 1 THEN NULL ELSE v[i - 1]
      <4>1. CASE i = k
        BY <1>12, <1>15, <3>1, <4>1
      <4>2. CASE i # k
        <5>1. i - 1 \in k..(n - 1) /\ i # 1 /\ (i - 1) + 1 = i
              /\ (i + 1) - 1 = i /\ i + 1 # k + 1
          BY <1>1, <1>11, <2>2, <4>2
        <5>2. v[i - 1] = w[(i - 1) + 1]
          BY <1>7, <5>1
        <5>3. after.event[w[i + 1]].prev = w[(i + 1) - 1]
          BY <1>8, <1>12, <3>1, <5>1
        <5> QED
          BY <5>1, <5>2, <5>3
      <4> QED
        BY <4>1, <4>2
    <3> QED
      BY <3>1, <3>2, <3>3
  <2> QED
    BY <1>7, <2>1, <2>2
<1>17. \A i \in 1..(n - 1) : v[i] \in after.used
  BY <1>5, <1>7, <1>8
<1>18. \A i, j \in 1..(n - 1) : i # j => v[i] # v[j]
  <2>1. \A i, j \in 1..n : i # j => w[i] # w[j]
    BY DEF IsList, n
  <2> SUFFICES ASSUME NEW i \in 1..(n - 1), NEW j \in 1..(n - 1), i # j
               PROVE  v[i] # v[j]
    OBVIOUS
  <2>2. CASE i \in 1..(k - 1) /\ j \in 1..(k - 1)
    BY <1>7, <2>1, <2>2
  <2>3. CASE i \in 1..(k - 1) /\ j \in k..(n - 1)
    <3>1. i # j + 1
      BY <1>1, <1>11, <2>3
    <3> QED
      BY <1>7, <2>1, <2>3, <3>1
  <2>4. CASE i \in k..(n - 1) /\ j \in 1..(k - 1)
    <3>1. i + 1 # j
      BY <1>1, <1>11, <2>4
    <3> QED
      BY <1>7, <2>1, <2>4, <3>1
  <2>5. CASE i \in k..(n - 1) /\ j \in k..(n - 1)
    <3>1. i + 1 # j + 1
      BY <1>1, <1>11, <2>5
    <3> QED
      BY <1>7, <2>1, <2>5, <3>1
  <2> QED
    BY <1>7, <2>2, <2>3, <2>4, <2>5
<1>19. v = << >> <=> n = 1
  <2>1. Len(v) = 0 <=> v = << >>
    BY <1>7, EmptySeq
  <2> QED
    BY <1>1, <1>7, <2>1
<1>20. after.evlist = IF v = << >> THEN NULL ELSE v[1]
  <2>1. CASE k = 1
    BY <1>5, <1>14, <1>19, <2>1
  <2>2. CASE k # 1
    <3>1. 1 \in 1..(k - 1) /\ n # 1 /\ n # 0
      BY <1>1, <1>11, <2>2
    <3> QED
      BY <1>1, <1>5, <1>7, <1>19, <2>2, <3>1
  <2> QED
    BY <2>1, <2>2
<1>21. n - 1 <= Cardinality(Cells)
  BY <1>1, CellsAssumption, FS_CardinalityType
<1>22. IsChain(v, after.evlist, after.event)
  BY <1>7, <1>16, <1>20, <1>21 DEF IsChain
<1> QED
  BY <1>7, <1>16, <1>17, <1>18, <1>22 DEF IsList, after, v

(* The events that stay keep their times; without the first one, none is   *)
(* before its time.                                                        *)
LEMMA UnlinkOrder ==
    ASSUME NEW m \in Memories, NEW w, IsList(w, m), NEW k \in 1..Len(w),
           NEW t \in Nat, Ordered(w, m, t)
    PROVE  /\ Ordered(Removed(w, k), Unlink(m, w[k]), t)
           /\ k = 1 => Ordered(Removed(w, k), Unlink(m, w[k]),
                               m.event[w[k]].evtime)
           /\ OnList(Removed(w, k)) = OnList(w) \ {w[k]}
<1> DEFINE after == Unlink(m, w[k])
           v == Removed(w, k)
           n == Len(w)
           T(i) == m.event[w[i]].evtime
           U(i) == after.event[v[i]].evtime
           J(i) == IF i < k THEN i ELSE i + 1
<1>1. w \in Seq(Cells) /\ n \in Nat
  BY ListFacts
<1>2. \A c \in Cells : SameContent(after.event[c], m.event[c])
  BY UnlinkFields
<1>3. /\ Len(v) = n - 1
      /\ \A i \in 1..(k - 1) : i \in 1..n /\ v[i] = w[i]
      /\ \A i \in k..(n - 1) : i + 1 \in 1..n /\ v[i] = w[i + 1]
      /\ \A i \in 1..(n - 1) : i \in 1..(k - 1) \/ i \in k..(n - 1)
  BY <1>1, RemovedFacts
<1>4. \A i \in 1..n : w[i] \in Cells
  BY OnListFacts
<1>5. /\ \A i, j \in 1..n : i < j => T(i) <= T(j)
      /\ \A i \in 1..n : t <= T(i) /\ Representable(T(i))
  BY DEF Ordered
<1>6. k \in 1..n
  OBVIOUS
<1>7. \A i, j \in 1..n : i # j => w[i] # w[j]
  BY DEF IsList
<1> HIDE DEF after, v, n
<1>8. \A i \in 1..(n - 1) : J(i) \in 1..n /\ J(i) # k /\ v[i] = w[J(i)]
  <2> TAKE i \in 1..(n - 1)
  <2>1. CASE i \in 1..(k - 1)
    BY <1>1, <1>3, <1>6, <2>1
  <2>2. CASE i \in k..(n - 1)
    BY <1>1, <1>3, <1>6, <2>2
  <2> QED
    BY <1>3, <2>1, <2>2
<1>9. \A i, j \in 1..(n - 1) : i < j => J(i) < J(j)
  BY <1>1, <1>6
<1>10. \A i \in 1..(n - 1) : k = 1 => k < J(i)
  BY <1>1, <1>6
<1>11. \A j \in 1..n : j # k => \E i \in 1..(n - 1) : J(i) = j
  <2> TAKE j \in 1..n
  <2>1. CASE j < k
    <3>1. j \in 1..(n - 1) /\ J(j) = j
      BY <1>1, <1>6, <2>1
    <3> QED
      BY <3>1
  <2>2. CASE j > k
    <3>1. j - 1 \in 1..(n - 1) /\ J(j - 1) = j
      BY <1>1, <1>6, <2>2
    <3> QED
      BY <3>1
  <2> QED
    BY <1>6, <2>1, <2>2
<1> HIDE DEF J
<1>12. \A i \in 1..(n - 1) : U(i) = T(J(i))
  BY <1>2, <1>4, <1>8 DEF SameContent
<1>13. Len(v) = n - 1
  BY <1>3
<1>14. OnList(v) = OnList(w) \ {w[k]}
  <2>1. \A i \in 1..(n - 1) : v[i] \in OnList(w) \ {w[k]}
    BY <1>6, <1>7, <1>8 DEF OnList, n
  <2>2. \A j \in 1..n : w[j] # w[k] => w[j] \in OnList(v)
    BY <1>8, <1>11, <1>13 DEF OnList
  <2> QED
    BY <1>13, <2>1, <2>2 DEF OnList, n
<1> HIDE DEF T, U
<1>15. \A i, j \in 1..(n - 1) : i < j => U(i) <= U(j)
  BY <1>5, <1>8, <1>9, <1>12
<1>16. \A i \in 1..(n - 1) : t <= U(i) /\ Representable(U(i))
  BY <1>5, <1>8, <1>12
<1>17. k = 1 => \A i \in 1..(n - 1) : T(k) <= U(i)
  BY <1>5, <1>6, <1>8, <1>10, <1>12
<1>18. Ordered(v, after, t)
  BY <1>13, <1>15, <1>16 DEF Ordered, U
<1>19. k = 1 => Ordered(v, after, T(k))
  BY <1>13, <1>15, <1>16, <1>17 DEF Ordered, U
<1> QED
  BY <1>14, <1>18, <1>19 DEF after, v, T

(* Freeing an event that is not on the list.                               *)
LEMMA FreeHolds ==
    ASSUME NEW m \in Memories, NEW w, IsList(w, m), NEW t \in Nat,
           Ordered(w, m, t), NEW p \in Cells, p \notin OnList(w)
    PROVE  /\ free(m, p) \in Memories
           /\ free(m, p).used = m.used \ {p}
           /\ IsList(w, free(m, p))
           /\ Ordered(w, free(m, p), t)
           /\ \A c \in Cells \ {p} : free(m, p).event[c] = m.event[c]
<1> DEFINE after == free(m, p)
<1>1. after = [m EXCEPT !.used = m.used \ {p},
                        !.event = [m.event EXCEPT ![p] = Blank]]
  BY DEF free, Memories
<1>2. Blank \in Events
  BY DEF Blank, Events, Place, FROM_LAYER5
<1>3. [m.event EXCEPT ![p] = Blank] \in Structs
  BY <1>2 DEF Memories, Structs
<1>4. /\ after \in Memories /\ after.used = m.used \ {p}
      /\ after.evlist = m.evlist
      /\ after.event = [m.event EXCEPT ![p] = Blank]
  BY <1>1, <1>3 DEF Memories
<1> HIDE DEF after
<1>5. \A c \in Cells \ {p} : after.event[c] = m.event[c]
  BY <1>4 DEF Memories, Structs
<1>6. \A i \in 1..Len(w) : w[i] \in Cells /\ w[i] # p
  BY OnListFacts DEF OnList
<1>7. \A i \in 1..Len(w) : after.event[w[i]] = m.event[w[i]]
  BY <1>5, <1>6
<1>8. IsChain(w, after.evlist, after.event)
  BY <1>4, <1>7 DEF IsList, IsChain
<1>9. IsList(w, after)
  <2>1. \A i \in 1..Len(w) :
           after.event[w[i]].prev = IF i = 1 THEN NULL ELSE w[i - 1]
    BY <1>7 DEF IsList
  <2>2. \A i \in 1..Len(w) : w[i] \in after.used
    BY <1>4, <1>6 DEF IsList
  <2> QED
    BY <1>8, <2>1, <2>2 DEF IsList
<1>10. Ordered(w, after, t)
  BY <1>7 DEF Ordered
<1> QED
  BY <1>4, <1>5, <1>9, <1>10 DEF after

-----------------------------------------------------------------------------
(* Times.                                                                  *)
LEMMA RoundedFacts ==
    ASSUME NEW t \in Nat, Representable(t), NEW x \in Nat
    PROVE  /\ Rounded(t + x) \in Nat /\ t <= Rounded(t + x)
           /\ Representable(Rounded(t + x))
<1>1. Exact \in Nat
  BY BoundsAssumption
<1> DEFINE s == t + x
<1>2. s \in Nat /\ t <= s /\ (x = 0 => s = t) /\ (x # 0 => t + 1 <= s)
  OBVIOUS
<1> HIDE DEF s
<1>3. CASE s < Exact \/ s % 2 = 0
  <2>1. Rounded(s) = s
    BY <1>3 DEF Rounded
  <2> QED
    BY <1>2, <2>1 DEF Representable, s
<1>4. CASE ~(s < Exact) /\ s % 2 # 0
  <2>1. x # 0
    <3>1. SUFFICES ASSUME x = 0 PROVE FALSE
      OBVIOUS
    <3>2. Rounded(s) = s
      BY <1>2, <3>1 DEF Representable
    <3>3. Rounded(s) = s - 1 \/ Rounded(s) = s + 1
      BY <1>4 DEF Rounded
    <3> QED
      BY <1>2, <3>2, <3>3
  <2>2. s \in Nat \ {0} /\ (s - 1) % 2 = 0 /\ (s + 1) % 2 = 0
    BY <1>2, <1>4
  <2>3. Rounded(s) \in {s - 1, s + 1}
    BY <1>4 DEF Rounded
  <2>4. Rounded(s) \in Nat /\ t <= Rounded(s) /\ Rounded(s) % 2 = 0
    BY <1>2, <2>1, <2>2, <2>3
  <2>5. Representable(Rounded(s))
    <3> DEFINE r == Rounded(s)
    <3>1. r % 2 = 0
      BY <2>4
    <3> HIDE DEF r
    <3>2. Rounded(r) = r
      BY <3>1 DEF Rounded
    <3> QED
      BY <3>2 DEF Representable, r
  <2> QED
    BY <2>4, <2>5 DEF s
<1> QED
  BY <1>3, <1>4

LEMMA FieldsFacts ==
    ASSUME NEW t \in Nat, Representable(t), NEW x \in Nat,
           NEW evtype \in 0..2, NEW eventity \in {"A", "B"}
    PROVE  /\ Fields(t + x, evtype, eventity) \in Events
           /\ t <= Fields(t + x, evtype, eventity).evtime
           /\ Representable(Fields(t + x, evtype, eventity).evtime)
           /\ Fields(t + x, evtype, eventity).evtype = evtype
           /\ Fields(t + x, evtype, eventity).eventity = eventity
<1> DEFINE r == Rounded(t + x)
           f == Fields(t + x, evtype, eventity)
<1>1. r \in Nat /\ t <= r /\ Representable(r)
  BY RoundedFacts
<1>2. f = [Blank EXCEPT !.evtime = r, !.evtype = evtype, !.eventity = eventity]
  BY DEF Fields
<1> HIDE DEF r, f
<1>3. f = [evtime |-> r, evtype |-> evtype, eventity |-> eventity,
           prev |-> NULL, next |-> NULL]
  BY <1>2 DEF Blank
<1> QED
  BY <1>1, <1>3 DEF Events, Place, f

-----------------------------------------------------------------------------
(* The state before and after a step, as a memory and its list.            *)
LEMMA ListNow ==
    ASSUME IInv
    PROVE  /\ Memory \in Memories
           /\ IsList(Walk(Memory), Memory)
           /\ time \in Nat /\ Representable(time)
           /\ Ordered(Walk(Memory), Memory, time)
           /\ eventptr \in used \cup {NULL}
           /\ eventptr \notin OnList(Walk(Memory))
           /\ ~terminated =>
                 used = OnList(Walk(Memory))
                           \cup (IF eventptr = NULL THEN {} ELSE {eventptr})
<1> DEFINE w == Walk(Memory)
<1>1. Memory \in Memories
  BY DEF IInv, TypeOK, Memory, Memories, Structs, Events, Place
<1>2. Memory.event = event /\ Memory.evlist = evlist /\ Memory.used = used
  BY DEF Memory
<1>3. /\ IsChain(w, evlist, event)
      /\ \A i \in 1..Len(w) : w[i] \in used /\ w[i] # eventptr
  BY DEF IInv, EndsWithNull, IsChain
<1>4. /\ \A i \in 1..Len(w) :
            event[w[i]].prev = IF i = 1 THEN NULL ELSE w[i - 1]
      /\ \A i, j \in 1..Len(w) : i # j => w[i] # w[j]
  BY DEF IInv, WellLinked
<1>5. /\ \A i, j \in 1..Len(w) :
            i < j => event[w[i]].evtime <= event[w[j]].evtime
      /\ \A i \in 1..Len(w) : time <= event[w[i]].evtime
  BY DEF IInv, InTimeOrder
<1>6. /\ Representable(time)
      /\ \A i \in 1..Len(w) : Representable(event[w[i]].evtime)
  BY DEF IInv, TimesAreFloats
<1>7. ~terminated =>
         used = OnList(w) \cup (IF eventptr = NULL THEN {} ELSE {eventptr})
  BY DEF IInv, WellLinked, OnList
<1>8. time \in Nat /\ eventptr \in used \cup {NULL}
  BY DEF IInv, TypeOK
<1> HIDE DEF w
<1>9. IsList(w, Memory)
  BY <1>2, <1>3, <1>4 DEF IsList
<1>10. Ordered(w, Memory, time)
  BY <1>2, <1>5, <1>6 DEF Ordered
<1>11. eventptr \notin OnList(w)
  BY <1>3 DEF OnList
<1> QED
  BY <1>1, <1>6, <1>7, <1>8, <1>9, <1>10, <1>11 DEF w

LEMMA ListThen ==
    ASSUME NEW m \in Memories, NEW w, IsList(w, m), Becomes(m),
           time' \in Nat, Representable(time'), Ordered(w, m, time'),
           eventptr' \in m.used \cup {NULL}, eventptr' \notin OnList(w),
           nsim' \in 0..nsimmax, calls' \in 0..MaxCalls,
           terminated' \in BOOLEAN, terminated' => eventptr' = NULL,
           ~terminated' =>
              m.used = OnList(w)
                          \cup (IF eventptr' = NULL THEN {} ELSE {eventptr'})
    PROVE  IInv'
<1>1. event' = m.event /\ evlist' = m.evlist /\ used' = m.used
  BY DEF Becomes
<1>2. m = [event |-> m.event, evlist |-> m.evlist, used |-> m.used]
  BY DEF Memories
<1>3. Memory' = m
  BY <1>1, <1>2 DEF Memory
<1>4. Walk(Memory)' = w
  <2>1. Walk(m) = w
    BY ListFacts
  <2>2. Walk(Memory)' = Walk(m)
    BY <1>1, <1>3 DEF Walk, Memory, From
  <2> QED
    BY <2>1, <2>2
<1>5. TypeOK'
  <2>1. m.evlist \in m.used \cup {NULL}
    <3>1. m.evlist = IF Len(w) = 0 THEN NULL ELSE w[1]
      BY ListFacts
    <3>2. Len(w) # 0 => 1 \in 1..Len(w)
      BY ListFacts
    <3>3. \A i \in 1..Len(w) : w[i] \in m.used
      BY DEF IsList
    <3> QED
      BY <3>1, <3>2, <3>3
  <2>2. /\ m.used \subseteq Cells
        /\ m.event \in [Cells -> [evtime : Nat, evtype : 0..2,
                                  eventity : {"A", "B"},
                                  prev : Cells \cup {NULL},
                                  next : Cells \cup {NULL}]]
    BY DEF Memories, Structs, Events, Place
  <2> QED
    BY <1>1, <2>1, <2>2 DEF TypeOK
<1>6. \A i \in 1..Len(w) : w[i] \in m.used /\ w[i] # eventptr'
  BY DEF IsList, OnList
<1>7. WellLinked'
  BY <1>1, <1>4 DEF WellLinked, IsList, OnList
<1>8. InTimeOrder'
  BY <1>1, <1>4 DEF InTimeOrder, Ordered
<1>9. EndsWithNull'
  BY <1>1, <1>4, <1>6 DEF EndsWithNull, IsList, IsChain
<1>10. TimesAreFloats'
  BY <1>1, <1>4 DEF TimesAreFloats, Ordered, Representable, Rounded
<1> QED
  BY <1>5, <1>7, <1>8, <1>9, <1>10 DEF IInv

-----------------------------------------------------------------------------
(* One lemma for each action.                                              *)
LEMMA InitHolds == Init => IInv
<1> SUFFICES ASSUME Init PROVE IInv
  OBVIOUS
<1> DEFINE empty == [event |-> [c \in Cells |-> Blank],
                     evlist |-> NULL, used |-> {}]
<1>1. PICK x \in Arrivals :
         LET m == generate_next_arrival(empty, 0, x)
         IN  event = m.event /\ evlist = m.evlist /\ used = m.used
  BY DEF Init
<1>2. Blank \in Events
  BY DEF Blank, Events, Place, FROM_LAYER5
<1>3. empty \in Memories
  BY <1>2 DEF Memories, Structs, Place
<1>4. IsList(<< >>, empty) /\ Ordered(<< >>, empty, 0) /\ OnList(<< >>) = {}
  <2>1. << >> \in Seq(Cells) /\ Len(<< >>) = 0 /\ 1..0 = {}
    BY EmptySeq
  <2>2. 0 <= Cardinality(Cells)
    BY CellsAssumption, FS_CardinalityType
  <2> QED
    BY <2>1, <2>2 DEF IsList, IsChain, Ordered, OnList
<1>5. x \in Nat /\ Representable(0)
  BY DrawsAssumption, BoundsAssumption DEF Representable, Rounded
<1> DEFINE fields == Fields(0 + x, FROM_LAYER5, "A")
           m == insertevent(empty, fields)
<1>6. fields \in Events /\ 0 <= fields.evtime /\ Representable(fields.evtime)
  BY <1>5, FieldsFacts DEF FROM_LAYER5
<1>7. event = m.event /\ evlist = m.evlist /\ used = m.used
  BY <1>1 DEF generate_next_arrival
<1>8. Cells \ empty.used # {}
  BY CellsAssumption
<1> HIDE DEF empty, fields
<1>9. /\ m \in Memories /\ m.used = empty.used \cup {malloc(empty)}
      /\ malloc(empty) \in Cells
      /\ \E v : /\ IsList(v, m) /\ Ordered(v, m, 0)
                /\ OnList(v) = OnList(<< >>) \cup {malloc(empty)}
  BY <1>3, <1>4, <1>6, <1>8, InsertHolds
<1>10. PICK v : /\ IsList(v, m) /\ Ordered(v, m, 0)
                /\ OnList(v) = OnList(<< >>) \cup {malloc(empty)}
  BY <1>9
<1> HIDE DEF m
<1>11. m = [event |-> m.event, evlist |-> m.evlist, used |-> m.used]
  BY <1>9 DEF Memories
<1>12. Memory = m
  BY <1>7, <1>11 DEF Memory
<1>13. Walk(Memory) = v
  BY <1>9, <1>10, <1>12, ListFacts
<1>14. /\ time = 0 /\ nsim = 0 /\ eventptr = NULL /\ calls = 0
       /\ terminated = FALSE
  BY DEF Init
<1>15. /\ Len(v) \in Nat /\ m.evlist = IF Len(v) = 0 THEN NULL ELSE v[1]
       /\ \A i \in 1..Len(v) : v[i] \in Cells /\ v[i] \in m.used /\ v[i] # NULL
  BY <1>9, <1>10, ListFacts, OnListFacts
<1>16. TypeOK
  <2>1. m.evlist \in m.used \cup {NULL}
    <3>1. Len(v) # 0 => 1 \in 1..Len(v)
      BY <1>15
    <3> QED
      BY <1>15, <3>1
  <2>2. /\ m.used \subseteq Cells
        /\ m.event \in [Cells -> [evtime : Nat, evtype : 0..2,
                                  eventity : {"A", "B"},
                                  prev : Cells \cup {NULL},
                                  next : Cells \cup {NULL}]]
    BY <1>9 DEF Memories, Structs, Events, Place
  <2>3. nsim \in 0..nsimmax /\ calls \in 0..MaxCalls
    BY <1>14, BoundsAssumption
  <2> QED
    BY <1>7, <1>14, <2>1, <2>2, <2>3 DEF TypeOK
<1>17. used = OnList(v)
  BY <1>4, <1>7, <1>9, <1>10 DEF empty
<1>18. WellLinked
  BY <1>7, <1>10, <1>13, <1>14, <1>17 DEF WellLinked, IsList, OnList
<1>19. InTimeOrder
  BY <1>7, <1>10, <1>13, <1>14 DEF InTimeOrder, Ordered
<1>20. EndsWithNull
  BY <1>7, <1>10, <1>13, <1>14, <1>15 DEF EndsWithNull, IsList, IsChain
<1>21. TimesAreFloats
  BY <1>5, <1>7, <1>10, <1>13, <1>14 DEF TimesAreFloats, Ordered
<1> QED
  BY <1>16, <1>18, <1>19, <1>20, <1>21 DEF IInv

(* The first event is taken off the list, and its time becomes the time.   *)
LEMMA FirstTaken ==
    ASSUME IInv, evlist # NULL, ~terminated, eventptr = NULL
    PROVE  /\ evlist \in Cells /\ evlist \in used
           /\ event[evlist].evtime \in Nat
           /\ Representable(event[evlist].evtime)
           /\ Unlink(Memory, evlist) \in Memories
           /\ Unlink(Memory, evlist).used = used
           /\ \E v : /\ IsList(v, Unlink(Memory, evlist))
                     /\ Ordered(v, Unlink(Memory, evlist),
                                event[evlist].evtime)
                     /\ used = OnList(v) \cup {evlist}
                     /\ evlist \notin OnList(v)
<1> DEFINE w == Walk(Memory)
<1>1. /\ Memory \in Memories /\ IsList(w, Memory)
      /\ time \in Nat /\ Ordered(w, Memory, time)
  BY ListNow
<1>2. used = OnList(w)
  BY ListNow
<1>3. Memory.event = event /\ Memory.evlist = evlist /\ Memory.used = used
  BY DEF Memory
<1> HIDE DEF w
<1>4. 1 \in 1..Len(w) /\ evlist = w[1]
  BY <1>1, <1>3, ListFacts
<1>5. /\ w[1] \in Cells /\ w[1] \in used /\ event[w[1]].evtime \in Nat
      /\ Representable(event[w[1]].evtime)
  BY <1>1, <1>3, <1>4, OnListFacts DEF Ordered
<1>6. Unlink(Memory, w[1]) \in Memories /\ Unlink(Memory, w[1]).used = used
  BY <1>1, <1>3, <1>4, UnlinkFields
<1>7. IsList(Removed(w, 1), Unlink(Memory, w[1]))
  BY <1>1, <1>4, UnlinkLinks
<1>8. /\ Ordered(Removed(w, 1), Unlink(Memory, w[1]), event[w[1]].evtime)
      /\ OnList(Removed(w, 1)) = OnList(w) \ {w[1]}
  BY <1>1, <1>3, <1>4, UnlinkOrder
<1>9. /\ used = OnList(Removed(w, 1)) \cup {w[1]}
      /\ w[1] \notin OnList(Removed(w, 1))
  BY <1>2, <1>5, <1>8
<1> QED
  BY <1>4, <1>5, <1>6, <1>7, <1>8, <1>9

LEMMA TakeEventHolds == IInv /\ TakeEvent => IInv'
<1> SUFFICES ASSUME IInv, TakeEvent PROVE IInv'
  OBVIOUS
<1> DEFINE q == evlist
           m == Unlink(Memory, q)
<1>1. /\ evlist # NULL /\ ~terminated /\ eventptr = NULL /\ ~AllGiven
      /\ eventptr' = q /\ time' = event[q].evtime
      /\ calls' = 0 /\ terminated' = terminated
  BY DEF TakeEvent
<1>2. /\ q \in Cells /\ q \in used
      /\ event[q].evtime \in Nat /\ Representable(event[q].evtime)
      /\ m \in Memories /\ m.used = used
  BY <1>1, FirstTaken
<1>3. PICK v : /\ IsList(v, m) /\ Ordered(v, m, event[q].evtime)
               /\ used = OnList(v) \cup {q} /\ q \notin OnList(v)
  BY <1>1, FirstTaken
<1>4. /\ terminated \in BOOLEAN /\ nsim \in 0..nsimmax
      /\ calls' \in 0..MaxCalls
  BY <1>1, BoundsAssumption DEF IInv, TypeOK
<1>5. q # NULL
  BY <1>1
<1>6. CASE event[evlist].evtype = FROM_LAYER5
  <2>1. /\ MemoryLeft /\ nsim' = nsim + 1
        /\ \E x \in Arrivals, left \in {m} :
              Becomes(generate_next_arrival(left, time', x))
    BY <1>6 DEF TakeEvent
  <2>2. PICK x \in Arrivals : Becomes(generate_next_arrival(m, time', x))
    BY <2>1
  <2>3. nsim' \in 0..nsimmax
    BY <1>1, <1>4, <2>1, BoundsAssumption DEF AllGiven
  <2>4. x \in Nat
    BY DrawsAssumption
  <2> DEFINE t == event[q].evtime
             fields == Fields(t + x, FROM_LAYER5, "A")
             after == insertevent(m, fields)
  <2>5. fields \in Events /\ t <= fields.evtime
        /\ Representable(fields.evtime)
    BY <1>2, <2>4, FieldsFacts DEF FROM_LAYER5
  <2>6. Becomes(after)
    BY <1>1, <2>2 DEF generate_next_arrival
  <2>7. Cells \ m.used # {}
    BY <1>2, <2>1 DEF MemoryLeft
  <2>8. t \in Nat /\ Representable(t) /\ Ordered(v, m, t) /\ time' = t
    BY <1>1, <1>2, <1>3
  <2> HIDE DEF m, fields, t, q
  <2>9. /\ after \in Memories /\ after.used = m.used \cup {malloc(m)}
        /\ malloc(m) \in Cells /\ malloc(m) \notin m.used
        /\ \E u : /\ IsList(u, after) /\ Ordered(u, after, t)
                  /\ OnList(u) = OnList(v) \cup {malloc(m)}
    BY <1>2, <1>3, <2>5, <2>7, <2>8, InsertHolds
  <2>10. PICK u : /\ IsList(u, after) /\ Ordered(u, after, t)
                  /\ OnList(u) = OnList(v) \cup {malloc(m)}
    BY <2>9
  <2> HIDE DEF after
  <2>11. after.used = OnList(u) \cup {eventptr'} /\ eventptr' \notin OnList(u)
    BY <1>1, <1>2, <1>3, <2>9, <2>10
  <2> QED
    BY <1>1, <1>4, <1>5, <2>3, <2>6, <2>8, <2>9, <2>10, <2>11, ListThen
<1>7. CASE event[evlist].evtype # FROM_LAYER5
  <2>1. Becomes(m) /\ nsim' = nsim
    BY <1>7 DEF TakeEvent
  <2> HIDE DEF m, q
  <2> QED
    BY <1>1, <1>2, <1>3, <1>4, <1>5, <2>1, ListThen
<1> QED
  BY <1>6, <1>7

LEMMA TerminateHolds == IInv /\ Terminate => IInv'
<1> SUFFICES ASSUME IInv, Terminate PROVE IInv'
  OBVIOUS
<1>1. /\ eventptr = NULL /\ ~terminated /\ terminated' = TRUE
      /\ nsim' = nsim /\ eventptr' = NULL /\ calls' = calls
  BY DEF Terminate
<1>2. nsim \in 0..nsimmax /\ calls \in 0..MaxCalls
  BY DEF IInv, TypeOK
<1>3. CASE evlist = NULL
  <2>1. UNCHANGED <<listVars, time>>
    BY <1>3 DEF Terminate
  <2>2. Becomes(Memory) /\ time' = time
    BY <2>1 DEF Becomes, Memory, listVars
  <2>3. /\ Memory \in Memories /\ IsList(Walk(Memory), Memory)
        /\ time \in Nat /\ Representable(time)
        /\ Ordered(Walk(Memory), Memory, time)
        /\ eventptr \notin OnList(Walk(Memory))
    BY ListNow
  <2> DEFINE m == Memory
             w == Walk(m)
  <2> HIDE DEF m, w
  <2> QED
    BY <1>1, <1>2, <2>2, <2>3, ListThen DEF m, w
<1>4. CASE evlist # NULL
  <2> DEFINE q == evlist
             m == Unlink(Memory, q)
  <2>1. Becomes(m) /\ time' = event[q].evtime
    BY <1>4 DEF Terminate
  <2>2. /\ event[q].evtime \in Nat /\ Representable(event[q].evtime)
        /\ m \in Memories
    BY <1>1, <1>4, FirstTaken
  <2>3. PICK v : IsList(v, m) /\ Ordered(v, m, event[q].evtime)
    BY <1>1, <1>4, FirstTaken
  <2> HIDE DEF m, q
  <2>4. NULL \notin OnList(v)
    BY <2>2, <2>3, OnListFacts DEF OnList
  <2> QED
    BY <1>1, <1>2, <2>1, <2>2, <2>3, <2>4, ListThen
<1> QED
  BY <1>3, <1>4

LEMMA ReturnHolds == IInv /\ Return => IInv'
<1> SUFFICES ASSUME IInv, Return PROVE IInv'
  OBVIOUS
<1> DEFINE w == Walk(Memory)
           p == eventptr
           m == free(Memory, p)
<1>1. /\ p # NULL /\ Becomes(m) /\ eventptr' = NULL /\ calls' = 0
      /\ time' = time /\ nsim' = nsim /\ terminated' = terminated
  BY DEF Return
<1>2. /\ Memory \in Memories /\ IsList(w, Memory)
      /\ time \in Nat /\ Representable(time) /\ Ordered(w, Memory, time)
      /\ p \in used \cup {NULL} /\ p \notin OnList(w)
  BY ListNow
<1>3. ~terminated => used = OnList(w) \cup {p}
  BY <1>1, ListNow
<1>4. /\ p \in Cells /\ nsim \in 0..nsimmax /\ 0 \in 0..MaxCalls
      /\ terminated \in BOOLEAN
  BY <1>1, BoundsAssumption DEF IInv, TypeOK
<1>5. Memory.used = used
  BY DEF Memory
<1> DEFINE b == Memory
<1> HIDE DEF w, b
<1>6. /\ m \in Memories /\ m.used = used \ {p}
      /\ IsList(w, m) /\ Ordered(w, m, time)
  BY <1>2, <1>4, <1>5, FreeHolds
<1>7. ~terminated => m.used = OnList(w)
  BY <1>2, <1>3, <1>6
<1>8. NULL \notin OnList(w)
  BY <1>2, OnListFacts DEF OnList
<1> HIDE DEF m, p
<1> QED
  BY <1>1, <1>2, <1>4, <1>6, <1>7, <1>8, ListThen

-----------------------------------------------------------------------------
(* What a call of a handler leaves alone.                                  *)
LEMMA CallFacts ==
    ASSUME IInv, Call
    PROVE  /\ eventptr # NULL /\ eventptr' = eventptr /\ time' = time
           /\ nsim' \in 0..nsimmax /\ calls' \in 0..MaxCalls
           /\ terminated = FALSE /\ terminated' = FALSE
<1>1. /\ eventptr # NULL /\ calls < MaxCalls /\ calls' = calls + 1
      /\ UNCHANGED <<time, nsim, eventptr, terminated>>
  BY DEF Call
<1>2. /\ nsim \in 0..nsimmax /\ calls \in 0..MaxCalls
      /\ terminated \in BOOLEAN
  BY DEF IInv, TypeOK
<1>3. terminated => eventptr = NULL
  BY DEF IInv, EndsWithNull
<1>4. calls' \in 0..MaxCalls
  BY <1>1, <1>2, BoundsAssumption
<1> QED
  BY <1>1, <1>2, <1>3, <1>4

(* A call that leaves the list as it is.                                   *)
LEMMA NothingInserted ==
    ASSUME IInv, Call, UNCHANGED listVars
    PROVE  IInv'
<1> DEFINE m == Memory
           w == Walk(m)
<1>1. Becomes(m)
  BY DEF Becomes, Memory, listVars
<1>2. /\ m \in Memories /\ IsList(w, m)
      /\ time \in Nat /\ Representable(time) /\ Ordered(w, m, time)
      /\ eventptr \in used \cup {NULL} /\ eventptr \notin OnList(w)
  BY ListNow
<1>3. ~terminated => used = OnList(w)
                        \cup (IF eventptr = NULL THEN {} ELSE {eventptr})
  BY ListNow
<1>4. m.used = used
  BY DEF Memory
<1> HIDE DEF m, w
<1> QED
  BY <1>1, <1>2, <1>3, <1>4, CallFacts, ListThen

(* A call that inserts one event, of time now or later.                    *)
LEMMA OneInserted ==
    ASSUME IInv, Call, MemoryLeft, NEW fields \in Events,
           time <= fields.evtime, Representable(fields.evtime),
           Becomes(insertevent(Memory, fields))
    PROVE  IInv'
<1> DEFINE m == Memory
           w == Walk(m)
           after == insertevent(m, fields)
<1>1. /\ m \in Memories /\ IsList(w, m)
      /\ time \in Nat /\ Representable(time) /\ Ordered(w, m, time)
      /\ eventptr \in used \cup {NULL} /\ eventptr \notin OnList(w)
  BY ListNow
<1>2. ~terminated => used = OnList(w)
                        \cup (IF eventptr = NULL THEN {} ELSE {eventptr})
  BY ListNow
<1>3. m.used = used
  BY DEF Memory
<1>4. Cells \ m.used # {}
  BY <1>3 DEF MemoryLeft
<1>5. Becomes(after)
  OBVIOUS
<1> HIDE DEF m, w
<1>6. /\ after \in Memories /\ after.used = used \cup {malloc(m)}
      /\ malloc(m) \notin used /\ malloc(m) \in Cells
      /\ \E v : /\ IsList(v, after) /\ Ordered(v, after, time)
                /\ OnList(v) = OnList(w) \cup {malloc(m)}
  BY <1>1, <1>3, <1>4, InsertHolds
<1>7. PICK v : /\ IsList(v, after) /\ Ordered(v, after, time)
               /\ OnList(v) = OnList(w) \cup {malloc(m)}
  BY <1>6
<1>8. /\ eventptr # NULL /\ eventptr' = eventptr /\ time' = time
      /\ nsim' \in 0..nsimmax /\ calls' \in 0..MaxCalls
      /\ terminated = FALSE /\ terminated' = FALSE
  BY CallFacts
<1> HIDE DEF after
<1>9. after.used = OnList(v) \cup {eventptr} /\ eventptr \notin OnList(v)
  BY <1>1, <1>2, <1>6, <1>7, <1>8
<1> QED
  BY <1>1, <1>5, <1>6, <1>7, <1>8, <1>9, ListThen

(* The last packet under way is not in the past.                           *)
LEMMA LastimeFacts ==
    ASSUME IInv, NEW entity
    PROVE  /\ lastime(entity) \in Nat /\ time <= lastime(entity)
           /\ Representable(lastime(entity))
<1> DEFINE w == Walk(Memory)
           S == Under_way(entity)
<1>1. /\ Memory \in Memories /\ IsList(w, Memory)
      /\ time \in Nat /\ Representable(time) /\ Ordered(w, Memory, time)
  BY ListNow
<1>2. Memory.event = event
  BY DEF Memory
<1>3. S \in SUBSET (1..Len(w))
  BY DEF Under_way, Places
<1>4. lastime(entity) = IF S = {} THEN time ELSE event[w[Max(S)]].evtime
  BY DEF lastime
<1> HIDE DEF w, S
<1>5. Len(w) \in Nat
  BY <1>1, ListFacts
<1>6. S # {} => Max(S) \in 1..Len(w)
  BY <1>3, <1>5, MaxIsGreatest
<1>7. \A i \in 1..Len(w) : /\ event[w[i]].evtime \in Nat
                           /\ time <= event[w[i]].evtime
                           /\ Representable(event[w[i]].evtime)
  BY <1>1, <1>2, OnListFacts DEF Ordered
<1> QED
  BY <1>1, <1>4, <1>6, <1>7

LEMMA Tolayer3Holds == IInv /\ tolayer3 => IInv'
<1> SUFFICES ASSUME IInv, tolayer3 PROVE IInv'
  OBVIOUS
<1>1. Call
  BY DEF tolayer3
<1>2. CASE UNCHANGED listVars
  BY <1>1, <1>2, NothingInserted
<1>3. CASE ~UNCHANGED listVars
  <2> DEFINE entity == Other(handler)
             t == lastime(entity)
  <2>1. /\ MemoryLeft
        /\ \E d \in Delays :
              Becomes(insertevent(Memory, Fields(t + d, FROM_LAYER3, entity)))
    BY <1>3 DEF tolayer3
  <2>2. PICK d \in Delays :
           Becomes(insertevent(Memory, Fields(t + d, FROM_LAYER3, entity)))
    BY <2>1
  <2>3. entity \in {"A", "B"} /\ d \in Nat /\ time \in Nat
    BY DrawsAssumption, ListNow DEF Other
  <2>4. t \in Nat /\ time <= t /\ Representable(t)
    BY LastimeFacts
  <2> HIDE DEF entity, t
  <2> DEFINE fields == Fields(t + d, FROM_LAYER3, entity)
  <2>5. fields \in Events /\ t <= fields.evtime
        /\ Representable(fields.evtime)
    BY <2>3, <2>4, FieldsFacts DEF FROM_LAYER3
  <2>6. Becomes(insertevent(Memory, fields))
    BY <2>2
  <2> HIDE DEF fields
  <2>7. time <= fields.evtime
    <3>1. fields.evtime \in Nat
      BY <2>5 DEF Events
    <3> QED
      BY <2>3, <2>4, <2>5, <3>1
  <2> QED
    BY <1>1, <2>1, <2>5, <2>6, <2>7, OneInserted
<1> QED
  BY <1>2, <1>3

LEMMA StarttimerHolds == IInv /\ starttimer => IInv'
<1> SUFFICES ASSUME IInv, starttimer PROVE IInv'
  OBVIOUS
<1>1. Call
  BY DEF starttimer
<1>2. CASE TimerRuns
  <2>1. UNCHANGED listVars
    BY <1>2 DEF starttimer
  <2> QED
    BY <1>1, <2>1, NothingInserted
<1>3. CASE ~TimerRuns
  <2>1. /\ MemoryLeft
        /\ \E x \in Increments :
              Becomes(insertevent(Memory,
                        Fields(time + x, TIMER_INTERRUPT, "A")))
    BY <1>3 DEF starttimer, Expiry
  <2>2. PICK x \in Increments :
           Becomes(insertevent(Memory, Fields(time + x, TIMER_INTERRUPT, "A")))
    BY <2>1
  <2>3. x \in Nat /\ time \in Nat /\ Representable(time)
    BY DrawsAssumption, ListNow
  <2> DEFINE fields == Fields(time + x, TIMER_INTERRUPT, "A")
  <2>4. fields \in Events /\ time <= fields.evtime
        /\ Representable(fields.evtime)
    BY <2>3, FieldsFacts DEF TIMER_INTERRUPT
  <2>5. Becomes(insertevent(Memory, fields))
    BY <2>2
  <2> HIDE DEF fields
  <2> QED
    BY <1>1, <2>1, <2>4, <2>5, OneInserted
<1> QED
  BY <1>2, <1>3

LEMMA StoptimerHolds == IInv /\ stoptimer => IInv'
<1> SUFFICES ASSUME IInv, stoptimer PROVE IInv'
  OBVIOUS
<1>1. Call
  BY DEF stoptimer
<1>2. CASE ~TimerRuns
  <2>1. UNCHANGED listVars
    BY <1>2 DEF stoptimer
  <2> QED
    BY <1>1, <2>1, NothingInserted
<1>3. CASE TimerRuns
  <2> DEFINE m == Memory
             w == Walk(m)
             k == Min(Timers)
             q == w[k]
             left == Unlink(m, q)
             after == free(left, q)
  <2>1. Becomes(after)
    BY <1>3 DEF stoptimer
  <2>2. k \in 1..Len(w)
    <3>1. Timers \in SUBSET (1..Len(w)) /\ Timers # {}
      BY <1>3 DEF TimerRuns, Timers, Places
    <3>2. Timers \in SUBSET Nat
      BY <3>1
    <3>3. Min(Timers) \in Timers
      BY <3>1, <3>2, MinIsLeast
    <3> QED
      BY <3>1, <3>3
  <2>3. /\ m \in Memories /\ IsList(w, m)
        /\ time \in Nat /\ Representable(time) /\ Ordered(w, m, time)
        /\ eventptr \in used \cup {NULL} /\ eventptr \notin OnList(w)
    BY ListNow
  <2>4. ~terminated => used = OnList(w)
                          \cup (IF eventptr = NULL THEN {} ELSE {eventptr})
    BY ListNow
  <2>5. m.used = used
    BY DEF Memory
  <2> HIDE DEF m, w, k
  <2>6. q \in Cells /\ q \in OnList(w)
    BY <2>2, <2>3, OnListFacts DEF OnList
  <2>7. left \in Memories /\ left.used = used
    BY <2>2, <2>3, <2>5, UnlinkFields
  <2>8. IsList(Removed(w, k), left)
    BY <2>2, <2>3, UnlinkLinks
  <2>9. /\ Ordered(Removed(w, k), left, time)
        /\ OnList(Removed(w, k)) = OnList(w) \ {q}
    BY <2>2, <2>3, UnlinkOrder
  <2> DEFINE v == Removed(w, k)
  <2> HIDE DEF left, v, q
  <2>10. q \notin OnList(v)
    BY <2>9 DEF v
  <2>11. /\ after \in Memories /\ after.used = used \ {q}
         /\ IsList(v, after) /\ Ordered(v, after, time)
    BY <2>3, <2>6, <2>7, <2>8, <2>9, <2>10, FreeHolds DEF v
  <2>12. /\ eventptr # NULL /\ eventptr' = eventptr /\ time' = time
         /\ nsim' \in 0..nsimmax /\ calls' \in 0..MaxCalls
         /\ terminated = FALSE /\ terminated' = FALSE
    BY <1>1, CallFacts
  <2>13. OnList(v) = OnList(w) \ {q}
    BY <2>9 DEF v
  <2> HIDE DEF after
  <2>14. /\ after.used = OnList(v) \cup {eventptr}
         /\ eventptr \notin OnList(v) /\ eventptr \in after.used
    BY <2>3, <2>4, <2>6, <2>11, <2>12, <2>13
  <2> QED
    BY <2>1, <2>3, <2>11, <2>12, <2>14, ListThen
<1> QED
  BY <1>2, <1>3

LEMMA StepInvariant == IInv /\ [Next]_vars => IInv'
<1>1. IInv /\ UNCHANGED vars => IInv'
  <2> SUFFICES ASSUME IInv, UNCHANGED vars PROVE IInv'
    OBVIOUS
  <2>1. /\ event' = event /\ evlist' = evlist /\ used' = used
        /\ time' = time /\ nsim' = nsim /\ eventptr' = eventptr
        /\ calls' = calls /\ terminated' = terminated
    BY DEF vars, listVars
  <2>2. Walk(Memory)' = Walk(Memory)
    BY <2>1 DEF Memory, Walk, From
  <2>3. TypeOK'
    BY <2>1 DEF IInv, TypeOK
  <2>4. WellLinked'
    BY <2>1, <2>2 DEF IInv, WellLinked
  <2>5. InTimeOrder'
    BY <2>1, <2>2 DEF IInv, InTimeOrder
  <2>6. EndsWithNull'
    BY <2>1, <2>2 DEF IInv, EndsWithNull
  <2>7. TimesAreFloats'
    BY <2>1, <2>2 DEF IInv, TimesAreFloats, Representable, Rounded
  <2> QED
    BY <2>3, <2>4, <2>5, <2>6, <2>7 DEF IInv
<1> QED
  BY <1>1, TakeEventHolds, TerminateHolds, ReturnHolds, Tolayer3Holds,
     StarttimerHolds, StoptimerHolds DEF Next

-----------------------------------------------------------------------------
(* IInv holds in every state of the simulator's machinery, whatever the    *)
(* draws are and whatever calls the handlers make.                         *)
THEOREM Invariant == Spec => []IInv
BY InitHolds, StepInvariant, PTL DEF Spec

(* Every pointer leads to an allocated struct or is NULL, and no counter   *)
(* leaves its range (TypeOK).                                              *)
THEOREM TypeCorrect == Spec => []TypeOK
<1>1. IInv => TypeOK
  BY DEF IInv
<1> QED
  BY <1>1, Invariant, PTL

(* prev undoes next, no event is twice on the list, and none is lost or    *)
(* used after it was freed (insertevent, stoptimer, the main loop).        *)
THEOREM LinksAreSound == Spec => []WellLinked
<1>1. IInv => WellLinked
  BY DEF IInv
<1> QED
  BY <1>1, Invariant, PTL

(* The list stays in order of time, and the clock never goes back.         *)
THEOREM ListInTimeOrder == Spec => []InTimeOrder
<1>1. IInv => InTimeOrder
  BY DEF IInv
<1> QED
  BY <1>1, Invariant, PTL
-----------------------------------------------------------------------------
(* Chosen: g[i] holds the members of S among the first i of w.             *)
Step(g, w, S, i) ==
    IF w[i] \in S THEN Append(g[i - 1], w[i]) ELSE g[i - 1]

Keeps(g, n, w, S) == g[0] = << >> /\ \A i \in 1..n : g[i] = Step(g, w, S, i)

LEMMA KeptOnce ==
    ASSUME NEW n \in Nat, NEW w, NEW S, NEW g, NEW h,
           Keeps(g, n, w, S), Keeps(h, n, w, S)
    PROVE  \A i \in 0..n : g[i] = h[i]
<1> DEFINE bad == {i \in 0..n : g[i] # h[i]}
<1>1. SUFFICES ASSUME bad # {} PROVE FALSE
  OBVIOUS
<1> DEFINE i == Min(bad)
<1>2. i \in bad /\ \A j \in bad : i <= j
  <2>1. bad \in SUBSET Nat
    OBVIOUS
  <2> HIDE DEF bad
  <2> QED
    BY <1>1, <2>1, MinIsLeast
<1> HIDE DEF i
<1>3. i \in 0..n /\ g[i] # h[i]
  BY <1>2
<1>4. i # 0
  BY <1>3 DEF Keeps
<1>5. i \in 1..n /\ i - 1 \in 0..n /\ i - 1 \notin bad
  BY <1>2, <1>3, <1>4
<1>6. g[i - 1] = h[i - 1]
  BY <1>5
<1>7. g[i] = Step(g, w, S, i) /\ h[i] = Step(h, w, S, i)
  BY <1>5 DEF Keeps
<1>8. Step(g, w, S, i) = Step(h, w, S, i)
  BY <1>6 DEF Step
<1> QED
  BY <1>3, <1>7, <1>8

LEMMA KeptExists ==
    ASSUME NEW w \in Seq(Cells), NEW S \in SUBSET Cells
    PROVE  \E g \in [0..Len(w) -> Seq(Cells)] : Keeps(g, Len(w), w, S)
<1> DEFINE Known(n) == \E g \in [0..n -> Seq(Cells)] : Keeps(g, n, w, S)
           bad == {n \in 0..Len(w) : ~Known(n)}
<1>1. Len(w) \in Nat /\ \A i \in 1..Len(w) : w[i] \in Cells
  BY LenProperties, ElementOfSeq
<1>2. SUFFICES ASSUME bad # {} PROVE FALSE
  BY <1>1
<1> DEFINE n == Min(bad)
<1>3. n \in bad /\ \A j \in bad : n <= j
  <2>1. bad \in SUBSET Nat
    BY <1>1
  <2> HIDE DEF bad
  <2> QED
    BY <1>2, <2>1, MinIsLeast
<1> HIDE DEF n
<1>4. n \in 0..Len(w) /\ ~Known(n)
  BY <1>3
<1>5. n # 0
  <2> DEFINE g == [i \in 0..0 |-> << >>]
  <2>1. g \in [0..0 -> Seq(Cells)] /\ g[0] = << >> /\ 1..0 = {}
    BY EmptySeq
  <2>2. Known(0)
    <3> HIDE DEF g
    <3> QED
      BY <2>1 DEF Keeps
  <2> QED
    BY <1>4, <2>2
<1>6. n \in Nat /\ n - 1 \in Nat /\ n - 1 \in 0..Len(w) /\ n - 1 \notin bad
  <2> HIDE DEF bad, Known
  <2> QED
    BY <1>1, <1>3, <1>4, <1>5
<1>7. Known(n - 1)
  BY <1>6
<1>8. PICK g \in [0..(n - 1) -> Seq(Cells)] : Keeps(g, n - 1, w, S)
  BY <1>7
<1> HIDE DEF bad
<1> DEFINE h == [i \in 0..n |-> IF i = n THEN Step(g, w, S, n) ELSE g[i]]
<1>9. g[n - 1] \in Seq(Cells) /\ w[n] \in Cells
  BY <1>1, <1>4, <1>5, <1>6
<1>10. Step(g, w, S, n) \in Seq(Cells)
  BY <1>9, AppendProperties DEF Step
<1>11. \A i \in 0..(n - 1) : i \in 0..n /\ i # n /\ h[i] = g[i]
  BY <1>6
<1>12. h \in [0..n -> Seq(Cells)]
  <2>1. \A i \in 0..n : i # n => i \in 0..(n - 1)
    BY <1>6
  <2> QED
    BY <1>10, <2>1
<1>13. h[n] = Step(g, w, S, n)
  BY <1>6
<1> HIDE DEF h
<1>14. Keeps(h, n, w, S)
  <2>1. h[0] = << >>
    BY <1>6, <1>8, <1>11 DEF Keeps
  <2>2. ASSUME NEW i \in 1..n PROVE h[i] = Step(h, w, S, i)
    <3>1. i - 1 \in 0..(n - 1) /\ (i # n => i \in 1..(n - 1) /\ i \in 0..(n - 1))
      BY <1>6
    <3>2. h[i - 1] = g[i - 1]
      BY <1>11, <3>1
    <3>3. Step(h, w, S, i) = Step(g, w, S, i)
      BY <3>2 DEF Step
    <3>4. h[i] = Step(g, w, S, i)
      BY <1>8, <1>11, <1>13, <3>1 DEF Keeps
    <3> QED
      BY <3>3, <3>4
  <2> QED
    BY <2>1, <2>2 DEF Keeps
<1> QED
  BY <1>4, <1>12, <1>14

LEMMA ChosenIs ==
    ASSUME NEW w \in Seq(Cells), NEW S \in SUBSET Cells, NEW g,
           Keeps(g, Len(w), w, S)
    PROVE  Chosen(S)[w] = g[Len(w)]
<1> DEFINE n == Len(w)
           Filled(f, i) == IF i = 0 THEN << >>
                           ELSE IF w[i] \in S THEN Append(f[i - 1], w[i])
                                              ELSE f[i - 1]
           kept == CHOOSE f : f = [i \in 0..n |-> Filled(f, i)]
           h == [i \in 0..n |-> g[i]]
<1>1. n \in Nat
  BY LenProperties
<1>2. Chosen(S)[w] = kept[n]
  BY DEF Chosen
<1> HIDE DEF n
<1>3. h = [i \in 0..n |-> Filled(h, i)]
  <2>1. ASSUME NEW i \in 0..n PROVE g[i] = Filled(h, i)
    <3>1. CASE i = 0
      BY <3>1 DEF Keeps
    <3>2. CASE i # 0
      <4>1. i \in 1..n /\ i - 1 \in 0..n
        BY <1>1, <3>2
      <4>2. g[i] = Step(g, w, S, i)
        BY <4>1 DEF Keeps, n
      <4>3. h[i - 1] = g[i - 1]
        BY <4>1
      <4> HIDE DEF h
      <4> QED
        BY <3>2, <4>2, <4>3 DEF Step
    <3> QED
      BY <3>1, <3>2
  <2>2. \A i \in 0..n : h[i] = g[i]
    OBVIOUS
  <2> QED
    BY <2>1
<1>4. kept = [i \in 0..n |-> Filled(kept, i)]
  <2> HIDE DEF h, Filled
  <2>1. \E f : f = [i \in 0..n |-> Filled(f, i)]
    BY <1>3
  <2> QED
    BY <2>1
<1> HIDE DEF kept
<1>5. Keeps(kept, n, w, S)
  <2>1. kept[0] = << >>
    BY <1>1, <1>4
  <2>2. ASSUME NEW i \in 1..n PROVE kept[i] = Step(kept, w, S, i)
    <3>1. i \in 0..n /\ i # 0
      BY <1>1
    <3>2. kept[i] = Filled(kept, i)
      <4> HIDE DEF Filled
      <4> QED
        BY <1>4, <3>1
    <3> QED
      BY <3>1, <3>2 DEF Step
  <2> QED
    BY <2>1, <2>2 DEF Keeps
<1>6. kept[n] = g[n]
  BY <1>1, <1>5, KeptOnce DEF n
<1> QED
  BY <1>2, <1>6 DEF n

LEMMA Choosing ==
    ASSUME NEW w \in Seq(Cells), NEW S \in SUBSET Cells
    PROVE  \E g \in [0..Len(w) -> Seq(Cells)] :
              Keeps(g, Len(w), w, S) /\ Chosen(S)[w] = g[Len(w)]
<1>1. PICK g \in [0..Len(w) -> Seq(Cells)] : Keeps(g, Len(w), w, S)
  BY KeptExists
<1>2. Chosen(S)[w] = g[Len(w)]
  BY <1>1, ChosenIs
<1> QED
  BY <1>1, <1>2

(* What is chosen depends on which events of the list are in S.            *)
LEMMA ChosenSame ==
    ASSUME NEW w \in Seq(Cells), NEW S \in SUBSET Cells,
           NEW T \in SUBSET Cells,
           \A i \in 1..Len(w) : w[i] \in S <=> w[i] \in T
    PROVE  Chosen(S)[w] = Chosen(T)[w]
<1>1. PICK g : Keeps(g, Len(w), w, S) /\ Chosen(S)[w] = g[Len(w)]
  BY Choosing
<1>2. Keeps(g, Len(w), w, T)
  BY <1>1 DEF Keeps, Step
<1> QED
  BY <1>1, <1>2, ChosenIs

LEMMA ChosenNone ==
    ASSUME NEW w \in Seq(Cells), NEW S \in SUBSET Cells,
           \A i \in 1..Len(w) : w[i] \notin S
    PROVE  Chosen(S)[w] = << >>
<1> DEFINE g == [i \in 0..Len(w) |-> << >>]
<1>1. Len(w) \in Nat
  BY LenProperties
<1>2. \A i \in 0..Len(w) : g[i] = << >>
  OBVIOUS
<1> HIDE DEF g
<1>3. \A i \in 1..Len(w) : g[i] = << >> /\ g[i - 1] = << >>
  BY <1>1, <1>2
<1>4. Keeps(g, Len(w), w, S)
  BY <1>1, <1>2, <1>3 DEF Keeps, Step
<1>5. g[Len(w)] = << >>
  BY <1>1, <1>2
<1> QED
  BY <1>4, <1>5, ChosenIs

(* An event that is not in S comes or goes: nothing changes.               *)
LEMMA ChosenInserted ==
    ASSUME NEW w \in Seq(Cells), NEW S \in SUBSET Cells,
           NEW k \in 1..(Len(w) + 1), NEW p \in Cells, p \notin S
    PROVE  Chosen(S)[Inserted(w, k, p)] = Chosen(S)[w]
<1> DEFINE v == Inserted(w, k, p)
           n == Len(w)
<1>1. n \in Nat
  BY LenProperties
<1>2. PICK g : Keeps(g, n, w, S) /\ Chosen(S)[w] = g[n]
  BY Choosing
<1>3. /\ v \in Seq(Cells) /\ Len(v) = n + 1 /\ v[k] = p
      /\ \A i \in 1..(k - 1) : i \in 1..n /\ v[i] = w[i]
      /\ \A i \in (k + 1)..(n + 1) : i - 1 \in 1..n /\ v[i] = w[i - 1]
      /\ \A i \in 1..(n + 1) :
            i \in 1..(k - 1) \/ i = k \/ i \in (k + 1)..(n + 1)
  BY InsertedFacts
<1> HIDE DEF v
<1> DEFINE h == [i \in 0..(n + 1) |-> IF i < k THEN g[i] ELSE g[i - 1]]
<1>4. k \in 1..(n + 1)
  OBVIOUS
<1> HIDE DEF n
<1>5. h[0] = g[0] /\ h[n + 1] = g[n]
  BY <1>1, <1>4
<1>6. \A i \in 1..(k - 1) : h[i] = g[i] /\ h[i - 1] = g[i - 1]
  BY <1>1, <1>4
<1>7. h[k] = g[k - 1] /\ h[k - 1] = g[k - 1]
  BY <1>1, <1>4
<1>8. \A i \in (k + 1)..(n + 1) : h[i] = g[i - 1] /\ h[i - 1] = g[(i - 1) - 1]
  BY <1>1, <1>4
<1> HIDE DEF h
<1>9. ASSUME NEW i \in 1..(n + 1) PROVE h[i] = Step(h, v, S, i)
  <2>1. CASE i \in 1..(k - 1)
    <3>1. g[i] = Step(g, w, S, i) /\ v[i] = w[i]
      BY <1>2, <1>3, <2>1 DEF Keeps
    <3> QED
      BY <1>6, <2>1, <3>1 DEF Step
  <2>2. CASE i = k
    <3>1. Step(h, v, S, k) = h[k - 1]
      BY <1>3 DEF Step
    <3> QED
      BY <1>7, <2>2, <3>1
  <2>3. CASE i \in (k + 1)..(n + 1)
    <3>1. g[i - 1] = Step(g, w, S, i - 1) /\ v[i] = w[i - 1]
      BY <1>2, <1>3, <2>3 DEF Keeps
    <3> QED
      BY <1>8, <2>3, <3>1 DEF Step
  <2> QED
    BY <1>3, <2>1, <2>2, <2>3
<1>10. Keeps(h, n + 1, v, S)
  BY <1>2, <1>5, <1>9 DEF Keeps
<1>11. Chosen(S)[v] = h[n + 1]
  BY <1>3, <1>10, ChosenIs
<1> QED
  BY <1>2, <1>5, <1>11 DEF v

LEMMA ChosenRemoved ==
    ASSUME NEW w \in Seq(Cells), NEW S \in SUBSET Cells,
           NEW k \in 1..Len(w), w[k] \notin S
    PROVE  Chosen(S)[Removed(w, k)] = Chosen(S)[w]
<1> DEFINE v == Removed(w, k)
           n == Len(w)
<1>1. n \in Nat
  BY LenProperties
<1>2. PICK g : Keeps(g, n, w, S) /\ Chosen(S)[w] = g[n]
  BY Choosing
<1>3. /\ v \in Seq(Cells) /\ Len(v) = n - 1
      /\ \A i \in 1..(k - 1) : i \in 1..n /\ v[i] = w[i]
      /\ \A i \in k..(n - 1) : i + 1 \in 1..n /\ v[i] = w[i + 1]
      /\ \A i \in 1..(n - 1) : i \in 1..(k - 1) \/ i \in k..(n - 1)
  BY RemovedFacts
<1> HIDE DEF v
<1> DEFINE h == [i \in 0..(n - 1) |-> IF i < k THEN g[i] ELSE g[i + 1]]
<1>4. k \in 1..n
  OBVIOUS
<1> HIDE DEF n
<1>5. g[k] = g[k - 1]
  BY <1>2, <1>4 DEF Keeps, Step
<1>6. h[0] = g[0] /\ h[n - 1] = g[n]
  <2>1. h[0] = g[0]
    BY <1>1, <1>4
  <2>2. CASE k = n
    <3>1. h[n - 1] = g[n - 1]
      BY <1>1, <1>4, <2>2
    <3> QED
      BY <1>5, <2>1, <2>2, <3>1
  <2>3. CASE k # n
    <3>1. h[n - 1] = g[(n - 1) + 1]
      BY <1>1, <1>4, <2>3
    <3>2. (n - 1) + 1 = n
      BY <1>1
    <3> QED
      BY <2>1, <3>1, <3>2
  <2> QED
    BY <2>2, <2>3
<1>7. \A i \in 1..(k - 1) : i \in 0..(n - 1) =>
         h[i] = g[i] /\ h[i - 1] = g[i - 1]
  BY <1>1, <1>4
<1>8. \A i \in k..(n - 1) : h[i] = g[i + 1] /\ h[i - 1] = g[i]
  <2> TAKE i \in k..(n - 1)
  <2>1. i \in 0..(n - 1) /\ i - 1 \in 0..(n - 1) /\ ~(i < k)
    BY <1>1, <1>4
  <2>2. h[i] = g[i + 1]
    BY <2>1
  <2>3. CASE i = k
    <3>1. h[k - 1] = g[k - 1]
      BY <1>1, <1>4, <2>1, <2>3
    <3> QED
      BY <1>5, <2>2, <2>3, <3>1
  <2>4. CASE i # k
    <3>1. ~(i - 1 < k) /\ (i - 1) + 1 = i
      BY <1>1, <1>4, <2>4
    <3> QED
      BY <2>1, <2>2, <3>1
  <2> QED
    BY <2>3, <2>4
<1> HIDE DEF h
<1>9. ASSUME NEW i \in 1..(n - 1) PROVE h[i] = Step(h, v, S, i)
  <2>1. CASE i \in 1..(k - 1)
    <3>1. g[i] = Step(g, w, S, i) /\ v[i] = w[i]
      BY <1>2, <1>3, <2>1 DEF Keeps
    <3>2. i \in 0..(n - 1)
      BY <1>1
    <3> QED
      BY <1>7, <2>1, <3>1, <3>2 DEF Step
  <2>2. CASE i \in k..(n - 1)
    <3>1. g[i + 1] = Step(g, w, S, i + 1) /\ v[i] = w[i + 1]
      BY <1>2, <1>3, <2>2 DEF Keeps
    <3>2. (i + 1) - 1 = i
      BY <1>4, <2>2
    <3> QED
      BY <1>8, <2>2, <3>1, <3>2 DEF Step
  <2> QED
    BY <1>3, <2>1, <2>2
<1>10. Keeps(h, n - 1, v, S)
  BY <1>2, <1>6, <1>9 DEF Keeps
<1>11. Chosen(S)[v] = h[n - 1]
  BY <1>3, <1>10, ChosenIs
<1> QED
  BY <1>2, <1>6, <1>11 DEF v

(* The first event of the list, in S, leaves: it was the first chosen.     *)
LEMMA ChosenFirst ==
    ASSUME NEW w \in Seq(Cells), NEW S \in SUBSET Cells,
           1 \in 1..Len(w), w[1] \in S
    PROVE  /\ Chosen(S)[w] # << >>
           /\ Chosen(S)[Removed(w, 1)] = Tail(Chosen(S)[w])
<1> DEFINE v == Removed(w, 1)
           n == Len(w)
<1>1. n \in Nat /\ n >= 1 /\ \A i \in 1..n : w[i] \in Cells
  BY LenProperties, ElementOfSeq
<1>2. PICK g \in [0..n -> Seq(Cells)] :
         Keeps(g, n, w, S) /\ Chosen(S)[w] = g[n]
  BY Choosing
<1>3. /\ v \in Seq(Cells) /\ Len(v) = n - 1
      /\ \A i \in 1..(n - 1) : i + 1 \in 1..n /\ v[i] = w[i + 1]
  BY RemovedFacts
<1> HIDE DEF v, n
<1>4. g[0] = << >> /\ g[1] = Append(<< >>, w[1])
  <2>1. 1 \in 1..n /\ 1 - 1 = 0
    BY <1>1
  <2>2. g[0] = << >> /\ g[1] = Step(g, w, S, 1)
    BY <1>2, <2>1 DEF Keeps
  <2> QED
    BY <2>1, <2>2 DEF Step
<1>5. \A i \in 0..n : g[i] \in Seq(Cells)
  BY <1>2
<1>6. \A i \in 1..n : g[i] # << >>
  <2> DEFINE bad == {i \in 1..n : g[i] = << >>}
  <2>1. SUFFICES ASSUME bad # {} PROVE FALSE
    OBVIOUS
  <2> DEFINE i == Min(bad)
  <2>2. i \in bad /\ \A j \in bad : i <= j
    <3>1. bad \in SUBSET Nat
      BY <1>1
    <3> HIDE DEF bad
    <3> QED
      BY <2>1, <3>1, MinIsLeast
  <2> HIDE DEF i
  <2>3. i \in 1..n /\ g[i] = << >>
    BY <2>2
  <2>4. g[i] = Step(g, w, S, i)
    BY <1>2, <2>3 DEF Keeps
  <2>5. i - 1 \in 0..n /\ g[i - 1] \in Seq(Cells) /\ w[i] \in Cells
    BY <1>1, <1>5, <2>3
  <2>6. Append(g[i - 1], w[i]) # << >>
    BY <2>5, AppendProperties
  <2>7. g[i - 1] = << >> /\ w[i] \notin S
    BY <2>3, <2>4, <2>6 DEF Step
  <2>8. i # 1
    BY <2>7
  <2>9. i - 1 \in 1..n /\ ~(i <= i - 1)
    BY <1>1, <2>3, <2>8
  <2>10. i - 1 \in bad
    BY <2>7, <2>9
  <2> HIDE DEF bad
  <2> QED
    BY <2>2, <2>9, <2>10
<1> DEFINE h == [i \in 0..(n - 1) |-> Tail(g[i + 1])]
<1>7. \A i \in 0..(n - 1) : h[i] = Tail(g[i + 1])
  OBVIOUS
<1>8. h[0] = << >>
  <2>1. h[0] = Tail(g[1])
    <3>1. 0 \in 0..(n - 1) /\ 0 + 1 = 1
      BY <1>1
    <3> HIDE DEF h
    <3> QED
      BY <1>7, <3>1
  <2>2. Tail(Append(<< >>, w[1])) = << >>
    <3>1. << >> \in Seq(Cells) /\ w[1] \in Cells
      BY <1>1, EmptySeq
    <3>2. \A s \in Seq(Cells), x \in Cells :
             s = << >> => Tail(Append(s, x)) = << >>
      BY HeadTailAppend
    <3> QED
      BY Zenon, <3>1, <3>2
  <2> HIDE DEF h
  <2> QED
    BY Zenon, <1>4, <2>1, <2>2
<1> HIDE DEF h
<1>9. ASSUME NEW i \in 1..(n - 1) PROVE h[i] = Step(h, v, S, i)
  <2>1. /\ i \in 1..n /\ i \in 0..n /\ i + 1 \in 1..n /\ (i + 1) - 1 = i
        /\ i \in 0..(n - 1) /\ i - 1 \in 0..(n - 1) /\ (i - 1) + 1 = i
    BY <1>1
  <2>2. h[i] = Tail(g[i + 1]) /\ h[i - 1] = Tail(g[i])
    BY <1>7, <2>1
  <2>3. g[i + 1] = Step(g, w, S, i + 1)
    BY <1>2, <2>1 DEF Keeps
  <2>4. g[i] \in Seq(Cells) /\ g[i] # << >> /\ v[i] = w[i + 1]
    BY <1>3, <1>5, <1>6, <2>1
  <2>5. Tail(Append(g[i], w[i + 1])) = Append(Tail(g[i]), w[i + 1])
    BY <2>4, HeadTailAppend
  <2> QED
    BY <2>1, <2>2, <2>3, <2>4, <2>5 DEF Step
<1>10. Keeps(h, n - 1, v, S)
  BY <1>8, <1>9 DEF Keeps
<1>11. Chosen(S)[v] = h[n - 1]
  BY <1>3, <1>10, ChosenIs
<1>12. h[n - 1] = Tail(g[n]) /\ g[n] # << >>
  <2>1. n - 1 \in 0..(n - 1) /\ (n - 1) + 1 = n /\ n \in 1..n
    BY <1>1
  <2> QED
    BY <1>6, <1>7, <2>1
<1> QED
  BY <1>2, <1>11, <1>12 DEF v

(* A new event, in S, behind all others of S: it is the last chosen.       *)
LEMMA ChosenLast ==
    ASSUME NEW w \in Seq(Cells), NEW S \in SUBSET Cells,
           NEW k \in 1..(Len(w) + 1), NEW p \in S,
           \A i \in k..Len(w) : w[i] \notin S
    PROVE  Chosen(S)[Inserted(w, k, p)] = Append(Chosen(S)[w], p)
<1> DEFINE v == Inserted(w, k, p)
           n == Len(w)
<1>1. n \in Nat
  BY LenProperties
<1>2. PICK g : Keeps(g, n, w, S) /\ Chosen(S)[w] = g[n]
  BY Choosing
<1>3. /\ v \in Seq(Cells) /\ Len(v) = n + 1 /\ v[k] = p
      /\ \A i \in 1..(k - 1) : i \in 1..n /\ v[i] = w[i]
      /\ \A i \in (k + 1)..(n + 1) : i - 1 \in 1..n /\ v[i] = w[i - 1]
      /\ \A i \in 1..(n + 1) :
            i \in 1..(k - 1) \/ i = k \/ i \in (k + 1)..(n + 1)
  BY InsertedFacts
<1>4. k \in 1..(n + 1) /\ \A i \in k..n : w[i] \notin S
  OBVIOUS
<1> HIDE DEF v, n
<1>5. \A i \in (k - 1)..n : g[i] = g[k - 1]
  <2> DEFINE bad == {i \in (k - 1)..n : g[i] # g[k - 1]}
  <2>1. SUFFICES ASSUME bad # {} PROVE FALSE
    OBVIOUS
  <2> DEFINE i == Min(bad)
  <2>2. i \in bad /\ \A j \in bad : i <= j
    <3>1. bad \in SUBSET Nat
      BY <1>1, <1>4
    <3> HIDE DEF bad
    <3> QED
      BY <2>1, <3>1, MinIsLeast
  <2> HIDE DEF i
  <2>3. i \in (k - 1)..n /\ g[i] # g[k - 1]
    BY <2>2
  <2>4. i # k - 1
    BY <2>3
  <2>5. i \in k..n /\ i \in 1..n /\ i - 1 \in (k - 1)..n /\ ~(i <= i - 1)
    BY <1>1, <1>4, <2>3, <2>4
  <2>6. g[i] = g[i - 1]
    BY <1>2, <1>4, <2>5 DEF Keeps, Step
  <2>7. i - 1 \in bad
    BY <2>3, <2>5, <2>6
  <2> HIDE DEF bad
  <2> QED
    BY <2>2, <2>5, <2>7
<1> DEFINE longer == Append(g[k - 1], p)
           h == [i \in 0..(n + 1) |-> IF i < k THEN g[i] ELSE longer]
<1>6. h[0] = g[0] /\ h[n + 1] = longer
  BY <1>1, <1>4
<1>7. \A i \in 1..(k - 1) : h[i] = g[i] /\ h[i - 1] = g[i - 1]
  BY <1>1, <1>4
<1>8. h[k] = longer /\ h[k - 1] = g[k - 1]
  BY <1>1, <1>4
<1>9. \A i \in (k + 1)..(n + 1) : h[i] = longer /\ h[i - 1] = longer
  BY <1>1, <1>4
<1> HIDE DEF h
<1>10. ASSUME NEW i \in 1..(n + 1) PROVE h[i] = Step(h, v, S, i)
  <2>1. CASE i \in 1..(k - 1)
    <3>1. g[i] = Step(g, w, S, i) /\ v[i] = w[i]
      BY <1>2, <1>3, <2>1 DEF Keeps
    <3> QED
      BY <1>7, <2>1, <3>1 DEF Step
  <2>2. CASE i = k
    <3>1. Step(h, v, S, k) = Append(h[k - 1], p)
      BY <1>3 DEF Step
    <3> QED
      BY <1>8, <2>2, <3>1
  <2>3. CASE i \in (k + 1)..(n + 1)
    <3>1. i - 1 \in k..n /\ v[i] = w[i - 1]
      BY <1>1, <1>3, <1>4, <2>3
    <3>2. v[i] \notin S
      BY <1>4, <3>1
    <3> HIDE DEF longer
    <3> QED
      BY <1>9, <2>3, <3>2 DEF Step
  <2> QED
    BY <1>3, <2>1, <2>2, <2>3
<1>11. Keeps(h, n + 1, v, S)
  BY <1>2, <1>6, <1>10 DEF Keeps
<1>12. Chosen(S)[v] = h[n + 1]
  BY <1>3, <1>11, ChosenIs
<1>13. g[n] = g[k - 1]
  BY <1>1, <1>4, <1>5
<1> QED
  BY <1>2, <1>6, <1>12, <1>13 DEF v

(* What is chosen is on the list.                                          *)
LEMMA ChosenListed ==
    ASSUME NEW w \in Seq(Cells), NEW S \in SUBSET Cells
    PROVE  /\ Chosen(S)[w] \in Seq(Cells)
           /\ \A j \in 1..Len(Chosen(S)[w]) : Chosen(S)[w][j] \in OnList(w)
<1> DEFINE n == Len(w)
           Sound(s) == \A j \in 1..Len(s) : s[j] \in OnList(w)
<1>1. n \in Nat /\ \A i \in 1..n : w[i] \in Cells
  BY LenProperties, ElementOfSeq
<1>2. PICK g \in [0..n -> Seq(Cells)] :
         Keeps(g, n, w, S) /\ Chosen(S)[w] = g[n]
  BY Choosing
<1>3. \A i \in 1..n : w[i] \in OnList(w)
  BY DEF OnList
<1> HIDE DEF n
<1>4. \A i \in 0..n : g[i] \in Seq(Cells)
  BY <1>2
<1>5. \A i \in 0..n : Sound(g[i])
  <2> DEFINE bad == {i \in 0..n : ~Sound(g[i])}
  <2>1. SUFFICES ASSUME bad # {} PROVE FALSE
    OBVIOUS
  <2> DEFINE i == Min(bad)
  <2>2. i \in bad /\ \A j \in bad : i <= j
    <3>1. bad \in SUBSET Nat
      BY <1>1
    <3> HIDE DEF bad
    <3> QED
      BY <2>1, <3>1, MinIsLeast
  <2> HIDE DEF i
  <2>3. i \in 0..n /\ ~Sound(g[i])
    BY <2>2
  <2>4. Sound(<< >>)
    BY EmptySeq
  <2>5. i # 0
    BY <1>2, <2>3, <2>4 DEF Keeps
  <2>6. i \in 1..n /\ i - 1 \in 0..n /\ ~(i <= i - 1)
    BY <1>1, <2>3, <2>5
  <2>7. i - 1 \notin bad
    <3> HIDE DEF bad
    <3> QED
      BY <2>2, <2>6
  <2>8. Sound(g[i - 1])
    BY <2>6, <2>7
  <2>9. g[i] = Step(g, w, S, i) /\ w[i] \in OnList(w) /\ w[i] \in Cells
    BY <1>1, <1>2, <1>3, <2>6 DEF Keeps
  <2> DEFINE s == g[i - 1]
  <2>10. s \in Seq(Cells) /\ Len(s) \in Nat
    BY <1>4, <2>6, LenProperties
  <2>11. /\ Len(Append(s, w[i])) = Len(s) + 1
         /\ \A j \in 1..Len(s) : Append(s, w[i])[j] = s[j]
         /\ Append(s, w[i])[Len(s) + 1] = w[i]
    BY <2>9, <2>10, AppendProperties
  <2>12. Sound(Append(s, w[i]))
    <3> HIDE DEF s
    <3> TAKE j \in 1..Len(Append(s, w[i]))
    <3>1. j \in 1..Len(s) \/ j = Len(s) + 1
      BY <2>10, <2>11
    <3> QED
      BY <2>8, <2>9, <2>11, <3>1 DEF s
  <2> HIDE DEF Sound
  <2> QED
    BY <2>3, <2>8, <2>9, <2>12 DEF Step
<1> QED
  BY <1>1, <1>2, <1>4, <1>5

-----------------------------------------------------------------------------
(* What each step does to the list, and to the contents of the events.     *)
Kept(S) == \A c \in S : SameContent(event'[c], event[c])

(* The list is v after the step.                                           *)
Becoming(v) == Walk(Memory)' = v /\ v \in Seq(Cells)

LEMMA NewList ==
    ASSUME NEW m \in Memories, NEW v, IsList(v, m), Becomes(m)
    PROVE  Becoming(v) /\ event' = m.event
<1>1. event' = m.event /\ evlist' = m.evlist /\ used' = m.used
  BY DEF Becomes
<1>2. m = [event |-> m.event, evlist |-> m.evlist, used |-> m.used]
  BY DEF Memories
<1>3. Memory' = m
  BY <1>1, <1>2 DEF Memory
<1>4. Walk(m) = v /\ v \in Seq(Cells)
  BY ListFacts
<1>5. Walk(Memory)' = Walk(m)
  BY <1>1, <1>3 DEF Walk, Memory, From
<1> QED
  BY <1>1, <1>4, <1>5 DEF Becoming

LEMMA InsertedOn ==
    ASSUME NEW w \in Seq(Cells), NEW k \in 1..(Len(w) + 1), NEW p \in Cells
    PROVE  OnList(Inserted(w, k, p)) = OnList(w) \cup {p}
<1> DEFINE v == Inserted(w, k, p)
           n == Len(w)
<1>1. n \in Nat /\ k \in 1..(n + 1)
  BY LenProperties
<1>2. /\ v \in Seq(Cells) /\ Len(v) = n + 1 /\ v[k] = p
      /\ \A i \in 1..(k - 1) : i \in 1..n /\ v[i] = w[i]
      /\ \A i \in (k + 1)..(n + 1) : i - 1 \in 1..n /\ v[i] = w[i - 1]
      /\ \A i \in 1..(n + 1) :
            i \in 1..(k - 1) \/ i = k \/ i \in (k + 1)..(n + 1)
  <2>1. v \in Seq(Cells) /\ Len(v) = n + 1 /\ v[k] = p
    BY InsertedFacts
  <2>2. \A i \in 1..(k - 1) : i \in 1..n /\ v[i] = w[i]
    BY InsertedFacts
  <2>3. \A i \in (k + 1)..(n + 1) : i - 1 \in 1..n /\ v[i] = w[i - 1]
    BY InsertedFacts
  <2>4. \A i \in 1..(n + 1) :
           i \in 1..(k - 1) \/ i = k \/ i \in (k + 1)..(n + 1)
    BY InsertedFacts
  <2> QED
    BY <2>1, <2>2, <2>3, <2>4
<1> HIDE DEF v, n
<1>3. \A i \in 1..(n + 1) : v[i] \in OnList(w) \cup {p}
  BY <1>2 DEF OnList, n
<1>4. ASSUME NEW i \in 1..n PROVE \E j \in 1..(n + 1) : v[j] = w[i]
  <2>1. CASE i < k
    <3>1. i \in 1..(k - 1) /\ i \in 1..(n + 1)
      BY <1>1, <2>1
    <3> QED
      BY <1>2, <3>1
  <2>2. CASE ~(i < k)
    <3>1. i + 1 \in (k + 1)..(n + 1) /\ i + 1 \in 1..(n + 1) /\ (i + 1) - 1 = i
      BY <1>1, <2>2
    <3> QED
      BY <1>2, <3>1
  <2> QED
    BY <2>1, <2>2
<1>5. OnList(v) \subseteq OnList(w) \cup {p}
  BY <1>2, <1>3 DEF OnList
<1>6. OnList(w) \subseteq OnList(v)
  BY <1>2, <1>4 DEF OnList, n
<1>7. p \in OnList(v)
  BY <1>1, <1>2 DEF OnList
<1> QED
  BY <1>5, <1>6, <1>7 DEF v

(* One event, with the fields given, comes onto a list.                    *)
LEMMA EventPlaced ==
    ASSUME NEW m \in Memories, NEW w, IsList(w, m), Cells \ m.used # {},
           NEW fields \in Events
    PROVE  /\ insertevent(m, fields) \in Memories
           /\ \E k \in 1..(Len(w) + 1), p \in Cells :
                /\ p \notin m.used
                /\ Neighbours(w, m.event, fields.evtime, k)
                /\ IsList(Inserted(w, k, p), insertevent(m, fields))
                /\ OnList(Inserted(w, k, p)) = OnList(w) \cup {p}
                /\ SameContent(insertevent(m, fields).event[p], fields)
                /\ \A c \in Cells \ {p} :
                      SameContent(insertevent(m, fields).event[c], m.event[c])
<1> DEFINE p == malloc(m)
           after == insertevent(m, fields)
<1>1. fields.evtime \in Nat /\ w \in Seq(Cells)
  BY ListFacts DEF Events
<1>2. PICK k : /\ Neighbours(w, m.event, fields.evtime, k)
               /\ Before(m, fields.evtime) = NextAt(w, k)
  BY <1>1, BeforeIsNext
<1>3. k \in 1..(Len(w) + 1)
  BY <1>2 DEF Neighbours
<1>4. p \in Cells /\ p \notin m.used
  BY MallocIsFree
<1>5. /\ after \in Memories
      /\ \A c \in Cells :
            SameContent(after.event[c], IF c = p THEN fields ELSE m.event[c])
  BY <1>2, InsertFields
<1>6. IsList(Inserted(w, k, p), after)
  BY <1>2, InsertLinks
<1>7. OnList(Inserted(w, k, p)) = OnList(w) \cup {p}
  BY <1>1, <1>3, <1>4, InsertedOn
<1> HIDE DEF after, p
<1> QED
  BY <1>2, <1>3, <1>4, <1>5, <1>6, <1>7 DEF after

LEMMA EventInserted ==
    ASSUME NEW m \in Memories, NEW w, IsList(w, m), Cells \ m.used # {},
           NEW fields \in Events, Becomes(insertevent(m, fields))
    PROVE  \E k \in 1..(Len(w) + 1), p \in Cells :
              /\ p \notin m.used
              /\ Neighbours(w, m.event, fields.evtime, k)
              /\ Becoming(Inserted(w, k, p))
              /\ OnList(Inserted(w, k, p)) = OnList(w) \cup {p}
              /\ SameContent(event'[p], fields)
              /\ \A c \in Cells \ {p} : SameContent(event'[c], m.event[c])
<1> DEFINE after == insertevent(m, fields)
<1>1. after \in Memories /\ Becomes(after)
  BY EventPlaced
<1>2. PICK k \in 1..(Len(w) + 1), p \in Cells :
         /\ p \notin m.used
         /\ Neighbours(w, m.event, fields.evtime, k)
         /\ IsList(Inserted(w, k, p), after)
         /\ OnList(Inserted(w, k, p)) = OnList(w) \cup {p}
         /\ SameContent(after.event[p], fields)
         /\ \A c \in Cells \ {p} : SameContent(after.event[c], m.event[c])
  BY EventPlaced
<1> HIDE DEF after
<1>3. Becoming(Inserted(w, k, p)) /\ event' = after.event
  BY <1>1, <1>2, NewList
<1> QED
  BY <1>2, <1>3

(* The k-th event leaves the list.                                         *)
LEMMA EventRemoved ==
    ASSUME NEW m \in Memories, NEW w, IsList(w, m), NEW k \in 1..Len(w)
    PROVE  /\ Unlink(m, w[k]) \in Memories /\ Unlink(m, w[k]).used = m.used
           /\ IsList(Removed(w, k), Unlink(m, w[k]))
           /\ OnList(Removed(w, k)) = OnList(w) \ {w[k]}
           /\ \A c \in Cells : SameContent(Unlink(m, w[k]).event[c], m.event[c])
<1> DEFINE v == Removed(w, k)
           n == Len(w)
<1>1. w \in Seq(Cells) /\ n \in Nat
  BY ListFacts
<1>2. /\ Len(v) = n - 1
      /\ \A i \in 1..(k - 1) : i \in 1..n /\ v[i] = w[i]
      /\ \A i \in k..(n - 1) : i + 1 \in 1..n /\ v[i] = w[i + 1]
      /\ \A i \in 1..(n - 1) : i \in 1..(k - 1) \/ i \in k..(n - 1)
  BY <1>1, RemovedFacts
<1>3. \A i, j \in 1..n : i # j => w[i] # w[j]
  BY DEF IsList
<1>4. k \in 1..n
  OBVIOUS
<1> HIDE DEF v, n
<1>5. \A i \in 1..(n - 1) : v[i] \in OnList(w) \ {w[k]}
  <2> TAKE i \in 1..(n - 1)
  <2>1. CASE i \in 1..(k - 1)
    <3>1. i \in 1..n /\ i # k
      BY <1>1, <1>4, <2>1
    <3> QED
      BY <1>2, <1>3, <1>4, <2>1, <3>1 DEF OnList, n
  <2>2. CASE i \in k..(n - 1)
    <3>1. i + 1 \in 1..n /\ i + 1 # k
      BY <1>1, <1>4, <2>2
    <3> QED
      BY <1>2, <1>3, <1>4, <2>2, <3>1 DEF OnList, n
  <2> QED
    BY <1>2, <2>1, <2>2
<1>6. ASSUME NEW i \in 1..n, i # k PROVE \E j \in 1..(n - 1) : v[j] = w[i]
  <2>1. CASE i < k
    <3>1. i \in 1..(k - 1) /\ i \in 1..(n - 1)
      BY <1>1, <1>4, <2>1
    <3> QED
      BY <1>2, <3>1
  <2>2. CASE ~(i < k)
    <3>1. i - 1 \in k..(n - 1) /\ i - 1 \in 1..(n - 1) /\ (i - 1) + 1 = i
      BY <1>1, <1>4, <1>6, <2>2
    <3> QED
      BY <1>2, <3>1
  <2> QED
    BY <2>1, <2>2
<1>7. OnList(v) \subseteq OnList(w) \ {w[k]}
  BY <1>2, <1>5 DEF OnList
<1>8. OnList(w) \ {w[k]} \subseteq OnList(v)
  <2>1. \A i \in 1..n : w[i] # w[k] => \E j \in 1..(n - 1) : v[j] = w[i]
    BY <1>6
  <2>2. OnList(v) = {v[j] : j \in 1..(n - 1)}
    BY <1>2 DEF OnList
  <2>3. OnList(w) = {w[i] : i \in 1..n}
    BY DEF OnList, n
  <2> QED
    BY <2>1, <2>2, <2>3
<1>9. /\ Unlink(m, w[k]) \in Memories /\ Unlink(m, w[k]).used = m.used
      /\ \A c \in Cells : SameContent(Unlink(m, w[k]).event[c], m.event[c])
  BY UnlinkFields
<1>10. IsList(Removed(w, k), Unlink(m, w[k]))
  BY UnlinkLinks
<1> QED
  BY <1>7, <1>8, <1>9, <1>10 DEF v

LEMMA ListedNow == Listed = OnList(Walk(Memory))
BY DEF Listed, OnList

LEMMA ListedThen ==
    ASSUME NEW v, Becoming(v)
    PROVE  Listed' = OnList(v)
BY DEF Listed, OnList, Becoming

LEMMA WalkNow ==
    ASSUME IInv
    PROVE  /\ Memory \in Memories /\ IsList(Walk(Memory), Memory)
           /\ Walk(Memory) \in Seq(Cells) /\ Len(Walk(Memory)) \in Nat
           /\ Memory.event = event /\ Memory.evlist = evlist
           /\ Memory.used = used
           /\ Listed \subseteq Cells /\ Listed \subseteq used
           /\ eventptr \notin Listed /\ eventptr \in used \cup {NULL}
           /\ \A c \in Cells : event[c] \in Events
<1> DEFINE w == Walk(Memory)
<1>1. /\ Memory \in Memories /\ IsList(w, Memory)
      /\ eventptr \in used \cup {NULL} /\ eventptr \notin OnList(w)
  BY ListNow
<1>2. Memory.event = event /\ Memory.evlist = evlist /\ Memory.used = used
  BY DEF Memory
<1> HIDE DEF w
<1>3. w \in Seq(Cells) /\ Len(w) \in Nat
  BY <1>1, ListFacts
<1>4. OnList(w) \subseteq Cells /\ OnList(w) \subseteq used
  BY <1>1, <1>2, OnListFacts DEF OnList
<1>5. \A c \in Cells : event[c] \in Events
  BY <1>1, <1>2 DEF Memories, Structs
<1> QED
  BY <1>1, <1>2, <1>3, <1>4, <1>5, ListedNow DEF w

LEMMA FirstListed ==
    ASSUME IInv, evlist # NULL
    PROVE  /\ 1 \in 1..Len(Walk(Memory)) /\ evlist = Walk(Memory)[1]
           /\ evlist \in Listed
<1> DEFINE w == Walk(Memory)
<1>1. /\ Memory \in Memories /\ IsList(w, Memory)
      /\ Memory.evlist = evlist
  BY WalkNow
<1> HIDE DEF w
<1>2. Len(w) \in Nat /\ evlist = IF Len(w) = 0 THEN NULL ELSE w[1]
  BY <1>1, ListFacts
<1>3. 1 \in 1..Len(w) /\ evlist = w[1]
  BY <1>2
<1> QED
  BY <1>3, ListedNow DEF OnList, w

(* The k-th event is taken off the list.                                   *)
LEMMA TakenOff ==
    ASSUME IInv, NEW k \in 1..Len(Walk(Memory)),
           Becomes(Unlink(Memory, Walk(Memory)[k]))
    PROVE  /\ Becoming(Removed(Walk(Memory), k))
           /\ Listed' = Listed \ {Walk(Memory)[k]}
           /\ Kept(Cells)
<1> DEFINE w == Walk(Memory)
           m == Unlink(Memory, w[k])
<1>1. Memory \in Memories /\ IsList(w, Memory) /\ Memory.event = event
  BY WalkNow
<1>2. k \in 1..Len(w) /\ Becomes(m)
  OBVIOUS
<1> HIDE DEF w
<1>3. /\ m \in Memories /\ IsList(Removed(w, k), m)
      /\ OnList(Removed(w, k)) = OnList(w) \ {w[k]}
      /\ \A c \in Cells : SameContent(m.event[c], event[c])
  BY <1>1, <1>2, EventRemoved
<1> HIDE DEF m
<1>4. Becoming(Removed(w, k)) /\ event' = m.event
  BY <1>2, <1>3, NewList
<1>5. Kept(Cells)
  BY <1>3, <1>4 DEF Kept
<1>6. Listed' = OnList(Removed(w, k))
  BY <1>4, ListedThen
<1> QED
  BY <1>3, <1>4, <1>5, <1>6, ListedNow DEF w

(* A call inserts an event.                                                *)
LEMMA PutOn ==
    ASSUME IInv, MemoryLeft, NEW fields \in Events,
           Becomes(insertevent(Memory, fields))
    PROVE  \E k \in 1..(Len(Walk(Memory)) + 1), p \in Cells :
              /\ p \notin used
              /\ Neighbours(Walk(Memory), event, fields.evtime, k)
              /\ Becoming(Inserted(Walk(Memory), k, p))
              /\ Listed' = Listed \cup {p}
              /\ SameContent(event'[p], fields)
              /\ Kept(Cells \ {p})
<1> DEFINE w == Walk(Memory)
           m == Memory
<1>1. /\ m \in Memories /\ IsList(w, m) /\ m.event = event /\ m.used = used
      /\ Listed = OnList(w)
  BY WalkNow, ListedNow
<1>2. Cells \ m.used # {}
  BY <1>1 DEF MemoryLeft
<1>3. Becomes(insertevent(m, fields))
  OBVIOUS
<1> HIDE DEF m, w
<1>4. PICK k \in 1..(Len(w) + 1), p \in Cells :
         /\ p \notin m.used
         /\ Neighbours(w, m.event, fields.evtime, k)
         /\ Becoming(Inserted(w, k, p))
         /\ OnList(Inserted(w, k, p)) = OnList(w) \cup {p}
         /\ SameContent(event'[p], fields)
         /\ \A c \in Cells \ {p} : SameContent(event'[c], m.event[c])
  BY <1>1, <1>2, <1>3, EventInserted
<1>5. Listed' = OnList(w) \cup {p}
  BY <1>4, ListedThen
<1>6. Kept(Cells \ {p})
  BY <1>1, <1>4 DEF Kept
<1>7. Neighbours(w, event, fields.evtime, k) /\ p \notin used
  BY <1>1, <1>4
<1> QED
  BY <1>1, <1>4, <1>5, <1>6, <1>7 DEF w

(* An arrival from layer 5 leaves the list and the next one comes onto it. *)
LEMMA NextArrival ==
    ASSUME IInv, TakeEvent, event[evlist].evtype = FROM_LAYER5
    PROVE  LET rest == Removed(Walk(Memory), 1)
           IN  \E k \in 1..(Len(rest) + 1), p \in Cells :
                  /\ p \notin used
                  /\ rest \in Seq(Cells) /\ OnList(rest) = Listed \ {evlist}
                  /\ Becoming(Inserted(rest, k, p))
                  /\ Listed' = (Listed \ {evlist}) \cup {p}
                  /\ event'[p].evtype = FROM_LAYER5
                  /\ event'[p].eventity = "A"
                  /\ Kept(Cells \ {p})
<1> DEFINE w == Walk(Memory)
           m == Memory
           rest == Removed(w, 1)
           q == evlist
           left == Unlink(m, q)
<1>1. evlist # NULL /\ time' = event[q].evtime
  BY DEF TakeEvent
<1>2. /\ MemoryLeft
      /\ \E x \in Arrivals, l \in {left} :
            Becomes(generate_next_arrival(l, time', x))
  BY DEF TakeEvent
<1>3. PICK x \in Arrivals : Becomes(generate_next_arrival(left, time', x))
  BY <1>2
<1>4. /\ m \in Memories /\ IsList(w, m) /\ m.event = event /\ m.used = used
      /\ Listed = OnList(w) /\ 1 \in 1..Len(w) /\ q = w[1]
      /\ q \in Cells /\ event[q] \in Events
  BY <1>1, WalkNow, ListedNow, FirstListed
<1> DEFINE t == event[q].evtime
           fields == Fields(t + x, FROM_LAYER5, "A")
<1>5. t \in Nat /\ x \in Nat /\ Representable(t)
  <2>1. Representable(t)
    BY <1>4 DEF IInv, TimesAreFloats
  <2>2. t \in Nat
    BY <1>4 DEF Events
  <2> QED
    BY <2>1, <2>2, DrawsAssumption
<1>6. Becomes(insertevent(left, fields))
  BY <1>1, <1>3 DEF generate_next_arrival
<1> HIDE DEF m, w, t, q
<1>7. fields \in Events /\ fields.evtype = FROM_LAYER5 /\ fields.eventity = "A"
  BY <1>5, FieldsFacts DEF FROM_LAYER5
<1>8. /\ left \in Memories /\ left.used = used
      /\ IsList(rest, left) /\ OnList(rest) = OnList(w) \ {q}
      /\ \A c \in Cells : SameContent(left.event[c], event[c])
  BY <1>4, EventRemoved
<1>9. Cells \ left.used # {}
  BY <1>2, <1>8 DEF MemoryLeft
<1>10. rest \in Seq(Cells)
  BY <1>8, ListFacts
<1> HIDE DEF fields, left, rest
<1>11. PICK k \in 1..(Len(rest) + 1), p \in Cells :
         /\ p \notin left.used
         /\ Becoming(Inserted(rest, k, p))
         /\ OnList(Inserted(rest, k, p)) = OnList(rest) \cup {p}
         /\ SameContent(event'[p], fields)
         /\ \A c \in Cells \ {p} : SameContent(event'[c], left.event[c])
  BY <1>6, <1>7, <1>8, <1>9, EventInserted
<1>12. Listed' = OnList(rest) \cup {p}
  BY <1>11, ListedThen
<1>13. Kept(Cells \ {p})
  BY <1>8, <1>11 DEF Kept, SameContent
<1>14. event'[p].evtype = FROM_LAYER5 /\ event'[p].eventity = "A"
  BY <1>7, <1>11 DEF SameContent
<1> QED
  BY <1>4, <1>8, <1>10, <1>11, <1>12, <1>13, <1>14 DEF rest, w, m, q

(* stoptimer: the timer leaves the list and is freed.                      *)
LEMMA TimerStopped ==
    ASSUME IInv, stoptimer, TimerRuns
    PROVE  \E k \in 1..Len(Walk(Memory)) :
              /\ event[Walk(Memory)[k]].evtype = TIMER_INTERRUPT
              /\ Becoming(Removed(Walk(Memory), k))
              /\ Listed' = Listed \ {Walk(Memory)[k]}
              /\ Kept(Cells \ {Walk(Memory)[k]})
<1> DEFINE w == Walk(Memory)
           m == Memory
           k == Min(Timers)
           q == w[k]
           left == Unlink(m, q)
           after == free(left, q)
<1>1. Becomes(after)
  BY DEF stoptimer
<1>2. k \in 1..Len(w) /\ event[q].evtype = TIMER_INTERRUPT
  <2>1. /\ Timers \in SUBSET Nat /\ Timers # {}
        /\ \A i \in Timers : /\ i \in 1..Len(w)
                             /\ event[w[i]].evtype = TIMER_INTERRUPT
    BY DEF TimerRuns, Timers, Places
  <2>2. Min(Timers) \in Timers
    BY <2>1, MinIsLeast
  <2> QED
    BY <2>1, <2>2
<1>3. /\ m \in Memories /\ IsList(w, m) /\ m.event = event
      /\ Listed = OnList(w) /\ time \in Nat /\ Ordered(w, m, time)
  BY WalkNow, ListedNow, ListNow
<1> HIDE DEF m, w, k
<1>4. /\ left \in Memories /\ IsList(Removed(w, k), left)
      /\ OnList(Removed(w, k)) = OnList(w) \ {q}
      /\ \A c \in Cells : SameContent(left.event[c], event[c])
      /\ Ordered(Removed(w, k), left, time) /\ q \in Cells
  <2> HIDE DEF q, left
  <2>1. /\ left \in Memories /\ IsList(Removed(w, k), left)
        /\ OnList(Removed(w, k)) = OnList(w) \ {q}
        /\ \A c \in Cells : SameContent(left.event[c], event[c])
    BY <1>2, <1>3, EventRemoved DEF q, left
  <2>2. Ordered(Removed(w, k), left, time)
    BY <1>2, <1>3, UnlinkOrder DEF q, left
  <2>3. q \in Cells
    BY <1>2, <1>3, OnListFacts DEF q
  <2> QED
    BY <2>1, <2>2, <2>3
<1> DEFINE v == Removed(w, k)
<1> HIDE DEF left, v, q
<1>5. q \notin OnList(v)
  BY <1>4 DEF v
<1>6. /\ after \in Memories /\ IsList(v, after)
      /\ \A c \in Cells \ {q} : after.event[c] = left.event[c]
  BY <1>3, <1>4, <1>5, FreeHolds DEF v
<1> HIDE DEF after
<1>7. Becoming(v) /\ event' = after.event /\ Listed' = OnList(v)
  BY <1>1, <1>6, NewList, ListedThen
<1>8. Kept(Cells \ {q})
  BY <1>4, <1>6, <1>7 DEF Kept
<1> QED
  BY <1>2, <1>3, <1>4, <1>7, <1>8 DEF v, q, w

(* The end of a handler frees its event, which is not on the list.         *)
LEMMA EventFreed ==
    ASSUME IInv, Return
    PROVE  /\ Becoming(Walk(Memory)) /\ Listed' = Listed
           /\ Kept(Cells \ {eventptr})
<1> DEFINE w == Walk(Memory)
           m == Memory
           p == eventptr
           after == free(m, p)
<1>1. p # NULL /\ Becomes(after)
  BY DEF Return
<1>2. /\ m \in Memories /\ IsList(w, m) /\ m.event = event
      /\ Listed = OnList(w) /\ time \in Nat /\ Ordered(w, m, time)
      /\ p \in Cells /\ p \notin OnList(w)
  BY <1>1, WalkNow, ListedNow, ListNow DEF IInv, TypeOK
<1> HIDE DEF m, w, p
<1>3. /\ after \in Memories /\ IsList(w, after)
      /\ \A c \in Cells \ {p} : after.event[c] = event[c]
  BY <1>2, FreeHolds
<1> HIDE DEF after
<1>4. Becoming(w) /\ event' = after.event /\ Listed' = OnList(w)
  BY <1>1, <1>3, NewList, ListedThen
<1>5. Kept(Cells \ {p})
  BY <1>3, <1>4 DEF Kept, SameContent
<1> QED
  BY <1>2, <1>4, <1>5 DEF w, p

(* Nothing is done to the list.                                            *)
LEMMA ListLeftAlone ==
    ASSUME IInv, UNCHANGED listVars
    PROVE  Becoming(Walk(Memory)) /\ Listed' = Listed /\ Kept(Cells)
<1>1. event' = event /\ evlist' = evlist /\ used' = used
  BY DEF listVars
<1>2. Walk(Memory)' = Walk(Memory)
  BY <1>1 DEF Memory, Walk, From
<1>3. Becoming(Walk(Memory))
  BY <1>2, WalkNow DEF Becoming
<1>4. Listed' = Listed
  BY <1>3, ListedThen, ListedNow
<1> QED
  BY <1>1, <1>3, <1>4 DEF Kept, SameContent

-----------------------------------------------------------------------------
(* KindsOfEvents is kept: A has one timer, layer 5 calls A and is not      *)
(* forgotten.                                                              *)
LEMMA FewerKinds ==
    ASSUME KindsOfEvents, Listed' \subseteq Listed, Kept(Listed'),
           \/ terminated'
           \/ /\ ~terminated
              /\ \A c \in Listed \ Listed' : event[c].evtype # FROM_LAYER5
    PROVE  KindsOfEvents'
<1>1. \A c \in Listed' : /\ event'[c].evtype = event[c].evtype
                          /\ event'[c].eventity = event[c].eventity
  BY DEF Kept, SameContent
<1>2. ~terminated' => \E c \in Listed' : event'[c].evtype = FROM_LAYER5
  BY <1>1 DEF KindsOfEvents
<1>3. \A c \in Listed' :
         event'[c].evtype # FROM_LAYER3 => event'[c].eventity = "A"
  BY <1>1 DEF KindsOfEvents
<1>4. \A c, d \in Listed' :
         /\ event'[c].evtype = TIMER_INTERRUPT
         /\ event'[d].evtype = TIMER_INTERRUPT
         => c = d
  BY <1>1 DEF KindsOfEvents
<1> QED
  BY <1>2, <1>3, <1>4 DEF KindsOfEvents, TIMER_INTERRUPT, FROM_LAYER3,
                          FROM_LAYER5

LEMMA MoreKinds ==
    ASSUME KindsOfEvents, NEW L \in SUBSET Listed, Kept(L),
           NEW p, Listed' = L \cup {p},
           event'[p].evtype = TIMER_INTERRUPT =>
              \A c \in L : event[c].evtype # TIMER_INTERRUPT,
           event'[p].evtype # FROM_LAYER3 => event'[p].eventity = "A",
           \/ event'[p].evtype = FROM_LAYER5
           \/ \E c \in L : event[c].evtype = FROM_LAYER5
    PROVE  KindsOfEvents'
<1>1. \A c \in L : /\ event'[c].evtype = event[c].evtype
                    /\ event'[c].eventity = event[c].eventity
  BY DEF Kept, SameContent
<1>2. \E c \in Listed' : event'[c].evtype = FROM_LAYER5
  BY <1>1
<1>3. \A c \in Listed' :
         event'[c].evtype # FROM_LAYER3 => event'[c].eventity = "A"
  BY <1>1 DEF KindsOfEvents
<1>4. \A c, d \in Listed' :
         /\ event'[c].evtype = TIMER_INTERRUPT
         /\ event'[d].evtype = TIMER_INTERRUPT
         => c = d
  BY <1>1 DEF KindsOfEvents
<1> QED
  BY <1>2, <1>3, <1>4 DEF KindsOfEvents, TIMER_INTERRUPT, FROM_LAYER3,
                          FROM_LAYER5

(* Only A has timers, so TimerRuns looks for any.                          *)
TimerListed == \E c \in Listed : event[c].evtype = TIMER_INTERRUPT

LEMMA TimerIsListed == KindsOfEvents => TimerRuns = TimerListed
<1> SUFFICES ASSUME KindsOfEvents PROVE TimerRuns <=> TimerListed
  BY DEF TimerRuns, TimerListed
<1> DEFINE w == Walk(Memory)
<1>1. Timers = {i \in 1..Len(w) : /\ event[w[i]].evtype = TIMER_INTERRUPT
                                  /\ event[w[i]].eventity = "A"}
  BY DEF Timers, Places
<1>2. Listed = {w[i] : i \in 1..Len(w)}
  BY DEF Listed
<1>3. \A c \in Listed :
         event[c].evtype = TIMER_INTERRUPT => event[c].eventity = "A"
  BY DEF KindsOfEvents, TIMER_INTERRUPT, FROM_LAYER3
<1> HIDE DEF w
<1> QED
  BY <1>1, <1>2, <1>3 DEF TimerRuns, TimerListed

LEMMA TimerIsListedThen == KindsOfEvents' => TimerRuns' = TimerListed'
<1>1. (KindsOfEvents => TimerRuns = TimerListed)'
  BY TimerIsListed, PTL
<1> QED
  BY <1>1

LEMMA TakeEventKinds == IInv /\ KindsOfEvents /\ TakeEvent => KindsOfEvents'
<1> SUFFICES ASSUME IInv, KindsOfEvents, TakeEvent PROVE KindsOfEvents'
  OBVIOUS
<1>1. evlist # NULL /\ ~terminated /\ terminated' = terminated
  BY DEF TakeEvent
<1>2. CASE event[evlist].evtype = FROM_LAYER5
  <2>1. PICK p \in Cells :
           /\ Listed' = (Listed \ {evlist}) \cup {p} /\ p \notin used
           /\ event'[p].evtype = FROM_LAYER5 /\ event'[p].eventity = "A"
           /\ Kept(Cells \ {p})
    BY <1>2, NextArrival
  <2> DEFINE L == Listed \ {evlist}
  <2>2. L \in SUBSET Listed /\ L \subseteq Cells \ {p}
    BY <2>1, WalkNow
  <2>3. Kept(L)
    BY <2>1, <2>2 DEF Kept
  <2>4. event'[p].evtype # TIMER_INTERRUPT
    BY <2>1 DEF TIMER_INTERRUPT, FROM_LAYER5
  <2>5. Listed' = L \cup {p}
    BY <2>1
  <2> HIDE DEF L
  <2> QED
    BY <2>1, <2>2, <2>3, <2>4, <2>5, MoreKinds
<1>3. CASE event[evlist].evtype # FROM_LAYER5
  <2>1. Becomes(Unlink(Memory, evlist))
    BY <1>3 DEF TakeEvent
  <2>2. Listed' = Listed \ {evlist} /\ Kept(Cells)
    BY <1>1, <2>1, FirstListed, TakenOff
  <2>3. Kept(Listed') /\ Listed' \subseteq Listed
    BY <2>2, WalkNow DEF Kept
  <2>4. \A c \in Listed \ Listed' : event[c].evtype # FROM_LAYER5
    BY <1>3, <2>2
  <2> QED
    BY <1>1, <2>3, <2>4, FewerKinds
<1> QED
  BY <1>2, <1>3

LEMMA TerminateKinds == IInv /\ KindsOfEvents /\ Terminate => KindsOfEvents'
<1> SUFFICES ASSUME IInv, KindsOfEvents, Terminate PROVE KindsOfEvents'
  OBVIOUS
<1>1. terminated' = TRUE
  BY DEF Terminate
<1>2. CASE evlist = NULL
  <2>1. UNCHANGED listVars
    BY <1>2 DEF Terminate
  <2>2. Kept(Listed') /\ Listed' \subseteq Listed
    BY <2>1, ListLeftAlone, WalkNow DEF Kept
  <2> QED
    BY <1>1, <2>2, FewerKinds
<1>3. CASE evlist # NULL
  <2>1. Becomes(Unlink(Memory, evlist))
    BY <1>3 DEF Terminate
  <2>2. Listed' = Listed \ {evlist} /\ Kept(Cells)
    BY <1>3, <2>1, FirstListed, TakenOff
  <2>3. Kept(Listed') /\ Listed' \subseteq Listed
    BY <2>2, WalkNow DEF Kept
  <2> QED
    BY <1>1, <2>3, FewerKinds
<1> QED
  BY <1>2, <1>3

LEMMA ReturnKinds == IInv /\ KindsOfEvents /\ Return => KindsOfEvents'
<1> SUFFICES ASSUME IInv, KindsOfEvents, Return PROVE KindsOfEvents'
  OBVIOUS
<1>1. terminated' = terminated /\ eventptr # NULL
  BY DEF Return
<1>2. ~terminated
  BY <1>1 DEF IInv, EndsWithNull
<1>3. Listed' = Listed /\ Kept(Cells \ {eventptr})
  BY EventFreed
<1>4. Kept(Listed')
  BY <1>3, WalkNow DEF Kept
<1> QED
  BY <1>1, <1>2, <1>3, <1>4, FewerKinds

LEMMA UnchangedKinds ==
    ASSUME IInv, KindsOfEvents, UNCHANGED <<listVars, terminated>>
    PROVE  KindsOfEvents'
<1>1. Listed' = Listed /\ Kept(Listed')
  BY ListLeftAlone, WalkNow DEF Kept
<1>2. terminated \in BOOLEAN /\ terminated' = terminated
  BY DEF IInv, TypeOK
<1> QED
  BY <1>1, <1>2, FewerKinds

(* A call that inserts a packet, or the timer when there is none.          *)
LEMMA PutOnKinds ==
    ASSUME IInv, KindsOfEvents, Call, MemoryLeft, NEW fields \in Events,
           Becomes(insertevent(Memory, fields)),
           \/ fields.evtype = FROM_LAYER3
           \/ /\ fields.evtype = TIMER_INTERRUPT /\ fields.eventity = "A"
              /\ ~TimerRuns
    PROVE  KindsOfEvents'
<1>1. PICK p \in Cells : /\ p \notin used /\ Listed' = Listed \cup {p}
                         /\ SameContent(event'[p], fields)
                         /\ Kept(Cells \ {p})
  BY PutOn
<1>2. Kept(Listed)
  BY <1>1, WalkNow DEF Kept
<1>3. event'[p].evtype = fields.evtype /\ event'[p].eventity = fields.eventity
  BY <1>1 DEF SameContent
<1>4. \E c \in Listed : event[c].evtype = FROM_LAYER5
  BY CallFacts DEF KindsOfEvents
<1>5. event'[p].evtype # FROM_LAYER3 => event'[p].eventity = "A"
  BY <1>3
<1>6. event'[p].evtype = TIMER_INTERRUPT =>
         \A c \in Listed : event[c].evtype # TIMER_INTERRUPT
  BY <1>3, TimerIsListed DEF TimerListed, TIMER_INTERRUPT, FROM_LAYER3
<1> QED
  BY <1>1, <1>2, <1>4, <1>5, <1>6, MoreKinds

(* The call of tolayer3 and its draw, when a packet is sent.               *)
LEMMA PacketSent ==
    ASSUME IInv, tolayer3, ~UNCHANGED listVars
    PROVE  LET entity == Other(handler)
           IN  /\ Call /\ MemoryLeft
               /\ \E d \in Delays :
                     LET fields == Fields(lastime(entity) + d,
                                          FROM_LAYER3, entity)
                     IN  /\ fields \in Events
                         /\ Becomes(insertevent(Memory, fields))
                         /\ fields.evtype = FROM_LAYER3
                         /\ fields.eventity = entity
                         /\ fields.evtime = Rounded(lastime(entity) + d)
<1> DEFINE entity == Other(handler)
           t == lastime(entity)
<1>1. Call /\ MemoryLeft
  BY DEF tolayer3
<1>2. PICK d \in Delays :
         Becomes(insertevent(Memory, Fields(t + d, FROM_LAYER3, entity)))
  BY DEF tolayer3
<1>3. entity \in {"A", "B"} /\ d \in Nat
  BY DrawsAssumption DEF Other
<1>4. t \in Nat /\ Representable(t)
  BY LastimeFacts
<1> HIDE DEF entity, t
<1>5. /\ Fields(t + d, FROM_LAYER3, entity) \in Events
      /\ Fields(t + d, FROM_LAYER3, entity).evtype = FROM_LAYER3
      /\ Fields(t + d, FROM_LAYER3, entity).eventity = entity
  BY <1>3, <1>4, FieldsFacts DEF FROM_LAYER3
<1>6. Fields(t + d, FROM_LAYER3, entity).evtime = Rounded(t + d)
  BY DEF Fields, Blank
<1> QED
  BY <1>1, <1>2, <1>5, <1>6 DEF entity, t

LEMMA TimerStarted ==
    ASSUME IInv, starttimer, ~TimerRuns
    PROVE  /\ Call /\ MemoryLeft
           /\ \E fields \in Events :
                 /\ Becomes(insertevent(Memory, fields))
                 /\ fields.evtype = TIMER_INTERRUPT
                 /\ fields.eventity = "A"
<1>1. /\ Call /\ MemoryLeft
      /\ \E x \in Increments :
            Becomes(insertevent(Memory, Fields(time + x, TIMER_INTERRUPT, "A")))
  BY DEF starttimer, Expiry
<1>2. PICK x \in Increments :
         Becomes(insertevent(Memory, Fields(time + x, TIMER_INTERRUPT, "A")))
  BY <1>1
<1>3. x \in Nat /\ time \in Nat /\ Representable(time)
  BY DrawsAssumption, ListNow
<1> DEFINE fields == Fields(time + x, TIMER_INTERRUPT, "A")
<1>4. /\ fields \in Events /\ fields.evtype = TIMER_INTERRUPT
      /\ fields.eventity = "A"
  BY <1>3, FieldsFacts DEF TIMER_INTERRUPT
<1> HIDE DEF fields
<1>5. Becomes(insertevent(Memory, fields))
  BY <1>2 DEF fields
<1> QED
  BY <1>1, <1>4, <1>5

LEMMA CallKinds ==
    IInv /\ KindsOfEvents /\ (tolayer3 \/ starttimer \/ stoptimer)
       => KindsOfEvents'
<1> SUFFICES ASSUME IInv, KindsOfEvents, tolayer3 \/ starttimer \/ stoptimer
             PROVE  KindsOfEvents'
  OBVIOUS
<1>1. Call
  BY DEF tolayer3, starttimer, stoptimer
<1>2. terminated' = terminated /\ ~terminated
  BY <1>1, CallFacts
<1>3. CASE UNCHANGED listVars
  BY <1>2, <1>3, UnchangedKinds
<1>4. CASE tolayer3 /\ ~UNCHANGED listVars
  BY <1>1, <1>4, PacketSent, PutOnKinds
<1>5. CASE starttimer /\ ~TimerRuns
  BY <1>1, <1>5, TimerStarted, PutOnKinds
<1>6. CASE stoptimer /\ TimerRuns
  <2> DEFINE w == Walk(Memory)
  <2>1. PICK k \in 1..Len(w) :
           /\ event[w[k]].evtype = TIMER_INTERRUPT
           /\ Listed' = Listed \ {w[k]} /\ Kept(Cells \ {w[k]})
    BY <1>6, TimerStopped
  <2> HIDE DEF w
  <2>2. Kept(Listed') /\ Listed' \subseteq Listed
    BY <2>1, WalkNow DEF Kept
  <2>3. \A c \in Listed \ Listed' : event[c].evtype # FROM_LAYER5
    BY <2>1 DEF TIMER_INTERRUPT, FROM_LAYER5
  <2> QED
    BY <1>2, <2>2, <2>3, FewerKinds
<1>7. CASE starttimer /\ TimerRuns
  <2>1. UNCHANGED listVars
    BY <1>7 DEF starttimer
  <2> QED
    BY <1>3, <2>1
<1>8. CASE stoptimer /\ ~TimerRuns
  <2>1. UNCHANGED listVars
    BY <1>8 DEF stoptimer
  <2> QED
    BY <1>3, <2>1
<1> QED
  BY <1>3, <1>4, <1>5, <1>6, <1>7, <1>8

LEMMA KindsStep == IInv /\ KindsOfEvents /\ [Next]_vars => KindsOfEvents'
<1>1. IInv /\ KindsOfEvents /\ UNCHANGED vars => KindsOfEvents'
  BY UnchangedKinds DEF vars
<1> QED
  BY <1>1, TakeEventKinds, TerminateKinds, ReturnKinds, CallKinds DEF Next

-----------------------------------------------------------------------------
(* The queues of the medium.                                               *)
After(entity) ==
    {q \in Cells : event'[q].evtype = FROM_LAYER3 /\ event'[q].eventity = entity}

LEMMA PacketsThen ==
    ASSUME NEW v, Becoming(v), NEW entity
    PROVE  PacketsTo(entity)' = Chosen(After(entity))[v]
BY DEF PacketsTo, Packets, After, Chosen, Becoming

LEMMA SamePackets ==
    ASSUME NEW S, Kept(S), NEW c \in S, c \in Cells, NEW entity
    PROVE  c \in After(entity) <=> c \in Packets(entity)
BY DEF Kept, SameContent, After, Packets

LEMMA QueueKept ==
    ASSUME NEW v, Becoming(v), Kept(OnList(v)), NEW entity
    PROVE  PacketsTo(entity)' = Chosen(Packets(entity))[v]
<1>1. v \in Seq(Cells)
  BY DEF Becoming
<1>2. Packets(entity) \in SUBSET Cells /\ After(entity) \in SUBSET Cells
  BY DEF Packets, After
<1>3. \A i \in 1..Len(v) : v[i] \in OnList(v) /\ v[i] \in Cells
  BY <1>1, ElementOfSeq DEF OnList
<1>4. \A i \in 1..Len(v) : v[i] \in After(entity) <=> v[i] \in Packets(entity)
  BY <1>3, SamePackets
<1>5. Chosen(After(entity))[v] = Chosen(Packets(entity))[v]
  BY <1>1, <1>2, <1>4, ChosenSame
<1> QED
  BY <1>5, PacketsThen

LEMMA QueueWithout ==
    ASSUME IInv, NEW k \in 1..Len(Walk(Memory)),
           Becoming(Removed(Walk(Memory), k)), Kept(Listed'), NEW entity
    PROVE  /\ Walk(Memory)[k] \notin Packets(entity) =>
                 PacketsTo(entity)' = PacketsTo(entity)
           /\ k = 1 /\ Walk(Memory)[1] \in Packets(entity) =>
                 /\ PacketsTo(entity) # << >>
                 /\ PacketsTo(entity)' = Tail(PacketsTo(entity))
<1> DEFINE w == Walk(Memory)
           S == Packets(entity)
<1>1. w \in Seq(Cells) /\ S \in SUBSET Cells
  BY WalkNow DEF Packets
<1>2. PacketsTo(entity)' = Chosen(S)[Removed(w, k)]
  BY ListedThen, QueueKept
<1>3. PacketsTo(entity) = Chosen(S)[w]
  BY DEF PacketsTo
<1>4. k \in 1..Len(w)
  OBVIOUS
<1> HIDE DEF w, S
<1>5. w[k] \notin S => Chosen(S)[Removed(w, k)] = Chosen(S)[w]
  BY <1>1, <1>4, ChosenRemoved
<1>6. k = 1 /\ w[1] \in S => /\ Chosen(S)[w] # << >>
                             /\ Chosen(S)[Removed(w, 1)] = Tail(Chosen(S)[w])
  BY <1>1, <1>4, ChosenFirst
<1> QED
  BY <1>2, <1>3, <1>5, <1>6 DEF w, S

LEMMA QueueWith ==
    ASSUME NEW w \in Seq(Cells), NEW k \in 1..(Len(w) + 1), NEW p \in Cells,
           Becoming(Inserted(w, k, p)), Kept(OnList(w)), p \notin OnList(w),
           NEW entity
    PROVE  /\ p \notin After(entity) =>
                 PacketsTo(entity)' = Chosen(Packets(entity))[w]
           /\ /\ p \in After(entity)
              /\ \A i \in k..Len(w) : w[i] \notin Packets(entity)
              => PacketsTo(entity)' = Append(Chosen(Packets(entity))[w], p)
<1> DEFINE S == Packets(entity)
           T == After(entity)
           v == Inserted(w, k, p)
<1>1. S \in SUBSET Cells /\ T \in SUBSET Cells
  BY DEF Packets, After
<1>2. PacketsTo(entity)' = Chosen(T)[v]
  BY PacketsThen
<1>3. \A i \in 1..Len(w) : w[i] \in OnList(w) /\ w[i] \in Cells
  BY ElementOfSeq DEF OnList
<1>4. \A i \in 1..Len(w) : w[i] \in T <=> w[i] \in S
  BY <1>3, SamePackets
<1> HIDE DEF S, T, v
<1>5. Chosen(T)[w] = Chosen(S)[w]
  BY <1>1, <1>4, ChosenSame
<1>6. p \notin T => Chosen(T)[v] = Chosen(T)[w]
  BY <1>1, ChosenInserted DEF v
<1>7. ASSUME p \in T, \A i \in k..Len(w) : w[i] \notin S
      PROVE  Chosen(T)[v] = Append(Chosen(T)[w], p)
  <2>1. \A i \in k..Len(w) : w[i] \notin T
    <3>1. Len(w) \in Nat
      BY LenProperties
    <3>2. \A i \in k..Len(w) : i \in 1..Len(w)
      BY <3>1
    <3> QED
      BY <1>4, <1>7, <3>2
  <2> QED
    BY <1>1, <1>7, <2>1, ChosenLast DEF v
<1> QED
  BY <1>2, <1>5, <1>6, <1>7 DEF S, T

(* The kinds of events, as the main loop tells them apart.                 *)
LEMMA FourKinds ==
    ASSUME IInv, KindsOfEvents, NEW q \in Listed
    PROVE  /\ q \in Cells
           /\ \/ /\ event[q].evtype = FROM_LAYER5 /\ event[q].eventity = "A"
                 /\ q \notin Packets("A") /\ q \notin Packets("B")
              \/ /\ event[q].evtype = TIMER_INTERRUPT
                 /\ event[q].eventity = "A"
                 /\ q \notin Packets("A") /\ q \notin Packets("B")
              \/ /\ event[q].evtype = FROM_LAYER3 /\ event[q].eventity = "A"
                 /\ q \in Packets("A") /\ q \notin Packets("B")
              \/ /\ event[q].evtype = FROM_LAYER3 /\ event[q].eventity = "B"
                 /\ q \notin Packets("A") /\ q \in Packets("B")
<1>1. q \in Cells /\ event[q] \in Events
  BY WalkNow
<1>2. event[q].evtype \in 0..2 /\ event[q].eventity \in {"A", "B"}
  BY <1>1 DEF Events
<1>3. event[q].evtype # FROM_LAYER3 => event[q].eventity = "A"
  BY DEF KindsOfEvents
<1>4. event[q].evtype \in {TIMER_INTERRUPT, FROM_LAYER5, FROM_LAYER3}
  BY <1>2 DEF TIMER_INTERRUPT, FROM_LAYER5, FROM_LAYER3
<1>5. /\ FROM_LAYER3 # FROM_LAYER5 /\ FROM_LAYER3 # TIMER_INTERRUPT
  BY DEF TIMER_INTERRUPT, FROM_LAYER5, FROM_LAYER3
<1> QED
  BY <1>1, <1>2, <1>3, <1>4, <1>5 DEF Packets

(* The first event leaves the list, and with it a message of layer 5, the  *)
(* timer or the first packet of a queue.                                   *)
SameQueues ==
    PacketsTo("A")' = PacketsTo("A") /\ PacketsTo("B")' = PacketsTo("B")

LEMMA FirstLeaves ==
    ASSUME IInv, KindsOfEvents, KindsOfEvents', evlist # NULL,
           Becomes(Unlink(Memory, evlist))
    PROVE  /\ evlist \in Cells /\ Kept(Cells)
           /\ \/ /\ event[evlist].evtype = FROM_LAYER5
                 /\ SameQueues /\ TimerRuns' = TimerRuns
              \/ /\ event[evlist].evtype = TIMER_INTERRUPT
                 /\ event[evlist].eventity = "A"
                 /\ SameQueues /\ TimerRuns = TRUE /\ TimerRuns' = FALSE
              \/ /\ event[evlist].evtype = FROM_LAYER3
                 /\ event[evlist].eventity = "A"
                 /\ PacketsTo("A") # << >>
                 /\ PacketsTo("A")' = Tail(PacketsTo("A"))
                 /\ PacketsTo("B")' = PacketsTo("B")
                 /\ TimerRuns' = TimerRuns
              \/ /\ event[evlist].evtype = FROM_LAYER3
                 /\ event[evlist].eventity = "B"
                 /\ PacketsTo("B") # << >>
                 /\ PacketsTo("B")' = Tail(PacketsTo("B"))
                 /\ PacketsTo("A")' = PacketsTo("A")
                 /\ TimerRuns' = TimerRuns
<1> DEFINE w == Walk(Memory)
           q == evlist
<1>1. 1 \in 1..Len(w) /\ q = w[1] /\ q \in Listed
  BY FirstListed
<1>2. Becoming(Removed(w, 1)) /\ Listed' = Listed \ {q} /\ Kept(Cells)
  BY <1>1, TakenOff
<1>3. Kept(Listed') /\ q \in Cells
  BY <1>1, <1>2, WalkNow DEF Kept
<1>4. \A e \in {"A", "B"} :
         /\ q \notin Packets(e) => PacketsTo(e)' = PacketsTo(e)
         /\ q \in Packets(e) => /\ PacketsTo(e) # << >>
                                /\ PacketsTo(e)' = Tail(PacketsTo(e))
  <2> TAKE e \in {"A", "B"}
  <2> QED
    BY <1>1, <1>2, <1>3, QueueWithout
<1>5. TimerRuns = TimerListed /\ TimerRuns' = TimerListed'
  BY TimerIsListed, TimerIsListedThen
<1>6. event[q].evtype # TIMER_INTERRUPT => TimerListed' = TimerListed
  <2>1. \A c \in Listed' : event'[c].evtype = event[c].evtype
    BY <1>3 DEF Kept, SameContent
  <2>2. TimerListed' <=> \E c \in Listed' : event'[c].evtype = TIMER_INTERRUPT
    BY DEF TimerListed, TIMER_INTERRUPT
  <2>3. event[q].evtype # TIMER_INTERRUPT => (TimerListed' <=> TimerListed)
    BY <1>2, <2>1, <2>2 DEF TimerListed
  <2> QED
    BY <2>3 DEF TimerListed
<1>7. event[q].evtype = TIMER_INTERRUPT =>
         TimerListed = TRUE /\ TimerListed' = FALSE
  <2>1. \A c \in Listed' : event'[c].evtype = event[c].evtype
    BY <1>3 DEF Kept, SameContent
  <2>2. TimerListed' <=> \E c \in Listed' : event'[c].evtype = TIMER_INTERRUPT
    BY DEF TimerListed, TIMER_INTERRUPT
  <2>3. event[q].evtype = TIMER_INTERRUPT => TimerListed /\ ~TimerListed'
    BY <1>1, <1>2, <2>1, <2>2 DEF TimerListed, KindsOfEvents
  <2> QED
    BY <2>3 DEF TimerListed
<1>8. FROM_LAYER5 # TIMER_INTERRUPT /\ FROM_LAYER3 # TIMER_INTERRUPT
  BY DEF TIMER_INTERRUPT, FROM_LAYER5, FROM_LAYER3
<1>9. \/ /\ event[q].evtype = FROM_LAYER5 /\ event[q].eventity = "A"
         /\ q \notin Packets("A") /\ q \notin Packets("B")
      \/ /\ event[q].evtype = TIMER_INTERRUPT
         /\ event[q].eventity = "A"
         /\ q \notin Packets("A") /\ q \notin Packets("B")
      \/ /\ event[q].evtype = FROM_LAYER3 /\ event[q].eventity = "A"
         /\ q \in Packets("A") /\ q \notin Packets("B")
      \/ /\ event[q].evtype = FROM_LAYER3 /\ event[q].eventity = "B"
         /\ q \notin Packets("A") /\ q \in Packets("B")
  BY <1>1, FourKinds
<1>10. /\ q \notin Packets("A") => PacketsTo("A")' = PacketsTo("A")
       /\ q \in Packets("A") => /\ PacketsTo("A") # << >>
                                /\ PacketsTo("A")' = Tail(PacketsTo("A"))
  BY <1>4
<1>11. /\ q \notin Packets("B") => PacketsTo("B")' = PacketsTo("B")
       /\ q \in Packets("B") => /\ PacketsTo("B") # << >>
                                /\ PacketsTo("B")' = Tail(PacketsTo("B"))
  BY <1>4
<1> HIDE DEF q
<1>12. CASE event[q].evtype = FROM_LAYER5
  <2>1. q \notin Packets("A") /\ q \notin Packets("B")
    BY <1>12 DEF Packets, FROM_LAYER5, FROM_LAYER3
  <2>2. SameQueues
    BY <1>10, <1>11, <2>1 DEF SameQueues
  <2> QED
    BY <1>2, <1>3, <1>5, <1>6, <1>8, <1>12, <2>2 DEF q
<1>13. CASE event[q].evtype = TIMER_INTERRUPT
  <2>1. q \notin Packets("A") /\ q \notin Packets("B")
    BY <1>13 DEF Packets, TIMER_INTERRUPT, FROM_LAYER3
  <2>2. SameQueues
    BY <1>10, <1>11, <2>1 DEF SameQueues
  <2>3. event[q].eventity = "A"
    BY <1>8, <1>9, <1>13
  <2> QED
    BY <1>2, <1>3, <1>5, <1>7, <1>13, <2>2, <2>3 DEF q
<1>14. CASE event[q].evtype = FROM_LAYER3
  <2>1. TimerRuns' = TimerRuns
    BY <1>5, <1>6, <1>8, <1>14
  <2>2. CASE q \in Packets("A") /\ q \notin Packets("B")
    <3>1. event[q].eventity = "A"
      BY <2>2 DEF Packets
    <3> QED
      BY <1>2, <1>3, <1>10, <1>11, <1>14, <2>1, <2>2, <3>1 DEF q
  <2>3. CASE q \notin Packets("A") /\ q \in Packets("B")
    <3>1. event[q].eventity = "B"
      BY <2>3 DEF Packets
    <3> QED
      BY <1>2, <1>3, <1>10, <1>11, <1>14, <2>1, <2>3, <3>1 DEF q
  <2>4. FROM_LAYER3 # FROM_LAYER5 /\ FROM_LAYER3 # TIMER_INTERRUPT
    BY DEF TIMER_INTERRUPT, FROM_LAYER5, FROM_LAYER3
  <2> QED
    BY <1>9, <1>14, <2>2, <2>3, <2>4
<1> QED
  BY <1>9, <1>12, <1>13, <1>14 DEF q

LEMMA SameTimer ==
    ASSUME KindsOfEvents, KindsOfEvents',
           (\E c \in Listed' : event'[c].evtype = TIMER_INTERRUPT)
              <=> (\E c \in Listed : event[c].evtype = TIMER_INTERRUPT)
    PROVE  TimerRuns' = TimerRuns
<1>1. TimerRuns = TimerListed /\ TimerRuns' = TimerListed'
  BY TimerIsListed, TimerIsListedThen
<1>2. TimerListed' <=> \E c \in Listed' : event'[c].evtype = TIMER_INTERRUPT
  BY DEF TimerListed, TIMER_INTERRUPT
<1>3. TimerListed' <=> TimerListed
  BY <1>2 DEF TimerListed
<1> QED
  BY <1>1, <1>3 DEF TimerListed

(* The list changes by an arrival of layer 5 that leaves and the next one. *)
LEMMA ArrivalQueues ==
    ASSUME IInv, KindsOfEvents, KindsOfEvents', TakeEvent,
           event[evlist].evtype = FROM_LAYER5
    PROVE  /\ SameQueues /\ TimerRuns' = TimerRuns
           /\ event'[evlist].eventity = "A"
<1> DEFINE w == Walk(Memory)
           q == evlist
           rest == Removed(w, 1)
<1>1. evlist # NULL
  BY DEF TakeEvent
<1>2. /\ 1 \in 1..Len(w) /\ q = w[1] /\ q \in Listed /\ q \in Cells
      /\ q \in used /\ w \in Seq(Cells) /\ Listed \subseteq Cells
      /\ Listed \subseteq used
  BY <1>1, FirstListed, WalkNow
<1>3. PICK k \in 1..(Len(rest) + 1), p \in Cells :
         /\ p \notin used
         /\ rest \in Seq(Cells) /\ OnList(rest) = Listed \ {q}
         /\ Becoming(Inserted(rest, k, p))
         /\ Listed' = (Listed \ {q}) \cup {p}
         /\ event'[p].evtype = FROM_LAYER5
         /\ Kept(Cells \ {p})
  BY NextArrival
<1>4. event[q].evtype = FROM_LAYER5
  OBVIOUS
<1>5. FROM_LAYER5 # FROM_LAYER3 /\ FROM_LAYER5 # TIMER_INTERRUPT
  BY DEF FROM_LAYER5, FROM_LAYER3, TIMER_INTERRUPT
<1>6. \A c \in Cells \ {p} : /\ event'[c].evtype = event[c].evtype
                              /\ event'[c].eventity = event[c].eventity
  BY <1>3 DEF Kept, SameContent
<1>7. Kept(OnList(rest)) /\ p \notin OnList(rest)
  BY <1>2, <1>3 DEF Kept
<1> HIDE DEF q, rest
<1>8. ASSUME NEW e \in {"A", "B"} PROVE PacketsTo(e)' = PacketsTo(e)
  <2>1. p \notin After(e)
    BY <1>3, <1>5 DEF After
  <2>2. PacketsTo(e)' = Chosen(Packets(e))[rest]
    BY <1>3, <1>7, <2>1, QueueWith
  <2> DEFINE S == Packets(e)
  <2>3. w[1] \notin S /\ S \in SUBSET Cells
    BY <1>2, <1>4, <1>5 DEF Packets
  <2>4. PacketsTo(e) = Chosen(S)[w]
    BY DEF PacketsTo
  <2> HIDE DEF S, w
  <2>5. Chosen(S)[Removed(w, 1)] = Chosen(S)[w]
    BY <1>2, <2>3, ChosenRemoved
  <2> QED
    BY <2>2, <2>4, <2>5 DEF rest, S
<1>9. SameQueues
  BY <1>8 DEF SameQueues
<1>10. (\E c \in Listed' : event'[c].evtype = TIMER_INTERRUPT)
          <=> (\E c \in Listed : event[c].evtype = TIMER_INTERRUPT)
  <2>1. \A c \in Listed \ {q} : c \in Cells \ {p}
    BY <1>2, <1>3
  <2> QED
    BY <1>3, <1>4, <1>5, <1>6, <2>1
<1>11. TimerRuns' = TimerRuns
  BY <1>10, SameTimer
<1>12. event'[q].eventity = "A"
  <2>1. q \in Cells \ {p}
    BY <1>2, <1>3
  <2>2. event[q].eventity = "A"
    BY <1>2, <1>4, <1>5 DEF KindsOfEvents
  <2> QED
    BY <1>6, <2>1, <2>2
<1> QED
  BY <1>9, <1>11, <1>12 DEF q

LEMMA MediumTakes ==
    IInv /\ KindsOfEvents /\ KindsOfEvents' /\ TakeEvent => M!Event
<1> SUFFICES ASSUME IInv, KindsOfEvents, KindsOfEvents', TakeEvent
             PROVE  M!Event
  OBVIOUS
<1>1. /\ evlist # NULL /\ eventptr = NULL /\ eventptr' = evlist
      /\ ~terminated /\ terminated' = terminated /\ nsim # nsimmax
  BY DEF TakeEvent, AllGiven
<1>2. handler = NULL /\ handler' = event'[evlist].eventity
  BY <1>1 DEF handler
<1>3. nsim < nsimmax
  BY <1>1, BoundsAssumption DEF IInv, TypeOK
<1>4. CASE event[evlist].evtype = FROM_LAYER5
  <2>1. nsim' = nsim + 1
    BY <1>4 DEF TakeEvent
  <2>2. M!FromLayer5
    BY <1>2, <1>4, <2>1, ArrivalQueues DEF M!FromLayer5, SameQueues
  <2> QED
    BY <1>1, <1>2, <1>3, <2>2 DEF M!Event
<1>5. CASE event[evlist].evtype # FROM_LAYER5
  <2>1. Becomes(Unlink(Memory, evlist)) /\ nsim' = nsim
    BY <1>5 DEF TakeEvent
  <2>2. evlist \in Cells /\ Kept(Cells)
    BY <1>1, <2>1, FirstLeaves
  <2>3. handler' = event[evlist].eventity
    BY <1>2, <2>2 DEF Kept, SameContent
  <2>4. M!TimerGoesOff \/ M!ArrivesAtA \/ M!ArrivesAtB
    BY <1>1, <1>5, <2>1, <2>3, FirstLeaves
       DEF M!TimerGoesOff, M!ArrivesAtA, M!ArrivesAtB, SameQueues
  <2> QED
    BY <1>1, <1>2, <1>3, <2>4 DEF M!Event
<1> QED
  BY <1>4, <1>5

LEMMA MediumEnds ==
    IInv /\ KindsOfEvents /\ KindsOfEvents' /\ Terminate => M!End
<1> SUFFICES ASSUME IInv, KindsOfEvents, KindsOfEvents', Terminate
             PROVE  M!End
  OBVIOUS
<1>1. /\ eventptr = NULL /\ eventptr' = NULL /\ ~terminated
      /\ terminated' = TRUE /\ nsim' = nsim
      /\ evlist = NULL \/ nsim = nsimmax
  BY DEF Terminate, AllGiven
<1>2. handler = NULL /\ handler' = NULL
  BY <1>1 DEF handler
<1>3. evlist # NULL
  <2>1. PICK c \in Listed : event[c].evtype = FROM_LAYER5
    BY <1>1 DEF KindsOfEvents
  <2> DEFINE w == Walk(Memory)
  <2>2. /\ Memory \in Memories /\ IsList(w, Memory) /\ Memory.evlist = evlist
        /\ Listed = OnList(w)
    BY WalkNow, ListedNow
  <2> HIDE DEF w
  <2>3. /\ Len(w) \in Nat /\ evlist = IF Len(w) = 0 THEN NULL ELSE w[1]
    BY <2>2, ListFacts
  <2>4. PICK i \in 1..Len(w) : w[i] = c
    BY <2>2 DEF OnList
  <2>5. 1 \in 1..Len(w) /\ Len(w) # 0
    BY <2>3, <2>4
  <2>6. w[1] # NULL
    BY <2>2, <2>5, OnListFacts
  <2> QED
    BY <2>3, <2>5, <2>6
<1>4. Becomes(Unlink(Memory, evlist))
  BY <1>3 DEF Terminate
<1>5. \/ UNCHANGED <<PacketsTo("A"), PacketsTo("B"), TimerRuns>>
      \/ /\ PacketsTo("A") # << >> /\ PacketsTo("A")' = Tail(PacketsTo("A"))
         /\ UNCHANGED <<PacketsTo("B"), TimerRuns>>
      \/ /\ PacketsTo("B") # << >> /\ PacketsTo("B")' = Tail(PacketsTo("B"))
         /\ UNCHANGED <<PacketsTo("A"), TimerRuns>>
      \/ /\ TimerRuns /\ TimerRuns' = FALSE
         /\ UNCHANGED <<PacketsTo("A"), PacketsTo("B")>>
  BY <1>3, <1>4, FirstLeaves DEF SameQueues
<1> QED
  BY <1>1, <1>2, <1>3, <1>5 DEF M!End

LEMMA ListKept ==
    ASSUME IInv, KindsOfEvents, KindsOfEvents',
           Becoming(Walk(Memory)), Listed' = Listed, Kept(Listed)
    PROVE  SameQueues /\ TimerRuns' = TimerRuns
<1>1. \A e \in {"A", "B"} : PacketsTo(e)' = PacketsTo(e)
  <2> TAKE e \in {"A", "B"}
  <2>1. PacketsTo(e)' = Chosen(Packets(e))[Walk(Memory)]
    BY ListedNow, QueueKept
  <2> QED
    BY <2>1 DEF PacketsTo
<1>2. \A c \in Listed : event'[c].evtype = event[c].evtype
  BY DEF Kept, SameContent
<1>3. TimerRuns' = TimerRuns
  BY <1>2, SameTimer
<1> QED
  BY <1>1, <1>3 DEF SameQueues

LEMMA MediumReturns ==
    IInv /\ KindsOfEvents /\ KindsOfEvents' /\ Return => M!Return
<1> SUFFICES ASSUME IInv, KindsOfEvents, KindsOfEvents', Return
             PROVE  M!Return
  OBVIOUS
<1>1. /\ eventptr # NULL /\ eventptr' = NULL /\ nsim' = nsim
      /\ terminated' = terminated
  BY DEF Return
<1>2. eventptr \in Cells /\ event[eventptr] \in Events
  BY <1>1, WalkNow DEF IInv, TypeOK
<1>3. handler \in {"A", "B"} /\ handler' = NULL
  BY <1>1, <1>2 DEF handler, Events
<1>4. handler # NULL
  BY <1>3, CellsAssumption
<1>5. Becoming(Walk(Memory)) /\ Listed' = Listed /\ Kept(Listed)
  BY EventFreed, WalkNow DEF Kept
<1>6. SameQueues /\ TimerRuns' = TimerRuns
  BY <1>5, ListKept
<1> QED
  BY <1>1, <1>3, <1>4, <1>6 DEF M!Return, SameQueues

(* A call leaves its handler the current one.                              *)
LEMMA HandlerStays ==
    ASSUME IInv, Call, Kept({eventptr})
    PROVE  /\ handler \in {"A", "B"} /\ handler # NULL /\ handler' = handler
           /\ nsim' = nsim /\ terminated' = terminated
<1>1. /\ eventptr # NULL /\ eventptr' = eventptr /\ nsim' = nsim
      /\ terminated' = terminated
  BY DEF Call
<1>2. eventptr \in Cells /\ event[eventptr] \in Events
  BY <1>1, WalkNow DEF IInv, TypeOK
<1>3. event'[eventptr].eventity = event[eventptr].eventity
  BY DEF Kept, SameContent
<1>4. handler = event[eventptr].eventity
  BY <1>1 DEF handler
<1>5. handler' = event'[eventptr].eventity
  BY <1>1 DEF handler
<1>6. handler \in {"A", "B"}
  BY <1>2, <1>4 DEF Events
<1> QED
  BY <1>1, <1>3, <1>4, <1>5, <1>6, CellsAssumption

LEMMA NotRounded ==
    ASSUME NEW t \in Nat, Rounded(t) < Exact
    PROVE  Rounded(t) = t
<1>1. Exact \in Nat /\ Exact % 2 = 0
  BY BoundsAssumption
<1>2. SUFFICES ASSUME ~(t < Exact), t % 2 # 0 PROVE FALSE
  BY DEF Rounded
<1>3. t # Exact
  BY <1>1, <1>2
<1>4. Rounded(t) = t - 1 \/ Rounded(t) = t + 1
  BY <1>2 DEF Rounded
<1> QED
  BY <1>1, <1>2, <1>3, <1>4

(* A packet that arrives after the last one goes behind all of them.       *)
LEMMA BehindOthers ==
    ASSUME IInv, NEW entity, NEW t \in Nat, lastime(entity) < t, NEW k,
           Neighbours(Walk(Memory), event, t, k)
    PROVE  \A i \in k..Len(Walk(Memory)) :
              Walk(Memory)[i] \notin Packets(entity)
<1> DEFINE w == Walk(Memory)
           S == Under_way(entity)
           last == lastime(entity)
           T(i) == event[w[i]].evtime
<1>1. /\ Memory \in Memories /\ IsList(w, Memory) /\ Memory.event = event
      /\ Len(w) \in Nat /\ Ordered(w, Memory, time)
  BY WalkNow, ListNow
<1>2. S = {i \in 1..Len(w) : /\ event[w[i]].evtype = FROM_LAYER3
                             /\ event[w[i]].eventity = entity}
  BY DEF Under_way, Places
<1>3. last = IF S = {} THEN time ELSE T(Max(S))
  BY DEF lastime
<1>4. k \in 1..(Len(w) + 1) /\ (k <= Len(w) => t <= T(k)) /\ last < t
  BY DEF Neighbours
<1> HIDE DEF w, last
<1>5. \A i \in 1..Len(w) : T(i) \in Nat
  BY <1>1, OnListFacts
<1>6. \A i, j \in 1..Len(w) : i < j => T(i) <= T(j)
  BY <1>1 DEF Ordered
<1> SUFFICES ASSUME NEW i \in k..Len(w), w[i] \in Packets(entity)
             PROVE  FALSE
  BY DEF w
<1>7. i \in 1..Len(w) /\ k \in 1..Len(w) /\ (i = k \/ k < i)
  BY <1>1, <1>4
<1>8. i \in S
  BY <1>2, <1>7 DEF Packets
<1>9. S \in SUBSET (1..Len(w)) /\ S # {}
  BY <1>2, <1>8
<1> HIDE DEF S
<1>10. Max(S) \in 1..Len(w) /\ Max(S) >= i
  BY <1>1, <1>8, <1>9, MaxIsGreatest
<1> DEFINE j == Max(S)
<1> HIDE DEF j
<1>11. j \in 1..Len(w) /\ j >= i /\ last = T(j)
  BY <1>3, <1>9, <1>10 DEF j
<1>12. T(i) <= T(j) /\ T(k) <= T(i)
  <2>1. T(i) \in Nat /\ T(k) \in Nat /\ T(j) \in Nat
    BY <1>5, <1>7, <1>11
  <2>2. i = j \/ i < j
    BY <1>7, <1>11
  <2>3. T(i) <= T(j)
    BY <1>6, <1>7, <1>11, <2>1, <2>2
  <2>4. T(k) <= T(i)
    BY <1>6, <1>7, <2>1
  <2> QED
    BY <2>3, <2>4
<1>13. t <= T(k) /\ T(j) < t
  BY <1>1, <1>4, <1>7, <1>11
<1> DEFINE a == T(i)
           b == T(j)
           c == T(k)
<1>14. a \in Nat /\ b \in Nat /\ c \in Nat
  BY <1>5, <1>7, <1>11
<1>15. a <= b /\ c <= a /\ t <= c /\ b < t
  BY <1>12, <1>13
<1> HIDE DEF a, b, c, T
<1> QED
  BY <1>14, <1>15

LEMMA QueuesAreListed ==
    ASSUME IInv
    PROVE  M!UnderWay \subseteq Listed
<1> DEFINE w == Walk(Memory)
<1>1. \A e \in {"A", "B"} :
         \A j \in 1..Len(PacketsTo(e)) : PacketsTo(e)[j] \in Listed
  <2> TAKE e \in {"A", "B"}
  <2>1. w \in Seq(Cells) /\ Packets(e) \in SUBSET Cells
    BY WalkNow DEF Packets
  <2>2. PacketsTo(e) = Chosen(Packets(e))[w] /\ Listed = OnList(w)
    BY ListedNow DEF PacketsTo
  <2> DEFINE S == Packets(e)
  <2> HIDE DEF w, S
  <2>3. \A j \in 1..Len(Chosen(S)[w]) : Chosen(S)[w][j] \in OnList(w)
    BY <2>1, ChosenListed DEF S
  <2> QED
    BY <2>2, <2>3 DEF S
<1> QED
  BY <1>1 DEF M!UnderWay

(* One event comes onto the list by a call, behind the packets to the same *)
(* entity if it is a packet.                                               *)
LEMMA QueuesWith ==
    ASSUME IInv, KindsOfEvents, KindsOfEvents', NEW k, NEW p \in Cells,
           k \in 1..(Len(Walk(Memory)) + 1), p \notin used,
           Becoming(Inserted(Walk(Memory), k, p)), Listed' = Listed \cup {p},
           Kept(Cells \ {p}), NEW e \in {"A", "B"}
    PROVE  /\ p \notin After(e) => PacketsTo(e)' = PacketsTo(e)
           /\ /\ p \in After(e)
              /\ \A i \in k..Len(Walk(Memory)) :
                    Walk(Memory)[i] \notin Packets(e)
              => PacketsTo(e)' = Append(PacketsTo(e), p)
           /\ event'[p].evtype # TIMER_INTERRUPT => TimerRuns' = TimerRuns
<1>1. /\ Walk(Memory) \in Seq(Cells) /\ Listed = OnList(Walk(Memory))
      /\ Listed \subseteq used /\ Listed \subseteq Cells
  BY WalkNow, ListedNow
<1>2. Kept(OnList(Walk(Memory))) /\ p \notin OnList(Walk(Memory))
  BY <1>1 DEF Kept
<1>3. PacketsTo(e) = Chosen(Packets(e))[Walk(Memory)]
  BY DEF PacketsTo
<1>4. /\ p \notin After(e) => PacketsTo(e)' = PacketsTo(e)
      /\ /\ p \in After(e)
         /\ \A i \in k..Len(Walk(Memory)) : Walk(Memory)[i] \notin Packets(e)
         => PacketsTo(e)' = Append(PacketsTo(e), p)
  <2> DEFINE w == Walk(Memory)
             S == Packets(e)
  <2>1. /\ w \in Seq(Cells) /\ k \in 1..(Len(w) + 1)
        /\ Becoming(Inserted(w, k, p)) /\ Kept(OnList(w)) /\ p \notin OnList(w)
    BY <1>1, <1>2
  <2>2. PacketsTo(e) = Chosen(S)[w]
    BY <1>3
  <2> HIDE DEF w
  <2>3. p \notin After(e) => PacketsTo(e)' = Chosen(S)[w]
    BY <2>1, QueueWith
  <2>4. p \in After(e) /\ (\A i \in k..Len(w) : w[i] \notin S)
           => PacketsTo(e)' = Append(Chosen(S)[w], p)
    BY <2>1, QueueWith
  <2> HIDE DEF S
  <2> QED
    BY <2>2, <2>3, <2>4 DEF w, S
<1>5. \A c \in Listed : event'[c].evtype = event[c].evtype
  BY <1>1, <1>2 DEF Kept, SameContent
<1>6. event'[p].evtype # TIMER_INTERRUPT => TimerRuns' = TimerRuns
  BY <1>5, SameTimer
<1> QED
  BY <1>4, <1>6

LEMMA MediumSends ==
    IInv /\ KindsOfEvents /\ KindsOfEvents' /\ TimesAreExact' /\ tolayer3
       => M!Send
<1> SUFFICES ASSUME IInv, KindsOfEvents, KindsOfEvents', TimesAreExact',
                    tolayer3
             PROVE  M!Send
  OBVIOUS
<1>1. Call /\ eventptr \in used /\ eventptr \in Cells
  <2>1. Call
    BY DEF tolayer3
  <2> QED
    BY <2>1, CallFacts, WalkNow DEF IInv, TypeOK
<1>2. CASE UNCHANGED listVars
  <2>1. /\ Becoming(Walk(Memory)) /\ Listed' = Listed /\ Kept(Listed)
        /\ Kept({eventptr})
    BY <1>1, <1>2, ListLeftAlone, WalkNow DEF Kept
  <2>2. SameQueues /\ TimerRuns' = TimerRuns
    BY <2>1, ListKept
  <2>3. /\ handler \in {"A", "B"} /\ handler # NULL /\ handler' = handler
        /\ nsim' = nsim /\ terminated' = terminated
    BY <1>1, <2>1, HandlerStays
  <2> QED
    BY <2>2, <2>3 DEF M!Send, M!Joined, SameQueues
<1>3. CASE ~UNCHANGED listVars
  <2> DEFINE entity == Other(handler)
             last == lastime(entity)
  <2>1. PICK d \in Delays :
           LET fields == Fields(last + d, FROM_LAYER3, entity)
           IN  /\ fields \in Events
               /\ Becomes(insertevent(Memory, fields))
               /\ fields.evtype = FROM_LAYER3
               /\ fields.eventity = entity
               /\ fields.evtime = Rounded(last + d)
    BY <1>3, PacketSent
  <2> DEFINE fields == Fields(last + d, FROM_LAYER3, entity)
  <2>2. /\ fields \in Events /\ Becomes(insertevent(Memory, fields))
        /\ fields.evtype = FROM_LAYER3 /\ fields.eventity = entity
        /\ fields.evtime = Rounded(last + d)
    BY <2>1
  <2>3. MemoryLeft /\ last \in Nat /\ d \in Nat /\ d > 0
    BY <1>3, PacketSent, LastimeFacts, DrawsAssumption
  <2> HIDE DEF fields
  <2>4. PICK k \in 1..(Len(Walk(Memory)) + 1), p \in Cells :
           /\ p \notin used
           /\ Neighbours(Walk(Memory), event, fields.evtime, k)
           /\ Becoming(Inserted(Walk(Memory), k, p))
           /\ Listed' = Listed \cup {p}
           /\ SameContent(event'[p], fields)
           /\ Kept(Cells \ {p})
    BY <2>2, <2>3, PutOn
  <2>5. /\ event'[p].evtype = FROM_LAYER3 /\ event'[p].eventity = entity
        /\ event'[p].evtime = fields.evtime
    BY <2>2, <2>4 DEF SameContent
  <2>6. event'[p].evtime < Exact
    BY <2>4 DEF TimesAreExact
  <2>7. fields.evtime = last + d
    <3> HIDE DEF last
    <3>1. last + d \in Nat /\ Rounded(last + d) < Exact
      BY <2>2, <2>3, <2>5, <2>6
    <3> QED
      BY <2>2, <3>1, NotRounded
  <2>8. fields.evtime \in Nat /\ last < fields.evtime
    <3> HIDE DEF last
    <3> QED
      BY <2>3, <2>7
  <2>9. \A i \in k..Len(Walk(Memory)) : Walk(Memory)[i] \notin Packets(entity)
    BY <2>4, <2>8, BehindOthers
  <2>10. eventptr # p
    BY <1>1, <2>4
  <2>11. Kept({eventptr})
    BY <1>1, <2>4, <2>10 DEF Kept
  <2>12. /\ handler \in {"A", "B"} /\ handler # NULL /\ handler' = handler
         /\ nsim' = nsim /\ terminated' = terminated
    BY <1>1, <2>11, HandlerStays
  <2>13. event'[p].evtype # TIMER_INTERRUPT
    BY <2>5 DEF FROM_LAYER3, TIMER_INTERRUPT
  <2>14. p \in Cells \ M!UnderWay
    BY <2>4, QueuesAreListed, WalkNow
  <2>15. \A e \in {"A", "B"} : p \in After(e) <=> e = entity
    BY <2>5 DEF After
  <2>16. TimerRuns' = TimerRuns
    BY <2>4, <2>13, QueuesWith
  <2>17. \A e \in {"A", "B"} :
            e # entity => PacketsTo(e)' = PacketsTo(e)
    BY <2>4, <2>15, QueuesWith
  <2>18. entity \in {"A", "B"} /\ (entity = "B" <=> handler = "A")
    BY <2>12 DEF Other
  <2>19. \A e \in {"A", "B"} :
            e = entity => PacketsTo(e)' = Append(PacketsTo(e), p)
    <3>1. \A e \in {"A", "B"} : e = entity =>
             \A i \in k..Len(Walk(Memory)) : Walk(Memory)[i] \notin Packets(e)
      <4> HIDE DEF entity
      <4> QED
        BY <2>9
    <3> TAKE e \in {"A", "B"}
    <3>2. p \in After(e) =>
             ((\A i \in k..Len(Walk(Memory)) : Walk(Memory)[i] \notin Packets(e))
                => PacketsTo(e)' = Append(PacketsTo(e), p))
      BY <2>4, QueuesWith
    <3> HIDE DEF entity
    <3> QED
      BY <2>15, <3>1, <3>2
  <2> HIDE DEF entity
  <2>20. CASE handler = "A"
    <3>1. /\ "B" = entity => PacketsTo("B")' = Append(PacketsTo("B"), p)
          /\ "A" # entity => PacketsTo("A")' = PacketsTo("A")
      BY <2>17, <2>19
    <3>2. "B" = entity /\ "A" # entity
      BY <2>18, <2>20
    <3> QED
      BY <2>12, <2>14, <2>16, <2>20, <3>1, <3>2 DEF M!Send, M!Joined
  <2>21. CASE handler # "A"
    <3>1. /\ "A" = entity => PacketsTo("A")' = Append(PacketsTo("A"), p)
          /\ "B" # entity => PacketsTo("B")' = PacketsTo("B")
      BY <2>17, <2>19
    <3>2. "A" = entity /\ "B" # entity
      BY <2>18, <2>21
    <3> QED
      BY <2>12, <2>14, <2>16, <2>21, <3>1, <3>2 DEF M!Send, M!Joined
  <2> QED
    BY <2>20, <2>21
<1> QED
  BY <1>2, <1>3

(* starttimer and stoptimer put the timer on the list or take it off.      *)
LEMMA TimerQueues ==
    ASSUME IInv, KindsOfEvents, KindsOfEvents', starttimer \/ stoptimer
    PROVE  SameQueues /\ Kept({eventptr})
<1>1. Call /\ eventptr \in used /\ eventptr \in Cells /\ eventptr \notin Listed
  <2>1. Call
    BY DEF starttimer, stoptimer
  <2> QED
    BY <2>1, CallFacts, WalkNow DEF IInv, TypeOK
<1>2. CASE UNCHANGED listVars
  <2>1. /\ Becoming(Walk(Memory)) /\ Listed' = Listed /\ Kept(Listed)
        /\ Kept({eventptr})
    BY <1>1, <1>2, ListLeftAlone, WalkNow DEF Kept
  <2> QED
    BY <2>1, ListKept
<1>3. CASE starttimer /\ ~TimerRuns
  <2>1. PICK fields \in Events :
           /\ Becomes(insertevent(Memory, fields)) /\ MemoryLeft
           /\ fields.evtype = TIMER_INTERRUPT
    BY <1>3, TimerStarted
  <2>2. PICK k \in 1..(Len(Walk(Memory)) + 1), p \in Cells :
           /\ p \notin used
           /\ Becoming(Inserted(Walk(Memory), k, p))
           /\ Listed' = Listed \cup {p}
           /\ SameContent(event'[p], fields)
           /\ Kept(Cells \ {p})
    BY <2>1, PutOn
  <2>3. \A e \in {"A", "B"} : p \notin After(e)
    BY <2>1, <2>2 DEF SameContent, After, TIMER_INTERRUPT, FROM_LAYER3
  <2>4. \A e \in {"A", "B"} : PacketsTo(e)' = PacketsTo(e)
    BY <2>2, <2>3, QueuesWith
  <2>5. Kept({eventptr})
    BY <1>1, <2>2 DEF Kept
  <2> QED
    BY <2>4, <2>5 DEF SameQueues
<1>4. CASE stoptimer /\ TimerRuns
  <2>1. PICK k \in 1..Len(Walk(Memory)) :
           /\ event[Walk(Memory)[k]].evtype = TIMER_INTERRUPT
           /\ Becoming(Removed(Walk(Memory), k))
           /\ Listed' = Listed \ {Walk(Memory)[k]}
           /\ Kept(Cells \ {Walk(Memory)[k]})
    BY <1>4, TimerStopped
  <2>2. Walk(Memory)[k] \in Listed
    BY DEF Listed
  <2>3. Kept(Listed') /\ Kept({eventptr})
    BY <1>1, <2>1, <2>2, WalkNow DEF Kept
  <2>4. \A e \in {"A", "B"} : Walk(Memory)[k] \notin Packets(e)
    BY <2>1 DEF Packets, TIMER_INTERRUPT, FROM_LAYER3
  <2>5. \A e \in {"A", "B"} : PacketsTo(e)' = PacketsTo(e)
    BY <2>1, <2>3, <2>4, QueueWithout
  <2> QED
    BY <2>3, <2>5 DEF SameQueues
<1>5. starttimer /\ TimerRuns => UNCHANGED listVars
  BY DEF starttimer
<1>6. stoptimer /\ ~TimerRuns => UNCHANGED listVars
  BY DEF stoptimer
<1> QED
  BY <1>2, <1>3, <1>4, <1>5, <1>6

LEMMA MediumSetsTimer ==
    IInv /\ KindsOfEvents /\ KindsOfEvents' /\ (starttimer \/ stoptimer)
       => M!SetTimer
<1> SUFFICES ASSUME IInv, KindsOfEvents, KindsOfEvents', starttimer \/ stoptimer
             PROVE  M!SetTimer
  OBVIOUS
<1>1. Call /\ handler = "A"
  BY DEF starttimer, stoptimer
<1>2. SameQueues /\ Kept({eventptr})
  BY TimerQueues
<1>3. handler' = handler /\ nsim' = nsim /\ terminated' = terminated
  BY <1>1, <1>2, HandlerStays
<1>4. TimerRuns' \in BOOLEAN
  BY DEF TimerRuns
<1> QED
  BY <1>1, <1>2, <1>3, <1>4 DEF M!SetTimer, SameQueues

LEMMA MediumStutters ==
    IInv /\ KindsOfEvents /\ KindsOfEvents' /\ UNCHANGED vars
       => UNCHANGED M!vars
<1> SUFFICES ASSUME IInv, KindsOfEvents, KindsOfEvents', UNCHANGED vars
             PROVE  UNCHANGED M!vars
  OBVIOUS
<1>1. /\ UNCHANGED listVars /\ event' = event /\ eventptr' = eventptr
      /\ nsim' = nsim /\ terminated' = terminated
  BY DEF vars, listVars
<1>2. /\ Becoming(Walk(Memory)) /\ Listed' = Listed /\ Kept(Listed)
  BY <1>1, ListLeftAlone, WalkNow DEF Kept
<1>3. SameQueues /\ TimerRuns' = TimerRuns
  BY <1>2, ListKept
<1>4. handler' = handler
  BY <1>1 DEF handler
<1> QED
  BY <1>1, <1>3, <1>4 DEF M!vars, SameQueues

LEMMA MediumStep ==
    IInv /\ KindsOfEvents /\ KindsOfEvents' /\ TimesAreExact' /\ [Next]_vars
       => [M!Next]_(M!vars)
BY MediumTakes, MediumEnds, MediumReturns, MediumSends, MediumSetsTimer,
   MediumStutters DEF Next, M!Next

(* At first there is the call of layer 5 on the list, and nothing else.    *)
LEMMA FirstEvent ==
    ASSUME Init
    PROVE  \E p \in Cells : /\ Walk(Memory) = <<p>> /\ Listed = {p}
                            /\ event[p].evtype = FROM_LAYER5
                            /\ event[p].eventity = "A"
<1> DEFINE empty == [event |-> [c \in Cells |-> Blank],
                     evlist |-> NULL, used |-> {}]
<1>1. PICK x \in Arrivals :
         LET m == generate_next_arrival(empty, 0, x)
         IN  event = m.event /\ evlist = m.evlist /\ used = m.used
  BY DEF Init
<1>2. empty \in Memories
  <2>1. Blank \in Events
    BY DEF Blank, Events, Place, FROM_LAYER5
  <2> QED
    BY <2>1 DEF Memories, Structs, Place
<1>3. IsList(<< >>, empty) /\ OnList(<< >>) = {}
  <2>1. << >> \in Seq(Cells) /\ Len(<< >>) = 0 /\ 1..0 = {}
    BY EmptySeq
  <2>2. 0 <= Cardinality(Cells)
    BY CellsAssumption, FS_CardinalityType
  <2> QED
    BY <2>1, <2>2 DEF IsList, IsChain, OnList
<1>4. x \in Nat /\ Representable(0)
  BY DrawsAssumption, BoundsAssumption DEF Representable, Rounded
<1> DEFINE fields == Fields(0 + x, FROM_LAYER5, "A")
           m == insertevent(empty, fields)
<1>5. fields \in Events /\ fields.evtype = FROM_LAYER5 /\ fields.eventity = "A"
  BY <1>4, FieldsFacts DEF FROM_LAYER5
<1>6. event = m.event /\ evlist = m.evlist /\ used = m.used
  BY <1>1 DEF generate_next_arrival
<1>7. Cells \ empty.used # {}
  BY CellsAssumption
<1> HIDE DEF empty, fields
<1>8. /\ m \in Memories
      /\ \E k \in 1..(Len(<< >>) + 1), p \in Cells :
            /\ IsList(Inserted(<< >>, k, p), m)
            /\ OnList(Inserted(<< >>, k, p)) = OnList(<< >>) \cup {p}
            /\ SameContent(m.event[p], fields)
  BY <1>2, <1>3, <1>5, <1>7, EventPlaced
<1> HIDE DEF m
<1>9. PICK k \in 1..(Len(<< >>) + 1), p \in Cells :
         /\ IsList(Inserted(<< >>, k, p), m)
         /\ OnList(Inserted(<< >>, k, p)) = OnList(<< >>) \cup {p}
         /\ SameContent(m.event[p], fields)
  BY <1>8
<1>10. k = 1
  <2>1. Len(<< >>) = 0
    BY EmptySeq
  <2> QED
    BY <2>1
<1>11. Memory = m
  <2>1. m = [event |-> m.event, evlist |-> m.evlist, used |-> m.used]
    BY <1>8 DEF Memories
  <2> QED
    BY <1>6, <2>1 DEF Memory
<1>12. Walk(Memory) = Inserted(<< >>, 1, p)
  BY <1>8, <1>9, <1>10, <1>11, ListFacts
<1>13. Inserted(<< >>, 1, p) = <<p>>
  BY EmptySeq DEF Inserted
<1>14. Listed = {p}
  BY <1>3, <1>9, <1>10, <1>12, ListedNow
<1>15. event[p].evtype = FROM_LAYER5 /\ event[p].eventity = "A"
  BY <1>5, <1>6, <1>9 DEF SameContent
<1> QED
  BY <1>12, <1>13, <1>14, <1>15

LEMMA InitMedium == Init => KindsOfEvents /\ M!Init
<1> SUFFICES ASSUME Init PROVE KindsOfEvents /\ M!Init
  OBVIOUS
<1>1. PICK p \in Cells : /\ Walk(Memory) = <<p>> /\ Listed = {p}
                         /\ event[p].evtype = FROM_LAYER5
                         /\ event[p].eventity = "A"
  BY FirstEvent
<1>2. FROM_LAYER5 # TIMER_INTERRUPT /\ FROM_LAYER5 # FROM_LAYER3
  BY DEF TIMER_INTERRUPT, FROM_LAYER5, FROM_LAYER3
<1>3. KindsOfEvents
  BY <1>1, <1>2 DEF KindsOfEvents
<1>4. TimerRuns = FALSE
  BY <1>1, <1>2, <1>3, TimerIsListed DEF TimerListed
<1>5. \A e \in {"A", "B"} : PacketsTo(e) = << >>
  <2> TAKE e \in {"A", "B"}
  <2>1. <<p>> \in Seq(Cells) /\ Len(<<p>>) = 1 /\ <<p>>[1] = p
    OBVIOUS
  <2>2. Packets(e) \in SUBSET Cells /\ p \notin Packets(e)
    BY <1>1, <1>2 DEF Packets
  <2>3. \A i \in 1..Len(<<p>>) : <<p>>[i] \notin Packets(e)
    BY <2>1, <2>2
  <2>4. Chosen(Packets(e))[<<p>>] = << >>
    BY <2>1, <2>2, <2>3, ChosenNone
  <2> QED
    BY <1>1, <2>4 DEF PacketsTo
<1>6. eventptr = NULL /\ nsim = 0 /\ terminated = FALSE
  BY DEF Init
<1> QED
  BY <1>3, <1>4, <1>5, <1>6 DEF M!Init, handler

(* A has at most one timer, layer 5 calls A, and until the run ends its    *)
(* next call is on the list (starttimer's test, generate_next_arrival).    *)
THEOREM KindsAreKept == Spec => []KindsOfEvents
<1>1. Init => KindsOfEvents
  BY InitMedium
<1> QED
  BY <1>1, Invariant, KindsStep, PTL DEF Spec

(* The list of events, with the routines that change it, is the medium the *)
(* protocols are modelled on, as long as no time is rounded: each entity   *)
(* gets its packets in the order tolayer3 was given them, and A's timer    *)
(* and the messages of layer 5 are where Medium.tla says.                  *)
THEOREM Implementation == Spec /\ []TimesAreExact => ImplementsMedium
<1>1. Init => M!Init
  BY InitMedium
<1> QED
  BY <1>1, Invariant, KindsAreKept, MediumStep, PTL
     DEF Spec, ImplementsMedium, M!Spec
=============================================================================
