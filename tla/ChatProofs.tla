----------------------------- MODULE ChatProofs -----------------------------
(***************************************************************************)
(* The safety of the chat system for any number of hosts, connections,     *)
(* table rows and block-list entries, from the inductive invariant IInv of *)
(* Chat.                                                                   *)
(***************************************************************************)
EXTENDS Chat, SequenceTheorems, FiniteSetTheorems, TLAPS

-----------------------------------------------------------------------------
(***************************************************************************)
(* I.  Facts about the operators of ChatServer and Chat that do not depend *)
(* on the state: the least number of a set, the messages of a stream that  *)
(* are counted, and what sort_list_port does to the rows of a table.       *)
(***************************************************************************)

LEMMA MinIsLeast ==
    ASSUME NEW S \in SUBSET Nat, S # {}
    PROVE  Min(S) \in S /\ \A y \in S : Min(S) <= y
<1>1. \E x \in S : \A y \in S : ~(<<y, x>> \in OpToRel(<, Nat))
  <2> HIDE DEF OpToRel
  <2> QED
    BY NatLessThanWellFounded, WFMin
<1>2. PICK x \in S : \A y \in S : ~(<<y, x>> \in OpToRel(<, Nat))
  BY <1>1
<1>3. ASSUME NEW y \in S PROVE x <= y
  <2>1. ~(y < x)
    BY <1>2 DEF OpToRel
  <2> QED
    BY <2>1
<1> QED
  BY <1>3 DEF Min

LEMMA MaxIsGreatest ==
    ASSUME NEW n \in Nat, NEW S \in SUBSET (1..n), S # {}
    PROVE  Max(S) \in S /\ \A y \in S : y <= Max(S)
<1> DEFINE T == {k \in Nat : \E x \in S : k = n - x}
<1>1. \A x \in S : n - x \in T
  OBVIOUS
<1>2. T \in SUBSET Nat /\ T # {}
  BY <1>1
<1>3. PICK z \in T : \A y \in T : z <= y
  <2> HIDE DEF T
  <2> QED
    BY <1>2, MinIsLeast
<1>4. PICK x \in S : z = n - x
  BY <1>3
<1>5. ASSUME NEW y \in S PROVE y <= x
  <2>1. n - x <= n - y
    BY <1>1, <1>3, <1>4
  <2> QED
    BY <2>1
<1> QED
  BY <1>5 DEF Max

-----------------------------------------------------------------------------
(* Counting the messages of a stream.                                      *)
LEMMA CountType ==
    ASSUME NEW S, NEW s \in Seq(S), NEW cmds
    PROVE  Count(s, cmds) \in Nat /\ IsFiniteSet({i \in DOMAIN s : s[i].cmd \in cmds})
<1>1. DOMAIN s = 1..Len(s) /\ Len(s) \in Nat
  BY LenProperties
<1>2. IsFiniteSet(DOMAIN s)
  BY <1>1, FS_Interval
<1>3. IsFiniteSet({i \in DOMAIN s : s[i].cmd \in cmds})
  BY <1>2, FS_Subset
<1> QED
  BY <1>3, FS_CardinalityType DEF Count

LEMMA CountNone ==
    ASSUME NEW S, NEW s \in Seq(S), NEW cmds,
           \A i \in 1..Len(s) : s[i].cmd \notin cmds
    PROVE  Count(s, cmds) = 0
<1>1. {i \in DOMAIN s : s[i].cmd \in cmds} = {}
  BY LenProperties
<1> QED
  BY <1>1, FS_EmptySet DEF Count

LEMMA CountOne ==
    ASSUME NEW m, NEW cmds
    PROVE  Count(<<m>>, cmds) = IF m.cmd \in cmds THEN 1 ELSE 0
<1>1. {i \in DOMAIN <<m>> : <<m>>[i].cmd \in cmds}
        = IF m.cmd \in cmds THEN {1} ELSE {}
  OBVIOUS
<1> QED
  BY <1>1, FS_EmptySet, FS_Singleton DEF Count

LEMMA CountConcat ==
    ASSUME NEW S, NEW s \in Seq(S), NEW t \in Seq(S), NEW cmds
    PROVE  Count(s \o t, cmds) = Count(s, cmds) + Count(t, cmds)
<1> DEFINE A == {i \in DOMAIN s : s[i].cmd \in cmds}
           B == {i \in DOMAIN t : t[i].cmd \in cmds}
           C == {i \in DOMAIN (s \o t) : (s \o t)[i].cmd \in cmds}
           D == {i + Len(s) : i \in B}
           f == [i \in B |-> i + Len(s)]
<1>1. /\ DOMAIN s = 1..Len(s) /\ Len(s) \in Nat
      /\ DOMAIN t = 1..Len(t) /\ Len(t) \in Nat
      /\ DOMAIN (s \o t) = 1..Len(s) + Len(t)
      /\ \A i \in 1..Len(s) + Len(t) :
            (s \o t)[i] = IF i <= Len(s) THEN s[i] ELSE t[i - Len(s)]
  BY LenProperties, ConcatProperties
<1>2. IsFiniteSet(A) /\ IsFiniteSet(B)
  BY CountType
<1>3. f \in Bijection(B, D)
  BY <1>1 DEF Bijection, Injection, Surjection, IsInjective
<1>4. IsFiniteSet(D) /\ Cardinality(D) = Cardinality(B)
  <2> HIDE DEF B, D, f
  <2> QED
    BY <1>2, <1>3, FS_Bijection DEF ExistsBijection
<1>5. C = A \cup D
  BY <1>1
<1>6. A \cap D = {}
  BY <1>1
<1>7. Cardinality(A \cup D) = Cardinality(A) + Cardinality(D)
  <2>1. Cardinality(A \cup D)
          = Cardinality(A) + Cardinality(D) - Cardinality(A \cap D)
    <3> HIDE DEF A, D
    <3> QED
      BY <1>2, <1>4, FS_Union
  <2>2. Cardinality(A \cap D) = 0
    BY <1>6, FS_EmptySet
  <2>3. Cardinality(A) \in Nat /\ Cardinality(D) \in Nat
    <3> HIDE DEF A, D
    <3> QED
      BY <1>2, <1>4, FS_CardinalityType
  <2> QED
    BY <2>1, <2>2, <2>3
<1> QED
  BY <1>4, <1>5, <1>7 DEF Count

LEMMA CountTail ==
    ASSUME NEW S, NEW s \in Seq(S), s # << >>, NEW cmds
    PROVE  Count(s, cmds) = Count(Tail(s), cmds)
                            + (IF Head(s).cmd \in cmds THEN 1 ELSE 0)
<1> DEFINE h == Head(s)
           t == Tail(s)
<1>1. /\ h \in S /\ t \in Seq(S) /\ <<h>> \in Seq(S)
      /\ Len(s) \in Nat /\ Len(t) = Len(s) - 1 /\ Len(<<h>>) = 1
      /\ \A i \in 1..Len(t) : t[i] = s[i + 1]
      /\ s[1] = h
  BY HeadTailProperties
<1> HIDE DEF h, t
<1>2. s = <<h>> \o t
  <2>1. /\ <<h>> \o t \in Seq(S) /\ Len(<<h>> \o t) = Len(s)
        /\ \A i \in 1..Len(s) : (<<h>> \o t)[i] =
              IF i <= 1 THEN <<h>>[i] ELSE t[i - 1]
    BY <1>1, ConcatProperties
  <2>2. ASSUME NEW i \in 1..Len(s) PROVE s[i] = (<<h>> \o t)[i]
    BY <1>1, <2>1
  <2> QED
    BY <2>1, <2>2, SeqEqual
<1>3. Count(<<h>> \o t, cmds) = Count(<<h>>, cmds) + Count(t, cmds)
  <2>1. <<h>> \in Seq(S) /\ t \in Seq(S)
    BY <1>1
  <2> QED
    BY ZenonT(60), <2>1, CountConcat
<1>4. Count(t, cmds) \in Nat
  BY <1>1, CountType
<1>5. Count(<<h>>, cmds) = IF h.cmd \in cmds THEN 1 ELSE 0
  BY CountOne
<1>6. Count(s, cmds) = Count(<<h>>, cmds) + Count(t, cmds)
  BY <1>2, <1>3
<1>7. Count(s, cmds) = Count(t, cmds) + (IF h.cmd \in cmds THEN 1 ELSE 0)
  BY <1>4, <1>5, <1>6
<1> QED
  BY <1>7 DEF h, t

LEMMA CountAppend ==
    ASSUME NEW S, NEW s \in Seq(S), NEW m \in S, NEW cmds
    PROVE  Count(Append(s, m), cmds) = Count(s, cmds)
                                       + (IF m.cmd \in cmds THEN 1 ELSE 0)
<1>1. <<m>> \in Seq(S) /\ Append(s, m) = s \o <<m>>
  OBVIOUS
<1>2. Count(s \o <<m>>, cmds) = Count(s, cmds) + Count(<<m>>, cmds)
  BY <1>1, CountConcat
<1> QED
  BY <1>1, <1>2, CountOne
-----------------------------------------------------------------------------
(* sort_list_port: every row has a place of its own, and the places are in *)
(* the order of the ports.                                                 *)
LEMMA PrecedesIsOrder ==
    ASSUME NEW rows \in Seq(Rows),
           NEW i \in 1..Len(rows), NEW j \in 1..Len(rows), NEW k \in 1..Len(rows)
    PROVE  /\ PortAt(rows, i) \in Nat
           /\ Precedes(rows, i, i)
           /\ Precedes(rows, i, j) \/ Precedes(rows, j, i)
           /\ Precedes(rows, i, j) /\ Precedes(rows, j, i) => i = j
           /\ Precedes(rows, i, j) /\ Precedes(rows, j, k) => Precedes(rows, i, k)
           /\ Precedes(rows, i, j) => PortAt(rows, i) <= PortAt(rows, j)
<1>1. \A l \in 1..Len(rows) : PortAt(rows, l) \in Nat
  <2> TAKE l \in 1..Len(rows)
  <2>1. rows[l] \in Rows
    BY ElementOfSeq
  <2> QED
    BY <2>1, HostsAssumption DEF PortAt, Rows
<1>2. Len(rows) \in Nat
  BY LenProperties
<1> QED
  BY <1>1, <1>2 DEF Precedes

LEMMA RankGrows ==
    ASSUME NEW rows \in Seq(Rows), NEW i \in 1..Len(rows),
           NEW j \in 1..Len(rows), i # j, Precedes(rows, i, j)
    PROVE  Rank(rows, i) < Rank(rows, j)
<1> DEFINE Before(k) == {l \in DOMAIN rows : Precedes(rows, l, k)}
<1>1. DOMAIN rows = 1..Len(rows) /\ Len(rows) \in Nat
  BY LenProperties
<1>2. IsFiniteSet(Before(j)) /\ IsFiniteSet(Before(i))
  <2>1. IsFiniteSet(1..Len(rows))
    BY <1>1, FS_Interval
  <2>2. Before(i) \in SUBSET (1..Len(rows)) /\ Before(j) \in SUBSET (1..Len(rows))
    BY <1>1
  <2> HIDE DEF Before
  <2> QED
    BY <2>1, <2>2, FS_Subset
<1>3. Before(i) \subseteq Before(j)
  BY <1>1, PrecedesIsOrder
<1>4. j \in Before(j) /\ j \notin Before(i)
  BY <1>1, PrecedesIsOrder
<1> HIDE DEF Before
<1>5. Cardinality(Before(i)) <= Cardinality(Before(j))
      /\ Cardinality(Before(i)) # Cardinality(Before(j))
  BY <1>2, <1>3, <1>4, FS_Subset
<1>6. Cardinality(Before(i)) \in Nat /\ Cardinality(Before(j)) \in Nat
  BY <1>2, FS_CardinalityType
<1>7. Cardinality(Before(i)) < Cardinality(Before(j))
  BY <1>5, <1>6
<1> QED
  BY <1>7 DEF Before, Rank

LEMMA RankIsPlace ==
    ASSUME NEW rows \in Seq(Rows)
    PROVE  /\ \A i \in 1..Len(rows) : Rank(rows, i) \in 1..Len(rows)
           /\ \A k \in 1..Len(rows) : \E i \in 1..Len(rows) : Rank(rows, i) = k
<1> DEFINE D == 1..Len(rows)
           f == [i \in D |-> Rank(rows, i)]
<1>1. DOMAIN rows = D /\ Len(rows) \in Nat
  BY LenProperties
<1>2. IsFiniteSet(D) /\ Cardinality(D) = Len(rows)
  BY SMTT(30), <1>1, FS_Interval
<1>3. ASSUME NEW i \in D PROVE Rank(rows, i) \in D
  <2> DEFINE B == {l \in DOMAIN rows : Precedes(rows, l, i)}
  <2>1. B \subseteq D /\ i \in B
    BY <1>1, PrecedesIsOrder
  <2> HIDE DEF B
  <2>2. IsFiniteSet(B) /\ Cardinality(B) <= Len(rows)
    BY <1>2, <2>1, FS_Subset
  <2>3. Cardinality(B) \in Nat /\ Cardinality(B) # 0
    BY ZenonT(30), <2>1, <2>2, FS_CardinalityType, FS_EmptySet
  <2>4. Cardinality(B) \in D
    BY <1>1, <2>2, <2>3
  <2> QED
    BY <2>4 DEF B, Rank
<1>4. f \in Injection(D, D)
  <2>1. f \in [D -> D]
    BY <1>3
  <2>2. ASSUME NEW i \in D, NEW j \in D, f[i] = f[j] PROVE i = j
    <3>1. Rank(rows, i) = Rank(rows, j)
      BY <2>2
    <3>2. Rank(rows, i) \in Nat /\ Rank(rows, j) \in Nat
      BY <1>3
    <3>3. Precedes(rows, i, j) \/ Precedes(rows, j, i)
      BY PrecedesIsOrder
    <3> QED
      BY <3>1, <3>2, <3>3, RankGrows
  <2> QED
    BY <2>1, <2>2 DEF Injection, IsInjective
<1>5. f \in Surjection(D, D)
  <2> HIDE DEF f, D
  <2> QED
    BY <1>2, <1>4, FS_Injection
<1>6. ASSUME NEW k \in D PROVE \E i \in D : Rank(rows, i) = k
  <2>1. \E i \in D : f[i] = k
    <3> HIDE DEF f, D
    <3> QED
      BY <1>5 DEF Surjection
  <2> QED
    BY <2>1
<1> QED
  BY <1>3, <1>6

(* The sorted table has the rows of the other one, each once, in order.    *)
LEMMA SortedRows ==
    ASSUME NEW rows \in Seq(Rows)
    PROVE  /\ sort_list_port(rows) \in Seq(Rows)
           /\ Len(sort_list_port(rows)) = Len(rows)
           /\ \A k, l \in 1..Len(rows) : k < l =>
                 PortAt(sort_list_port(rows), k) <= PortAt(sort_list_port(rows), l)
           /\ \E place \in [1..Len(rows) -> 1..Len(rows)] :
                 /\ \A i \in 1..Len(rows) :
                       sort_list_port(rows)[place[i]] = rows[i]
                 /\ \A k \in 1..Len(rows) : \E i \in 1..Len(rows) : place[i] = k
                 /\ \A i, j \in 1..Len(rows) : place[i] = place[j] => i = j
<1> DEFINE n == Len(rows)
           from(k) == CHOOSE i \in DOMAIN rows : Rank(rows, i) = k
           sorted == sort_list_port(rows)
           place == [i \in 1..n |-> Rank(rows, i)]
<1>1. DOMAIN rows = 1..n /\ n \in Nat
  BY LenProperties
<1>2. \A i \in 1..n : \A j \in 1..n : Rank(rows, i) = Rank(rows, j) => i = j
  <2> TAKE i \in 1..n
  <2> TAKE j \in 1..n
  <2> HAVE Rank(rows, i) = Rank(rows, j)
  <2>1. Rank(rows, i) \in Nat
    BY RankIsPlace
  <2>2. Precedes(rows, i, j) \/ Precedes(rows, j, i)
    BY PrecedesIsOrder
  <2> QED
    BY <2>1, <2>2, RankGrows
<1>3. \A k \in 1..n : from(k) \in 1..n /\ Rank(rows, from(k)) = k
  BY <1>1, RankIsPlace
<1>4. sorted = [k \in 1..n |-> rows[from(k)]]
  BY <1>1 DEF sort_list_port
<1> HIDE DEF from
<1>5. \A k \in 1..n : sorted[k] = rows[from(k)] /\ sorted[k] \in Rows
  BY <1>3, <1>4, ElementOfSeq
<1>6. sorted \in Seq(Rows) /\ Len(sorted) = n
  <2>1. sorted \in [1..n -> Rows]
    BY <1>4, <1>5
  <2>2. sorted \in Seq(Rows)
    BY <1>1, <2>1, SeqDef
  <2>3. DOMAIN sorted = 1..Len(sorted) /\ Len(sorted) \in Nat
    BY <2>2, LenProperties
  <2> QED
    BY <1>1, <2>1, <2>2, <2>3
<1>7. ASSUME NEW k \in 1..n, NEW l \in 1..n, k < l
      PROVE  PortAt(sorted, k) <= PortAt(sorted, l)
  <2>1. ~Precedes(rows, from(l), from(k))
    <3>1. from(l) # from(k)
      BY <1>3, <1>7
    <3>2. Precedes(rows, from(l), from(k)) => l < k
      BY <1>3, <3>1, RankGrows
    <3> QED
      BY <1>1, <1>7, <3>2
  <2>2. PortAt(rows, from(k)) <= PortAt(rows, from(l))
    BY <1>3, <2>1, PrecedesIsOrder
  <2> QED
    BY <1>5, <2>2 DEF PortAt
<1>8. /\ place \in [1..n -> 1..n]
      /\ \A i \in 1..n : sorted[place[i]] = rows[i]
      /\ \A k \in 1..n : \E i \in 1..n : place[i] = k
      /\ \A i, j \in 1..n : place[i] = place[j] => i = j
  <2>1. place \in [1..n -> 1..n]
    BY RankIsPlace
  <2>2. ASSUME NEW i \in 1..n PROVE sorted[place[i]] = rows[i]
    <3>1. Rank(rows, i) \in 1..n
      BY RankIsPlace
    <3>2. from(Rank(rows, i)) = i
      BY <1>2, <1>3, <3>1
    <3> QED
      BY <1>5, <3>1, <3>2
  <2>3. \A k \in 1..n : \E i \in 1..n : place[i] = k
    BY RankIsPlace
  <2>4. \A i, j \in 1..n : place[i] = place[j] => i = j
    BY <1>2
  <2> QED
    BY <2>1, <2>2, <2>3, <2>4
<1> QED
  BY <1>6, <1>7, <1>8
-----------------------------------------------------------------------------
(* The rows marked logged-in are those of the descriptors of owner, one    *)
(* each and of the right address, and all addresses are known.             *)
Fits(rows, owner, addresses) ==
    /\ \A fd \in DOMAIN owner : \E i \in 1..Len(rows) :
          /\ rows[i].state = "logged-in"
          /\ rows[i].fd_socket = fd /\ rows[i].list_ip = owner[fd]
          /\ \A j \in 1..Len(rows) :
                rows[j].state = "logged-in" /\ rows[j].fd_socket = fd => j = i
    /\ \A i \in 1..Len(rows) :
          /\ rows[i].state = "logged-in" => rows[i].fd_socket \in DOMAIN owner
          /\ rows[i].list_ip \in addresses

LEMMA FitsSorted ==
    ASSUME NEW rows \in Seq(Rows), NEW owner, NEW addresses,
           Fits(rows, owner, addresses)
    PROVE  Fits(sort_list_port(rows), owner, addresses)
<1> DEFINE n == Len(rows)
           sorted == sort_list_port(rows)
<1>1. Len(sorted) = n
  BY SortedRows
<1>2. PICK place \in [1..n -> 1..n] :
         /\ \A i \in 1..n : sorted[place[i]] = rows[i]
         /\ \A k \in 1..n : \E i \in 1..n : place[i] = k
         /\ \A i, j \in 1..n : place[i] = place[j] => i = j
  BY SortedRows
<1> HIDE DEF sorted
<1>3. ASSUME NEW fd \in DOMAIN owner
      PROVE  \E k \in 1..n :
                /\ sorted[k].state = "logged-in"
                /\ sorted[k].fd_socket = fd /\ sorted[k].list_ip = owner[fd]
                /\ \A j \in 1..n :
                      sorted[j].state = "logged-in" /\ sorted[j].fd_socket = fd
                        => j = k
  <2>1. PICK i \in 1..n :
           /\ rows[i].state = "logged-in"
           /\ rows[i].fd_socket = fd /\ rows[i].list_ip = owner[fd]
           /\ \A j \in 1..n :
                 rows[j].state = "logged-in" /\ rows[j].fd_socket = fd => j = i
    BY DEF Fits
  <2>2. place[i] \in 1..n /\ sorted[place[i]] = rows[i]
    BY <1>2
  <2>3. ASSUME NEW j \in 1..n,
               sorted[j].state = "logged-in", sorted[j].fd_socket = fd
        PROVE  j = place[i]
    <3>1. PICK l \in 1..n : place[l] = j
      BY <1>2
    <3>2. sorted[j] = rows[l]
      BY <1>2, <3>1
    <3> QED
      BY <2>1, <2>3, <3>1, <3>2
  <2> QED
    BY <2>1, <2>2, <2>3
<1>4. ASSUME NEW k \in 1..n
      PROVE  /\ sorted[k].state = "logged-in" =>
                   sorted[k].fd_socket \in DOMAIN owner
             /\ sorted[k].list_ip \in addresses
  <2>0. PICK i \in 1..n : place[i] = k
    BY <1>2
  <2>1. sorted[k] = rows[i]
    BY <1>2, <2>0
  <2>2. /\ rows[i].state = "logged-in" => rows[i].fd_socket \in DOMAIN owner
        /\ rows[i].list_ip \in addresses
    BY DEF Fits
  <2> QED
    BY <2>1, <2>2
<1>5. Fits(sorted, owner, addresses)
  BY <1>1, <1>3, <1>4 DEF Fits
<1> QED
  BY <1>5 DEF sorted

LEMMA FitsAppend ==
    ASSUME NEW rows \in Seq(Rows), NEW row \in Rows,
           NEW owner, NEW addresses, Fits(rows, owner, addresses),
           row.state = "logged-in", row.fd_socket \notin DOMAIN owner,
           NEW owner2, NEW addresses2,
           DOMAIN owner2 = DOMAIN owner \cup {row.fd_socket},
           owner2[row.fd_socket] = row.list_ip,
           \A fd \in DOMAIN owner : owner2[fd] = owner[fd],
           addresses \cup {row.list_ip} \subseteq addresses2
    PROVE  Fits(Append(rows, row), owner2, addresses2)
<1> DEFINE more == Append(rows, row)
<1>1. /\ Len(more) = Len(rows) + 1 /\ Len(rows) \in Nat
      /\ \A i \in 1..Len(rows) : more[i] = rows[i]
      /\ more[Len(rows) + 1] = row
  BY AppendProperties, LenProperties
<1> HIDE DEF more
<1>2. \A i \in 1..Len(more) : i \in 1..Len(rows) \/ i = Len(rows) + 1
  BY <1>1
<1>3. \A i \in 1..Len(rows) :
         /\ i \in 1..Len(more)
         /\ rows[i].state = "logged-in" => rows[i].fd_socket \in DOMAIN owner
         /\ rows[i].list_ip \in addresses
  BY <1>1 DEF Fits
<1>4. ASSUME NEW fd \in DOMAIN owner
      PROVE  \E i \in 1..Len(more) :
                /\ more[i].state = "logged-in"
                /\ more[i].fd_socket = fd /\ more[i].list_ip = owner2[fd]
                /\ \A j \in 1..Len(more) :
                      more[j].state = "logged-in" /\ more[j].fd_socket = fd
                        => j = i
  <2>1. PICK i \in 1..Len(rows) :
           /\ rows[i].state = "logged-in"
           /\ rows[i].fd_socket = fd /\ rows[i].list_ip = owner[fd]
           /\ \A j \in 1..Len(rows) :
                 rows[j].state = "logged-in" /\ rows[j].fd_socket = fd => j = i
    BY DEF Fits
  <2>2. \A j \in 1..Len(more) :
           more[j].state = "logged-in" /\ more[j].fd_socket = fd => j = i
    BY <1>1, <1>2, <2>1
  <2>3. more[i] = rows[i] /\ i \in 1..Len(more)
    BY <1>1, <1>3
  <2> QED
    BY <2>1, <2>2, <2>3
<1>5. \E i \in 1..Len(more) :
         /\ more[i].state = "logged-in"
         /\ more[i].fd_socket = row.fd_socket
         /\ more[i].list_ip = owner2[row.fd_socket]
         /\ \A j \in 1..Len(more) :
               more[j].state = "logged-in" /\ more[j].fd_socket = row.fd_socket
                 => j = i
  <2>1. Len(rows) + 1 \in 1..Len(more)
    BY <1>1
  <2>2. \A j \in 1..Len(more) :
           more[j].state = "logged-in" /\ more[j].fd_socket = row.fd_socket
             => j = Len(rows) + 1
    BY <1>1, <1>2, <1>3
  <2> QED
    BY <1>1, <2>1, <2>2
<1>6. ASSUME NEW i \in 1..Len(more)
      PROVE  /\ more[i].state = "logged-in" => more[i].fd_socket \in DOMAIN owner2
             /\ more[i].list_ip \in addresses2
  BY <1>1, <1>2, <1>3
<1>7. Fits(more, owner2, addresses2)
  BY ZenonT(60), <1>4, <1>5, <1>6 DEF Fits
<1> QED
  BY <1>7 DEF more

(* The descriptor gone is no longer one of a client.                       *)
Without(rows, gone, marked) ==
    /\ Len(marked) = Len(rows)
    /\ \A i \in 1..Len(rows) :
          /\ marked[i].fd_socket = rows[i].fd_socket
          /\ marked[i].list_ip = rows[i].list_ip
          /\ marked[i].state = IF rows[i].fd_socket = gone
                               THEN "logged-out" ELSE rows[i].state

LEMMA FitsLeave ==
    ASSUME NEW rows \in Seq(Rows), NEW owner, NEW addresses,
           Fits(rows, owner, addresses),
           NEW gone, NEW marked, Without(rows, gone, marked), NEW owner2,
           DOMAIN owner2 = DOMAIN owner \ {gone},
           \A fd \in DOMAIN owner2 : owner2[fd] = owner[fd]
    PROVE  Fits(marked, owner2, addresses)
<1>0. /\ Len(marked) = Len(rows)
      /\ \A i \in 1..Len(rows) :
            /\ marked[i].fd_socket = rows[i].fd_socket
            /\ marked[i].list_ip = rows[i].list_ip
            /\ marked[i].state = IF rows[i].fd_socket = gone
                                 THEN "logged-out" ELSE rows[i].state
  BY DEF Without
<1>1. ASSUME NEW fd \in DOMAIN owner2
      PROVE  \E i \in 1..Len(rows) :
                /\ marked[i].state = "logged-in"
                /\ marked[i].fd_socket = fd /\ marked[i].list_ip = owner2[fd]
                /\ \A j \in 1..Len(rows) :
                      marked[j].state = "logged-in" /\ marked[j].fd_socket = fd
                        => j = i
  <2>1. fd \in DOMAIN owner /\ fd # gone
    OBVIOUS
  <2>2. PICK i \in 1..Len(rows) :
           /\ rows[i].state = "logged-in"
           /\ rows[i].fd_socket = fd /\ rows[i].list_ip = owner[fd]
           /\ \A j \in 1..Len(rows) :
                 rows[j].state = "logged-in" /\ rows[j].fd_socket = fd => j = i
    BY <2>1 DEF Fits
  <2> QED
    BY <1>0, <2>1, <2>2
<1>2. ASSUME NEW i \in 1..Len(rows)
      PROVE  /\ marked[i].state = "logged-in" =>
                   marked[i].fd_socket \in DOMAIN owner2
             /\ marked[i].list_ip \in addresses
  <2>1. /\ rows[i].state = "logged-in" => rows[i].fd_socket \in DOMAIN owner
        /\ rows[i].list_ip \in addresses
    BY DEF Fits
  <2> QED
    BY <1>0, <2>1
<1> QED
  BY <1>0, <1>1, <1>2 DEF Fits

-----------------------------------------------------------------------------
(***************************************************************************)
(* II.  Every handler of the chat server keeps the inductive invariant.    *)
(***************************************************************************)

(* The connection of the descriptor that is visited.                       *)
conn == sock[sock_index]

-----------------------------------------------------------------------------
(* A visit of a client's descriptor: it is one of a connection, and a row  *)
(* of the table says whose.                                                *)
LEMMA VisitFacts ==
    ASSUME IInv, Visit, sock_index # server_socket
    PROVE  /\ running = TRUE
           /\ sock_index \in watch_list /\ sock_index \in Fds
           /\ sock_index \in master_list /\ watch_list' \subseteq master_list
           /\ conn \in 1..Len(host) /\ conn \in Conns
           /\ RowsOf(sock_index) # {}
           /\ Min(RowsOf(sock_index)) \in RowsOf(sock_index)
           /\ sender_ip \in Hosts /\ sender_ip \in Range(C_ip)
<1>1. /\ running = TRUE /\ watch_list # {}
      /\ watch_list' = watch_list \ {sock_index}
      /\ watch_list \subseteq master_list
      /\ master_list \subseteq Fds \cup {server_socket}
  BY DEF IInv, TypeOK, Visit
<1>2. sock_index \in watch_list
  <2>1. watch_list \in SUBSET Nat
    BY <1>1, SizesAssumption DEF Fds, server_socket
  <2> QED
    BY <1>1, <2>1, MinIsLeast DEF sock_index
<1>3. sock_index \in Fds /\ sock_index \in master_list
  BY <1>1, <1>2
<1>4. OneRowPerLogin /\ Len(host) \in Nat /\ Len(host) <= MaxConns
  BY DEF IInv, ConnsWereMade, TypeOK
<1>5. sock[sock_index] # 0
  BY <1>1, <1>3, <1>4 DEF OneRowPerLogin, server_socket
<1>6. conn \in 1..Len(host) /\ conn \in Conns
  <2>1. sock[sock_index] \in 0..Len(host)
    BY <1>3 DEF IInv, ConnsWereMade
  <2> QED
    BY <1>4, <1>5, <2>1, SizesAssumption DEF conn, Conns
<1>7. PICK i \in LoggedIn : list_ptr[i].fd_socket = sock_index
  BY <1>1, <1>3, <1>4 DEF OneRowPerLogin
<1>8. /\ list_ptr \in Seq(Rows) /\ DOMAIN list_ptr = 1..Len(list_ptr)
      /\ Len(list_ptr) \in Nat
  BY LenProperties DEF IInv, TypeOK
<1>9. RowsOf(sock_index) \in SUBSET Nat /\ i \in RowsOf(sock_index)
  BY <1>7, <1>8 DEF RowsOf, LoggedIn
<1>10. Min(RowsOf(sock_index)) \in RowsOf(sock_index)
  BY <1>9, MinIsLeast
<1>11. sender_ip \in Hosts /\ sender_ip \in Range(C_ip)
  <2>1. Min(RowsOf(sock_index)) \in DOMAIN list_ptr
    BY <1>10 DEF RowsOf
  <2>2. list_ptr[Min(RowsOf(sock_index))] \in Rows
    BY <1>8, <2>1, ElementOfSeq
  <2>3. list_ptr[Min(RowsOf(sock_index))].list_ip \in Range(C_ip)
    BY <1>1, <1>4, <2>1 DEF OneRowPerLogin
  <2> QED
    BY <2>2, <2>3 DEF sender_ip, Rows
<1> QED
  BY <1>1, <1>2, <1>3, <1>6, <1>9, <1>10, <1>11

-----------------------------------------------------------------------------
(* Streams of replies.                                                     *)
LEMMA WholeConcat ==
    ASSUME NEW s \in Seq(ReplyTypes), NEW t \in Seq(ReplyTypes),
           Whole(s), Whole(t)
    PROVE  Whole(s \o t)
<1>1. /\ s \o t \in Seq(ReplyTypes) /\ Len(s) \in Nat /\ Len(t) \in Nat
      /\ Len(s \o t) = Len(s) + Len(t)
      /\ \A i \in 1..Len(s) + Len(t) :
            (s \o t)[i] = IF i <= Len(s) THEN s[i] ELSE t[i - Len(s)]
  BY ConcatProperties, LenProperties
<1> DEFINE u == s \o t
<1> HIDE DEF u
<1> SUFFICES ASSUME NEW i \in 1..Len(u), u[i].cmd = "LIST"
             PROVE  /\ i + 1 \in 1..Len(u)
                    /\ \/ u[i + 1].cmd = "LISTOVER"
                       \/ /\ u[i + 1].cmd = "LIST"
                          /\ Port[u[i].list_ip] <= Port[u[i + 1].list_ip]
  BY DEF Whole, u
<1>2. CASE i <= Len(s)
  <2>1. i \in 1..Len(s) /\ u[i] = s[i]
    BY <1>1, <1>2 DEF u
  <2>2. i + 1 \in 1..Len(s)
    BY <2>1 DEF Whole
  <2>3. u[i + 1] = s[i + 1] /\ i + 1 \in 1..Len(u)
    BY <1>1, <2>2 DEF u
  <2> QED
    BY <2>1, <2>2, <2>3 DEF Whole
<1>3. CASE ~(i <= Len(s))
  <2>1. i - Len(s) \in 1..Len(t) /\ u[i] = t[i - Len(s)]
    BY <1>1, <1>3 DEF u
  <2>2. (i - Len(s)) + 1 \in 1..Len(t)
    BY <2>1 DEF Whole
  <2>3. /\ u[i + 1] = t[(i - Len(s)) + 1]
        /\ i + 1 \in 1..Len(u)
    <3>1. i + 1 \in 1..Len(s) + Len(t) /\ ~(i + 1 <= Len(s))
          /\ (i + 1) - Len(s) = (i - Len(s)) + 1
      BY <1>1, <1>3, <2>1, <2>2 DEF u
    <3> QED
      BY <1>1, <3>1 DEF u
  <2> QED
    BY <2>1, <2>2, <2>3 DEF Whole
<1> QED
  BY <1>2, <1>3

LEMMA ShortIsWhole ==
    ASSUME NEW s \in Seq(ReplyTypes),
           \A i \in 1..Len(s) : s[i].cmd # "LIST"
    PROVE  Whole(s)
BY DEF Whole

(* What a server that goes on has written has arrived at who is connected. *)
Arrives(sent) ==
    /\ running' \in BOOLEAN
    /\ replies' \in [Conns -> Seq(ReplyTypes)]
    /\ peer' \in [Conns -> {"open", "closed", "unread", "reset"}]
    /\ \A c \in Conns :
          /\ peer[c] = "open" => peer'[c] = "open"
          /\ replies'[c] = replies[c] \/ replies'[c] = replies[c] \o sent[c]
          /\ running' /\ peer[c] = "open" =>
                replies'[c] = replies[c] \o sent[c]

LEMMA TransmitFacts ==
    ASSUME TypeOK, NEW sent \in [Conns -> Seq(ReplyTypes)], Transmit(sent)
    PROVE  Arrives(sent)
<1>1. /\ replies \in [Conns -> Seq(ReplyTypes)]
      /\ peer \in [Conns -> {"open", "closed", "unread", "reset"}]
  BY DEF TypeOK
<1>2. \A c \in Conns : replies[c] \o sent[c] \in Seq(ReplyTypes)
  BY <1>1, ConcatProperties
<1>3. CASE /\ replies' = [c \in Conns |-> IF peer[c] = "open"
                                          THEN replies[c] \o sent[c]
                                          ELSE replies[c]]
           /\ peer' = [c \in Conns |-> IF peer[c] # "open" /\ sent[c] # << >>
                                       THEN "reset" ELSE peer[c]]
           /\ running' = TRUE
  BY <1>1, <1>2, <1>3 DEF Arrives
<1>4. CASE running' = FALSE /\ UNCHANGED <<replies, peer>>
  BY <1>1, <1>4 DEF Arrives
<1> QED
  BY <1>3, <1>4 DEF Transmit

(* What a handler may send: whole lists, to connections that were made,    *)
(* and one end, to the client whose command has one.                       *)
Answers(sent) ==
    /\ sent \in [Conns -> Seq(ReplyTypes)]
    /\ \A c \in Conns :
          /\ Whole(sent[c])
          /\ c > Len(host) => sent[c] = << >>
          /\ Count(sent[c], Ends) = IF c = conn /\ rcv_data.cmd \in Awaited
                                    THEN 1 ELSE 0

(* The streams after a handler that took the request of its client and     *)
(* changed nothing else but the replies.                                   *)
LEMMA AnswerStep ==
    ASSUME IInv, Visit, sock_index # server_socket,
           requests[conn] # << >>,
           requests' = [requests EXCEPT ![conn] = Tail(@)],
           UNCHANGED <<C_ip, backlog, host, list_ptr>>,
           UNCHANGED socketVars, UNCHANGED clientVars,
           blockers' \in [Slots -> [1..BLOCKS -> Hosts \cup {Null}]],
           send_socket' \in Fds \cup {STDIN},
           NEW sent, Answers(sent), Arrives(sent)
    PROVE  IInv'
<1>1. Answers(sent) /\ Arrives(sent)
  OBVIOUS
<1>2. /\ running = TRUE /\ watch_list' \subseteq master_list
      /\ conn \in 1..Len(host) /\ conn \in Conns
  BY VisitFacts
<1>3. /\ UNCHANGED <<master_list, head_socket, sock>>
      /\ UNCHANGED <<server, owed, acts>>
  BY DEF socketVars, clientVars
<1>4. sent \in [Conns -> Seq(ReplyTypes)]
  BY <1>1 DEF Answers
<1>5. /\ running' \in BOOLEAN
      /\ replies' \in [Conns -> Seq(ReplyTypes)]
      /\ peer' \in [Conns -> {"open", "closed", "unread", "reset"}]
      /\ \A c \in Conns :
            /\ peer[c] = "open" => peer'[c] = "open"
            /\ \/ replies'[c] = replies[c]
               \/ replies'[c] = replies[c] \o sent[c]
            /\ running' /\ peer[c] = "open" =>
                  replies'[c] = replies[c] \o sent[c]
  BY <1>1 DEF Arrives
<1>6. /\ TypeOK /\ requests \in [Conns -> Seq(RequestTypes)]
      /\ replies \in [Conns -> Seq(ReplyTypes)]
      /\ Len(host) \in Nat
  BY DEF IInv, TypeOK
<1>7. /\ requests[conn] \in Seq(RequestTypes)
      /\ Tail(requests[conn]) \in Seq(RequestTypes)
      /\ Len(Tail(requests[conn])) = Len(requests[conn]) - 1
      /\ Len(requests[conn]) \in Nat
      /\ \A i \in 1..Len(Tail(requests[conn])) :
            Tail(requests[conn])[i] = requests[conn][i + 1]
  BY <1>2, <1>6, HeadTailProperties, LenProperties
<1>8. /\ requests' \in [Conns -> Seq(RequestTypes)]
      /\ requests'[conn] = Tail(requests[conn])
      /\ \A c \in Conns : c # conn => requests'[c] = requests[c]
  BY <1>2, <1>6, <1>7
<1>9. TypeOK'
  BY <1>2, <1>3, <1>5, <1>6, <1>8 DEF TypeOK
<1>10. ConnsWereMade'
  <2>1. ASSUME NEW c \in Conns, c > Len(host)
        PROVE  requests'[c] = << >> /\ replies'[c] = << >>
    <3>1. requests[c] = << >> /\ replies[c] = << >> /\ sent[c] = << >>
      BY <1>1, <2>1 DEF IInv, ConnsWereMade, Answers
    <3>2. c # conn
      BY <1>2, <1>6, <2>1
    <3>3. << >> \o << >> = << >>
      OBVIOUS
    <3> QED
      BY <1>5, <1>8, <3>1, <3>2, <3>3
  <2>2. /\ Len(host) <= MaxConns
        /\ \A i \in 1..Len(backlog) : backlog[i] \in 1..Len(host)
        /\ \A i, j \in 1..Len(backlog) : backlog[i] = backlog[j] => i = j
        /\ server_socket \in watch_list' => backlog # << >>
        /\ \A fd \in Fds : sock[fd] \in 0..Len(host)
    BY DEF IInv, ConnsWereMade, Visit
  <2> QED
    BY <1>3, <2>1, <2>2 DEF ConnsWereMade
<1>11. ClientsAreConnected'
  <2> SUFFICES ASSUME NEW h \in Hosts
               PROVE  /\ server'[h] \in 0..Len(host')
                      /\ server'[h] # LoggedOut =>
                         /\ host'[server'[h]] = h /\ peer'[server'[h]] = "open"
                         /\ \A i \in 1..Len(requests'[server'[h]]) :
                               requests'[server'[h]][i].cmd # "LOGOUT"
    BY DEF ClientsAreConnected
  <2>1. /\ server'[h] = server[h] /\ server[h] \in 0..Len(host)
        /\ server[h] # LoggedOut =>
              /\ host[server[h]] = h /\ peer[server[h]] = "open"
              /\ \A i \in 1..Len(requests[server[h]]) :
                    requests[server[h]][i].cmd # "LOGOUT"
    BY <1>3 DEF IInv, ClientsAreConnected
  <2>2. server[h] # LoggedOut => server[h] \in Conns
    <3>1. Len(host) <= MaxConns
      BY DEF IInv, ConnsWereMade
    <3> QED
      BY <1>6, <2>1, <3>1, SizesAssumption DEF Conns, LoggedOut
  <2>3. ASSUME server[h] # LoggedOut
        PROVE  \A i \in 1..Len(requests'[server[h]]) :
                  requests'[server[h]][i].cmd # "LOGOUT"
    <3>1. CASE server[h] = conn
      <4> SUFFICES ASSUME NEW i \in 1..Len(Tail(requests[conn]))
                   PROVE  Tail(requests[conn])[i].cmd # "LOGOUT"
        BY <1>8, <3>1
      <4>1. i + 1 \in 1..Len(requests[conn])
        BY <1>7
      <4> QED
        BY <1>7, <2>1, <2>3, <3>1, <4>1
    <3>2. CASE server[h] # conn
      BY <1>8, <2>1, <2>2, <2>3, <3>2
    <3> QED
      BY <3>1, <3>2
  <2> QED
    BY <1>5, <2>1, <2>2, <2>3
<1>12. OneRowPerLogin'
  BY <1>2, <1>3 DEF IInv, OneRowPerLogin, LoggedIn
<1>13. EndForEachCommand'
  <2> SUFFICES ASSUME running', NEW h \in Hosts, server'[h] \in Conns
               PROVE  owed'[h] = Count(requests'[server'[h]], Awaited)
                                 + Count(replies'[server'[h]], Ends)
                                 + (IF server'[h] \in Range(backlog') THEN 1 ELSE 0)
    BY DEF EndForEachCommand
  <2> DEFINE c == server[h]
  <2>1. server'[h] = c /\ owed'[h] = owed[h] /\ backlog' = backlog /\ c \in Conns
    BY <1>3
  <2>2. peer[c] = "open"
    BY <2>1 DEF IInv, ClientsAreConnected, LoggedOut, Conns
  <2>3. replies'[c] = replies[c] \o sent[c]
    BY <1>5, <2>1, <2>2
  <2>4. Count(replies'[c], Ends) = Count(replies[c], Ends) + Count(sent[c], Ends)
    <3>1. replies[c] \in Seq(ReplyTypes) /\ sent[c] \in Seq(ReplyTypes)
      BY <1>4, <1>6, <2>1
    <3> QED
      BY <2>3, <3>1, CountConcat
  <2>5. Count(sent[c], Ends) = IF c = conn /\ rcv_data.cmd \in Awaited
                               THEN 1 ELSE 0
    BY <1>1, <2>1 DEF Answers
  <2>6. Count(requests[c], Awaited)
          = Count(requests'[c], Awaited)
            + (IF c = conn /\ rcv_data.cmd \in Awaited THEN 1 ELSE 0)
    <3>1. CASE c = conn
      <4>1. Count(requests[conn], Awaited)
              = Count(Tail(requests[conn]), Awaited)
                + (IF Head(requests[conn]).cmd \in Awaited THEN 1 ELSE 0)
        BY <1>7, CountTail
      <4>2. Head(requests[conn]) = rcv_data
        BY DEF rcv_data, conn
      <4> QED
        BY <1>8, <3>1, <4>1, <4>2
    <3>2. CASE c # conn
      <4>1. requests'[c] = requests[c]
        BY <1>8, <2>1, <3>2
      <4>2. Count(requests[c], Awaited) \in Nat
        BY <1>6, <2>1, CountType
      <4> QED
        BY <3>2, <4>1, <4>2
    <3> QED
      BY <3>1, <3>2
  <2>7. owed[h] = Count(requests[c], Awaited) + Count(replies[c], Ends)
                  + (IF c \in Range(backlog) THEN 1 ELSE 0)
    BY <1>2, <2>1 DEF IInv, EndForEachCommand
  <2>8. /\ Count(replies[c], Ends) \in Nat
        /\ Count(requests'[c], Awaited) \in Nat
    BY <1>6, <1>8, <2>1, CountType
  <2> HIDE DEF c
  <2>9. owed[h] = Count(requests'[c], Awaited) + Count(replies'[c], Ends)
                  + (IF c \in Range(backlog) THEN 1 ELSE 0)
    BY <2>4, <2>5, <2>6, <2>7, <2>8
  <2> QED
    BY <2>1, <2>9
<1>14. InPortOrder(list_ptr)'
  BY DEF IInv, InPortOrder, PortAt
<1>15. \A c \in Conns : Whole(replies'[c])
  <2> TAKE c \in Conns
  <2>1. Whole(replies[c]) /\ Whole(sent[c])
    BY <1>1 DEF IInv, Answers
  <2>2. replies[c] \in Seq(ReplyTypes) /\ sent[c] \in Seq(ReplyTypes)
    BY <1>4, <1>6
  <2>3. Whole(replies[c] \o sent[c])
    BY <2>1, <2>2, WholeConcat
  <2> QED
    BY <1>5, <2>1, <2>3
<1> QED
  BY <1>9, <1>10, <1>11, <1>12, <1>13, <1>14, <1>15 DEF IInv

-----------------------------------------------------------------------------
(* The requests that are answered: SEND, BROADCAST, LIST.                  *)
LEMMA RequestFacts ==
    ASSUME IInv, Visit, sock_index # server_socket, requests[conn] # << >>
    PROVE  /\ rcv_data \in RequestTypes
           /\ rcv_data.cmd \in {"SEND", "BLOCK", "UNBLOCK"} => rcv_data.ip \in Hosts
           /\ rcv_data.cmd \in {"SEND", "BROADCAST"} => rcv_data.info \in Texts
<1>1. conn \in Conns
  BY VisitFacts
<1>2. requests[conn] \in Seq(RequestTypes)
  BY <1>1 DEF IInv, TypeOK
<1>3. rcv_data \in RequestTypes
  BY <1>2, HeadTailProperties DEF rcv_data, conn
<1> QED
  BY <1>3 DEF RequestTypes

LEMMA EmptyStream ==
    /\ << >> \in Seq(ReplyTypes) /\ Whole(<< >>) /\ Count(<< >>, Ends) = 0
<1>1. << >> \in Seq(ReplyTypes) /\ Len(<< >>) = 0
  OBVIOUS
<1>2. \A i \in 1..Len(<< >>) : << >>[i].cmd \notin Ends
  BY <1>1
<1>3. Count(<< >>, Ends) = 0
  BY <1>1, <1>2, CountNone
<1> QED
  BY <1>1, <1>3 DEF Whole

LEMMA OneReply ==
    ASSUME NEW r \in ReplyTypes, r.cmd # "LIST"
    PROVE  /\ <<r>> \in Seq(ReplyTypes) /\ Whole(<<r>>)
           /\ Count(<<r>>, Ends) = IF r.cmd \in Ends THEN 1 ELSE 0
<1>1. <<r>> \in Seq(ReplyTypes)
  OBVIOUS
<1>2. \A i \in 1..Len(<<r>>) : <<r>>[i].cmd # "LIST"
  OBVIOUS
<1> QED
  BY <1>1, <1>2, ShortIsWhole, CountOne

LEMMA AnswerFacts ==
    ASSUME NEW result \in {"MSG_SENT", "MSG_SENT_FAIL"}
    PROVE  /\ Answer(result) \in Seq(ReplyTypes) /\ Whole(Answer(result))
           /\ Count(Answer(result), Ends) = 1
<1>1. /\ [cmd |-> result] \in ReplyTypes /\ [cmd |-> result].cmd = result
      /\ result # "LIST" /\ result \in Ends
  BY DEF ReplyTypes, Ends
<1> QED
  BY <1>1, OneReply DEF Answer

LEMMA MessageFacts ==
    ASSUME IInv, Visit, sock_index # server_socket, requests[conn] # << >>,
           rcv_data.cmd \in {"SEND", "BROADCAST"}
    PROVE  Message \in ReplyTypes /\ Message.cmd = "MSG"
<1>1. rcv_data.info \in Texts /\ sender_ip \in Hosts
  BY RequestFacts, VisitFacts
<1> QED
  BY <1>1 DEF Message, ReplyTypes

LEMMA ReceiverIsDescriptor ==
    ASSUME IInv
    PROVE  Receiver(rcv_data.ip) \in Fds \cup {STDIN}
<1> DEFINE rows == {i \in DOMAIN list_ptr : list_ptr[i].list_ip = rcv_data.ip}
<1>1. /\ list_ptr \in Seq(Rows) /\ DOMAIN list_ptr = 1..Len(list_ptr)
      /\ Len(list_ptr) \in Nat /\ send_socket \in Fds \cup {STDIN}
  BY LenProperties DEF IInv, TypeOK
<1>2. CASE rows # {}
  <2>1. rows \in SUBSET Nat
    BY <1>1
  <2>2. Min(rows) \in rows
    <3> HIDE DEF rows
    <3> QED
      BY <1>2, <2>1, MinIsLeast
  <2>3. list_ptr[Min(rows)] \in Rows
    BY <1>1, <2>2, ElementOfSeq
  <2> QED
    BY <1>2, <2>3 DEF Receiver, Rows
<1>3. CASE rows = {}
  BY <1>1, <1>3 DEF Receiver
<1> QED
  BY <1>2, <1>3

LEMMA RequestIsOf ==
    ASSUME NEW cmd, Request(cmd)
    PROVE  /\ Visit /\ sock_index # server_socket
           /\ requests[conn] # << >> /\ rcv_data.cmd = cmd
BY DEF Request, conn

(* What the handlers that answer have in common.                           *)
LEMMA HandlerStep ==
    ASSUME IInv, NEW cmd, Request(cmd),
           UNCHANGED <<list_ptr, blockers, socketVars>>, UNCHANGED clientVars,
           send_socket' \in Fds \cup {STDIN},
           NEW sent, Answers(sent), Transmit(sent)
    PROVE  IInv'
<1>1. /\ Visit /\ sock_index # server_socket /\ requests[conn] # << >>
      /\ requests' = [requests EXCEPT ![conn] = Tail(@)]
      /\ UNCHANGED <<C_ip, backlog, host>>
  BY DEF Request, conn
<1>2. TypeOK /\ blockers' \in [Slots -> [1..BLOCKS -> Hosts \cup {Null}]]
  BY DEF IInv, TypeOK
<1>3. Arrives(sent)
  BY <1>2, TransmitFacts DEF Answers
<1> QED
  BY <1>1, <1>2, <1>3, AnswerStep

LEMMA SendBlockedStep == IInv /\ SendBlocked /\ UNCHANGED clientVars => IInv'
<1> SUFFICES ASSUME IInv, SendBlocked, UNCHANGED clientVars PROVE IInv'
  OBVIOUS
<1>1. /\ Request("SEND") /\ send_socket' = Receiver(rcv_data.ip)
      /\ Transmit([Nothing EXCEPT ![conn] = Answer("MSG_SENT")])
      /\ UNCHANGED <<list_ptr, blockers, socketVars>>
  BY DEF SendBlocked, conn
<1> DEFINE sent == [Nothing EXCEPT ![conn] = Answer("MSG_SENT")]
<1>2. conn \in 1..Len(host) /\ conn \in Conns /\ rcv_data.cmd = "SEND"
  BY <1>1, RequestIsOf, VisitFacts
<1>3. \A c \in Conns : sent[c] = IF c = conn THEN Answer("MSG_SENT") ELSE << >>
  BY <1>2 DEF Nothing
<1>4. sent \in [Conns -> Seq(ReplyTypes)]
  BY <1>2, AnswerFacts, EmptyStream DEF Nothing
<1> HIDE DEF sent
<1>5. Answers(sent)
  <2>1. \A c \in Conns : c > Len(host) => sent[c] = << >>
    <3>1. Len(host) \in Nat
      BY DEF IInv, TypeOK
    <3> QED
      BY <1>2, <1>3, <3>1
  <2>2. "SEND" \in Awaited
    BY DEF Awaited
  <2> QED
    BY <1>2, <1>3, <1>4, <2>1, <2>2, AnswerFacts, EmptyStream DEF Answers
<1>6. send_socket' \in Fds \cup {STDIN}
  BY <1>1, ReceiverIsDescriptor
<1> QED
  BY <1>1, <1>5, <1>6, HandlerStep DEF sent

LEMMA SendRelayedStep == IInv /\ SendRelayed /\ UNCHANGED clientVars => IInv'
<1> SUFFICES ASSUME IInv, SendRelayed, UNCHANGED clientVars PROVE IInv'
  OBVIOUS
<1> DEFINE to == ConnOf(Receiver(rcv_data.ip))
           relayed(c) == IF c = to THEN <<Message>> ELSE << >>
           answered(result, c) == IF c = conn THEN Answer(result) ELSE << >>
           sent(result) == [c \in Conns |-> relayed(c) \o answered(result, c)]
<1>1. /\ Request("SEND") /\ send_socket' = Receiver(rcv_data.ip)
      /\ \E result \in Results(to) : Transmit(sent(result))
      /\ UNCHANGED <<list_ptr, blockers, socketVars>>
  BY DEF SendRelayed, conn
<1>2. PICK result \in Results(to) : Transmit(sent(result))
  BY <1>1
<1>3. result \in {"MSG_SENT", "MSG_SENT_FAIL"}
  BY <1>2 DEF Results
<1>4. conn \in 1..Len(host) /\ conn \in Conns /\ rcv_data.cmd = "SEND"
  BY <1>1, RequestIsOf, VisitFacts
<1>5. /\ <<Message>> \in Seq(ReplyTypes) /\ Whole(<<Message>>)
      /\ Count(<<Message>>, Ends) = 0
  <2>1. Message \in ReplyTypes /\ Message.cmd = "MSG"
    BY <1>1, <1>4, RequestIsOf, MessageFacts
  <2>2. "MSG" \notin Ends /\ "MSG" # "LIST"
    BY DEF Ends
  <2> QED
    BY <2>1, <2>2, OneReply
<1>6. ASSUME NEW c \in Conns
      PROVE  /\ relayed(c) \in Seq(ReplyTypes) /\ Whole(relayed(c))
             /\ Count(relayed(c), Ends) = 0
  BY <1>5, EmptyStream
<1>7. ASSUME NEW c \in Conns
      PROVE  /\ answered(result, c) \in Seq(ReplyTypes)
             /\ Whole(answered(result, c))
             /\ Count(answered(result, c), Ends) = IF c = conn THEN 1 ELSE 0
  BY <1>3, AnswerFacts, EmptyStream
<1>8. ASSUME NEW c \in Conns, c > Len(host)
      PROVE  relayed(c) = << >> /\ answered(result, c) = << >>
  <2>1. Len(host) \in Nat
    BY DEF IInv, TypeOK
  <2>2. to \in 0..Len(host)
    BY <2>1 DEF IInv, ConnsWereMade, ConnOf
  <2> QED
    BY <1>4, <1>8, <2>1, <2>2
<1> HIDE DEF to, relayed, answered
<1>9. \A c \in Conns : sent(result)[c] = relayed(c) \o answered(result, c)
  OBVIOUS
<1>10. sent(result) \in [Conns -> Seq(ReplyTypes)]
  BY <1>6, <1>7, ConcatProperties
<1> HIDE DEF sent
<1>11. Answers(sent(result))
  <2>1. ASSUME NEW c \in Conns
        PROVE  /\ Whole(sent(result)[c])
               /\ c > Len(host) => sent(result)[c] = << >>
               /\ Count(sent(result)[c], Ends) = IF c = conn THEN 1 ELSE 0
    <3>1. Whole(sent(result)[c])
      BY <1>6, <1>7, <1>9, WholeConcat
    <3>2. c > Len(host) => sent(result)[c] = << >>
      <4>1. << >> \o << >> = << >>
        OBVIOUS
      <4> QED
        BY <1>8, <1>9, <4>1
    <3>3. Count(relayed(c) \o answered(result, c), Ends)
            = Count(relayed(c), Ends) + Count(answered(result, c), Ends)
      BY <1>6, <1>7, CountConcat
    <3>4. Count(sent(result)[c], Ends) = IF c = conn THEN 1 ELSE 0
      <4>1. Count(sent(result)[c], Ends)
              = Count(relayed(c) \o answered(result, c), Ends)
        BY <1>9
      <4>2. Count(relayed(c), Ends) = 0
        BY <1>6
      <4>3. Count(answered(result, c), Ends) = IF c = conn THEN 1 ELSE 0
        BY <1>7
      <4> QED
        BY <3>3, <4>1, <4>2, <4>3
    <3> QED
      BY <3>1, <3>2, <3>4
  <2>2. "SEND" \in Awaited
    BY DEF Awaited
  <2> QED
    BY <1>4, <1>10, <2>1, <2>2 DEF Answers
<1>12. send_socket' \in Fds \cup {STDIN}
  BY <1>1, ReceiverIsDescriptor
<1> QED
  BY <1>1, <1>2, <1>11, <1>12, HandlerStep

LEMMA BroadcastStep == IInv /\ Broadcast /\ UNCHANGED clientVars => IInv'
<1> SUFFICES ASSUME IInv, Broadcast, UNCHANGED clientVars PROVE IInv'
  OBVIOUS
<1> DEFINE rowsOf(c) == {i \in OtherRows : sock[list_ptr[i].fd_socket] = c}
           copies(c) == [k \in 1..Cardinality(rowsOf(c)) |-> Message]
           sent == [c \in Conns |-> copies(c)]
<1>1. /\ Request("BROADCAST")
      /\ send_socket' = IF OtherRows = {} THEN send_socket
                        ELSE list_ptr[Max(OtherRows)].fd_socket
      /\ Transmit(sent)
      /\ UNCHANGED <<list_ptr, blockers, socketVars>>
  BY DEF Broadcast
<1>2. Visit /\ sock_index # server_socket /\ rcv_data.cmd = "BROADCAST"
      /\ requests[conn] # << >>
  BY <1>1, RequestIsOf
<1>3. Message \in ReplyTypes /\ Message.cmd = "MSG"
  BY <1>2, MessageFacts
<1>4. /\ list_ptr \in Seq(Rows) /\ DOMAIN list_ptr = 1..Len(list_ptr)
      /\ Len(list_ptr) \in Nat /\ send_socket \in Fds \cup {STDIN}
      /\ Len(host) \in Nat
  BY LenProperties DEF IInv, TypeOK
<1>5. OtherRows \in SUBSET (1..Len(list_ptr))
  BY <1>4 DEF OtherRows
<1>6. ASSUME NEW c \in Conns
      PROVE  Cardinality(rowsOf(c)) \in Nat
  <2>1. IsFiniteSet(1..Len(list_ptr))
    BY <1>4, FS_Interval
  <2>2. rowsOf(c) \subseteq 1..Len(list_ptr)
    BY <1>5
  <2> HIDE DEF rowsOf
  <2>3. IsFiniteSet(rowsOf(c))
    BY <2>1, <2>2, FS_Subset
  <2> QED
    BY <2>3, FS_CardinalityType
<1>7. ASSUME NEW c \in Conns, c > Len(host)
      PROVE  Cardinality(rowsOf(c)) = 0
  <2>1. \A i \in OtherRows : list_ptr[i].fd_socket \in Fds
    <3> TAKE i \in OtherRows
    <3>1. list_ptr[i] \in Rows
      BY <1>4, <1>5, ElementOfSeq
    <3> QED
      BY <3>1 DEF Rows
  <2>2. \A i \in OtherRows : sock[list_ptr[i].fd_socket] \in 0..Len(host)
    BY <2>1 DEF IInv, ConnsWereMade
  <2>3. rowsOf(c) = {}
    BY <1>4, <1>7, <2>2
  <2> QED
    BY <2>3, FS_EmptySet
<1> HIDE DEF rowsOf
<1>8. ASSUME NEW c \in Conns
      PROVE  /\ copies(c) \in Seq(ReplyTypes)
             /\ Len(copies(c)) = Cardinality(rowsOf(c))
             /\ \A i \in 1..Len(copies(c)) : copies(c)[i] = Message
  <2>1. copies(c) \in [1..Cardinality(rowsOf(c)) -> ReplyTypes]
    BY <1>3
  <2>2. copies(c) \in Seq(ReplyTypes)
    BY <1>6, <2>1, SeqDef
  <2>3. DOMAIN copies(c) = 1..Len(copies(c)) /\ Len(copies(c)) \in Nat
    BY <2>2, LenProperties
  <2>4. Len(copies(c)) = Cardinality(rowsOf(c))
    BY <1>6, <2>1, <2>3
  <2> QED
    BY <2>2, <2>4
<1> HIDE DEF copies
<1>9. \A c \in Conns : sent[c] = copies(c)
  OBVIOUS
<1>10. sent \in [Conns -> Seq(ReplyTypes)]
  BY <1>8
<1> HIDE DEF sent
<1>11. Answers(sent)
  <2>1. ASSUME NEW c \in Conns
        PROVE  /\ Whole(sent[c])
               /\ c > Len(host) => sent[c] = << >>
               /\ Count(sent[c], Ends) = 0
    <3>1. Whole(copies(c))
      BY <1>3, <1>8, ShortIsWhole
    <3>2. c > Len(host) => copies(c) = << >>
      BY <1>7, <1>8, EmptySeq
    <3>3. Count(copies(c), Ends) = 0
      <4>1. "MSG" \notin Ends
        BY DEF Ends
      <4> QED
        BY <1>3, <1>8, <4>1, CountNone
    <3> QED
      BY <1>9, <3>1, <3>2, <3>3
  <2>2. "BROADCAST" \notin Awaited
    BY DEF Awaited
  <2> QED
    BY <1>2, <1>10, <2>1, <2>2 DEF Answers
<1>12. send_socket' \in Fds \cup {STDIN}
  <2>1. CASE OtherRows # {}
    <3>1. Max(OtherRows) \in OtherRows
      BY <1>4, <1>5, <2>1, MaxIsGreatest
    <3>2. list_ptr[Max(OtherRows)] \in Rows
      BY <1>4, <1>5, <3>1, ElementOfSeq
    <3> QED
      BY <1>1, <2>1, <3>2 DEF Rows
  <2>2. CASE OtherRows = {}
    BY <1>1, <1>4, <2>2
  <2> QED
    BY <2>1, <2>2
<1> QED
  BY <1>1, <1>11, <1>12, HandlerStep

LEMMA ListStep == IInv /\ List /\ UNCHANGED clientVars => IInv'
<1> SUFFICES ASSUME IInv, List, UNCHANGED clientVars PROVE IInv'
  OBVIOUS
<1> DEFINE line(i) == [cmd |-> "LIST", list_ip |-> list_ptr[i].list_ip]
           lines == [i \in DOMAIN list_ptr |-> line(i)]
           over == [cmd |-> "LISTOVER"]
           listing == Append(lines, over)
           sent == [Nothing EXCEPT ![conn] = listing]
<1>1. Request("LIST") /\ Transmit(sent)
      /\ UNCHANGED <<list_ptr, blockers, send_socket, socketVars>>
  BY DEF List, conn
<1>2. conn \in 1..Len(host) /\ conn \in Conns /\ rcv_data.cmd = "LIST"
  BY <1>1, RequestIsOf, VisitFacts
<1>3. /\ list_ptr \in Seq(Rows) /\ DOMAIN list_ptr = 1..Len(list_ptr)
      /\ Len(list_ptr) \in Nat /\ send_socket \in Fds \cup {STDIN}
      /\ Len(host) \in Nat
  BY LenProperties DEF IInv, TypeOK
<1>4. \A i \in 1..Len(list_ptr) : line(i) \in ReplyTypes
  <2> TAKE i \in 1..Len(list_ptr)
  <2>1. list_ptr[i] \in Rows
    BY <1>3, ElementOfSeq
  <2> QED
    BY <2>1 DEF Rows, ReplyTypes
<1>5. /\ lines \in Seq(ReplyTypes) /\ Len(lines) = Len(list_ptr)
      /\ \A i \in 1..Len(list_ptr) : lines[i] = line(i)
  <2>1. lines \in [1..Len(list_ptr) -> ReplyTypes]
    BY <1>3, <1>4
  <2>2. lines \in Seq(ReplyTypes)
    BY <1>3, <2>1, SeqDef
  <2>3. DOMAIN lines = 1..Len(lines) /\ Len(lines) \in Nat
    BY <2>2, LenProperties
  <2> QED
    BY <1>3, <2>1, <2>2, <2>3
<1>6. over \in ReplyTypes
  BY DEF ReplyTypes
<1> HIDE DEF lines, over
<1>7. /\ listing \in Seq(ReplyTypes) /\ Len(listing) = Len(list_ptr) + 1
      /\ \A i \in 1..Len(list_ptr) : listing[i] = line(i)
      /\ listing[Len(list_ptr) + 1] = over
  BY <1>5, <1>6, AppendProperties
<1>8. /\ \A i \in 1..Len(list_ptr) :
             line(i).cmd = "LIST" /\ line(i).list_ip = list_ptr[i].list_ip
       /\ over.cmd = "LISTOVER"
  BY DEF over
<1> HIDE DEF line
<1>9. Count(listing, Ends) = 1
  <2>1. \A i \in 1..Len(lines) : lines[i].cmd \notin Ends
    <3> TAKE i \in 1..Len(lines)
    <3>1. i \in 1..Len(list_ptr) /\ lines[i] = line(i)
      BY <1>5
    <3>2. lines[i].cmd = "LIST"
      BY <1>8, <3>1
    <3> QED
      BY <3>2 DEF Ends
  <2>2. Count(lines, Ends) = 0
    BY <1>5, <2>1, CountNone
  <2>3. over.cmd \in Ends
    BY DEF over, Ends
  <2> QED
    BY <1>5, <1>6, <2>2, <2>3, CountAppend
<1> HIDE DEF listing
<1>10. Whole(listing)
  <2> SUFFICES ASSUME NEW i \in 1..Len(listing), listing[i].cmd = "LIST"
               PROVE  /\ i + 1 \in 1..Len(listing)
                      /\ \/ listing[i + 1].cmd = "LISTOVER"
                         \/ /\ listing[i + 1].cmd = "LIST"
                            /\ Port[listing[i].list_ip]
                                 <= Port[listing[i + 1].list_ip]
    BY DEF Whole
  <2>1. i \in 1..Len(list_ptr)
    <3>1. over.cmd # "LIST"
      BY DEF over
    <3> QED
      BY <1>3, <1>7, <3>1
  <2>2. CASE i = Len(list_ptr)
    <3>1. i + 1 \in 1..Len(listing) /\ listing[i + 1] = over
      BY <1>3, <1>7, <2>1, <2>2
    <3>2. over.cmd = "LISTOVER"
      BY DEF over
    <3> QED
      BY <3>1, <3>2
  <2>3. CASE i # Len(list_ptr)
    <3>1. i \in Nat /\ i + 1 \in 1..Len(list_ptr) /\ i < i + 1
      <4>1. Len(list_ptr) \in Nat
        BY <1>3
      <4> QED
        BY <2>1, <2>3, <4>1
    <3>2. PortAt(list_ptr, i) <= PortAt(list_ptr, i + 1)
      BY <1>3, <2>1, <3>1 DEF IInv, InPortOrder
    <3>3. /\ listing[i].list_ip = list_ptr[i].list_ip
          /\ listing[i + 1].list_ip = list_ptr[i + 1].list_ip
          /\ listing[i + 1].cmd = "LIST"
      BY <1>7, <1>8, <2>1, <3>1
    <3> QED
      BY <1>7, <1>3, <3>1, <3>2, <3>3 DEF PortAt
  <2> QED
    BY <2>2, <2>3
<1>11. \A c \in Conns : sent[c] = IF c = conn THEN listing ELSE << >>
  BY <1>2 DEF Nothing
<1>12. sent \in [Conns -> Seq(ReplyTypes)]
  BY <1>2, <1>7, EmptyStream DEF Nothing
<1> HIDE DEF sent
<1>13. Answers(sent)
  <2>1. \A c \in Conns : c > Len(host) => sent[c] = << >>
    BY <1>2, <1>3, <1>11
  <2>2. "LIST" \in Awaited
    BY DEF Awaited
  <2> QED
    BY <1>2, <1>9, <1>10, <1>11, <1>12, <2>1, <2>2, EmptyStream DEF Answers
<1>14. send_socket' \in Fds \cup {STDIN}
  BY <1>1, <1>3
<1> QED
  BY <1>1, <1>13, <1>14, HandlerStep

(* The block lists.                                                        *)
LEMMA ReplaceType ==
    ASSUME NEW entries \in [1..BLOCKS -> Hosts \cup {Null}], NEW old,
           NEW new \in Hosts \cup {Null}
    PROVE  Replace(entries, old, new) \in [1..BLOCKS -> Hosts \cup {Null}]
BY DEF Replace

LEMMA ChangeBlockersStep ==
    ASSUME IInv, NEW cmd \in {"BLOCK", "UNBLOCK"}, Request(cmd),
           NEW old, NEW new \in Hosts \cup {Null}, ChangeBlockers(old, new),
           UNCHANGED <<list_ptr, send_socket, socketVars, replies, peer>>,
           UNCHANGED clientVars
    PROVE  IInv'
<1>1. /\ Visit /\ sock_index # server_socket /\ requests[conn] # << >>
      /\ requests' = [requests EXCEPT ![conn] = Tail(@)]
      /\ UNCHANGED <<C_ip, backlog, host>>
  BY DEF Request, conn
<1>2. rcv_data.cmd = cmd /\ cmd \notin Awaited
  BY DEF Request, Awaited
<1>3. /\ blockers \in [Slots -> [1..BLOCKS -> Hosts \cup {Null}]]
      /\ send_socket' \in Fds \cup {STDIN}
      /\ replies \in [Conns -> Seq(ReplyTypes)]
      /\ peer \in [Conns -> {"open", "closed", "unread", "reset"}]
  BY DEF IInv, TypeOK
<1>4. /\ running' \in BOOLEAN
      /\ blockers' \in [Slots -> [1..BLOCKS -> Hosts \cup {Null}]]
  <2> DEFINE z == Entry(rcv_data.ip)
  <2>1. CASE z \in Slots /\ running' = TRUE
             /\ blockers' = [blockers EXCEPT ![z] = Replace(@, old, new)]
    <3>1. Replace(blockers[z], old, new) \in [1..BLOCKS -> Hosts \cup {Null}]
      BY <1>3, <2>1, ReplaceType
    <3> HIDE DEF z
    <3> QED
      BY <1>3, <2>1, <3>1
  <2>2. CASE running' \in BOOLEAN /\ UNCHANGED blockers
    BY <1>3, <2>2
  <2>3. CASE z \notin Slots /\ running' = TRUE
             /\ blockers' = [blockers EXCEPT ![z] = Replace(@, old, new)]
    BY <1>3, <2>3
  <2> QED
    BY <2>1, <2>2, <2>3 DEF ChangeBlockers
<1>5. Arrives(Nothing)
  <2>1. \A c \in Conns : replies[c] \o Nothing[c] = replies[c]
    <3> TAKE c \in Conns
    <3>1. replies[c] \in Seq(ReplyTypes) /\ Nothing[c] = << >>
      BY <1>3 DEF Nothing
    <3> QED
      BY <3>1
  <2> QED
    BY <1>3, <1>4, <2>1 DEF Arrives
<1>6. Answers(Nothing)
  BY <1>2, EmptyStream DEF Answers, Nothing
<1> QED
  BY <1>1, <1>3, <1>4, <1>5, <1>6, AnswerStep

LEMMA BlockStep == IInv /\ Block /\ UNCHANGED clientVars => IInv'
<1> SUFFICES ASSUME IInv, Block, UNCHANGED clientVars PROVE IInv'
  OBVIOUS
<1>1. sender_ip \in Hosts
  BY RequestIsOf, VisitFacts DEF Block
<1> QED
  BY <1>1, ChangeBlockersStep DEF Block

LEMMA UnblockStep == IInv /\ Unblock /\ UNCHANGED clientVars => IInv'
BY ChangeBlockersStep DEF Unblock
-----------------------------------------------------------------------------
(* Steps that move nothing but the loop over the descriptors.              *)
LEMMA LoopStep ==
    ASSUME IInv, running' \in BOOLEAN, watch_list' \subseteq master_list,
           server_socket \in watch_list' => backlog # << >>,
           running = TRUE,
           UNCHANGED send_socket, UNCHANGED tableVars, UNCHANGED socketVars,
           UNCHANGED tcpVars, UNCHANGED clientVars
    PROVE  IInv'
<1>1. /\ UNCHANGED <<send_socket, list_ptr, C_ip, blockers>>
      /\ UNCHANGED <<master_list, head_socket, sock>>
      /\ UNCHANGED <<backlog, host, requests, replies, peer>>
      /\ UNCHANGED <<server, owed, acts>>
  BY DEF tableVars, socketVars, tcpVars, streamVars, clientVars
<1>2. TypeOK'
  BY <1>1 DEF IInv, TypeOK
<1>3. ConnsWereMade'
  BY <1>1 DEF IInv, ConnsWereMade
<1>4. ClientsAreConnected'
  BY <1>1 DEF IInv, ClientsAreConnected
<1>5. OneRowPerLogin'
  BY <1>1 DEF IInv, OneRowPerLogin, LoggedIn
<1>6. EndForEachCommand'
  BY <1>1 DEF IInv, EndForEachCommand, Count
<1>7. InPortOrder(list_ptr)'
  BY <1>1 DEF IInv, InPortOrder, PortAt
<1>8. \A c \in Conns : Whole(replies'[c])
  BY <1>1 DEF IInv
<1> QED
  BY <1>2, <1>3, <1>4, <1>5, <1>6, <1>7, <1>8 DEF IInv

LEMMA SelectStep == IInv /\ Select /\ UNCHANGED clientVars => IInv'
<1> SUFFICES ASSUME IInv, Select, UNCHANGED clientVars PROVE IInv'
  OBVIOUS
<1>1. /\ running = TRUE /\ running' \in BOOLEAN
      /\ UNCHANGED send_socket /\ UNCHANGED tableVars
      /\ UNCHANGED socketVars /\ UNCHANGED tcpVars
      /\ watch_list' = Ready
  BY DEF Select, AtSelect, IInv, TypeOK
<1>2. Ready \subseteq master_list
  BY DEF Ready
<1>3. server_socket \in Ready => backlog # << >>
  BY DEF Ready, Readable
<1> QED
  BY <1>1, <1>2, <1>3, LoopStep

LEMMA CrashStep ==
    IInv /\ (AcceptBeyondTable \/ remove_from_list) /\ UNCHANGED clientVars
      => IInv'
<1> SUFFICES ASSUME IInv, AcceptBeyondTable \/ remove_from_list,
                    UNCHANGED clientVars
             PROVE  IInv'
  OBVIOUS
<1>1. /\ Visit /\ running = TRUE /\ running' \in BOOLEAN
      /\ UNCHANGED send_socket /\ UNCHANGED tableVars
      /\ UNCHANGED socketVars /\ UNCHANGED tcpVars
  BY DEF AcceptBeyondTable, remove_from_list, Visit, IInv, TypeOK
<1>2. watch_list' \subseteq watch_list /\ watch_list \subseteq master_list
  BY <1>1 DEF Visit, IInv, TypeOK
<1>3. server_socket \in watch_list => backlog # << >>
  BY DEF IInv, ConnsWereMade
<1> QED
  BY <1>1, <1>2, <1>3, LoopStep

LEMMA BlockedCommandStep ==
    ASSUME IInv, NEW ip \in Hosts, BlockedCommand(ip), UNCHANGED clientVars
    PROVE  IInv'
<1>1. /\ running = TRUE /\ running' \in BOOLEAN
      /\ UNCHANGED send_socket /\ UNCHANGED tableVars
      /\ UNCHANGED socketVars /\ UNCHANGED tcpVars /\ UNCHANGED watch_list
  BY DEF BlockedCommand, AtSelect, IInv, TypeOK
<1>2. watch_list \subseteq master_list
  BY DEF IInv, TypeOK
<1>3. server_socket \in watch_list => backlog # << >>
  BY DEF IInv, ConnsWereMade
<1> QED
  BY <1>1, <1>2, <1>3, LoopStep

-----------------------------------------------------------------------------
(* Steps that change the table.                                            *)
Owners == [fd \in {x \in Fds : sock[x] # 0} |-> host[sock[fd]]]

LEMMA RowsFit ==
    ASSUME IInv, running
    PROVE  Fits(list_ptr, Owners, Range(C_ip))
<1>1. OneRowPerLogin /\ master_list = {server_socket} \cup DOMAIN Owners
  BY DEF IInv, OneRowPerLogin, Owners
<1>2. DOMAIN Owners \subseteq Fds /\ server_socket \notin Fds
  BY SizesAssumption DEF Owners, Fds, server_socket
<1>3. list_ptr \in Seq(Rows) /\ DOMAIN list_ptr = 1..Len(list_ptr)
  BY LenProperties DEF IInv, TypeOK
<1>4. ASSUME NEW fd \in DOMAIN Owners
      PROVE  \E i \in 1..Len(list_ptr) :
                /\ list_ptr[i].state = "logged-in"
                /\ list_ptr[i].fd_socket = fd /\ list_ptr[i].list_ip = Owners[fd]
                /\ \A j \in 1..Len(list_ptr) :
                      list_ptr[j].state = "logged-in"
                      /\ list_ptr[j].fd_socket = fd => j = i
  <2>1. fd \in master_list \ {server_socket} /\ Owners[fd] = host[sock[fd]]
    BY <1>1, <1>2 DEF Owners
  <2>2. PICK i \in LoggedIn :
           /\ list_ptr[i].fd_socket = fd
           /\ list_ptr[i].list_ip = host[sock[fd]]
           /\ \A j \in LoggedIn : list_ptr[j].fd_socket = fd => j = i
    BY <1>1, <2>1 DEF OneRowPerLogin
  <2> QED
    BY <1>3, <2>1, <2>2 DEF LoggedIn
<1>5. ASSUME NEW i \in 1..Len(list_ptr)
      PROVE  /\ list_ptr[i].state = "logged-in" =>
                   list_ptr[i].fd_socket \in DOMAIN Owners
             /\ list_ptr[i].list_ip \in Range(C_ip)
  <2>1. list_ptr[i].fd_socket \in Fds
    <3>1. list_ptr[i] \in Rows
      BY <1>3, ElementOfSeq
    <3> QED
      BY <3>1 DEF Rows
  <2>2. list_ptr[i].state = "logged-in" => list_ptr[i].fd_socket \in master_list
    BY <1>1, <1>3 DEF OneRowPerLogin, LoggedIn
  <2>3. list_ptr[i].list_ip \in Range(C_ip)
    BY <1>1, <1>3 DEF OneRowPerLogin
  <2> QED
    BY <1>1, <1>2, <2>1, <2>2, <2>3
<1> QED
  BY <1>4, <1>5 DEF Fits

LEMMA FitIsOneRow ==
    ASSUME list_ptr' \in Seq(Rows), Fits(list_ptr', Owners', Range(C_ip')),
           master_list' = {server_socket} \cup {fd \in Fds : sock'[fd] # 0},
           \A fd \in master_list' : fd <= head_socket'
    PROVE  OneRowPerLogin'
<1>1. DOMAIN list_ptr' = 1..Len(list_ptr')
  BY LenProperties
<1>2. /\ DOMAIN Owners' = {fd \in Fds : sock'[fd] # 0}
      /\ \A fd \in DOMAIN Owners' : Owners'[fd] = host'[sock'[fd]]
  BY DEF Owners
<1>3. ASSUME NEW fd \in master_list' \ {server_socket}
      PROVE  \E i \in LoggedIn' :
                /\ list_ptr'[i].fd_socket = fd
                /\ list_ptr'[i].list_ip = host'[sock'[fd]]
                /\ \A j \in LoggedIn' : list_ptr'[j].fd_socket = fd => j = i
  <2>1. fd \in DOMAIN Owners'
    BY <1>2
  <2>2. PICK i \in 1..Len(list_ptr') :
           /\ list_ptr'[i].state = "logged-in"
           /\ list_ptr'[i].fd_socket = fd /\ list_ptr'[i].list_ip = Owners'[fd]
           /\ \A j \in 1..Len(list_ptr') :
                 list_ptr'[j].state = "logged-in"
                 /\ list_ptr'[j].fd_socket = fd => j = i
    BY <2>1 DEF Fits
  <2> QED
    BY <1>1, <1>2, <2>1, <2>2 DEF LoggedIn
<1>4. \A i \in LoggedIn' : list_ptr'[i].fd_socket \in master_list'
  BY <1>1, <1>2 DEF LoggedIn, Fits
<1>5. \A i \in DOMAIN list_ptr' : list_ptr'[i].list_ip \in Range(C_ip')
  BY <1>1 DEF Fits
<1> QED
  BY <1>3, <1>4, <1>5 DEF OneRowPerLogin

LEMMA SortedTable ==
    ASSUME NEW rows \in Seq(Rows), list_ptr' = sort_list_port(rows)
    PROVE  /\ list_ptr' \in Seq(Rows) /\ Len(list_ptr') = Len(rows)
           /\ InPortOrder(list_ptr)'
<1> DEFINE sorted == sort_list_port(rows)
<1>1. /\ sorted \in Seq(Rows) /\ Len(sorted) = Len(rows)
      /\ \A k, l \in 1..Len(rows) : k < l =>
            PortAt(sorted, k) <= PortAt(sorted, l)
  BY SortedRows
<1>2. DOMAIN sorted = 1..Len(rows)
  BY <1>1, LenProperties
<1> HIDE DEF sorted
<1>3. InPortOrder(sorted)
  BY <1>1, <1>2 DEF InPortOrder
<1> QED
  BY <1>1, <1>3 DEF sorted, InPortOrder, PortAt

LEMMA ListCommandStep == IInv /\ ListCommand /\ UNCHANGED clientVars => IInv'
<1> SUFFICES ASSUME IInv, ListCommand, UNCHANGED clientVars PROVE IInv'
  OBVIOUS
<1>1. /\ running = TRUE /\ list_ptr' = sort_list_port(list_ptr)
      /\ UNCHANGED <<running, watch_list, send_socket, C_ip, blockers>>
      /\ UNCHANGED <<master_list, head_socket, sock>>
      /\ UNCHANGED <<backlog, host, requests, replies, peer>>
      /\ UNCHANGED <<server, owed, acts>>
  BY DEF ListCommand, AtSelect, socketVars, tcpVars, streamVars, clientVars,
         IInv, TypeOK
<1>2. list_ptr \in Seq(Rows)
  BY DEF IInv, TypeOK
<1>3. /\ list_ptr' \in Seq(Rows) /\ Len(list_ptr') = Len(list_ptr)
      /\ InPortOrder(list_ptr)'
  BY <1>1, <1>2, SortedTable
<1>4. TypeOK'
  BY <1>1, <1>3 DEF IInv, TypeOK
<1>5. ConnsWereMade'
  BY <1>1 DEF IInv, ConnsWereMade
<1>6. ClientsAreConnected'
  BY <1>1 DEF IInv, ClientsAreConnected
<1>7. OneRowPerLogin'
  <2>1. Fits(list_ptr', Owners, Range(C_ip))
    BY <1>1, <1>2, RowsFit, FitsSorted
  <2>2. Owners' = Owners
    BY <1>1 DEF Owners
  <2>3. /\ master_list = {server_socket} \cup {fd \in Fds : sock[fd] # 0}
        /\ \A fd \in master_list : fd <= head_socket
    BY <1>1 DEF IInv, OneRowPerLogin
  <2> QED
    BY <1>1, <1>3, <2>1, <2>2, <2>3, FitIsOneRow
<1>8. EndForEachCommand'
  BY <1>1 DEF IInv, EndForEachCommand, Count
<1>9. \A c \in Conns : Whole(replies'[c])
  BY <1>1 DEF IInv
<1> QED
  BY <1>3, <1>4, <1>5, <1>6, <1>7, <1>8, <1>9 DEF IInv

LEMMA LogoutStep == IInv /\ Logout /\ UNCHANGED clientVars => IInv'
<1> SUFFICES ASSUME IInv, Logout, UNCHANGED clientVars PROVE IInv'
  OBVIOUS
<1> DEFINE leave(i) == IF i \in LeavingRows(sock_index)
                       THEN [list_ptr[i] EXCEPT !.state = "logged-out"]
                       ELSE list_ptr[i]
           marked == [i \in DOMAIN list_ptr |-> leave(i)]
<1>1. /\ Request("LOGOUT") /\ running' = TRUE
      /\ list_ptr' = sort_list_port(marked)
      /\ sock' = [sock EXCEPT ![sock_index] = 0]
      /\ master_list' = master_list \ {sock_index}
      /\ peer' = [peer EXCEPT ![conn] = "closed"]
      /\ requests' = [requests EXCEPT ![conn] = Tail(@)]
      /\ UNCHANGED <<blockers, send_socket, head_socket, replies, C_ip, backlog,
                     host>>
      /\ UNCHANGED <<server, owed, acts>>
  BY DEF Logout, Request, conn, clientVars
<1>2. /\ Visit /\ sock_index # server_socket /\ requests[conn] # << >>
      /\ rcv_data.cmd = "LOGOUT"
  BY <1>1, RequestIsOf
<1>3. /\ running = TRUE /\ sock_index \in Fds /\ sock_index \in master_list
      /\ conn \in 1..Len(host) /\ conn \in Conns
      /\ watch_list' = watch_list \ {sock_index}
  BY <1>2, VisitFacts DEF Visit
<1>4. /\ list_ptr \in Seq(Rows) /\ DOMAIN list_ptr = 1..Len(list_ptr)
      /\ Len(list_ptr) \in Nat
      /\ requests \in [Conns -> Seq(RequestTypes)]
      /\ sock \in [Fds -> Conns \cup {0}]
      /\ peer \in [Conns -> {"open", "closed", "unread", "reset"}]
      /\ watch_list \subseteq master_list
      /\ Len(host) \in Nat
  BY LenProperties DEF IInv, TypeOK
<1>5. ASSUME NEW i \in 1..Len(list_ptr)
      PROVE  /\ leave(i) \in Rows
             /\ leave(i).fd_socket = list_ptr[i].fd_socket
             /\ leave(i).list_ip = list_ptr[i].list_ip
             /\ leave(i).state = IF list_ptr[i].fd_socket = sock_index
                                 THEN "logged-out" ELSE list_ptr[i].state
  <2>1. list_ptr[i] \in Rows
    BY <1>4, ElementOfSeq
  <2>2. i \in LeavingRows(sock_index) <=> list_ptr[i].fd_socket = sock_index
    BY <1>4 DEF LeavingRows, RowsOf
  <2> QED
    BY <2>1, <2>2 DEF Rows
<1> HIDE DEF leave
<1>6. /\ marked \in Seq(Rows) /\ Len(marked) = Len(list_ptr)
      /\ \A i \in 1..Len(list_ptr) : marked[i] = leave(i)
  <2>1. marked \in [1..Len(list_ptr) -> Rows]
    BY <1>4, <1>5
  <2>2. marked \in Seq(Rows)
    BY <1>4, <2>1, SeqDef
  <2>3. DOMAIN marked = 1..Len(marked) /\ Len(marked) \in Nat
    BY <2>2, LenProperties
  <2> QED
    BY <1>4, <2>1, <2>2, <2>3
<1> HIDE DEF marked
<1>7. /\ list_ptr' \in Seq(Rows) /\ Len(list_ptr') = Len(list_ptr)
      /\ InPortOrder(list_ptr)'
  BY <1>1, <1>6, SortedTable
<1>8. /\ Tail(requests[conn]) \in Seq(RequestTypes)
      /\ requests'[conn] = Tail(requests[conn])
      /\ \A c \in Conns : c # conn => requests'[c] = requests[c]
      /\ requests' \in [Conns -> Seq(RequestTypes)]
  <2>1. requests[conn] \in Seq(RequestTypes)
    BY <1>3, <1>4
  <2>2. Tail(requests[conn]) \in Seq(RequestTypes)
    BY <1>2, <2>1, HeadTailProperties
  <2> QED
    BY <1>1, <1>3, <1>4, <2>2
(* Who logged out closed before: no client is on this connection.          *)
<1>9. ASSUME NEW h \in Hosts, server[h] # LoggedOut
      PROVE  server[h] # conn /\ server[h] \in Conns
  <2>1. /\ server[h] \in 0..Len(host) /\ Len(host) <= MaxConns
        /\ \A i \in 1..Len(requests[server[h]]) :
              requests[server[h]][i].cmd # "LOGOUT"
    BY <1>9 DEF IInv, ClientsAreConnected, ConnsWereMade
  <2>2. server[h] \in Conns
    BY <1>4, <1>9, <2>1, SizesAssumption DEF Conns, LoggedOut
  <2>3. requests[conn][1] = rcv_data /\ 1 \in 1..Len(requests[conn])
    <3>1. requests[conn] \in Seq(RequestTypes)
      BY <1>3, <1>4
    <3>2. Len(requests[conn]) \in Nat /\ Len(requests[conn]) # 0
      BY <1>2, <3>1, LenProperties, EmptySeq
    <3> QED
      BY <1>2, <3>1, <3>2 DEF rcv_data, conn
  <2> QED
    BY <1>2, <2>1, <2>2, <2>3
<1>10. TypeOK'
  <2>1. /\ sock' \in [Fds -> Conns \cup {0}]
        /\ peer' \in [Conns -> {"open", "closed", "unread", "reset"}]
        /\ master_list' \subseteq master_list
        /\ watch_list' \subseteq master_list'
    BY <1>1, <1>3, <1>4
  <2> QED
    BY <1>1, <1>7, <1>8, <2>1 DEF IInv, TypeOK
<1>11. ConnsWereMade'
  <2>1. /\ Len(host) <= MaxConns
        /\ \A i \in 1..Len(backlog) : backlog[i] \in 1..Len(host)
        /\ \A i, j \in 1..Len(backlog) : backlog[i] = backlog[j] => i = j
        /\ server_socket \in watch_list => backlog # << >>
        /\ \A fd \in Fds : sock[fd] \in 0..Len(host)
        /\ \A c \in Conns :
              c > Len(host) => requests[c] = << >> /\ replies[c] = << >>
    BY DEF IInv, ConnsWereMade
  <2>2. \A fd \in Fds : sock'[fd] \in 0..Len(host)
    BY <1>1, <1>3, <1>4, <2>1
  <2>3. \A c \in Conns :
           c > Len(host) => requests'[c] = << >> /\ replies'[c] = << >>
    BY <1>1, <1>3, <1>4, <1>8, <2>1
  <2> QED
    BY <1>1, <1>3, <2>1, <2>2, <2>3 DEF ConnsWereMade
<1>12. ClientsAreConnected'
  <2> SUFFICES ASSUME NEW h \in Hosts
               PROVE  /\ server'[h] \in 0..Len(host')
                      /\ server'[h] # LoggedOut =>
                         /\ host'[server'[h]] = h /\ peer'[server'[h]] = "open"
                         /\ \A i \in 1..Len(requests'[server'[h]]) :
                               requests'[server'[h]][i].cmd # "LOGOUT"
    BY DEF ClientsAreConnected
  <2>1. /\ server[h] \in 0..Len(host)
        /\ server[h] # LoggedOut =>
           /\ host[server[h]] = h /\ peer[server[h]] = "open"
           /\ \A i \in 1..Len(requests[server[h]]) :
                 requests[server[h]][i].cmd # "LOGOUT"
    BY DEF IInv, ClientsAreConnected
  <2>2. ASSUME server[h] # LoggedOut
        PROVE  /\ requests'[server[h]] = requests[server[h]]
               /\ peer'[server[h]] = peer[server[h]]
    <3>1. server[h] # conn /\ server[h] \in Conns
      BY <1>9, <2>2
    <3> HIDE DEF conn
    <3> QED
      BY <1>1, <1>4, <1>8, <3>1
  <2> QED
    BY <1>1, <2>1, <2>2
<1>13. OneRowPerLogin'
  <2>1. Fits(list_ptr, Owners, Range(C_ip))
    BY <1>3, RowsFit
  <2>2. /\ DOMAIN Owners' = DOMAIN Owners \ {sock_index}
        /\ \A fd \in DOMAIN Owners' : Owners'[fd] = Owners[fd]
    BY <1>1, <1>3, <1>4 DEF Owners
  <2>3. Fits(marked, Owners', Range(C_ip))
    <3> HIDE DEF Owners
    <3>1. Without(list_ptr, sock_index, marked)
      BY <1>5, <1>6 DEF Without
    <3>2. list_ptr \in Seq(Rows)
      BY <1>4
    <3> QED
      BY <2>1, <2>2, <3>1, <3>2, FitsLeave
  <2>4. Fits(list_ptr', Owners', Range(C_ip'))
    BY <1>1, <1>6, <2>3, FitsSorted
  <2>5. /\ master_list' = {server_socket} \cup {fd \in Fds : sock'[fd] # 0}
        /\ \A fd \in master_list' : fd <= head_socket'
    <3>1. /\ master_list = {server_socket} \cup {fd \in Fds : sock[fd] # 0}
          /\ \A fd \in master_list : fd <= head_socket
      BY <1>3 DEF IInv, OneRowPerLogin
    <3>2. sock_index # server_socket /\ sock_index \in Fds
      BY <1>2, <1>3
    <3>3. \A fd \in Fds : sock'[fd] # 0 <=> fd # sock_index /\ sock[fd] # 0
      BY <1>1, <1>4, <3>2
    <3>4. master_list' = master_list \ {sock_index} /\ head_socket' = head_socket
      BY <1>1
    <3> QED
      BY <3>1, <3>2, <3>3, <3>4
  <2> QED
    BY <1>7, <2>4, <2>5, FitIsOneRow
<1>14. EndForEachCommand'
  <2> SUFFICES ASSUME NEW h \in Hosts, server[h] \in Conns
               PROVE  owed[h] = Count(requests'[server[h]], Awaited)
                                + Count(replies[server[h]], Ends)
                                + (IF server[h] \in Range(backlog) THEN 1 ELSE 0)
    BY <1>1 DEF EndForEachCommand
  <2>1. requests'[server[h]] = requests[server[h]]
    BY <1>8, <1>9 DEF Conns, LoggedOut
  <2> QED
    BY <1>3, <2>1 DEF IInv, EndForEachCommand
<1>15. \A c \in Conns : Whole(replies'[c])
  BY <1>1 DEF IInv
<1> QED
  BY <1>7, <1>10, <1>11, <1>12, <1>13, <1>14, <1>15 DEF IInv

(* A descriptor is free as long as the table has room: each one in use has *)
(* a row of its own.                                                       *)
Free == {fd \in Fds : sock[fd] = 0}

LEMMA DescriptorIsFree ==
    ASSUME IInv, running, ~Full
    PROVE  Min(Free) \in Free
<1>1. /\ list_ptr \in Seq(Rows) /\ Len(list_ptr) \in Nat
      /\ Len(list_ptr) < SLOTS /\ SLOTS \in Nat
  <2>1. list_ptr \in Seq(Rows) /\ Len(list_ptr) <= SLOTS
    BY DEF IInv, TypeOK
  <2> QED
    BY <2>1, SizesAssumption, LenProperties DEF Full
<1>2. Free # {}
  <2> SUFFICES ASSUME Free = {} PROVE FALSE
    OBVIOUS
  <2> DEFINE rowOf(fd) == CHOOSE i \in 1..Len(list_ptr) :
                             /\ list_ptr[i].state = "logged-in"
                             /\ list_ptr[i].fd_socket = fd
             f == [fd \in Fds |-> rowOf(fd)]
  <2>1. ASSUME NEW fd \in Fds
        PROVE  rowOf(fd) \in 1..Len(list_ptr)
               /\ list_ptr[rowOf(fd)].fd_socket = fd
    <3>1. fd \in DOMAIN Owners
      BY DEF Free, Owners
    <3>2. \E i \in 1..Len(list_ptr) :
             /\ list_ptr[i].state = "logged-in"
             /\ list_ptr[i].fd_socket = fd
      BY <3>1, RowsFit DEF Fits
    <3> QED
      BY <3>2
  <2> HIDE DEF rowOf
  <2>2. f \in [Fds -> 1..Len(list_ptr)]
    BY <2>1
  <2>3. /\ IsFiniteSet(Fds) /\ Cardinality(Fds) = SLOTS
        /\ IsFiniteSet(1..Len(list_ptr))
        /\ Cardinality(1..Len(list_ptr)) = Len(list_ptr)
    <3>1. Fds = 4..3 + SLOTS /\ 3 + SLOTS \in Int
      BY <1>1 DEF Fds, server_socket
    <3>2. /\ IsFiniteSet(4..3 + SLOTS)
          /\ Cardinality(4..3 + SLOTS)
               = IF 4 > 3 + SLOTS THEN 0 ELSE (3 + SLOTS) - 4 + 1
      BY <3>1, FS_Interval
    <3>3. Cardinality(4..3 + SLOTS) = SLOTS
      BY <1>1, <3>2
    <3>4. IsFiniteSet(1..Len(list_ptr))
          /\ Cardinality(1..Len(list_ptr))
               = IF 1 > Len(list_ptr) THEN 0 ELSE Len(list_ptr) - 1 + 1
      <4>1. Len(list_ptr) \in Int
        BY <1>1
      <4> QED
        BY <4>1, FS_Interval
    <3>5. Cardinality(1..Len(list_ptr)) = Len(list_ptr)
      BY <1>1, <3>4
    <3> QED
      BY <3>1, <3>2, <3>3, <3>4, <3>5
  <2> HIDE DEF f
  <2>4. \E fd, fd2 \in Fds : fd # fd2 /\ f[fd] = f[fd2]
    <3>1. Cardinality(1..Len(list_ptr)) < Cardinality(Fds)
      BY <1>1, <2>3
    <3> QED
      BY <2>2, <2>3, <3>1, FS_PigeonHole
  <2> QED
    BY <2>1, <2>4 DEF f
<1>3. Free \in SUBSET Nat
  BY SizesAssumption DEF Free, Fds, server_socket
<1> QED
  BY <1>2, <1>3, MinIsLeast

LEMMA BacklogFacts ==
    ASSUME IInv, backlog # << >>
    PROVE  /\ Head(backlog) \in 1..Len(host) /\ Head(backlog) \in Conns
           /\ Tail(backlog) \in Seq(Conns)
           /\ \A i \in 1..Len(Tail(backlog)) : Tail(backlog)[i] \in 1..Len(host)
           /\ \A i, j \in 1..Len(Tail(backlog)) :
                 Tail(backlog)[i] = Tail(backlog)[j] => i = j
           /\ \A c : c \in Range(Tail(backlog)) <=>
                        c \in Range(backlog) /\ c # Head(backlog)
           /\ Head(backlog) \in Range(backlog)
<1> DEFINE t == Tail(backlog)
<1>1. backlog \in Seq(Conns) /\ Len(backlog) \in Nat /\ Len(backlog) # 0
  <2>1. backlog \in Seq(Conns)
    BY DEF IInv, TypeOK
  <2> QED
    BY <2>1, LenProperties, EmptySeq
<1>2. /\ Head(backlog) \in Conns /\ t \in Seq(Conns)
      /\ Len(t) = Len(backlog) - 1 /\ Len(t) \in Nat
      /\ \A i \in 1..Len(t) : t[i] = backlog[i + 1]
      /\ Head(backlog) = backlog[1]
  BY <1>1, HeadTailProperties
<1> HIDE DEF t
<1>3. /\ \A i \in 1..Len(backlog) : backlog[i] \in 1..Len(host)
      /\ \A i, j \in 1..Len(backlog) : backlog[i] = backlog[j] => i = j
  BY DEF IInv, ConnsWereMade
<1>4. /\ DOMAIN backlog = 1..Len(backlog) /\ DOMAIN t = 1..Len(t)
      /\ 1 \in 1..Len(backlog)
      /\ \A i \in 1..Len(t) : i + 1 \in 1..Len(backlog)
      /\ \A i \in 1..Len(backlog) : i # 1 => i - 1 \in 1..Len(t) /\ (i - 1) + 1 = i
  BY <1>1, <1>2, LenProperties
<1>5. Head(backlog) \in 1..Len(host) /\ Head(backlog) \in Range(backlog)
  BY <1>2, <1>3, <1>4 DEF Range
<1>6. \A i \in 1..Len(t) : t[i] \in 1..Len(host)
  BY <1>2, <1>3, <1>4
<1>7. ASSUME NEW i \in 1..Len(t), NEW j \in 1..Len(t), t[i] = t[j]
      PROVE  i = j
  <2>1. i + 1 = j + 1
    BY <1>2, <1>3, <1>4, <1>7
  <2> QED
    BY <1>2, <2>1
<1>8. ASSUME NEW c
      PROVE  c \in Range(t) <=> c \in Range(backlog) /\ c # Head(backlog)
  <2>1. ASSUME c \in Range(t)
        PROVE  c \in Range(backlog) /\ c # Head(backlog)
    <3>1. PICK i \in 1..Len(t) : c = t[i]
      BY <1>4, <2>1 DEF Range
    <3>2. c = backlog[i + 1] /\ i + 1 \in 1..Len(backlog) /\ i + 1 # 1
      BY <1>2, <1>4, <3>1
    <3> QED
      BY <1>2, <1>3, <1>4, <3>2 DEF Range
  <2>2. ASSUME c \in Range(backlog), c # Head(backlog)
        PROVE  c \in Range(t)
    <3>1. PICK i \in 1..Len(backlog) : c = backlog[i]
      BY <1>4, <2>2 DEF Range
    <3>2. i # 1
      BY <1>2, <2>2, <3>1
    <3>3. i - 1 \in 1..Len(t) /\ c = t[i - 1]
      BY <1>2, <1>4, <3>1, <3>2
    <3> QED
      BY <1>4, <3>3 DEF Range
  <2> QED
    BY <2>1, <2>2
<1> QED
  BY <1>2, <1>5, <1>6, <1>7, <1>8 DEF t

LEMMA AcceptStep == IInv /\ Accept /\ UNCHANGED clientVars => IInv'
<1> SUFFICES ASSUME IInv, Accept, UNCHANGED clientVars PROVE IInv'
  OBVIOUS
<1> DEFINE c == Head(backlog)
           fdaccept == Min(Free)
           row == [list_ip |-> host[c], fd_socket |-> fdaccept,
                   state |-> "logged-in"]
           over == [cmd |-> "LOGLISTOVER"]
           sent == Text(c, over)
           rows == Append(list_ptr, row)
<1>1. /\ Visit /\ sock_index = server_socket /\ ~Full
      /\ backlog' = Tail(backlog)
      /\ sock' = [sock EXCEPT ![fdaccept] = c]
      /\ master_list' = master_list \cup {fdaccept}
      /\ head_socket' = Raised(fdaccept)
      /\ C_ip' = Append(C_ip, host[c])
      /\ list_ptr' = sort_list_port(rows)
      /\ Transmit(sent)
      /\ UNCHANGED <<send_socket, blockers, host, requests>>
      /\ UNCHANGED <<server, owed, acts>>
  BY DEF Accept, Free, clientVars
<1>2. /\ TypeOK /\ OneRowPerLogin /\ ConnsWereMade
      /\ list_ptr \in Seq(Rows) /\ C_ip \in Seq(Hosts) /\ host \in Seq(Hosts)
      /\ Len(list_ptr) = Len(C_ip) /\ Len(list_ptr) \in Nat
      /\ Len(list_ptr) < SLOTS
      /\ Len(host) \in Nat
      /\ sock \in [Fds -> Conns \cup {0}]
      /\ watch_list \subseteq master_list
      /\ master_list \subseteq Fds \cup {server_socket}
      /\ head_socket \in Fds \cup {server_socket}
      /\ replies \in [Conns -> Seq(ReplyTypes)]
      /\ requests \in [Conns -> Seq(RequestTypes)]
      /\ Fds \subseteq Nat /\ server_socket \notin Fds /\ server_socket \in Nat
  <2>1. TypeOK /\ OneRowPerLogin /\ ConnsWereMade
    BY DEF IInv
  <2>2. /\ list_ptr \in Seq(Rows) /\ Len(list_ptr) \in Nat
        /\ Len(list_ptr) < SLOTS /\ Len(host) \in Nat
    <3>1. list_ptr \in Seq(Rows) /\ Len(list_ptr) <= SLOTS /\ host \in Seq(Hosts)
      BY <2>1 DEF TypeOK
    <3> QED
      BY <1>1, <3>1, SizesAssumption, LenProperties DEF Full
  <2>3. Fds \subseteq Nat /\ server_socket \notin Fds /\ server_socket \in Nat
    BY SizesAssumption DEF Fds, server_socket
  <2> QED
    BY <2>1, <2>2, <2>3 DEF TypeOK
<1>3. running = TRUE /\ watch_list' = watch_list \ {server_socket}
      /\ backlog # << >>
  <2>1. running = TRUE /\ watch_list # {} /\ watch_list' = watch_list \ {sock_index}
    BY <1>1, <1>2 DEF Visit, TypeOK
  <2>2. watch_list \in SUBSET Nat
    BY <1>2
  <2>3. sock_index \in watch_list
    BY <2>1, <2>2, MinIsLeast DEF sock_index
  <2> QED
    BY <1>1, <1>2, <2>1, <2>3 DEF ConnsWereMade
<1>4. /\ c \in 1..Len(host) /\ c \in Conns
      /\ Tail(backlog) \in Seq(Conns)
      /\ \A i \in 1..Len(Tail(backlog)) : Tail(backlog)[i] \in 1..Len(host)
      /\ \A i, j \in 1..Len(Tail(backlog)) :
            Tail(backlog)[i] = Tail(backlog)[j] => i = j
      /\ \A d : d \in Range(Tail(backlog)) <=> d \in Range(backlog) /\ d # c
      /\ c \in Range(backlog)
  BY <1>3, BacklogFacts
<1>5. fdaccept \in Fds /\ sock[fdaccept] = 0
  BY <1>1, <1>3, DescriptorIsFree DEF Free
<1> HIDE DEF c, fdaccept
<1>6. host[c] \in Hosts /\ row \in Rows
  <2>1. host[c] \in Hosts
    BY <1>2, <1>4, ElementOfSeq
  <2> QED
    BY <1>5, <2>1 DEF Rows
<1>7. /\ rows \in Seq(Rows) /\ Len(rows) = Len(list_ptr) + 1
  BY <1>2, <1>6, AppendProperties
<1>8. /\ C_ip' \in Seq(Hosts) /\ Len(C_ip') = Len(C_ip) + 1
      /\ Range(C_ip) \cup {host[c]} \subseteq Range(C_ip')
  <2>1. /\ C_ip' \in Seq(Hosts) /\ Len(C_ip') = Len(C_ip) + 1
        /\ \A i \in 1..Len(C_ip) : C_ip'[i] = C_ip[i]
        /\ C_ip'[Len(C_ip) + 1] = host[c]
    BY <1>1, <1>2, <1>6, AppendProperties
  <2>2. DOMAIN C_ip = 1..Len(C_ip) /\ DOMAIN C_ip' = 1..Len(C_ip')
    BY <1>2, <2>1, LenProperties
  <2>3. /\ \A i \in 1..Len(C_ip) : i \in 1..Len(C_ip')
        /\ Len(C_ip) + 1 \in 1..Len(C_ip')
    BY <1>2, <2>1
  <2> QED
    BY <2>1, <2>2, <2>3 DEF Range
<1>9. /\ list_ptr' \in Seq(Rows) /\ Len(list_ptr') = Len(list_ptr) + 1
      /\ InPortOrder(list_ptr)'
  BY <1>1, <1>7, SortedTable
<1>10. over \in ReplyTypes /\ over.cmd # "LIST" /\ over.cmd \in Ends
  BY DEF ReplyTypes, Ends
<1> HIDE DEF over
<1>11. \A d \in Conns : sent[d] = IF d = c THEN <<over>> ELSE << >>
  BY <1>4 DEF Text, Nothing
<1>12. sent \in [Conns -> Seq(ReplyTypes)]
  <2>1. <<over>> \in Seq(ReplyTypes)
    BY <1>10, OneReply
  <2> HIDE DEF over
  <2>2. sent = [d \in Conns |-> IF d = c THEN <<over>> ELSE << >>]
    BY <1>4 DEF Text, Nothing
  <2> HIDE DEF sent
  <2> QED
    BY <2>1, <2>2, EmptyStream
<1> HIDE DEF sent
<1>13. Arrives(sent)
  BY <1>1, <1>2, <1>12, TransmitFacts
<1>14. ASSUME NEW d \in Conns
       PROVE  /\ Whole(sent[d])
              /\ Count(sent[d], Ends) = IF d = c THEN 1 ELSE 0
  <2>1. CASE d = c
    <3>1. sent[d] = <<over>>
      BY <1>11, <2>1
    <3>2. Whole(<<over>>) /\ Count(<<over>>, Ends) = 1
      BY <1>10, OneReply
    <3> QED
      BY <2>1, <3>1, <3>2
  <2>2. CASE d # c
    <3>1. sent[d] = << >>
      BY <1>11, <2>2
    <3> QED
      BY <2>2, <3>1, EmptyStream
  <2> QED
    BY <2>1, <2>2
<1>15. /\ sock' \in [Fds -> Conns \cup {0}]
       /\ sock'[fdaccept] = c
       /\ \A fd \in Fds : fd # fdaccept => sock'[fd] = sock[fd]
       /\ c # 0
  BY <1>1, <1>2, <1>4, <1>5
<1>16. TypeOK'
  <2>1. head_socket' \in Fds \cup {server_socket}
    BY <1>1, <1>2, <1>5 DEF Raised
  <2>2. Len(list_ptr') <= SLOTS /\ Len(C_ip') = Len(list_ptr')
    BY <1>2, <1>8, <1>9, SizesAssumption
  <2>3. /\ master_list' \subseteq Fds \cup {server_socket}
        /\ watch_list' \subseteq master_list'
    BY <1>1, <1>2, <1>3, <1>5
  <2> QED
    BY <1>1, <1>2, <1>4, <1>8, <1>9, <1>13, <1>15, <2>1, <2>2, <2>3
       DEF TypeOK, Arrives
<1>17. ConnsWereMade'
  <2>1. \A fd \in Fds : sock'[fd] \in 0..Len(host)
    BY SMTT(30), <1>2, <1>4, <1>15 DEF ConnsWereMade
  <2>2. ASSUME NEW d \in Conns, d > Len(host)
        PROVE  requests'[d] = << >> /\ replies'[d] = << >>
    <3>1. requests[d] = << >> /\ replies[d] = << >>
      BY <1>2, <2>2 DEF ConnsWereMade
    <3>2. sent[d] = << >>
      BY <1>2, <1>4, <1>11, <2>2
    <3>3. << >> \o << >> = << >>
      OBVIOUS
    <3> QED
      BY <1>1, <1>13, <3>1, <3>2, <3>3 DEF Arrives
  <2>3. Len(host) <= MaxConns
    BY <1>2 DEF ConnsWereMade
  <2> QED
    BY <1>1, <1>3, <1>4, <2>1, <2>2, <2>3 DEF ConnsWereMade
<1>18. ClientsAreConnected'
  <2> SUFFICES ASSUME NEW h \in Hosts
               PROVE  /\ server'[h] \in 0..Len(host')
                      /\ server'[h] # LoggedOut =>
                         /\ host'[server'[h]] = h /\ peer'[server'[h]] = "open"
                         /\ \A i \in 1..Len(requests'[server'[h]]) :
                               requests'[server'[h]][i].cmd # "LOGOUT"
    BY DEF ClientsAreConnected
  <2>1. /\ server[h] \in 0..Len(host)
        /\ server[h] # LoggedOut =>
           /\ host[server[h]] = h /\ peer[server[h]] = "open"
           /\ \A i \in 1..Len(requests[server[h]]) :
                 requests[server[h]][i].cmd # "LOGOUT"
    BY DEF IInv, ClientsAreConnected
  <2>2. server[h] # LoggedOut => server[h] \in Conns
    <3>1. Len(host) <= MaxConns
      BY <1>2 DEF ConnsWereMade
    <3> QED
      BY <1>2, <2>1, <3>1, SizesAssumption DEF Conns, LoggedOut
  <2>3. server[h] # LoggedOut => peer'[server[h]] = "open"
    BY <1>13, <2>1, <2>2 DEF Arrives
  <2> QED
    BY <1>1, <2>1, <2>3
<1>19. OneRowPerLogin'
  <2>1. Fits(list_ptr, Owners, Range(C_ip))
    BY <1>3, RowsFit
  <2>2. PICK more : more = Owners'
    OBVIOUS
  <2>3. /\ DOMAIN more = DOMAIN Owners \cup {fdaccept}
        /\ fdaccept \notin DOMAIN Owners
        /\ more[fdaccept] = host[c]
        /\ \A fd \in DOMAIN Owners : more[fd] = Owners[fd]
    BY <1>1, <1>2, <1>5, <1>15, <2>2 DEF Owners
  <2>4. /\ row.state = "logged-in" /\ row.fd_socket = fdaccept
        /\ row.list_ip = host[c]
    OBVIOUS
  <2> HIDE DEF row
  <2>5. Fits(rows, more, Range(C_ip'))
    <3>1. /\ row.fd_socket \notin DOMAIN Owners
          /\ DOMAIN more = DOMAIN Owners \cup {row.fd_socket}
          /\ more[row.fd_socket] = row.list_ip
          /\ Range(C_ip) \cup {row.list_ip} \subseteq Range(C_ip')
      BY <1>8, <2>3, <2>4
    <3> QED
      BY <1>2, <1>6, <2>1, <2>3, <2>4, <3>1, FitsAppend
  <2> HIDE DEF rows
  <2>6. Fits(list_ptr', Owners', Range(C_ip'))
    BY <1>1, <1>7, <2>2, <2>5, FitsSorted
  <2>7. /\ master_list = {server_socket} \cup {fd \in Fds : sock[fd] # 0}
        /\ \A fd \in master_list : fd <= head_socket
    BY <1>2, <1>3 DEF OneRowPerLogin
  <2>8. master_list' = {server_socket} \cup {fd \in Fds : sock'[fd] # 0}
    <3>1. \A fd \in Fds : sock'[fd] # 0 <=> fd = fdaccept \/ sock[fd] # 0
      BY <1>5, <1>15
    <3> QED
      BY <1>1, <1>5, <2>7, <3>1
  <2>9. \A fd \in master_list' : fd <= head_socket'
    <3>1. /\ head_socket \in Nat /\ fdaccept \in Nat
          /\ \A fd \in master_list : fd \in Nat
      BY <1>2, <1>5
    <3>2. fdaccept <= head_socket' /\ head_socket <= head_socket'
          /\ head_socket' \in Nat
      BY <1>1, <3>1 DEF Raised
    <3>3. \A fd \in master_list : fd <= head_socket'
      BY <2>7, <3>1, <3>2
    <3> QED
      BY <1>1, <3>2, <3>3
  <2> QED
    BY <1>9, <2>6, <2>8, <2>9, FitIsOneRow
<1>20. EndForEachCommand'
  <2> SUFFICES ASSUME running', NEW h \in Hosts, server'[h] \in Conns
               PROVE  owed'[h] = Count(requests'[server'[h]], Awaited)
                                 + Count(replies'[server'[h]], Ends)
                                 + (IF server'[h] \in Range(backlog') THEN 1 ELSE 0)
    BY DEF EndForEachCommand
  <2> DEFINE d == server[h]
  <2>1. server'[h] = d /\ owed'[h] = owed[h] /\ requests' = requests /\ d \in Conns
    BY <1>1
  <2>2. peer[d] = "open"
    BY <2>1 DEF IInv, ClientsAreConnected, LoggedOut, Conns
  <2>3. replies'[d] = replies[d] \o sent[d]
    BY <1>13, <2>1, <2>2 DEF Arrives
  <2>4. replies[d] \in Seq(ReplyTypes) /\ sent[d] \in Seq(ReplyTypes)
    BY <1>2, <1>12, <2>1
  <2>5. Count(replies'[d], Ends) = Count(replies[d], Ends) + Count(sent[d], Ends)
    BY <2>3, <2>4, CountConcat
  <2>6. Count(sent[d], Ends) = IF d = c THEN 1 ELSE 0
    BY <1>14, <2>1
  <2>7. owed[h] = Count(requests[d], Awaited) + Count(replies[d], Ends)
                  + (IF d \in Range(backlog) THEN 1 ELSE 0)
    BY <1>3, <2>1 DEF IInv, EndForEachCommand
  <2>8. /\ Count(replies[d], Ends) \in Nat
        /\ Count(requests[d], Awaited) \in Nat
    <3>1. requests[d] \in Seq(RequestTypes)
      BY <1>2, <2>1
    <3> QED
      BY <2>4, <3>1, CountType
  <2>9. (IF d \in Range(backlog) THEN 1 ELSE 0)
          = (IF d \in Range(backlog') THEN 1 ELSE 0) + (IF d = c THEN 1 ELSE 0)
    BY <1>1, <1>4
  <2> HIDE DEF d
  <2>10. owed[h] = Count(requests[d], Awaited) + Count(replies'[d], Ends)
                   + (IF d \in Range(backlog') THEN 1 ELSE 0)
    BY <2>5, <2>6, <2>7, <2>8, <2>9
  <2> QED
    BY <2>1, <2>10
<1>21. \A d \in Conns : Whole(replies'[d])
  <2> TAKE d \in Conns
  <2>1. Whole(replies[d]) /\ Whole(sent[d])
    BY <1>14 DEF IInv
  <2>2. replies[d] \in Seq(ReplyTypes) /\ sent[d] \in Seq(ReplyTypes)
    BY <1>2, <1>12
  <2>3. Whole(replies[d] \o sent[d])
    BY <2>1, <2>2, WholeConcat
  <2> QED
    BY <1>13, <2>1, <2>3 DEF Arrives
<1> QED
  BY <1>9, <1>16, <1>17, <1>18, <1>19, <1>20, <1>21 DEF IInv

-----------------------------------------------------------------------------
LEMMA ServerStep ==
    IInv /\ (Server \/ (Operator /\ UNCHANGED clientVars)) => IInv'
<1> SUFFICES ASSUME IInv, Server \/ Operator, UNCHANGED clientVars PROVE IInv'
  BY DEF Server
<1>1. CASE Operator
  BY <1>1, ListCommandStep, BlockedCommandStep DEF Operator
<1>2. CASE Server
  BY <1>2, SelectStep, AcceptStep, CrashStep, SendBlockedStep, SendRelayedStep,
     BroadcastStep, BlockStep, UnblockStep, ListStep, LogoutStep
     DEF Server, Serve
<1> QED
  BY <1>1, <1>2

-----------------------------------------------------------------------------
(***************************************************************************)
(* III.  The initial states, the clients, and the theorems.                *)
(***************************************************************************)

LEMMA InitInvariant == Init => IInv
<1> SUFFICES ASSUME Init PROVE IInv
  OBVIOUS
<1>1. /\ running = TRUE /\ list_ptr = << >> /\ C_ip = << >>
      /\ blockers = [n \in Slots |-> [k \in 1..BLOCKS |-> Null]]
      /\ master_list = {server_socket} /\ watch_list = {}
      /\ head_socket = server_socket /\ send_socket = STDIN
      /\ sock = [fd \in Fds |-> 0]
      /\ backlog = << >> /\ host = << >>
      /\ requests = [c \in Conns |-> << >>]
      /\ replies = [c \in Conns |-> << >>]
      /\ peer = [c \in Conns |-> "closed"]
      /\ server = [h \in Hosts |-> LoggedOut]
      /\ owed = [h \in Hosts |-> 0] /\ acts = 0
  BY DEF Init, ServerInit
<1>2. \A S : << >> \in Seq(S)
  OBVIOUS
<1>3. Len(<< >>) = 0 /\ DOMAIN << >> = {}
  OBVIOUS
<1>4. TypeOK
  <2>1. /\ blockers \in [Slots -> [1..BLOCKS -> Hosts \cup {Null}]]
        /\ sock \in [Fds -> Conns \cup {0}]
        /\ requests \in [Conns -> Seq(RequestTypes)]
        /\ replies \in [Conns -> Seq(ReplyTypes)]
        /\ peer \in [Conns -> {"open", "closed", "unread", "reset"}]
        /\ server \in [Hosts -> Conns \cup {LoggedOut}]
        /\ owed \in [Hosts -> Nat]
    BY <1>1, <1>2
  <2>2. Len(list_ptr) <= SLOTS /\ acts \in 0..MaxActs
    BY <1>1, <1>3, SizesAssumption, MaxActsAssumption
  <2> QED
    BY <1>1, <1>2, <2>1, <2>2 DEF TypeOK
<1>5. ConnsWereMade
  BY <1>1, <1>3, SizesAssumption DEF ConnsWereMade
<1>6. ClientsAreConnected
  BY <1>1, <1>3 DEF ClientsAreConnected, LoggedOut
<1>7. OneRowPerLogin
  <2>1. LoggedIn = {} /\ DOMAIN list_ptr = {}
    BY <1>1, <1>3 DEF LoggedIn
  <2>2. {fd \in Fds : sock[fd] # 0} = {}
    BY <1>1
  <2> QED
    BY <1>1, <2>1, <2>2 DEF OneRowPerLogin, server_socket
<1>8. EndForEachCommand
  BY <1>1 DEF EndForEachCommand, LoggedOut, Conns
<1>9. InPortOrder(list_ptr)
  BY <1>1, <1>3 DEF InPortOrder
<1>10. \A c \in Conns : Whole(replies[c])
  BY <1>1, <1>3 DEF Whole
<1> QED
  BY <1>4, <1>5, <1>6, <1>7, <1>8, <1>9, <1>10 DEF IInv

-----------------------------------------------------------------------------
(* A client and its connection.                                            *)
LEMMA ConnectionFacts ==
    ASSUME IInv, NEW h \in Hosts, server[h] # LoggedOut
    PROVE  /\ server[h] \in 1..Len(host) /\ server[h] \in Conns
           /\ host[server[h]] = h /\ peer[server[h]] = "open"
           /\ \A i \in 1..Len(requests[server[h]]) :
                 requests[server[h]][i].cmd # "LOGOUT"
<1>1. /\ server[h] \in 0..Len(host) /\ Len(host) <= MaxConns /\ Len(host) \in Nat
      /\ host[server[h]] = h /\ peer[server[h]] = "open"
      /\ \A i \in 1..Len(requests[server[h]]) :
            requests[server[h]][i].cmd # "LOGOUT"
  BY DEF IInv, TypeOK, ConnsWereMade, ClientsAreConnected
<1> QED
  BY <1>1, SizesAssumption DEF LoggedOut, Conns

(* A step of a client that is connected moves only its own connection.     *)
LEMMA ClientStep ==
    ASSUME IInv, running, NEW h \in Hosts, server[h] \in Conns,
           UNCHANGED serverVars, UNCHANGED backlog, UNCHANGED host,
           acts' \in 0..MaxActs,
           requests' \in [Conns -> Seq(RequestTypes)],
           replies' \in [Conns -> Seq(ReplyTypes)],
           peer' \in [Conns -> {"open", "closed", "unread", "reset"}],
           server' \in [Hosts -> Conns \cup {LoggedOut}],
           owed' \in [Hosts -> Nat],
           \A d \in Conns \ {server[h]} :
              /\ requests'[d] = requests[d] /\ replies'[d] = replies[d]
              /\ peer'[d] = peer[d],
           \A k \in Hosts \ {h} : server'[k] = server[k] /\ owed'[k] = owed[k],
           Whole(replies'[server[h]]),
           server'[h] # LoggedOut =>
              /\ server'[h] = server[h] /\ peer'[server[h]] = "open"
              /\ \A i \in 1..Len(requests'[server[h]]) :
                    requests'[server[h]][i].cmd # "LOGOUT"
              /\ owed'[h] = Count(requests'[server[h]], Awaited)
                            + Count(replies'[server[h]], Ends)
                            + (IF server[h] \in Range(backlog) THEN 1 ELSE 0)
    PROVE  IInv'
<1> DEFINE c == server[h]
<1>1. /\ UNCHANGED <<running, watch_list, send_socket, list_ptr, C_ip, blockers>>
      /\ UNCHANGED <<master_list, head_socket, sock, backlog, host>>
  BY DEF serverVars, tableVars, socketVars
<1>2. /\ c \in 1..Len(host) /\ host[c] = h /\ Len(host) \in Nat
      /\ 0 \notin Conns
  <2>1. 0 \notin Conns /\ Len(host) \in Nat
    BY DEF IInv, TypeOK, Conns
  <2>2. server[h] # LoggedOut
    BY <2>1 DEF LoggedOut
  <2> QED
    BY <2>1, <2>2, ConnectionFacts
<1>3. ASSUME NEW k \in Hosts \ {h}, server[k] # LoggedOut
      PROVE  server[k] \in Conns \ {c}
  <2>1. server[k] \in Conns /\ host[server[k]] = k
    BY <1>3, ConnectionFacts
  <2> QED
    BY <1>2, <2>1
<1>4. TypeOK'
  BY <1>1 DEF IInv, TypeOK
<1>5. ConnsWereMade'
  <2>1. \A d \in Conns : d > Len(host) =>
           requests[d] = << >> /\ replies[d] = << >> /\ d # c
    BY <1>2 DEF IInv, ConnsWereMade
  <2>2. \A d \in Conns : d > Len(host) =>
           requests'[d] = << >> /\ replies'[d] = << >>
    BY <2>1
  <2>3. /\ Len(host) <= MaxConns
        /\ \A i \in 1..Len(backlog) : backlog[i] \in 1..Len(host)
        /\ \A i, j \in 1..Len(backlog) : backlog[i] = backlog[j] => i = j
        /\ server_socket \in watch_list => backlog # << >>
        /\ \A fd \in Fds : sock[fd] \in 0..Len(host)
    BY DEF IInv, ConnsWereMade
  <2> QED
    BY <1>1, <2>2, <2>3 DEF ConnsWereMade
<1>6. ClientsAreConnected'
  <2> SUFFICES ASSUME NEW k \in Hosts
               PROVE  /\ server'[k] \in 0..Len(host')
                      /\ server'[k] # LoggedOut =>
                         /\ host'[server'[k]] = k /\ peer'[server'[k]] = "open"
                         /\ \A i \in 1..Len(requests'[server'[k]]) :
                               requests'[server'[k]][i].cmd # "LOGOUT"
    BY DEF ClientsAreConnected
  <2>1. CASE k = h
    BY <1>1, <1>2, <2>1 DEF LoggedOut
  <2>2. CASE k # h /\ server[k] = LoggedOut
    BY <1>1, <1>2, <2>2 DEF LoggedOut
  <2>3. CASE k # h /\ server[k] # LoggedOut
    <3>1. server[k] \in Conns \ {c} /\ server'[k] = server[k]
      BY <1>3, <2>3
    <3>2. /\ requests'[server[k]] = requests[server[k]]
          /\ peer'[server[k]] = peer[server[k]]
      BY <3>1
    <3>3. /\ server[k] \in 1..Len(host) /\ host[server[k]] = k
          /\ peer[server[k]] = "open"
          /\ \A i \in 1..Len(requests[server[k]]) :
                requests[server[k]][i].cmd # "LOGOUT"
      BY <2>3, ConnectionFacts
    <3> QED
      BY <1>1, <1>2, <3>1, <3>2, <3>3
  <2> QED
    BY <2>1, <2>2, <2>3
<1>7. OneRowPerLogin'
  BY <1>1 DEF IInv, OneRowPerLogin, LoggedIn
<1>8. EndForEachCommand'
  <2> SUFFICES ASSUME NEW k \in Hosts, server'[k] \in Conns
               PROVE  owed'[k] = Count(requests'[server'[k]], Awaited)
                                 + Count(replies'[server'[k]], Ends)
                                 + (IF server'[k] \in Range(backlog') THEN 1 ELSE 0)
    BY DEF EndForEachCommand
  <2>1. CASE k = h
    BY <1>1, <1>2, <2>1 DEF LoggedOut
  <2>2. CASE k # h
    <3>1. server'[k] = server[k] /\ owed'[k] = owed[k] /\ server[k] # LoggedOut
      BY <1>2, <2>2 DEF LoggedOut
    <3>2. server[k] \in Conns \ {c}
      BY <1>3, <2>2, <3>1
    <3>3. /\ requests'[server[k]] = requests[server[k]]
          /\ replies'[server[k]] = replies[server[k]]
      BY <3>2
    <3>4. owed[k] = Count(requests[server[k]], Awaited)
                    + Count(replies[server[k]], Ends)
                    + (IF server[k] \in Range(backlog) THEN 1 ELSE 0)
      BY <3>2 DEF IInv, EndForEachCommand
    <3> QED
      BY <1>1, <3>1, <3>3, <3>4
  <2> QED
    BY <2>1, <2>2
<1>9. InPortOrder(list_ptr)'
  BY <1>1 DEF IInv, InPortOrder, PortAt
<1>10. \A d \in Conns : Whole(replies'[d])
  <2> TAKE d \in Conns
  <2>1. CASE d = c
    BY <2>1
  <2>2. CASE d # c
    BY <2>2 DEF IInv
  <2> QED
    BY <2>1, <2>2
<1> QED
  BY <1>4, <1>5, <1>6, <1>7, <1>8, <1>9, <1>10 DEF IInv

LEMMA LoginStep ==
    ASSUME IInv, running, NEW h \in Hosts, Login(h), UNCHANGED acts,
           UNCHANGED serverVars
    PROVE  IInv'
<1> DEFINE c == Len(host) + 1
<1>1. /\ host \in Seq(Hosts) /\ Len(host) \in Nat
      /\ backlog \in Seq(Conns) /\ Len(backlog) \in Nat
      /\ server \in [Hosts -> Conns \cup {LoggedOut}]
      /\ peer \in [Conns -> {"open", "closed", "unread", "reset"}]
      /\ owed \in [Hosts -> Nat]
  BY LenProperties DEF IInv, TypeOK
<1>2. /\ host' = Append(host, h) /\ Len(host') = c
      /\ \A i \in 1..Len(host) : host'[i] = host[i]
      /\ host'[c] = h /\ host' \in Seq(Hosts)
  BY <1>1, AppendProperties DEF Login
<1>3. c \in Conns /\ c # LoggedOut /\ c <= MaxConns
  BY <1>1, SizesAssumption DEF Login, Conns, LoggedOut
<1>4. /\ server[h] = LoggedOut
      /\ server' = [server EXCEPT ![h] = c]
      /\ backlog' = Append(backlog, c)
      /\ peer' = [peer EXCEPT ![c] = "open"]
      /\ owed' = [owed EXCEPT ![h] = 1]
      /\ UNCHANGED <<requests, replies, acts>>
  BY <1>2 DEF Login
<1>5. /\ UNCHANGED <<running, watch_list, send_socket, list_ptr, C_ip, blockers>>
      /\ UNCHANGED <<master_list, head_socket, sock>>
  BY DEF serverVars, tableVars, socketVars
<1> HIDE DEF c
<1>6. /\ backlog' \in Seq(Conns) /\ backlog' # << >>
      /\ Len(backlog') = Len(backlog) + 1
      /\ \A i \in 1..Len(backlog) : backlog'[i] = backlog[i]
      /\ backlog'[Len(backlog) + 1] = c
  BY <1>1, <1>3, <1>4, AppendProperties
<1>7. \A i \in 1..Len(backlog') : i \in 1..Len(backlog) \/ i = Len(backlog) + 1
  BY <1>1, <1>6
<1>8. /\ Len(host) <= MaxConns
      /\ \A i \in 1..Len(backlog) : backlog[i] \in 1..Len(host)
      /\ \A i, j \in 1..Len(backlog) : backlog[i] = backlog[j] => i = j
      /\ \A fd \in Fds : sock[fd] \in 0..Len(host)
      /\ \A d \in Conns :
            d > Len(host) => requests[d] = << >> /\ replies[d] = << >>
  BY DEF IInv, ConnsWereMade
<1>9. c > Len(host) /\ \A d \in 1..Len(host) : d \in 1..c /\ d # c
  BY <1>1 DEF c
<1>10. \A d : d \in Range(backlog') <=> d \in Range(backlog) \/ d = c
  <2>1. DOMAIN backlog = 1..Len(backlog) /\ DOMAIN backlog' = 1..Len(backlog')
    BY <1>1, <1>6, LenProperties
  <2>2. /\ \A i \in 1..Len(backlog) : i \in 1..Len(backlog')
        /\ Len(backlog) + 1 \in 1..Len(backlog')
    BY <1>1, <1>6
  <2> QED
    BY <1>6, <1>7, <2>1, <2>2 DEF Range
<1>11. TypeOK'
  <2>1. /\ server' \in [Hosts -> Conns \cup {LoggedOut}]
        /\ peer' \in [Conns -> {"open", "closed", "unread", "reset"}]
        /\ owed' \in [Hosts -> Nat]
    BY <1>1, <1>3, <1>4
  <2> QED
    BY <1>2, <1>4, <1>5, <1>6, <2>1 DEF IInv, TypeOK
<1>12. ConnsWereMade'
  <2>1. \A i \in 1..Len(backlog') : backlog'[i] \in 1..c
    <3>1. c \in 1..c
      BY <1>3, SizesAssumption DEF Conns
    <3>2. \A i \in 1..Len(backlog) : backlog'[i] \in 1..c
      BY <1>6, <1>8, <1>9
    <3> QED
      BY <1>6, <1>7, <3>1, <3>2
  <2>2. ASSUME NEW i \in 1..Len(backlog'), NEW j \in 1..Len(backlog'),
               backlog'[i] = backlog'[j]
        PROVE  i = j
    <3>1. \A k \in 1..Len(backlog) : backlog'[k] # c /\ backlog'[k] = backlog[k]
      BY <1>6, <1>8, <1>9
    <3> QED
      BY <1>6, <1>7, <1>8, <2>2, <3>1
  <2>3. \A fd \in Fds : sock'[fd] \in 0..c
    BY <1>1, <1>5, <1>8 DEF c
  <2>4. \A d \in Conns :
           d > c => requests'[d] = << >> /\ replies'[d] = << >>
    BY <1>1, <1>4, <1>8, <1>9, <1>3 DEF Conns
  <2> QED
    BY <1>2, <1>3, <1>6, <2>1, <2>2, <2>3, <2>4 DEF ConnsWereMade
<1>13. ClientsAreConnected'
  <2> SUFFICES ASSUME NEW k \in Hosts
               PROVE  /\ server'[k] \in 0..Len(host')
                      /\ server'[k] # LoggedOut =>
                         /\ host'[server'[k]] = k /\ peer'[server'[k]] = "open"
                         /\ \A i \in 1..Len(requests'[server'[k]]) :
                               requests'[server'[k]][i].cmd # "LOGOUT"
    BY DEF ClientsAreConnected
  <2>1. CASE k = h
    <3>1. server'[k] = c /\ peer'[c] = "open" /\ requests'[c] = << >>
      BY <1>1, <1>3, <1>4, <1>8, <1>9, <2>1
    <3>2. c \in 0..Len(host') /\ host'[c] = k
      BY <1>1, <1>2, <2>1 DEF c
    <3>3. Len(<< >>) = 0
      OBVIOUS
    <3> QED
      BY <3>1, <3>2, <3>3
  <2>2. CASE k # h /\ server[k] = LoggedOut
    <3>1. server'[k] = LoggedOut
      BY <1>1, <1>4, <2>2
    <3> QED
      BY <1>1, <1>2, <3>1 DEF c, LoggedOut
  <2>3. CASE k # h /\ server[k] # LoggedOut
    <3>1. server'[k] = server[k]
      BY <1>1, <1>4, <2>3
    <3>2. /\ server[k] \in 1..Len(host) /\ server[k] \in Conns
          /\ host[server[k]] = k /\ peer[server[k]] = "open"
          /\ \A i \in 1..Len(requests[server[k]]) :
                requests[server[k]][i].cmd # "LOGOUT"
      BY <2>3, ConnectionFacts
    <3>3. peer'[server[k]] = "open" /\ host'[server[k]] = k
      BY <1>1, <1>2, <1>4, <1>9, <3>2
    <3>4. server[k] \in 0..Len(host')
      BY <1>1, <1>2, <3>2 DEF c
    <3> QED
      BY <1>4, <3>1, <3>2, <3>3, <3>4
  <2> QED
    BY <2>1, <2>2, <2>3
<1>14. OneRowPerLogin'
  <2>1. ASSUME NEW fd \in Fds, sock[fd] # 0
        PROVE  host'[sock[fd]] = host[sock[fd]]
    BY <1>1, <1>2, <1>8, <2>1
  <2>2. OneRowPerLogin
    BY DEF IInv
  <2>3. SUFFICES ASSUME NEW fd \in master_list \ {server_socket}
                 PROVE  \E i \in LoggedIn :
                          /\ list_ptr[i].fd_socket = fd
                          /\ list_ptr[i].list_ip = host'[sock[fd]]
                          /\ \A j \in LoggedIn :
                                list_ptr[j].fd_socket = fd => j = i
    BY <1>5, <2>2 DEF OneRowPerLogin, LoggedIn
  <2>4. fd \in Fds /\ sock[fd] # 0
    BY <2>2, <2>3 DEF OneRowPerLogin
  <2> QED
    BY <2>1, <2>2, <2>3, <2>4 DEF OneRowPerLogin
<1>15. EndForEachCommand'
  <2> SUFFICES ASSUME NEW k \in Hosts, server'[k] \in Conns
               PROVE  owed'[k] = Count(requests'[server'[k]], Awaited)
                                 + Count(replies'[server'[k]], Ends)
                                 + (IF server'[k] \in Range(backlog') THEN 1 ELSE 0)
    BY DEF EndForEachCommand
  <2>1. CASE k = h
    <3>1. server'[k] = c /\ owed'[k] = 1 /\ requests'[c] = << >>
          /\ replies'[c] = << >>
      BY <1>1, <1>3, <1>4, <1>8, <1>9, <2>1
    <3>2. Count(<< >>, Awaited) = 0 /\ Count(<< >>, Ends) = 0
      <4>1. << >> \in Seq(ReplyTypes)
        OBVIOUS
      <4>2. \A cmds : \A i \in 1..Len(<< >>) : << >>[i].cmd \notin cmds
        OBVIOUS
      <4> QED
        BY <4>1, <4>2, CountNone
    <3>3. c \in Range(backlog')
      BY <1>10
    <3> QED
      BY <3>1, <3>2, <3>3
  <2>2. CASE k # h
    <3>1. server'[k] = server[k] /\ owed'[k] = owed[k] /\ server[k] \in Conns
      BY <1>1, <1>4, <2>2
    <3>2. server[k] \in 1..Len(host)
      <4>1. server[k] # LoggedOut
        BY <3>1 DEF Conns, LoggedOut
      <4> QED
        BY <4>1, ConnectionFacts
    <3>3. server[k] \in Range(backlog') <=> server[k] \in Range(backlog)
      BY <1>9, <1>10, <3>2
    <3>4. owed[k] = Count(requests[server[k]], Awaited)
                    + Count(replies[server[k]], Ends)
                    + (IF server[k] \in Range(backlog) THEN 1 ELSE 0)
      BY <3>1 DEF IInv, EndForEachCommand
    <3> QED
      BY <1>4, <3>1, <3>3, <3>4
  <2> QED
    BY <2>1, <2>2
<1>16. InPortOrder(list_ptr)'
  BY <1>5 DEF IInv, InPortOrder, PortAt
<1>17. \A d \in Conns : Whole(replies'[d])
  BY <1>4 DEF IInv
<1> QED
  BY <1>11, <1>12, <1>13, <1>14, <1>15, <1>16, <1>17 DEF IInv

LEMMA RequestsType ==
    ASSUME NEW h \in Hosts, NEW request \in Requests(h)
    PROVE  request \in RequestTypes /\ request.cmd # "LOGOUT"
BY DEF Requests, RequestTypes, Texts

(* What the steps of a connected client have in common.                    *)
LEMMA ClientFacts ==
    ASSUME IInv, running, NEW h \in Hosts, server[h] \in Conns
    PROVE  /\ server[h] # LoggedOut
           /\ requests[server[h]] \in Seq(RequestTypes)
           /\ replies[server[h]] \in Seq(ReplyTypes)
           /\ Count(requests[server[h]], Awaited) \in Nat
           /\ Count(replies[server[h]], Ends) \in Nat
           /\ owed[h] = Count(requests[server[h]], Awaited)
                        + Count(replies[server[h]], Ends)
                        + (IF server[h] \in Range(backlog) THEN 1 ELSE 0)
<1>1. /\ requests[server[h]] \in Seq(RequestTypes)
      /\ replies[server[h]] \in Seq(ReplyTypes)
  BY DEF IInv, TypeOK
<1>2. /\ Count(requests[server[h]], Awaited) \in Nat
      /\ Count(replies[server[h]], Ends) \in Nat
  BY <1>1, CountType
<1>3. server[h] # LoggedOut
  BY DEF Conns, LoggedOut
<1>4. owed[h] = Count(requests[server[h]], Awaited)
                + Count(replies[server[h]], Ends)
                + (IF server[h] \in Range(backlog) THEN 1 ELSE 0)
  BY DEF IInv, EndForEachCommand
<1> QED
  BY <1>1, <1>2, <1>3, <1>4

LEMMA CommandStep ==
    ASSUME IInv, running, NEW h \in Hosts, Command(h), acts' \in 0..MaxActs,
           UNCHANGED serverVars
    PROVE  IInv'
<1> DEFINE c == server[h]
<1>1. PICK request \in Requests(h) :
         /\ requests' = [requests EXCEPT ![c] = Append(@, request)]
         /\ owed' = [owed EXCEPT ![h] =
                       IF request.cmd \in Awaited THEN @ + 1 ELSE @]
  BY DEF Command
<1>2. /\ c \in Conns /\ UNCHANGED backlog /\ UNCHANGED host
      /\ UNCHANGED <<replies, peer, server>>
  BY DEF Command
<1>3. /\ requests \in [Conns -> Seq(RequestTypes)]
      /\ replies \in [Conns -> Seq(ReplyTypes)]
      /\ peer \in [Conns -> {"open", "closed", "unread", "reset"}]
      /\ server \in [Hosts -> Conns \cup {LoggedOut}]
      /\ owed \in [Hosts -> Nat]
  BY DEF IInv, TypeOK
<1>4. /\ c # LoggedOut /\ requests[c] \in Seq(RequestTypes)
      /\ Count(requests[c], Awaited) \in Nat
      /\ Count(replies[c], Ends) \in Nat
      /\ owed[h] = Count(requests[c], Awaited) + Count(replies[c], Ends)
                   + (IF c \in Range(backlog) THEN 1 ELSE 0)
  BY <1>2, ClientFacts
<1>5. request \in RequestTypes /\ request.cmd # "LOGOUT"
  BY RequestsType
<1>6. /\ Append(requests[c], request) \in Seq(RequestTypes)
      /\ Len(Append(requests[c], request)) = Len(requests[c]) + 1
      /\ \A i \in 1..Len(requests[c]) :
            Append(requests[c], request)[i] = requests[c][i]
      /\ Append(requests[c], request)[Len(requests[c]) + 1] = request
      /\ Len(requests[c]) \in Nat
  BY <1>4, <1>5, AppendProperties, LenProperties
<1>7. peer[c] = "open" /\ \A i \in 1..Len(requests[c]) :
                             requests[c][i].cmd # "LOGOUT"
  BY <1>4, ConnectionFacts
<1>8. Count(Append(requests[c], request), Awaited)
        = Count(requests[c], Awaited)
          + (IF request.cmd \in Awaited THEN 1 ELSE 0)
  BY <1>4, <1>5, CountAppend
<1> HIDE DEF c
<1>9. /\ requests' \in [Conns -> Seq(RequestTypes)]
      /\ requests'[c] = Append(requests[c], request)
      /\ \A d \in Conns \ {c} : requests'[d] = requests[d]
  BY <1>1, <1>2, <1>3, <1>6
<1>10. /\ owed' \in [Hosts -> Nat]
       /\ owed'[h] = owed[h] + (IF request.cmd \in Awaited THEN 1 ELSE 0)
       /\ \A k \in Hosts \ {h} : owed'[k] = owed[k]
  BY <1>1, <1>3
<1>11. \A i \in 1..Len(requests'[c]) : requests'[c][i].cmd # "LOGOUT"
  <2> TAKE i \in 1..Len(requests'[c])
  <2>1. i \in 1..Len(requests[c]) \/ i = Len(requests[c]) + 1
    BY <1>6, <1>9
  <2> QED
    BY <1>5, <1>6, <1>7, <1>9, <2>1
<1>12. owed'[h] = Count(requests'[c], Awaited) + Count(replies'[c], Ends)
                  + (IF c \in Range(backlog) THEN 1 ELSE 0)
  BY <1>2, <1>4, <1>8, <1>9, <1>10
<1>13. Whole(replies'[c])
  BY <1>2 DEF IInv
<1> QED
  BY <1>2, <1>3, <1>7, <1>9, <1>10, <1>11, <1>12, <1>13, ClientStep DEF c

LEMMA CloseStep ==
    ASSUME IInv, running, NEW h \in Hosts, LOGOUT(h) \/ EXIT(h),
           acts' \in 0..MaxActs, UNCHANGED serverVars
    PROVE  IInv'
<1> DEFINE c == server[h]
<1>1. /\ c \in Conns /\ UNCHANGED backlog /\ UNCHANGED host
      /\ peer' = [peer EXCEPT ![c] = IF replies[c] = << >>
                                     THEN "closed" ELSE "unread"]
      /\ replies' = [replies EXCEPT ![c] = << >>]
      /\ server' = [server EXCEPT ![h] = LoggedOut]
      /\ owed' = [owed EXCEPT ![h] = 0]
  BY DEF LOGOUT, EXIT, Close
<1>2. \/ requests' = [requests EXCEPT ![c] = Append(@, [cmd |-> "LOGOUT"])]
      \/ requests' = requests
  BY DEF LOGOUT, EXIT
<1>3. /\ requests \in [Conns -> Seq(RequestTypes)]
      /\ replies \in [Conns -> Seq(ReplyTypes)]
      /\ peer \in [Conns -> {"open", "closed", "unread", "reset"}]
      /\ server \in [Hosts -> Conns \cup {LoggedOut}]
      /\ owed \in [Hosts -> Nat]
  BY DEF IInv, TypeOK
<1> HIDE DEF c
<1>4. /\ requests' \in [Conns -> Seq(RequestTypes)]
      /\ \A d \in Conns \ {c} : requests'[d] = requests[d]
  <2>1. Append(requests[c], [cmd |-> "LOGOUT"]) \in Seq(RequestTypes)
    <3>1. requests[c] \in Seq(RequestTypes)
      BY <1>1, <1>3
    <3>2. [cmd |-> "LOGOUT"] \in RequestTypes
      BY DEF RequestTypes
    <3> QED
      BY <3>1, <3>2, AppendProperties
  <2> QED
    BY <1>1, <1>2, <1>3, <2>1
<1>5. /\ replies' \in [Conns -> Seq(ReplyTypes)] /\ replies'[c] = << >>
      /\ \A d \in Conns \ {c} : replies'[d] = replies[d]
  BY <1>1, <1>3, EmptyStream
<1>6. /\ peer' \in [Conns -> {"open", "closed", "unread", "reset"}]
      /\ \A d \in Conns \ {c} : peer'[d] = peer[d]
  BY <1>1, <1>3
<1>7. /\ server' \in [Hosts -> Conns \cup {LoggedOut}]
      /\ server'[h] = LoggedOut
      /\ owed' \in [Hosts -> Nat]
      /\ \A k \in Hosts \ {h} : server'[k] = server[k] /\ owed'[k] = owed[k]
  BY <1>1, <1>3
<1>8. Whole(replies'[c])
  BY <1>5, EmptyStream
<1> QED
  BY <1>1, <1>4, <1>5, <1>6, <1>7, <1>8, ClientStep DEF c

LEMMA ReceiveStep ==
    ASSUME IInv, running, NEW h \in Hosts, Receive(h), UNCHANGED acts,
           UNCHANGED serverVars
    PROVE  IInv'
<1> DEFINE c == server[h]
<1>1. /\ c \in Conns /\ UNCHANGED backlog /\ UNCHANGED host
      /\ replies' = [replies EXCEPT ![c] = << >>]
      /\ owed' = [owed EXCEPT ![h] = @ - Count(replies[c], Ends)]
      /\ UNCHANGED <<requests, peer, server>>
  BY DEF Receive
<1>2. /\ requests \in [Conns -> Seq(RequestTypes)]
      /\ replies \in [Conns -> Seq(ReplyTypes)]
      /\ peer \in [Conns -> {"open", "closed", "unread", "reset"}]
      /\ server \in [Hosts -> Conns \cup {LoggedOut}]
      /\ owed \in [Hosts -> Nat] /\ acts' \in 0..MaxActs
  BY DEF IInv, TypeOK
<1>3. /\ c # LoggedOut /\ Count(requests[c], Awaited) \in Nat
      /\ Count(replies[c], Ends) \in Nat
      /\ owed[h] = Count(requests[c], Awaited) + Count(replies[c], Ends)
                   + (IF c \in Range(backlog) THEN 1 ELSE 0)
  BY <1>1, ClientFacts
<1>4. peer[c] = "open" /\ \A i \in 1..Len(requests[c]) :
                             requests[c][i].cmd # "LOGOUT"
  BY <1>3, ConnectionFacts
<1> HIDE DEF c
<1>5. /\ replies' \in [Conns -> Seq(ReplyTypes)] /\ replies'[c] = << >>
      /\ \A d \in Conns \ {c} : replies'[d] = replies[d]
  BY <1>1, <1>2, EmptyStream
<1>6. owed[h] - Count(replies[c], Ends)
        = Count(requests[c], Awaited) + (IF c \in Range(backlog) THEN 1 ELSE 0)
  BY <1>3
<1>7. owed[h] - Count(replies[c], Ends) \in Nat
  BY <1>3, <1>6
<1>8. /\ owed' \in [Hosts -> Nat]
      /\ owed'[h] = owed[h] - Count(replies[c], Ends)
      /\ \A k \in Hosts \ {h} : owed'[k] = owed[k]
  BY <1>1, <1>2, <1>7
<1>9. owed'[h] = Count(requests'[c], Awaited) + Count(replies'[c], Ends)
                 + (IF c \in Range(backlog) THEN 1 ELSE 0)
  BY <1>1, <1>3, <1>5, <1>6, <1>8, EmptyStream
<1>10. Whole(replies'[c])
  BY <1>5, EmptyStream
<1> QED
  BY <1>1, <1>2, <1>4, <1>5, <1>8, <1>9, <1>10, ClientStep DEF c

LEMMA StepInvariant == IInv /\ [Next]_vars => IInv'
<1> SUFFICES ASSUME IInv, [Next]_vars PROVE IInv'
  OBVIOUS
<1>1. CASE Server \/ (Operator /\ UNCHANGED clientVars)
  BY <1>1, ServerStep
<1>2. ASSUME NEW h \in Hosts, Client(h) PROVE IInv'
  <2>1. running /\ UNCHANGED serverVars
    BY <1>2 DEF Client
  <2>2. CASE acts' \in 0..MaxActs /\ (Command(h) \/ LOGOUT(h) \/ EXIT(h))
    BY <2>1, <2>2, CommandStep, CloseStep
  <2>3. CASE UNCHANGED acts /\ (Login(h) \/ Receive(h))
    BY <2>1, <2>3, LoginStep, ReceiveStep
  <2>4. acts < MaxActs /\ acts' = acts + 1 => acts' \in 0..MaxActs
    BY MaxActsAssumption DEF IInv, TypeOK
  <2> QED
    BY <1>2, <2>2, <2>3, <2>4 DEF Client
<1>3. CASE UNCHANGED vars
  <2>1. /\ UNCHANGED <<running, watch_list, send_socket, list_ptr, C_ip, blockers>>
        /\ UNCHANGED <<master_list, head_socket, sock>>
        /\ UNCHANGED <<backlog, host, requests, replies, peer>>
        /\ UNCHANGED <<server, owed, acts>>
    BY <1>3 DEF vars, serverVars, tableVars, socketVars, tcpVars, streamVars,
                clientVars
  <2>2. TypeOK'
    BY <2>1 DEF IInv, TypeOK
  <2>3. ConnsWereMade' /\ ClientsAreConnected'
    BY <2>1 DEF IInv, ConnsWereMade, ClientsAreConnected
  <2>4. OneRowPerLogin'
    BY <2>1 DEF IInv, OneRowPerLogin, LoggedIn
  <2>5. EndForEachCommand'
    BY <2>1 DEF IInv, EndForEachCommand
  <2>6. InPortOrder(list_ptr)' /\ \A c \in Conns : Whole(replies'[c])
    BY <2>1 DEF IInv, InPortOrder, PortAt
  <2> QED
    BY <2>2, <2>3, <2>4, <2>5, <2>6 DEF IInv
<1>4. CASE Next
  <2>1. (Server \/ (Operator /\ UNCHANGED clientVars)) \/ \E h \in Hosts : Client(h)
    BY <1>4 DEF Next
  <2> QED
    BY <1>1, <1>2, <2>1
<1> QED
  BY <1>3, <1>4
-----------------------------------------------------------------------------
(* IInv holds in every state the server and its clients reach.             *)
THEOREM Invariant == Spec => []IInv
BY InitInvariant, StepInvariant, PTL DEF Spec

(* No handler leaves its types, and none writes beyond a table.            *)
THEOREM TypeCorrect == Spec => []TypeOK
<1>1. IInv => TypeOK
  BY DEF IInv
<1> QED
  BY <1>1, Invariant, PTL

(* While the server runs, each watched connection has exactly one row      *)
(* marked logged-in, with its address, and no other row is so marked.      *)
THEOREM RowsOfLogins == Spec => []OneRowPerLogin
<1>1. IInv => OneRowPerLogin
  BY DEF IInv
<1> QED
  BY <1>1, Invariant, PTL

(* What LIST sends is in order of port and in one piece, although only     *)
(* logins and logouts sort the table.                                      *)
THEOREM ListsAreInOrder == Spec => []ListsInPortOrder
<1>1. ASSUME IInv PROVE ListsInPortOrder
  <2> SUFFICES ASSUME NEW c \in Conns, NEW i \in 1..Len(replies[c]) - 1,
                      replies[c][i].cmd = "LIST"
               PROVE  \/ replies[c][i + 1].cmd = "LISTOVER"
                      \/ /\ replies[c][i + 1].cmd = "LIST"
                         /\ Port[replies[c][i].list_ip]
                              <= Port[replies[c][i + 1].list_ip]
    BY DEF ListsInPortOrder
  <2>1. replies[c] \in Seq(ReplyTypes) /\ Whole(replies[c])
    BY <1>1 DEF IInv, TypeOK
  <2>2. i \in 1..Len(replies[c])
    BY <2>1, LenProperties
  <2> QED
    BY <2>1, <2>2 DEF Whole
<1> QED
  BY <1>1, Invariant, PTL

(* Each LOGIN, SEND and LIST of a connected client has its end once: due,  *)
(* or on its way back.                                                     *)
THEOREM EveryEndOnce == Spec => []EndForEachCommand
<1>1. IInv => EndForEachCommand
  BY DEF IInv
<1> QED
  BY <1>1, Invariant, PTL

-----------------------------------------------------------------------------
(* The block lists across logins.                                          *)
LEMMA EntryOfKnown ==
    ASSUME C_ip \in Seq(Hosts), NEW ip \in Range(C_ip)
    PROVE  Entry(ip) \in 1..Len(C_ip) /\ C_ip[Entry(ip)] = ip
<1> DEFINE found == {n \in DOMAIN C_ip : C_ip[n] = ip}
<1>1. DOMAIN C_ip = 1..Len(C_ip)
  BY LenProperties
<1>2. found # {} /\ found \in SUBSET Nat
  BY <1>1 DEF Range
<1>3. Min(found) \in found
  <2> HIDE DEF found
  <2> QED
    BY <1>2, MinIsLeast
<1> QED
  BY <1>1, <1>2, <1>3 DEF Entry

LEMMA AppendKeepsEntry ==
    ASSUME C_ip \in Seq(Hosts), NEW h \in Hosts, C_ip' = Append(C_ip, h),
           NEW ip \in Range(C_ip)
    PROVE  Entry(ip)' = Entry(ip)
<1> DEFINE found == {n \in DOMAIN C_ip : C_ip[n] = ip}
           more == {n \in DOMAIN C_ip' : C_ip'[n] = ip}
<1>1. /\ Len(C_ip) \in Nat /\ Len(C_ip') = Len(C_ip) + 1
      /\ DOMAIN C_ip = 1..Len(C_ip) /\ DOMAIN C_ip' = 1..Len(C_ip')
      /\ \A n \in 1..Len(C_ip) : C_ip'[n] = C_ip[n]
  <2>1. C_ip' \in Seq(Hosts)
    BY AppendProperties
  <2> QED
    BY <2>1, AppendProperties, LenProperties
<1>2. found # {} /\ found \in SUBSET Nat
  BY <1>1 DEF Range
<1>3. more # {} /\ more \in SUBSET Nat /\ found \subseteq more
  BY <1>1, <1>2
<1>4. \A n \in more : n \in found \/ (n = Len(C_ip) + 1 /\ \A k \in found : k < n)
  BY <1>1
<1>5. Entry(ip) = Min(found) /\ Entry(ip)' = Min(more)
  BY <1>2, <1>3 DEF Entry
<1> HIDE DEF found, more
<1>6. /\ Min(found) \in found /\ \A k \in found : Min(found) <= k
      /\ Min(more) \in more /\ \A k \in more : Min(more) <= k
  BY <1>2, <1>3, MinIsLeast
<1>7. Min(more) <= Min(found) /\ Min(found) \in Nat /\ Min(more) \in Nat
  BY <1>2, <1>3, <1>6
<1>8. Min(more) \in found
  <2>1. ~(Min(found) < Min(more))
    BY <1>7
  <2> QED
    BY <1>4, <1>6, <2>1
<1>9. Min(found) <= Min(more)
  BY <1>6, <1>8
<1>10. Min(more) = Min(found)
  BY <1>7, <1>9
<1> QED
  BY <1>5, <1>10

LEMMA ReplaceRange ==
    ASSUME NEW entries \in [1..BLOCKS -> Hosts \cup {Null}], NEW h \in Hosts
    PROVE  /\ Range(Replace(entries, Null, h)) \ {Null} \in
                {Range(entries) \ {Null}, (Range(entries) \ {Null}) \cup {h}}
           /\ Range(Replace(entries, h, Null)) \ {Null} \in
                {Range(entries) \ {Null}, (Range(entries) \ {Null}) \ {h}}
<1> DEFINE first(old) == Min({k \in DOMAIN entries : entries[k] = old})
<1>1. ASSUME NEW old, NEW new
      PROVE  \/ Replace(entries, old, new) = entries
             \/ /\ first(old) \in 1..BLOCKS /\ entries[first(old)] = old
                /\ Replace(entries, old, new) =
                      [entries EXCEPT ![first(old)] = new]
  <2> DEFINE found == {k \in DOMAIN entries : entries[k] = old}
  <2>1. found \in SUBSET Nat /\ found \subseteq 1..BLOCKS
    BY SizesAssumption
  <2>2. CASE found = {}
    BY <2>2 DEF Replace
  <2>3. CASE found # {}
    <3>1. Min(found) \in found
      <4> HIDE DEF found
      <4> QED
        BY <2>1, <2>3, MinIsLeast
    <3> QED
      BY <2>3, <3>1 DEF Replace
  <2> QED
    BY <2>2, <2>3
<1> HIDE DEF first
<1>2. Range(Replace(entries, Null, h)) \ {Null} \in
        {Range(entries) \ {Null}, (Range(entries) \ {Null}) \cup {h}}
  <2>1. CASE Replace(entries, Null, h) = entries
    BY <2>1
  <2>2. CASE /\ first(Null) \in 1..BLOCKS /\ entries[first(Null)] = Null
             /\ Replace(entries, Null, h) = [entries EXCEPT ![first(Null)] = h]
    <3>1. Range(Replace(entries, Null, h)) \ {Null}
            = (Range(entries) \ {Null}) \cup {h}
      BY <2>2, HostsAssumption DEF Range
    <3> QED
      BY <3>1
  <2> QED
    BY <1>1, <2>1, <2>2
<1>3. Range(Replace(entries, h, Null)) \ {Null} \in
        {Range(entries) \ {Null}, (Range(entries) \ {Null}) \ {h}}
  <2>1. CASE Replace(entries, h, Null) = entries
    BY <2>1
  <2>2. CASE /\ first(h) \in 1..BLOCKS /\ entries[first(h)] = h
             /\ Replace(entries, h, Null) = [entries EXCEPT ![first(h)] = Null]
    <3>1. \A x \in (Range(entries) \ {Null}) \ {h} :
             x \in Range(Replace(entries, h, Null))
      BY <2>2 DEF Range
    <3>2. \A x \in Range(Replace(entries, h, Null)) \ {Null} : x \in Range(entries)
      BY <2>2 DEF Range
    <3> QED
      BY <3>1, <3>2
  <2> QED
    BY <1>1, <2>1, <2>2
<1> QED
  BY <1>2, <1>3

(* The row the search stops at is that of the client, the only one marked  *)
(* logged-in, or comes before it and is that of a host that left.          *)
LEMMA SenderOrPredecessor ==
    ASSUME IInv, Visit, sock_index # server_socket
    PROVE  sender_ip \in {Sender} \cup Predecessors
<1> DEFINE k == Min(RowsOf(sock_index))
<1>1. /\ running = TRUE /\ sock_index \in master_list
      /\ RowsOf(sock_index) # {} /\ k \in RowsOf(sock_index)
  BY VisitFacts
<1>2. OneRowPerLogin /\ InPortOrder(list_ptr)
  BY DEF IInv
<1>3. PICK i \in LoggedIn :
         /\ list_ptr[i].fd_socket = sock_index
         /\ list_ptr[i].list_ip = Sender
         /\ \A j \in LoggedIn : list_ptr[j].fd_socket = sock_index => j = i
  BY <1>1, <1>2 DEF OneRowPerLogin, Sender
<1>4. DOMAIN list_ptr = 1..Len(list_ptr) /\ Len(list_ptr) \in Nat
  BY LenProperties DEF IInv, TypeOK
<1>5. RowsOf(sock_index) \in SUBSET Nat /\ i \in RowsOf(sock_index)
  BY <1>3, <1>4 DEF RowsOf, LoggedIn
<1>6. k <= i /\ k \in DOMAIN list_ptr /\ i \in DOMAIN list_ptr
  BY <1>1, <1>5, MinIsLeast DEF RowsOf
<1>7. sender_ip = list_ptr[k].list_ip
  BY DEF sender_ip
<1>8. k \in LoggedIn => k = i
  BY <1>1, <1>3 DEF RowsOf
<1> HIDE DEF k
<1>9. CASE k = i
  BY <1>3, <1>7, <1>9
<1>10. CASE k # i
  <2>1. k < i
    BY <1>4, <1>6, <1>10
  <2>2. PortAt(list_ptr, k) <= PortAt(list_ptr, i)
    BY <1>2, <1>6, <2>1 DEF InPortOrder
  <2>3. PortAt(list_ptr, i) = Port[Sender]
    BY <1>3 DEF PortAt
  <2>4. k \in RowsOf(sock_index) \ LoggedIn
    BY <1>1, <1>8, <1>10 DEF k
  <2> QED
    BY <1>7, <2>2, <2>3, <2>4 DEF Predecessors
<1> QED
  BY <1>9, <1>10

(* A BLOCK or UNBLOCK changes the list of the address it names.            *)
BlocksChange(ip) ==
    BlockersOf(ip)' # BlockersOf(ip) =>
        /\ Serving /\ rcv_data.cmd \in {"BLOCK", "UNBLOCK"}
        /\ rcv_data.ip = ip
        /\ \E h \in {Sender} \cup Predecessors :
              BlockersOf(ip)' = Changed(BlockersOf(ip), h)

LEMMA ChangeBlockersEffect ==
    ASSUME IInv, Block \/ Unblock, NEW ip \in Range(C_ip)
    PROVE  BlocksChange(ip)
<1> DEFINE z == Entry(rcv_data.ip)
           e == Entry(ip)
<1>1. PICK old, new :
         /\ ChangeBlockers(old, new)
         /\ \/ /\ rcv_data.cmd = "BLOCK"
               /\ old = Null /\ new = sender_ip
            \/ /\ rcv_data.cmd = "UNBLOCK"
               /\ old = sender_ip /\ new = Null
  BY DEF Block, Unblock, Request
<1>2. /\ Visit /\ sock_index # server_socket /\ requests[conn] # << >>
      /\ rcv_data.cmd \in {"BLOCK", "UNBLOCK"} /\ C_ip' = C_ip
  BY DEF Block, Unblock, Request, conn
<1>3. /\ sender_ip \in Hosts /\ Serving
      /\ sender_ip \in {Sender} \cup Predecessors
  BY <1>2, VisitFacts, SenderOrPredecessor DEF Serving, Visit, conn
<1>4. /\ C_ip \in Seq(Hosts) /\ Len(C_ip) \in Nat /\ Len(C_ip) <= SLOTS
      /\ blockers \in [Slots -> [1..BLOCKS -> Hosts \cup {Null}]]
  BY LenProperties DEF IInv, TypeOK
<1>5. e \in 1..Len(C_ip) /\ C_ip[e] = ip /\ e \in Slots
  <2>1. e \in 1..Len(C_ip) /\ C_ip[e] = ip
    BY <1>4, EntryOfKnown
  <2> QED
    BY <1>4, <2>1, SizesAssumption DEF Slots
<1>6. Entry(ip)' = e
  BY <1>2 DEF Entry
<1>7. CASE blockers' = blockers
  BY <1>6, <1>7 DEF BlocksChange, BlockersOf
<1>8. CASE blockers' = [blockers EXCEPT ![z] = Replace(@, old, new)]
  <2>1. CASE z = e
    <3>1. rcv_data.ip = ip
      <4>1. CASE rcv_data.ip \in Range(C_ip)
        BY <1>4, <1>5, <2>1, <4>1, EntryOfKnown
      <4>2. CASE rcv_data.ip \notin Range(C_ip)
        <5>1. {n \in DOMAIN C_ip : C_ip[n] = rcv_data.ip} = {}
          BY <4>2 DEF Range
        <5>2. z = Len(C_ip) + 1
          BY <5>1 DEF Entry
        <5> QED
          BY <1>4, <1>5, <2>1, <5>2
      <4> QED
        BY <4>1, <4>2
    <3> HIDE DEF e, z
    <3>2. blockers'[e] = Replace(blockers[e], old, new)
      BY <1>4, <1>5, <1>8, <2>1
    <3>3. Range(blockers'[e]) \ {Null} \in
             {Range(blockers[e]) \ {Null},
              Changed(Range(blockers[e]) \ {Null}, sender_ip)}
      <4>1. blockers[e] \in [1..BLOCKS -> Hosts \cup {Null}]
        BY <1>4, <1>5
      <4> QED
        BY <1>1, <1>3, <3>2, <4>1, ReplaceRange DEF Changed
    <3>4. /\ BlockersOf(ip) = Range(blockers[e]) \ {Null}
          /\ BlockersOf(ip)' = Range(blockers'[e]) \ {Null}
      BY <1>6 DEF BlockersOf, e
    <3> QED
      BY <1>2, <1>3, <3>1, <3>3, <3>4 DEF BlocksChange
  <2>2. CASE z # e
    <3> HIDE DEF e, z
    <3>1. blockers'[e] = blockers[e]
      BY <1>4, <1>5, <1>8, <2>2
    <3>2. /\ BlockersOf(ip) = Range(blockers[e]) \ {Null}
          /\ BlockersOf(ip)' = Range(blockers'[e]) \ {Null}
      BY <1>6 DEF BlockersOf, e
    <3> QED
      BY <3>1, <3>2 DEF BlocksChange
  <2> QED
    BY <2>1, <2>2
<1> QED
  BY <1>1, <1>7, <1>8 DEF ChangeBlockers

LEMMA OthersKeepBlocks ==
    ASSUME IInv, [Next]_vars, ~(Block \/ Unblock), NEW ip \in Range(C_ip)
    PROVE  BlocksChange(ip)
<1>1. CASE UNCHANGED <<blockers, C_ip>>
  BY <1>1 DEF BlocksChange, BlockersOf, Entry
<1>2. CASE Accept
  <2>1. blockers' = blockers /\ C_ip' = Append(C_ip, host[Head(backlog)])
    BY <1>2 DEF Accept
  <2>2. C_ip \in Seq(Hosts) /\ host[Head(backlog)] \in Hosts
    <3>1. /\ C_ip \in Seq(Hosts) /\ host \in Seq(Hosts) /\ running = TRUE
          /\ watch_list # {} /\ watch_list \in SUBSET Nat
      <4>1. running = TRUE /\ watch_list # {}
        BY <1>2 DEF Accept, Visit
      <4>2. /\ C_ip \in Seq(Hosts) /\ host \in Seq(Hosts)
            /\ watch_list \subseteq Fds \cup {server_socket}
        BY DEF IInv, TypeOK
      <4>3. Fds \cup {server_socket} \subseteq Nat
        BY SizesAssumption DEF Fds, server_socket
      <4> QED
        BY <4>1, <4>2, <4>3
    <3>2. server_socket \in watch_list
      BY <1>2, <3>1, MinIsLeast DEF Accept, sock_index
    <3>3. Head(backlog) \in 1..Len(host)
      BY <3>2, BacklogFacts DEF IInv, ConnsWereMade
    <3> QED
      BY <3>1, <3>3, ElementOfSeq
  <2>3. Entry(ip)' = Entry(ip)
    BY <2>1, <2>2, AppendKeepsEntry
  <2> QED
    BY <2>1, <2>3 DEF BlocksChange, BlockersOf
<1>3. CASE Next /\ ~Accept
  <2>1. CASE Server
    <3>1. UNCHANGED tableVars \/ UNCHANGED <<blockers, C_ip>>
      BY <1>3, <2>1
         DEF Server, Serve, Select, AcceptBeyondTable, remove_from_list,
             SendBlocked, SendRelayed, Broadcast, List, Logout, Request
    <3> QED
      BY <1>1, <3>1 DEF tableVars
  <2>2. CASE Operator
    BY <1>1, <2>2 DEF Operator, ListCommand, BlockedCommand, tableVars
  <2>3. ASSUME NEW h \in Hosts, Client(h) PROVE BlocksChange(ip)
    BY <1>1, <2>3 DEF Client, serverVars, tableVars
  <2> QED
    BY <1>3, <2>1, <2>2, <2>3 DEF Next
<1>4. CASE UNCHANGED vars
  BY <1>1, <1>4 DEF vars, serverVars, tableVars
<1> QED
  BY <1>2, <1>3, <1>4

(* Only a BLOCK or UNBLOCK that names a host changes who blocks it, however *)
(* often hosts log in and out, and only in the client that sent it or in a *)
(* host that left and that the first-row search takes for the client.      *)
THEOREM BlocksAreKept == Spec => BlocksOutliveLogins
<1>1. IInv /\ [Next]_vars =>
         [\A ip \in Range(C_ip) :
             BlockersOf(ip)' # BlockersOf(ip) =>
                 /\ Serving /\ rcv_data.cmd \in {"BLOCK", "UNBLOCK"}
                 /\ rcv_data.ip = ip
                 /\ \E h \in {Sender} \cup Predecessors :
                       BlockersOf(ip)' = Changed(BlockersOf(ip), h)]_vars
  <2> SUFFICES ASSUME IInv, [Next]_vars, NEW ip \in Range(C_ip)
               PROVE  BlocksChange(ip)
    BY DEF BlocksChange
  <2> QED
    BY ChangeBlockersEffect, OthersKeepBlocks
<1> QED
  BY <1>1, Invariant, PTL DEF Spec, BlocksOutliveLogins
=============================================================================
