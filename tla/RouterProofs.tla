---------------------------- MODULE RouterProofs ----------------------------
(***************************************************************************)
(* The control plane of the router for any descriptors, nodes, topologies, *)
(* intervals and numbers of controllers and messages: what it watches and  *)
(* visits, and how long its list of connections is exact.                  *)
(***************************************************************************)
EXTENDS RouterControl, FiniteSetTheorems, SequenceTheorems, TLAPS

-----------------------------------------------------------------------------
(* The least number of a set.                                              *)
LEMMA MinIsLeast ==
    ASSUME NEW S \in SUBSET Nat, S # {}
    PROVE  Min(S) \in S /\ \A y \in S : Min(S) <= y
<1>1. \E x \in S : \A y \in S : ~(<<y, x>> \in OpToRel(<, Nat))
  <2> HIDE DEF OpToRel
  <2> QED
    BY NatLessThanWellFounded, WFMin
<1>2. PICK x \in S : \A y \in S : ~(<<y, x>> \in OpToRel(<, Nat))
  BY <1>1
<1>3. ASSUME NEW y \in S PROVE x <= y
  <2>1. ~(y < x)
    BY <1>2 DEF OpToRel
  <2> QED
    BY <2>1
<1> QED
  BY <1>3 DEF Min

-----------------------------------------------------------------------------
(* The walk along the list.                                                *)
Place == Nodes \cup {NULL}

Most == Cardinality(Nodes) + 1

LEMMA MostIsNatural == Most \in Nat /\ Most > 0
BY NodesAssumption, FS_CardinalityType DEF Most

(* met is what LIST_FOREACH loads: the head, and link after link.          *)
Follows(met, n, head, link) ==
    \A i \in 1..n :
        met[i] = IF i = 1 THEN head
                 ELSE IF met[i - 1] = NULL THEN NULL ELSE link[met[i - 1]]

LEMMA WalkGoesOn ==
    ASSUME NEW head \in Place, NEW link \in [Nodes -> Place], NEW n \in Nat
    PROVE  \E met \in [1..n -> Place] : Follows(met, n, head, link)
<1> DEFINE Can(k) == \E met \in [1..k -> Place] : Follows(met, k, head, link)
           S == {k \in Nat : ~Can(k)}
<1> SUFFICES ASSUME S # {} PROVE FALSE
  OBVIOUS
<1> DEFINE m == Min(S)
<1>1. m \in S /\ \A k \in S : m <= k
  <2>1. S \in SUBSET Nat
    OBVIOUS
  <2> HIDE DEF S
  <2> QED
    BY <2>1, MinIsLeast
<1> HIDE DEF m
<1>2. m \in Nat /\ ~Can(m)
  BY <1>1
<1>3. m # 0
  <2>1. << >> \in [1..0 -> Place] /\ Follows(<< >>, 0, head, link)
    BY DEF Follows
  <2> QED
    BY <2>1, <1>2
<1>4. m - 1 \in Nat /\ Can(m - 1)
  BY <1>1, <1>2, <1>3
<1>5. PICK met \in [1..m-1 -> Place] : Follows(met, m - 1, head, link)
  BY <1>4
<1> DEFINE more == [i \in 1..m |->
                      IF i = 1 THEN head
                      ELSE IF met[i - 1] = NULL THEN NULL
                      ELSE link[met[i - 1]]]
<1>6. \A i \in 1..m-1 : met[i] \in Place /\ more[i] = met[i]
  BY <1>2, <1>5 DEF Follows
<1>7. \A i \in 1..m : i = 1 \/ i - 1 \in 1..m-1
  BY <1>2
<1>8. \A i \in 1..m : more[i] \in Place
  BY <1>6, <1>7 DEF Place
<1>9. \A i \in 1..m :
         more[i] = IF i = 1 THEN head
                   ELSE IF more[i - 1] = NULL THEN NULL ELSE link[more[i - 1]]
  BY <1>6, <1>7
<1>10. more \in [1..m -> Place]
  BY <1>8
<1> HIDE DEF more
<1>11. Follows(more, m, head, link)
  BY <1>9 DEF Follows
<1> QED
  BY <1>2, <1>10, <1>11

LEMMA SameWalk ==
    ASSUME NEW head, NEW link, NEW n \in Nat,
           NEW f, Follows(f, n, head, link), NEW g, Follows(g, n, head, link)
    PROVE  \A i \in 1..n : f[i] = g[i]
<1> DEFINE S == {i \in 1..n : f[i] # g[i]}
<1> SUFFICES ASSUME S # {} PROVE FALSE
  OBVIOUS
<1> DEFINE m == Min(S)
<1>1. m \in S /\ \A k \in S : m <= k
  <2>1. S \in SUBSET Nat
    OBVIOUS
  <2> HIDE DEF S
  <2> QED
    BY <2>1, MinIsLeast
<1> HIDE DEF m
<1>2. m \in 1..n /\ f[m] # g[m]
  BY <1>1
<1>3. m = 1 \/ (m - 1 \in 1..n /\ f[m - 1] = g[m - 1])
  BY <1>1, <1>2
<1> QED
  BY <1>2, <1>3 DEF Follows

(* The walk is what is met before the end of the list, or too much.        *)
Ends(f) == {i \in 1..Most : f[i] = NULL}

Length(f) == IF Ends(f) = {} THEN Most ELSE Min(Ends(f)) - 1

LEMMA WalkFollows ==
    ASSUME NEW head \in Place, NEW link \in [Nodes -> Place],
           NEW f, Follows(f, Most, head, link)
    PROVE  LET w == WalkFrom(head, link)
           IN  /\ w \in Seq(Nodes) /\ Len(w) = Length(f)
               /\ w = [i \in 1..Length(f) |-> f[i]]
<1> DEFINE met == CHOOSE met :
                     met = [i \in 1..Most |->
                              IF i = 1 THEN head
                              ELSE IF met[i - 1] = NULL THEN NULL
                                   ELSE link[met[i - 1]]]
           length == Length(f)
           w == WalkFrom(head, link)
<1>1. PICK g \in [1..Most -> Place] : Follows(g, Most, head, link)
  BY MostIsNatural, WalkGoesOn
<1>2. g = [i \in 1..Most |->
             IF i = 1 THEN head
             ELSE IF g[i - 1] = NULL THEN NULL ELSE link[g[i - 1]]]
  BY <1>1 DEF Follows
<1>3. met = [i \in 1..Most |->
               IF i = 1 THEN head
               ELSE IF met[i - 1] = NULL THEN NULL ELSE link[met[i - 1]]]
  BY <1>2
<1>4. w = [i \in 1..(IF {i \in 1..Most : met[i] = NULL} = {} THEN Most
                     ELSE Min({i \in 1..Most : met[i] = NULL}) - 1)
             |-> met[i]]
  BY DEF WalkFrom, Most
<1> HIDE DEF met, w
<1>5. Follows(met, Most, head, link)
  BY <1>3 DEF Follows
<1>6. \A i \in 1..Most : met[i] = f[i] /\ f[i] \in Place
  BY <1>1, <1>5, MostIsNatural, SameWalk
<1>7. {i \in 1..Most : met[i] = NULL} = Ends(f)
  BY <1>6 DEF Ends
<1>8. /\ length \in 0..Most
      /\ \A i \in 1..length : i \in 1..Most /\ f[i] # NULL
  <2>1. CASE Ends(f) = {}
    BY <2>1, MostIsNatural DEF Length, Ends
  <2>2. CASE Ends(f) # {}
    <3>1. Ends(f) \in SUBSET Nat
      BY DEF Ends
    <3>2. Min(Ends(f)) \in Ends(f) /\ \A y \in Ends(f) : Min(Ends(f)) <= y
      BY <2>2, <3>1, MinIsLeast
    <3>3. Min(Ends(f)) \in 1..Most
      BY <3>2 DEF Ends
    <3>4. \A i \in 1..Min(Ends(f))-1 : i \in 1..Most /\ i \notin Ends(f)
      BY <3>2, <3>3, MostIsNatural
    <3>5. \A i \in 1..Min(Ends(f))-1 : i \in 1..Most /\ f[i] # NULL
      BY <3>4 DEF Ends
    <3>6. length = Min(Ends(f)) - 1
      BY <2>2 DEF Length
    <3> QED
      BY <3>3, <3>5, <3>6, MostIsNatural
  <2> QED
    BY <2>1, <2>2
<1>9. w = [i \in 1..length |-> met[i]]
  BY <1>4, <1>7 DEF Length
<1> HIDE DEF length
<1>10. w = [i \in 1..length |-> f[i]]
  BY <1>6, <1>8, <1>9
<1>11. w \in [1..length -> Nodes]
  BY <1>6, <1>8, <1>10 DEF Place
<1>12. w \in Seq(Nodes) /\ Len(w) = length
  BY <1>8, <1>11
<1> QED
  BY <1>10, <1>12 DEF length, w

(* A list that ends: its nodes, from the head on.                          *)
IsPath(s, head, link) ==
    /\ s \in Seq(Nodes) /\ Len(s) < Most
    /\ head = IF s = << >> THEN NULL ELSE s[1]
    /\ \A i \in 1..Len(s) : link[s[i]] = IF i = Len(s) THEN NULL ELSE s[i + 1]

LEMMA WalkAlongPath ==
    ASSUME NEW head \in Place, NEW link \in [Nodes -> Place],
           NEW s, IsPath(s, head, link)
    PROVE  WalkFrom(head, link) = s
<1> DEFINE f == [i \in 1..Most |-> IF i <= Len(s) THEN s[i] ELSE NULL]
<1>0. s \in Seq(Nodes) /\ s = [i \in 1..Len(s) |-> s[i]]
  BY LenProperties DEF IsPath
<1>1. /\ Len(s) \in Nat /\ Len(s) + 1 \in 1..Most
      /\ \A i \in 1..Len(s) : s[i] \in Nodes /\ s[i] # NULL
      /\ Len(s) = 0 <=> s = << >>
  BY MostIsNatural, NodesAssumption, LenProperties, EmptySeq DEF IsPath
<1>2. Follows(f, Most, head, link)
  <2> SUFFICES ASSUME NEW i \in 1..Most
               PROVE  f[i] = IF i = 1 THEN head
                             ELSE IF f[i - 1] = NULL THEN NULL
                                  ELSE link[f[i - 1]]
    BY DEF Follows
  <2>1. CASE i = 1
    <3>1. f[1] = IF s = << >> THEN NULL ELSE s[1]
      BY <1>1, <2>1
    <3> QED
      BY <2>1, <3>1 DEF IsPath
  <2>2. CASE i # 1 /\ i - 1 <= Len(s)
    <3>1. i - 1 \in 1..Len(s) /\ i - 1 \in 1..Most
      BY <1>1, <2>2, MostIsNatural
    <3>2. link[s[i - 1]] = IF i - 1 = Len(s) THEN NULL ELSE s[(i - 1) + 1]
      BY <3>1 DEF IsPath
    <3>3. f[i - 1] = s[i - 1] /\ s[i - 1] # NULL
      BY <1>1, <2>2, <3>1
    <3>4. f[i] = IF i - 1 = Len(s) THEN NULL ELSE s[i]
      BY <1>1, <2>2, <3>1
    <3> QED
      BY <2>2, <3>2, <3>3, <3>4
  <2>3. CASE i # 1 /\ ~(i - 1 <= Len(s))
    <3>1. i - 1 \in 1..Most /\ ~(i <= Len(s))
      BY <1>1, <2>3, MostIsNatural
    <3> QED
      BY <2>3, <3>1
  <2> QED
    BY <2>1, <2>2, <2>3
<1>3. Len(s) + 1 \in Ends(f) /\ \A i \in Ends(f) : i > Len(s)
  BY <1>1, MostIsNatural DEF Ends
<1>4. \A i \in 1..Len(s) : f[i] = s[i]
  BY <1>1, MostIsNatural
<1> HIDE DEF f
<1>5. Min(Ends(f)) = Len(s) + 1
  <2>1. Ends(f) \in SUBSET Nat
    BY DEF Ends
  <2>2. Min(Ends(f)) \in Ends(f) /\ Min(Ends(f)) <= Len(s) + 1
    BY <1>3, <2>1, MinIsLeast
  <2> QED
    BY <1>1, <1>3, <2>1, <2>2
<1>6. Length(f) = Len(s)
  BY <1>1, <1>3, <1>5 DEF Length
<1>7. WalkFrom(head, link) = [i \in 1..Len(s) |-> f[i]]
  BY <1>2, <1>6, WalkFollows
<1> QED
  BY <1>0, <1>4, <1>7

LEMMA PathOfWalk ==
    ASSUME NEW head \in Place, NEW link \in [Nodes -> Place],
           Len(WalkFrom(head, link)) < Most
    PROVE  IsPath(WalkFrom(head, link), head, link)
<1> DEFINE w == WalkFrom(head, link)
<1>1. PICK f : Follows(f, Most, head, link)
  BY MostIsNatural, WalkGoesOn
<1>2. /\ w \in Seq(Nodes) /\ Len(w) = Length(f)
      /\ w = [i \in 1..Length(f) |-> f[i]]
  BY <1>1, WalkFollows
<1>0. w \in Seq(Nodes)
  BY <1>2
<1> HIDE DEF w
<1>3. Len(w) < Most
  BY DEF w
<1>4. Ends(f) # {} /\ Min(Ends(f)) \in Ends(f)
  <2>1. Ends(f) # {}
    BY <1>2, <1>3, MostIsNatural DEF Length
  <2>2. Ends(f) \in SUBSET Nat
    BY DEF Ends
  <2> QED
    BY <2>1, <2>2, MinIsLeast
<1>5. Len(w) \in Nat /\ Len(w) + 1 \in 1..Most /\ f[Len(w) + 1] = NULL
  <2>1. Min(Ends(f)) \in 1..Most /\ f[Min(Ends(f))] = NULL
    BY <1>4 DEF Ends
  <2>2. Len(w) = Min(Ends(f)) - 1
    BY <1>2, <1>4 DEF Length
  <2> QED
    BY <2>1, <2>2, MostIsNatural
<1>6. \A i \in 1..Len(w) : w[i] = f[i] /\ w[i] \in Nodes /\ w[i] # NULL
  <2> TAKE i \in 1..Len(w)
  <2>1. w[i] = f[i]
    BY <1>2
  <2>2. w[i] \in Nodes
    BY <1>0, ElementOfSeq
  <2> QED
    BY <2>1, <2>2, NodesAssumption
<1>7. head = IF w = << >> THEN NULL ELSE w[1]
  <2>1. f[1] = head
    BY <1>1, MostIsNatural DEF Follows
  <2>2. CASE w = << >>
    <3>1. Len(w) = 0
      BY <2>2
    <3> QED
      BY <1>5, <2>1, <2>2, <3>1
  <2>3. CASE w # << >>
    <3>1. 1 \in 1..Len(w)
      BY <1>2, <2>3, <1>5, EmptySeq
    <3> QED
      BY <1>6, <2>1, <2>3, <3>1
  <2> QED
    BY <2>2, <2>3
<1>8. ASSUME NEW i \in 1..Len(w)
      PROVE  link[w[i]] = IF i = Len(w) THEN NULL ELSE w[i + 1]
  <2>1. i + 1 \in 1..Most /\ i + 1 # 1 /\ (i + 1) - 1 = i
    BY <1>5, MostIsNatural
  <2>2. f[i] # NULL /\ f[i] = w[i]
    BY <1>6
  <2>3. f[i + 1] = link[w[i]]
    BY <1>1, <2>1, <2>2 DEF Follows
  <2>4. i # Len(w) => w[i + 1] = f[i + 1]
    <3>1. i # Len(w) => i + 1 \in 1..Len(w)
      BY <1>5
    <3> QED
      BY <3>1, <1>6
  <2> QED
    BY <1>5, <2>3, <2>4
<1> QED
  BY <1>2, <1>3, <1>7, <1>8 DEF IsPath, w

LEMMA WalkType ==
    ASSUME NEW head \in Place, NEW link \in [Nodes -> Place]
    PROVE  /\ WalkFrom(head, link) \in Seq(Nodes)
           /\ Len(WalkFrom(head, link)) \in Nat
           /\ DOMAIN WalkFrom(head, link) = 1..Len(WalkFrom(head, link))
<1>1. PICK f \in [1..Most -> Place] : Follows(f, Most, head, link)
  BY MostIsNatural, WalkGoesOn
<1>2. WalkFrom(head, link) \in Seq(Nodes)
  BY <1>1, WalkFollows
<1> QED
  BY <1>2, LenProperties

-----------------------------------------------------------------------------
(* Descriptors and the nodes of the list.                                  *)
LEMMA ControlSocket ==
    /\ Fds \in SUBSET Nat /\ IsFiniteSet(Fds) /\ 0 \notin Fds
    /\ control_socket \in Fds
<1>1. Fds \in SUBSET Nat /\ IsFiniteSet(Fds) /\ 0 \notin Fds
  BY FdsAssumption
<1>2. Fds # {}
  <2>1. Cardinality(Fds) >= 1
    <3>1. Cardinality(Fds) \in Nat /\ MaxOpen \in Nat /\ MaxInits \in Nat
      BY <1>1, BoundsAssumption, FS_CardinalityType
    <3> QED
      BY <3>1, FdsAssumption
  <2> QED
    BY <2>1, FS_EmptySet
<1> QED
  BY <1>1, <1>2, MinIsLeast DEF control_socket

LEMMA Lowest ==
    ASSUME FreeFds # {}
    PROVE  LowestFree \in Fds /\ peer[LowestFree] = "none"
<1>1. FreeFds \in SUBSET Nat
  BY ControlSocket DEF FreeFds
<1>2. LowestFree \in FreeFds
  BY <1>1, MinIsLeast DEF LowestFree
<1> QED
  BY <1>2 DEF FreeFds

LEMMA Visited ==
    ASSUME TypeOK, watch_list # {}
    PROVE  sock_index \in watch_list /\ sock_index \in Fds
<1>1. watch_list \in SUBSET Nat
  BY ControlSocket DEF TypeOK
<1>2. sock_index \in watch_list
  BY <1>1, MinIsLeast DEF sock_index
<1> QED
  BY <1>2 DEF TypeOK

LEMMA WalkOfList ==
    ASSUME TypeOK
    PROVE  /\ Walk \in Seq(Nodes) /\ Len(Walk) \in Nat
           /\ DOMAIN Walk = 1..Len(Walk)
           /\ \A i \in DOMAIN Walk : Walk[i] \in Nodes
           /\ control_conn_list \in Place /\ next \in [Nodes -> Place]
<1>1. control_conn_list \in Place /\ next \in [Nodes -> Place]
  BY DEF TypeOK, Place
<1>2. /\ Walk \in Seq(Nodes) /\ Len(Walk) \in Nat
      /\ DOMAIN Walk = 1..Len(Walk)
  BY <1>1, WalkType DEF Walk
<1>3. ASSUME NEW i \in DOMAIN Walk PROVE Walk[i] \in Nodes
  <2>1. i \in 1..Len(Walk)
    BY <1>2
  <2> HIDE DEF Walk
  <2> QED
    BY <1>2, <2>1, ElementOfSeq
<1> QED
  BY <1>1, <1>2, <1>3

LEMMA FirstHolder ==
    ASSUME TypeOK, NEW fd, isControl(fd)
    PROVE  LET found == Min(Holds(fd))
           IN  /\ found \in DOMAIN Walk /\ found \in 1..Len(Walk)
               /\ sockfd[Walk[found]] = fd
               /\ found # 1 => found - 1 \in DOMAIN Walk
<1>1. Holds(fd) \in SUBSET Nat
  BY WalkOfList DEF Holds
<1>2. Min(Holds(fd)) \in Holds(fd)
  BY <1>1, MinIsLeast DEF isControl
<1>3. /\ Min(Holds(fd)) \in DOMAIN Walk
      /\ sockfd[Walk[Min(Holds(fd))]] = fd
  BY <1>2 DEF Holds
<1>4. DOMAIN Walk = 1..Len(Walk) /\ Len(Walk) \in Nat
  BY WalkOfList
<1> HIDE DEF Walk, Holds
<1> QED
  BY <1>3, <1>4

LEMMA CountsConnections ==
    IsFiniteSet(Connections) /\ Cardinality(Connections) \in Nat
BY ControlSocket, FS_Subset, FS_CardinalityType DEF Connections

LEMMA CountsNodes ==
    ASSUME NEW S \in SUBSET Nodes
    PROVE  IsFiniteSet(S) /\ Cardinality(S) \in Nat
BY NodesAssumption, FS_Subset, FS_CardinalityType

-----------------------------------------------------------------------------
(* The variables stay within their types.                                  *)
LEMMA ConsumeType ==
    ASSUME TypeOK, watch_list # {}, stream[sock_index] # << >>, Consume
    PROVE  /\ stream' \in [Fds -> Seq(Chunks)]
           /\ \A fd \in Fds \ {sock_index} : stream'[fd] = stream[fd]
<1>1. sock_index \in Fds
  BY Visited
<1>2. stream[sock_index] \in Seq(Chunks)
  BY <1>1 DEF TypeOK
<1>3. Tail(stream[sock_index]) \in Seq(Chunks)
  BY <1>2, HeadTailProperties
<1> HIDE DEF sock_index
<1> QED
  BY <1>1, <1>3 DEF TypeOK, Consume

LEMMA ArrivesType ==
    ASSUME TypeOK, NEW fd \in Fds, NEW c \in Chunks, Arrives(fd, c)
    PROVE  /\ stream' \in [Fds -> Seq(Chunks)]
           /\ stream'[fd] # << >>
           /\ \A other \in Fds \ {fd} : stream'[other] = stream[other]
<1>1. stream[fd] \in Seq(Chunks)
  BY DEF TypeOK
<1>2. Append(stream[fd], c) \in Seq(Chunks) /\ Append(stream[fd], c) # << >>
  BY <1>1, AppendProperties
<1> QED
  BY <1>2 DEF TypeOK, Arrives

LEMMA InitType == Init => TypeOK
<1> SUFFICES ASSUME Init PROVE TypeOK
  OBVIOUS
<1>1. << >> \in Seq(Chunks)
  BY EmptySeq
<1>2. backlog \in 0..MaxOpen
  BY BoundsAssumption DEF Init
<1>3. stream \in [Fds -> Seq(Chunks)]
  BY <1>1 DEF Init
<1>4. peer \in [Fds -> {"listen", "none", "open", "owes", "closed", "udp"}]
  BY DEF Init
<1>5. /\ sockfd \in [Nodes -> Fds \cup {Garbage}]
      /\ next \in [Nodes -> Nodes \cup {NULL}]
  BY DEF Init
<1> QED
  BY <1>2, <1>3, <1>4, <1>5, ControlSocket DEF Init, TypeOK

LEMMA OutsideType == TypeOK /\ Outside => TypeOK'
<1> SUFFICES ASSUME TypeOK, Outside PROVE TypeOK'
  OBVIOUS
<1>1. CASE Connect
  <2>1. backlog + 1 \in 0..MaxOpen
    BY <1>1, CountsConnections, BoundsAssumption DEF Connect, TypeOK
  <2> QED
    BY <1>1, <2>1 DEF Outside, Connect, TypeOK, socketVars, listVars,
                      updateVars
<1>2. ASSUME NEW fd \in Fds,
             \/ SendAuthor(fd) \/ SendInit(fd) \/ SendPayload(fd)
             \/ CloseConnection(fd) \/ Datagram(fd)
      PROVE  TypeOK'
  <2>1. /\ backlog' = backlog
        /\ peer' \in [Fds -> {"listen", "none", "open", "owes", "closed",
                              "udp"}]
    BY <1>2 DEF TypeOK, SendAuthor, SendInit, SendPayload, CloseConnection,
                Datagram
  <2>2. \E c \in Chunks : Arrives(fd, c)
    BY <1>2 DEF Chunks, SendAuthor, SendInit, SendPayload, CloseConnection,
                Datagram
  <2>3. stream' \in [Fds -> Seq(Chunks)]
    BY <2>2, ArrivesType
  <2> QED
    BY <2>1, <2>3 DEF Outside, TypeOK, socketVars, listVars, updateVars
<1> QED
  BY <1>1, <1>2 DEF Outside

LEMMA SelectType == TypeOK /\ (Select \/ Tick \/ EndOfPass) => TypeOK'
<1>1. TypeOK /\ Select => TypeOK'
  BY DEF Select, Ready, TypeOK, socketVars, listVars, updateVars, outsideVars
<1>2. TypeOK /\ Tick => TypeOK'
  BY DEF Tick, TypeOK, socketVars, listVars, outsideVars
<1>3. TypeOK /\ EndOfPass => TypeOK'
  BY DEF EndOfPass, TypeOK, socketVars, listVars, updateVars, outsideVars
<1> QED
  BY <1>1, <1>2, <1>3

LEMMA TimeOutType == TypeOK /\ TimeOut => TypeOK'
<1> SUFFICES ASSUME TypeOK, TimeOut PROVE TypeOK'
  OBVIOUS
<1>1. router_count' \in Nat
  BY DEF TimeOut, TypeOK, FreshCount
<1>2. updated' \subseteq isNeighbor
  BY DEF TimeOut, TypeOK
<1> QED
  BY <1>1, <1>2 DEF TimeOut, TypeOK, socketVars, listVars, outsideVars

LEMMA WatchType ==
    ASSUME TypeOK, NEW fd \in Fds, Watch(fd)
    PROVE  master_list' \subseteq Fds /\ head_fd' \in Fds
BY DEF Watch, Raised, TypeOK

LEMMA AcceptType ==
    ASSUME TypeOK, VisitsOnlyReadable, Accept
    PROVE  TypeOK'
<1>1. LowestFree \in Fds
  BY Lowest DEF Accept
<1>2. backlog - 1 \in 0..MaxOpen
  <2>1. control_socket \in watch_list
    BY Visited DEF Accept, Visiting
  <2>2. backlog > 0
    BY <2>1 DEF Accept, Visiting, VisitsOnlyReadable, Readable
  <2> QED
    BY <2>2, BoundsAssumption DEF TypeOK
<1>3. master_list' \subseteq Fds /\ head_fd' \in Fds
  BY <1>1, WatchType DEF Accept
<1>4. peer' \in [Fds -> {"listen", "none", "open", "owes", "closed", "udp"}]
  BY <1>1 DEF Accept, TypeOK
<1>5. PICK c \in Nodes \ allocated :
         /\ allocated' = allocated \cup {c}
         /\ sockfd' = [sockfd EXCEPT ![c] = LowestFree]
         /\ next' = [next EXCEPT ![c] = control_conn_list]
         /\ control_conn_list' = c
  BY DEF Accept
<1>6. /\ allocated' \subseteq Nodes
      /\ sockfd' \in [Nodes -> Fds \cup {Garbage}]
      /\ next' \in [Nodes -> Nodes \cup {NULL}]
      /\ control_conn_list' \in Nodes \cup {NULL}
  BY <1>1, <1>5 DEF TypeOK
<1>7. watch_list' \subseteq Fds
  BY DEF Accept, Rest, TypeOK
<1>8. /\ backlog' = backlog - 1
      /\ UNCHANGED <<pc, router_socket, stream, updateVars, count>>
  BY DEF Accept
<1> QED
  BY <1>2, <1>3, <1>4, <1>6, <1>7, <1>8 DEF TypeOK, updateVars

LEMMA PassType ==
    TypeOK /\ (PassOver \/ UnknownSocket \/ ConnectionCut) => TypeOK'
<1>1. TypeOK /\ PassOver => TypeOK'
  BY DEF PassOver, Rest, TypeOK, socketVars, listVars, updateVars, outsideVars
<1>2. TypeOK /\ UnknownSocket => TypeOK'
  BY DEF UnknownSocket, TypeOK, socketVars, listVars, updateVars, outsideVars
<1>3. TypeOK /\ ConnectionCut => TypeOK'
  BY DEF ConnectionCut, TypeOK, socketVars, listVars, updateVars, outsideVars
<1> QED
  BY <1>1, <1>2, <1>3

LEMMA HeaderType == TypeOK /\ (author_response \/ RecvHeader) => TypeOK'
<1> SUFFICES ASSUME TypeOK, author_response \/ RecvHeader PROVE TypeOK'
  OBVIOUS
<1>1. stream' \in [Fds -> Seq(Chunks)]
  BY ConsumeType DEF author_response, RecvHeader, AtConnection,
                     VisitingConnection, Visiting
<1>2. watch_list' \subseteq Fds /\ pc' \in {pc, "payload"}
  BY DEF author_response, RecvHeader, Rest, TypeOK
<1>3. UNCHANGED <<router_socket, socketVars, listVars, updateVars, outsideVars>>
  BY DEF author_response, RecvHeader
<1> QED
  BY <1>1, <1>2, <1>3
     DEF TypeOK, socketVars, listVars, updateVars, outsideVars

LEMMA InitResponseType ==
    ASSUME TypeOK, AtPayloadOf, init_response
    PROVE  TypeOK'
<1>1. LowestFree \in Fds
  BY Lowest DEF init_response, create_router_sock
<1>2. stream' \in [Fds -> Seq(Chunks)]
  BY ConsumeType DEF init_response, AtPayload, AtPayloadOf
<1>3. master_list' \subseteq Fds /\ head_fd' \in Fds
  BY <1>1, WatchType DEF init_response, create_router_sock
<1>4. /\ peer' \in [Fds -> {"listen", "none", "open", "owes", "closed", "udp"}]
      /\ router_socket' \in Fds
  BY <1>1 DEF init_response, create_router_sock, TypeOK
<1>5. PICK cost \in Topologies, interval \in Intervals :
         /\ router_count' = Len(cost)
         /\ isNeighbor' = Neighbours(cost)
         /\ update_interval' = interval
         /\ timeout' = interval
  BY DEF init_response
<1>6. /\ timeout' \in Nat /\ update_interval' \in Intervals
      /\ router_count' \in Nat /\ isNeighbor' \subseteq Nat
  <2>1. cost \in Seq(Nat)
    BY InitAssumption
  <2>2. Len(cost) \in Nat /\ DOMAIN cost = 1..Len(cost)
    BY <2>1, LenProperties
  <2> QED
    BY <1>5, <2>2, InitAssumption DEF Neighbours
<1>7. /\ router_init' = TRUE /\ updated' = {} /\ pc' = "pass"
      /\ watch_list' \subseteq Fds
      /\ UNCHANGED <<listVars, backlog>>
  BY DEF init_response, Rest, TypeOK
<1> QED
  BY <1>2, <1>3, <1>4, <1>6, <1>7 DEF TypeOK, listVars

LEMMA RemoveType ==
    ASSUME TypeOK, watch_list # {}, isControl(sock_index), remove_control_conn
    PROVE  TypeOK'
<1>1. sock_index \in Fds
  BY Visited
<1> DEFINE found == Min(Holds(sock_index))
<1>2. /\ found \in DOMAIN Walk
      /\ Walk[found] \in Nodes
      /\ found # 1 => Walk[found - 1] \in Nodes
  BY FirstHolder, WalkOfList
<1>3. /\ allocated' \subseteq Nodes
      /\ sockfd' \in [Nodes -> Fds \cup {Garbage}]
  BY DEF remove_control_conn, TypeOK
<1>4. control_conn_list' = HeadWithout(found)
  BY DEF remove_control_conn
<1>5. next' = IF found = 1 THEN next
              ELSE [next EXCEPT ![Walk[found - 1]] = next[Walk[found]]]
  BY DEF remove_control_conn
<1> HIDE DEF found
<1>6. control_conn_list' \in Nodes \cup {NULL}
  BY <1>2, <1>4 DEF HeadWithout, TypeOK
<1>7. next' \in [Nodes -> Nodes \cup {NULL}]
  BY <1>2, <1>5 DEF TypeOK
<1>8. << >> \in Seq(Chunks)
  BY EmptySeq
<1>9. /\ stream' \in [Fds -> Seq(Chunks)]
      /\ peer' \in [Fds -> {"listen", "none", "open", "owes", "closed", "udp"}]
  BY <1>1, <1>8 DEF remove_control_conn, TypeOK
<1>10. /\ pc' \in {"pass", "crashed"}
       /\ master_list' \subseteq Fds /\ watch_list' \subseteq Fds
       /\ UNCHANGED <<router_socket, head_fd, updateVars, backlog>>
  BY DEF remove_control_conn, Rest, TypeOK
<1> QED
  BY <1>3, <1>6, <1>7, <1>9, <1>10 DEF TypeOK, updateVars

(* A connection is closed at the node that was found for it.               *)
LEMMA ClosedOne ==
    ASSUME TypeOK, AtPayloadOf, ConnectionClosed
    PROVE  /\ watch_list # {} /\ isControl(sock_index)
           /\ remove_control_conn /\ pc \in {"pass", "payload"}
BY DEF ConnectionClosed, AtConnection, AtPayload, AtPayloadOf,
       VisitingConnection, Visiting

LEMMA TypeStep ==
    ASSUME TypeOK, VisitsOnlyReadable, AtPayloadOf, [Next]_vars
    PROVE  TypeOK'
<1>1. CASE Outside
  BY <1>1, OutsideType
<1>2. CASE Select \/ Tick \/ EndOfPass
  BY <1>2, SelectType
<1>3. CASE TimeOut
  BY <1>3, TimeOutType
<1>4. CASE Accept
  BY <1>4, AcceptType
<1>5. CASE PassOver \/ UnknownSocket \/ ConnectionCut
  BY <1>5, PassType
<1>6. CASE author_response \/ RecvHeader
  BY <1>6, HeaderType
<1>7. CASE init_response
  BY <1>7, InitResponseType
<1>8. CASE ConnectionClosed
  BY <1>8, ClosedOne, RemoveType
<1>9. CASE UNCHANGED vars
  BY <1>9 DEF TypeOK, vars, socketVars, listVars, updateVars, outsideVars
<1> QED
  BY <1>1, <1>2, <1>3, <1>4, <1>5, <1>6, <1>7, <1>8, <1>9 DEF Next, Router

-----------------------------------------------------------------------------
(* What is watched and what is visited.                                    *)
LEMMA WatchNew ==
    ASSUME TypeOK, WatchesWhatIsOpen, ~Ended,
           NEW fd \in Fds, Watch(fd), NEW kind \in {"open", "udp"},
           peer' = [peer EXCEPT ![fd] = kind]
    PROVE  WatchesWhatIsOpen'
<1>1. master_list = {d \in Fds : peer[d] # "none"}
  BY DEF WatchesWhatIsOpen
<1>2. \A d \in Fds : peer'[d] = IF d = fd THEN kind ELSE peer[d]
  BY DEF TypeOK
<1>3. master_list' = {d \in Fds : peer'[d] # "none"}
  BY <1>1, <1>2 DEF Watch
<1>4. \A d \in master_list' : d <= head_fd'
  <2>1. \A d \in master_list : d <= head_fd
    BY DEF WatchesWhatIsOpen
  <2>2. /\ head_fd' = IF fd > head_fd THEN fd ELSE head_fd
        /\ master_list' = master_list \cup {fd}
    BY DEF Watch, Raised
  <2>3. head_fd \in Nat /\ fd \in Nat /\ master_list \subseteq Nat
    BY ControlSocket DEF TypeOK
  <2> QED
    BY <2>1, <2>2, <2>3
<1> QED
  BY <1>3, <1>4 DEF WatchesWhatIsOpen

(* Nobody outside opens a descriptor of the router, closes one, or takes   *)
(* back what it sent.                                                      *)
LEMMA OutsideAdds ==
    ASSUME TypeOK, Outside
    PROVE  /\ \A fd \in Fds : peer'[fd] = "none" <=> peer[fd] = "none"
           /\ Connections' = Connections
           /\ \A fd \in Fds : Readable(fd) => Readable(fd)'
<1>1. CASE Connect
  <2>1. backlog' > 0 /\ stream' = stream /\ peer' = peer
    BY <1>1 DEF Connect, TypeOK
  <2> QED
    BY <2>1 DEF Connections, Readable
<1>2. ASSUME NEW fd \in Fds,
             \/ SendAuthor(fd) \/ SendInit(fd) \/ SendPayload(fd)
             \/ CloseConnection(fd) \/ Datagram(fd)
      PROVE  /\ \A d \in Fds : peer'[d] = "none" <=> peer[d] = "none"
             /\ Connections' = Connections
             /\ \A d \in Fds : Readable(d) => Readable(d)'
  <2>1. \E c \in Chunks : Arrives(fd, c)
    BY <1>2 DEF Chunks, SendAuthor, SendInit, SendPayload, CloseConnection,
                Datagram
  <2>2. stream'[fd] # << >> /\ \A d \in Fds \ {fd} : stream'[d] = stream[d]
    BY <2>1, ArrivesType
  <2>3. backlog' = backlog
    BY <1>2 DEF SendAuthor, SendInit, SendPayload, CloseConnection, Datagram
  <2>4. \/ peer' = peer
        \/ \E kind \in {"open", "owes", "closed"} :
              peer[fd] \in {"open", "owes"}
                /\ peer' = [peer EXCEPT ![fd] = kind]
    BY <1>2 DEF SendAuthor, SendInit, SendPayload, CloseConnection, Datagram
  <2>5. /\ \A d \in Fds : peer'[d] = "none" <=> peer[d] = "none"
        /\ Connections' = Connections
    BY <2>4 DEF TypeOK, Connections
  <2>6. \A d \in Fds : Readable(d) => Readable(d)'
    BY <2>2, <2>3 DEF Readable
  <2> QED
    BY <2>5, <2>6
<1> QED
  BY <1>1, <1>2 DEF Outside

LEMMA WatchStep ==
    ASSUME TypeOK, AtPayloadOf, WatchesWhatIsOpen, [Next]_vars
    PROVE  WatchesWhatIsOpen'
<1>1. CASE Outside
  <2>1. UNCHANGED <<pc, master_list, head_fd>>
    BY <1>1 DEF Outside, socketVars
  <2>2. \A fd \in Fds : peer'[fd] = "none" <=> peer[fd] = "none"
    BY <1>1, OutsideAdds
  <2> QED
    BY <2>1, <2>2 DEF WatchesWhatIsOpen, Ended
<1>2. CASE Accept
  BY <1>2, Lowest, WatchNew DEF Accept, Visiting, Ended
<1>3. CASE init_response
  BY <1>3, Lowest, WatchNew
     DEF init_response, create_router_sock, AtPayload, Ended
<1>4. CASE ConnectionClosed
  <2>1. /\ sock_index \in Fds /\ pc \in {"pass", "payload"}
        /\ remove_control_conn
    BY <1>4, ClosedOne, Visited
  <2>2. /\ master_list = {d \in Fds : peer[d] # "none"}
        /\ \A fd \in master_list : fd <= head_fd
    BY <2>1 DEF WatchesWhatIsOpen, Ended
  <2>3. /\ peer' = [peer EXCEPT ![sock_index] = "none"]
        /\ master_list' = master_list \ {sock_index}
        /\ head_fd' = head_fd
    BY <2>1 DEF remove_control_conn
  <2> HIDE DEF sock_index
  <2>4. master_list' = {d \in Fds : peer'[d] # "none"}
    BY <2>1, <2>2, <2>3 DEF TypeOK
  <2> QED
    BY <2>2, <2>3, <2>4 DEF WatchesWhatIsOpen
<1>5. CASE \/ Select \/ Tick \/ TimeOut \/ EndOfPass \/ PassOver
           \/ UnknownSocket \/ ConnectionCut \/ author_response \/ RecvHeader
           \/ UNCHANGED vars
  <2>1. ~Ended' => ~Ended
    BY <1>5 DEF Ended, vars, Select, Tick, TimeOut, EndOfPass, PassOver,
                Visiting, UnknownSocket, VisitingConnection, ConnectionCut,
                AtConnection, AtPayload, author_response, RecvHeader
  <2>2. UNCHANGED <<master_list, head_fd, peer>>
    BY <1>5 DEF vars, Select, Tick, TimeOut, EndOfPass, PassOver,
                UnknownSocket, ConnectionCut, author_response, RecvHeader,
                socketVars, outsideVars
  <2> QED
    BY <2>1, <2>2 DEF WatchesWhatIsOpen
<1> QED
  BY <1>1, <1>2, <1>3, <1>4, <1>5 DEF Next, Router

LEMMA VisitStep ==
    ASSUME TypeOK, WatchesWhatIsOpen, VisitsOnlyReadable, AtPayloadOf,
           [Next]_vars
    PROVE  VisitsOnlyReadable'
<1>0. watch_list \subseteq Fds
  BY DEF TypeOK
<1>1. CASE Outside
  <2>1. UNCHANGED <<pc, watch_list>>
    BY <1>1 DEF Outside
  <2>2. \A fd \in Fds : /\ peer'[fd] = "none" <=> peer[fd] = "none"
                        /\ Readable(fd) => Readable(fd)'
    BY <1>1, OutsideAdds
  <2> QED
    BY <1>0, <2>1, <2>2 DEF VisitsOnlyReadable
<1>2. CASE Select
  <2>1. \A fd \in watch_list' : peer[fd] # "none" /\ Readable(fd)
    BY <1>2 DEF Select, Ready, WatchesWhatIsOpen, Ended
  <2>2. UNCHANGED <<peer, backlog, stream>>
    BY <1>2 DEF Select, outsideVars
  <2> QED
    BY <2>1, <2>2 DEF VisitsOnlyReadable, Readable
<1>3. CASE PassOver \/ author_response
  <2>1. watch_list' = watch_list \ {sock_index} /\ pc = "pass"
    BY <1>3 DEF PassOver, author_response, Rest, AtConnection,
                VisitingConnection, Visiting
  <2>2. UNCHANGED <<peer, backlog>>
    BY <1>3 DEF PassOver, author_response, outsideVars
  <2>3. \A fd \in watch_list' : stream'[fd] = stream[fd]
    <3>1. CASE PassOver
      BY <3>1 DEF PassOver
    <3>2. CASE author_response
      BY <1>0, <2>1, <3>2, ConsumeType
         DEF author_response, AtConnection, VisitingConnection, Visiting
    <3> QED
      BY <1>3, <3>1, <3>2
  <2> HIDE DEF sock_index
  <2> QED
    BY <2>1, <2>2, <2>3 DEF VisitsOnlyReadable, Readable
<1>4. CASE Accept
  <2>1. LowestFree \in Fds
    BY <1>4, Lowest DEF Accept
  <2>2. /\ pc = "pass" /\ sock_index = control_socket
        /\ watch_list' = watch_list \ {sock_index}
        /\ peer' = [peer EXCEPT ![LowestFree] = "open"]
        /\ stream' = stream
    BY <1>4 DEF Accept, Visiting, Rest
  <2>3. \A fd \in watch_list' : peer'[fd] # "none"
    BY <1>0, <2>1, <2>2 DEF TypeOK, VisitsOnlyReadable
  <2>4. \A fd \in watch_list' : fd # control_socket /\ Readable(fd)
    BY <2>2 DEF VisitsOnlyReadable
  <2>5. \A fd \in watch_list' : Readable(fd)'
    BY <2>2, <2>4 DEF Readable
  <2> QED
    BY <2>3, <2>5 DEF VisitsOnlyReadable
<1>5. CASE init_response
  <2>1. LowestFree \in Fds
    BY <1>5, Lowest DEF init_response, create_router_sock
  <2>2. /\ pc = "payload" /\ watch_list # {} /\ stream[sock_index] # << >>
        /\ watch_list' = watch_list \ {sock_index}
        /\ peer' = [peer EXCEPT ![LowestFree] = "udp"]
        /\ backlog' = backlog /\ Consume
    BY <1>5 DEF init_response, create_router_sock, AtPayload, Rest, AtPayloadOf
  <2>3. \A fd \in watch_list' : stream'[fd] = stream[fd]
    BY <1>0, <2>2, ConsumeType
  <2>4. \A fd \in watch_list' : peer[fd] # "none" /\ Readable(fd)
    BY <2>2 DEF AtPayloadOf
  <2>5. \A fd \in watch_list' : peer'[fd] # "none"
    BY <1>0, <2>1, <2>2, <2>4 DEF TypeOK
  <2>6. \A fd \in watch_list' : Readable(fd)'
    BY <2>2, <2>3, <2>4 DEF Readable
  <2> QED
    BY <2>5, <2>6 DEF VisitsOnlyReadable
<1>6. CASE ConnectionClosed
  <2>1. /\ sock_index \in Fds /\ pc \in {"pass", "payload"}
        /\ remove_control_conn
    BY <1>6, ClosedOne, Visited
  <2>2. /\ watch_list' = watch_list \ {sock_index}
        /\ peer' = [peer EXCEPT ![sock_index] = "none"]
        /\ stream' = [stream EXCEPT ![sock_index] = << >>]
        /\ backlog' = backlog
    BY <2>1 DEF remove_control_conn, Rest
  <2>3. \A fd \in watch_list' : peer[fd] # "none" /\ Readable(fd)
    BY <2>1, <2>2 DEF VisitsOnlyReadable, AtPayloadOf
  <2> HIDE DEF sock_index
  <2>4. \A fd \in watch_list' : peer'[fd] = peer[fd] /\ stream'[fd] = stream[fd]
    BY <1>0, <2>2 DEF TypeOK
  <2> QED
    BY <2>2, <2>3, <2>4 DEF VisitsOnlyReadable, Readable
<1>7. CASE TimeOut \/ EndOfPass \/ Tick
  <2>1. pc' # "pass"
    BY <1>7 DEF TimeOut, EndOfPass, Tick
  <2> QED
    BY <2>1 DEF VisitsOnlyReadable
<1>8. CASE UnknownSocket \/ ConnectionCut \/ RecvHeader
  <2>1. pc' # "pass"
    BY <1>8 DEF UnknownSocket, ConnectionCut, RecvHeader
  <2> QED
    BY <2>1 DEF VisitsOnlyReadable
<1>9. CASE UNCHANGED vars
  BY <1>9 DEF VisitsOnlyReadable, Readable, vars, outsideVars
<1> QED
  BY <1>1, <1>2, <1>3, <1>4, <1>5, <1>6, <1>7, <1>8, <1>9 DEF Next, Router

LEMMA AtPayloadStep ==
    ASSUME TypeOK, VisitsOnlyReadable, AtPayloadOf, [Next]_vars
    PROVE  AtPayloadOf'
<1>0. watch_list \subseteq Fds
  BY DEF TypeOK
<1>1. CASE Outside
  <2>1. UNCHANGED <<pc, watch_list, sockfd, next, control_conn_list>>
    BY <1>1 DEF Outside, listVars
  <2>2. \A fd \in Fds : /\ peer'[fd] = "none" <=> peer[fd] = "none"
                        /\ Readable(fd) => Readable(fd)'
    BY <1>1, OutsideAdds
  <2>3. sock_index' = sock_index
    BY <2>1 DEF sock_index
  <2>4. isControl(sock_index)' <=> isControl(sock_index)
    BY <2>1 DEF isControl, Holds, Walk, sock_index
  <2> HIDE DEF sock_index
  <2> QED
    BY <1>0, <2>1, <2>2, <2>3, <2>4 DEF AtPayloadOf
<1>2. CASE RecvHeader
  <2>1. /\ pc = "pass" /\ watch_list # {} /\ isControl(sock_index)
        /\ stream[sock_index] # << >> /\ Consume
        /\ UNCHANGED <<watch_list, sockfd, next, control_conn_list, peer,
                       backlog>>
    BY <1>2 DEF RecvHeader, AtConnection, VisitingConnection, Visiting,
                listVars, outsideVars
  <2>2. sock_index' = sock_index
    BY <2>1 DEF sock_index
  <2>3. isControl(sock_index)'
    BY <2>1 DEF isControl, Holds, Walk, sock_index
  <2>4. \A fd \in Fds \ {sock_index} : stream'[fd] = stream[fd]
    BY <2>1, ConsumeType
  <2> HIDE DEF sock_index
  <2>5. \A fd \in watch_list' \ {sock_index'} :
           peer'[fd] # "none" /\ Readable(fd)'
    BY <1>0, <2>1, <2>2, <2>4 DEF VisitsOnlyReadable, Readable
  <2> QED
    BY <2>1, <2>3, <2>5 DEF AtPayloadOf
<1>3. CASE UNCHANGED vars
  BY <1>3 DEF AtPayloadOf, isControl, Holds, Walk, sock_index, Readable,
              vars, listVars, outsideVars
<1>4. CASE \/ Select \/ Tick \/ TimeOut \/ EndOfPass \/ Accept \/ PassOver
           \/ UnknownSocket \/ ConnectionCut \/ author_response
           \/ init_response \/ ConnectionClosed
  <2>1. pc' # "payload"
    BY <1>4, ClosedOne
       DEF Select, Tick, TimeOut, EndOfPass, Accept, PassOver, Visiting,
           UnknownSocket, VisitingConnection, ConnectionCut, author_response,
           AtConnection, init_response, ConnectionClosed, remove_control_conn
  <2> QED
    BY <2>1 DEF AtPayloadOf
<1> QED
  BY <1>1, <1>2, <1>3, <1>4 DEF Next, Router

-----------------------------------------------------------------------------
(* The list against the connections.                                       *)
LEMMA CountsUpTo ==
    ASSUME NEW n \in Nat
    PROVE  Cardinality(1..n) = n
<1>1. Cardinality(1..n) = IF 1 > n THEN 0 ELSE n - 1 + 1
  BY FS_Interval
<1> QED
  BY <1>1

LEMMA ConnectionsChange ==
    ASSUME TypeOK, NEW fd \in Fds, NEW kind \in {"none", "open", "udp"},
           peer' = [peer EXCEPT ![fd] = kind]
    PROVE  Connections' = IF kind = "open" THEN Connections \cup {fd}
                          ELSE Connections \ {fd}
<1>1. \A d \in Fds : peer'[d] = IF d = fd THEN kind ELSE peer[d]
  BY DEF TypeOK
<1> QED
  BY <1>1 DEF Connections

LEMMA HoldersAreFinite ==
    ASSUME TypeOK, NEW fd
    PROVE  IsFiniteSet(Holds(fd))
<1>1. DOMAIN Walk = 1..Len(Walk) /\ Len(Walk) \in Nat
  BY WalkOfList
<1>2. IsFiniteSet(1..Len(Walk))
  BY <1>1, FS_Interval
<1>3. Holds(fd) \in SUBSET (1..Len(Walk))
  BY <1>1 DEF Holds
<1> QED
  BY <1>2, <1>3, FS_Subset

(* In an exact list the nodes and the connections correspond.              *)
LEMMA OneToOne ==
    ASSUME TypeOK, ListIsExact
    PROVE  /\ \A i \in DOMAIN Walk : Walk[i] \in allocated
           /\ \A i \in DOMAIN Walk : sockfd[Walk[i]] \in Connections
           /\ \A i, j \in DOMAIN Walk :
                 sockfd[Walk[i]] = sockfd[Walk[j]] => i = j
           /\ \A fd \in Connections :
                 \E i \in DOMAIN Walk : sockfd[Walk[i]] = fd
<1>1. ASSUME NEW fd \in Connections
      PROVE  \E i : Holds(fd) = {i}
  <2>1. Cardinality(Holds(fd)) = 1
    BY DEF ListIsExact
  <2>2. IsFiniteSet(Holds(fd))
    BY HoldersAreFinite
  <2> QED
    BY <2>1, <2>2, FS_Singleton
<1>2. ASSUME NEW i \in DOMAIN Walk, NEW j \in DOMAIN Walk,
             sockfd[Walk[i]] = sockfd[Walk[j]]
      PROVE  i = j
  <2> DEFINE fd == sockfd[Walk[i]]
  <2>1. fd \in Connections
    BY DEF ListIsExact
  <2>2. i \in Holds(fd) /\ j \in Holds(fd)
    BY <1>2 DEF Holds
  <2> HIDE DEF fd
  <2> QED
    BY <1>1, <2>1, <2>2
<1>3. ASSUME NEW fd \in Connections
      PROVE  \E i \in DOMAIN Walk : sockfd[Walk[i]] = fd
  BY <1>1 DEF Holds
<1> QED
  BY <1>2, <1>3 DEF ListIsExact

(* There is a node for one more than an exact list has.                    *)
LEMMA ExactIsShort ==
    ASSUME TypeOK, ListIsExact, NEW c \in Nodes \ allocated
    PROVE  Len(Walk) < Cardinality(Nodes)
<1> DEFINE T == Nodes \ {c}
           f == [i \in DOMAIN Walk |-> Walk[i]]
<1>1. IsFiniteSet(T) /\ Cardinality(T) = Cardinality(Nodes) - 1
  BY NodesAssumption, FS_RemoveElement
<1>2. f \in Injection(DOMAIN Walk, T)
  <2>1. \A i \in DOMAIN Walk : f[i] \in T
    <3>1. \A i \in DOMAIN Walk : Walk[i] \in Nodes /\ Walk[i] \in allocated
      BY WalkOfList, OneToOne
    <3> QED
      BY <3>1
  <2>2. \A i, j \in DOMAIN Walk : f[i] = f[j] => i = j
    <3>1. \A i, j \in DOMAIN Walk : Walk[i] = Walk[j] => i = j
      BY OneToOne
    <3> QED
      BY <3>1
  <2> QED
    BY <2>1, <2>2 DEF Injection, IsInjective
<1>3. Cardinality(DOMAIN Walk) <= Cardinality(T)
  BY <1>1, <1>2, FS_Injection
<1>4. Cardinality(DOMAIN Walk) = Len(Walk)
  <2>1. DOMAIN Walk = 1..Len(Walk) /\ Len(Walk) \in Nat
    BY WalkOfList
  <2> QED
    BY <2>1, CountsUpTo
<1>5. Len(Walk) \in Nat /\ Cardinality(Nodes) \in Nat
  BY WalkOfList, NodesAssumption, FS_CardinalityType
<1> QED
  BY <1>1, <1>3, <1>4, <1>5

(* A node put in front of an exact list is met first.                      *)
LEMMA WalkOfLonger ==
    ASSUME TypeOK, ListIsExact, NEW c \in Nodes \ allocated,
           next' = [next EXCEPT ![c] = control_conn_list],
           control_conn_list' = c
    PROVE  /\ DOMAIN Walk' = 1..Len(Walk) + 1
           /\ Walk'[1] = c
           /\ \A i \in DOMAIN Walk : Walk'[i + 1] = Walk[i]
<1> DEFINE w == Walk
           s == <<c>> \o w
           head == control_conn_list
<1>1. /\ w \in Seq(Nodes) /\ Len(w) \in Nat /\ DOMAIN w = 1..Len(w)
      /\ head \in Place /\ next \in [Nodes -> Place]
  BY WalkOfList
<1>2. Len(w) + 1 < Most /\ Len(w) < Most /\ Most \in Nat
  <2>1. Len(w) < Cardinality(Nodes) /\ Cardinality(Nodes) \in Nat
    BY ExactIsShort, NodesAssumption, FS_CardinalityType
  <2> HIDE DEF w
  <2> QED
    BY <1>1, <2>1 DEF Most
<1>3. IsPath(w, head, next)
  BY <1>1, <1>2, PathOfWalk DEF Walk
<1>4. \A i \in 1..Len(w) : w[i] \in Nodes /\ w[i] # c
  BY <1>1, WalkOfList, OneToOne
<1> HIDE DEF w
<1>5. /\ s \in Seq(Nodes) /\ Len(s) = 1 + Len(w)
      /\ \A i \in 1..1 + Len(w) : s[i] = IF i <= 1 THEN c ELSE w[i - 1]
  <2>1. <<c>> \in Seq(Nodes) /\ Len(<<c>>) = 1 /\ <<c>>[1] = c
    OBVIOUS
  <2>2. /\ s \in Seq(Nodes) /\ Len(s) = Len(<<c>>) + Len(w)
        /\ \A i \in 1..Len(<<c>>) + Len(w) :
              s[i] = IF i <= Len(<<c>>) THEN <<c>>[i] ELSE w[i - Len(<<c>>)]
    BY <1>1, <2>1, ConcatProperties
  <2> QED
    BY <1>1, <2>1, <2>2
<1> HIDE DEF s
<1>6. s # << >> /\ s[1] = c /\ \A i \in 1..Len(w) : s[i + 1] = w[i]
  <2>1. Len(s) # 0
    BY <1>1, <1>5
  <2>2. s # << >>
    BY <2>1, EmptySeq
  <2> QED
    BY <1>1, <1>5, <2>2
<1>7. next' \in [Nodes -> Place] /\ c \in Place
  BY <1>1 DEF Place
<1>8. ASSUME NEW i \in 1..Len(s)
      PROVE  next'[s[i]] = IF i = Len(s) THEN NULL ELSE s[i + 1]
  <2>1. CASE i = 1
    <3>1. next'[s[i]] = head
      BY <1>1, <1>6, <2>1
    <3>2. head = IF w = << >> THEN NULL ELSE w[1]
      BY <1>3 DEF IsPath
    <3>3. w = << >> <=> Len(w) = 0
      BY <1>1, EmptySeq
    <3>4. w # << >> => s[2] = w[1]
      BY <1>1, <1>6, <3>3
    <3> QED
      BY <1>1, <1>5, <2>1, <3>1, <3>2, <3>3, <3>4
  <2>2. CASE i # 1
    <3>1. i - 1 \in 1..Len(w) /\ s[i] = w[i - 1]
      BY <1>1, <1>5, <2>2
    <3>2. next'[s[i]] = next[w[i - 1]]
      BY <1>1, <1>4, <3>1
    <3>3. next[w[i - 1]] = IF i - 1 = Len(w) THEN NULL ELSE w[(i - 1) + 1]
      BY <1>3, <3>1 DEF IsPath
    <3>4. i # Len(s) => i \in 1..Len(w) /\ s[i + 1] = w[i]
      BY <1>1, <1>5, <1>6
    <3> QED
      BY <1>1, <1>5, <3>1, <3>2, <3>3, <3>4
  <2> QED
    BY <2>1, <2>2
<1>9. IsPath(s, c, next')
  BY <1>1, <1>2, <1>5, <1>6, <1>8 DEF IsPath
<1>10. Walk' = s
  <2>1. WalkFrom(c, next') = s
    BY <1>7, <1>9, WalkAlongPath
  <2> QED
    BY <2>1 DEF Walk
<1>11. DOMAIN s = 1..Len(s)
  BY <1>5, LenProperties
<1>12. Len(s) = Len(w) + 1
  BY <1>1, <1>5
<1> QED
  BY <1>1, <1>6, <1>10, <1>11, <1>12 DEF w

LEMMA AcceptExact ==
    ASSUME TypeOK, ListIsExact, Accept
    PROVE  ListIsExact'
<1> DEFINE fd == LowestFree
<1>1. fd \in Fds /\ peer[fd] = "none"
  BY Lowest DEF Accept
<1>2. PICK c \in Nodes \ allocated :
         /\ allocated' = allocated \cup {c}
         /\ sockfd' = [sockfd EXCEPT ![c] = LowestFree]
         /\ next' = [next EXCEPT ![c] = control_conn_list]
         /\ control_conn_list' = c
  BY DEF Accept
<1>3. peer' = [peer EXCEPT ![LowestFree] = "open"]
  BY DEF Accept
<1>4. Connections' = Connections \cup {fd} /\ fd \notin Connections
  BY <1>1, <1>3, ConnectionsChange DEF Connections
<1>5. /\ DOMAIN Walk' = 1..Len(Walk) + 1
      /\ Walk'[1] = c
      /\ \A i \in DOMAIN Walk : Walk'[i + 1] = Walk[i]
  BY <1>2, WalkOfLonger
<1>6. /\ DOMAIN Walk = 1..Len(Walk) /\ Len(Walk) \in Nat
      /\ \A i \in DOMAIN Walk : Walk[i] \in Nodes /\ Walk[i] # c
  BY WalkOfList, OneToOne
<1>7. sockfd'[Walk'[1]] = fd
  BY <1>2, <1>5 DEF TypeOK
<1>8. \A i \in DOMAIN Walk : sockfd'[Walk'[i + 1]] = sockfd[Walk[i]]
  BY <1>2, <1>5, <1>6 DEF TypeOK
<1>9. \A k \in DOMAIN Walk' : k = 1 \/ k - 1 \in DOMAIN Walk
  BY <1>5, <1>6
<1>10. \A k \in DOMAIN Walk' :
          k # 1 => /\ Walk'[k] = Walk[k - 1]
                   /\ sockfd'[Walk'[k]] = sockfd[Walk[k - 1]]
  <2> TAKE k \in DOMAIN Walk'
  <2>1. k \in Int /\ (k - 1) + 1 = k
    BY <1>5, <1>6
  <2> QED
    BY <1>5, <1>8, <1>9, <2>1
<1>11. ASSUME NEW i \in DOMAIN Walk'
       PROVE  Walk'[i] \in allocated' /\ sockfd'[Walk'[i]] \in Connections'
  <2>1. CASE i = 1
    BY <1>2, <1>4, <1>5, <1>7, <2>1
  <2>2. CASE i # 1
    <3>1. i - 1 \in DOMAIN Walk
      BY <1>9, <2>2
    <3>2. /\ Walk[i - 1] \in allocated
          /\ sockfd[Walk[i - 1]] \in Connections
      BY <3>1, OneToOne
    <3> QED
      BY <1>2, <1>4, <1>10, <2>2, <3>2
  <2> QED
    BY <2>1, <2>2
<1>12. ASSUME NEW d \in Connections'
       PROVE  \E k : Holds(d)' = {k}
  <2>1. CASE d = fd
    <3>1. \A k \in DOMAIN Walk' : k # 1 => sockfd'[Walk'[k]] # d
      BY <1>4, <1>9, <1>10, <2>1, OneToOne
    <3>2. 1 \in DOMAIN Walk'
      BY <1>5, <1>6
    <3>3. Holds(d)' = {1}
      BY <1>7, <2>1, <3>1, <3>2 DEF Holds
    <3> QED
      BY <3>3
  <2>2. CASE d # fd
    <3>1. PICK i \in DOMAIN Walk : sockfd[Walk[i]] = d
      BY <1>4, <2>2, OneToOne
    <3>2. i + 1 \in DOMAIN Walk' /\ sockfd'[Walk'[i + 1]] = d
      BY <1>5, <1>6, <1>8, <3>1
    <3>3. ASSUME NEW k \in DOMAIN Walk', sockfd'[Walk'[k]] = d
          PROVE  k = i + 1
      <4>1. k # 1
        BY <1>7, <2>2, <3>3
      <4>2. k - 1 \in DOMAIN Walk /\ sockfd[Walk[k - 1]] = d
        BY <1>9, <1>10, <3>3, <4>1
      <4>3. k - 1 = i
        BY <3>1, <4>2, OneToOne
      <4>4. k \in Int /\ i \in Int
        BY <1>5, <1>6
      <4> QED
        BY <4>3, <4>4
    <3>4. Holds(d)' = {i + 1}
      BY <3>2, <3>3 DEF Holds
    <3> QED
      BY <3>4
  <2> QED
    BY <2>1, <2>2
<1>13. \A d \in Connections' : Cardinality(Holds(d)') = 1
  BY <1>12, FS_Singleton
<1> QED
  BY <1>11, <1>13 DEF ListIsExact

(* The only entry of an exact list is removed: nothing is left of it.      *)
LEMMA LastRemoved ==
    ASSUME TypeOK, ListIsExact, watch_list # {}, isControl(sock_index),
           Connections = {sock_index}, remove_control_conn
    PROVE  ListIsExact'
<1> DEFINE found == Min(Holds(sock_index))
<1>1. \A i, j \in DOMAIN Walk : i = j
  BY OneToOne
<1>2. DOMAIN Walk = 1..Len(Walk) /\ Len(Walk) \in Nat
  BY WalkOfList
<1>3. found \in DOMAIN Walk /\ found \in 1..Len(Walk)
  BY FirstHolder
<1> HIDE DEF found
<1>4. found = 1 /\ Len(Walk) = 1
  <2>1. 1 \in DOMAIN Walk /\ Len(Walk) \in DOMAIN Walk
    BY <1>2, <1>3
  <2> QED
    BY <1>1, <1>3, <2>1
<1>5. next[Walk[1]] = NULL
  <2>1. Len(Walk) < Most
    <3>1. Walk[1] \in Nodes
      BY <1>3, <1>4, WalkOfList
    <3>2. Cardinality(Nodes) # 0 /\ Cardinality(Nodes) \in Nat
      BY <3>1, NodesAssumption, FS_EmptySet, FS_CardinalityType
    <3> QED
      BY <1>4, <3>2 DEF Most
  <2>2. IsPath(Walk, control_conn_list, next)
    BY <2>1, WalkOfList, PathOfWalk DEF Walk
  <2>3. next[Walk[1]] = IF 1 = Len(Walk) THEN NULL ELSE Walk[1 + 1]
    BY <1>2, <1>4, <2>2 DEF IsPath
  <2> QED
    BY <1>4, <2>3
<1>6. control_conn_list' = NULL /\ next' = next
  BY <1>4, <1>5 DEF remove_control_conn, HeadWithout, found
<1>7. Walk' = << >>
  <2>1. IsPath(<< >>, NULL, next)
    BY MostIsNatural, EmptySeq DEF IsPath
  <2>2. NULL \in Place /\ next \in [Nodes -> Place]
    BY WalkOfList DEF Place
  <2>3. WalkFrom(NULL, next) = << >>
    BY <2>1, <2>2, WalkAlongPath
  <2> QED
    BY <1>6, <2>3 DEF Walk
<1>8. Connections' = {}
  <2>1. peer' = [peer EXCEPT ![sock_index] = "none"] /\ sock_index \in Fds
    BY Visited DEF remove_control_conn
  <2> QED
    BY <2>1, ConnectionsChange
<1> QED
  BY <1>7, <1>8 DEF ListIsExact

(* remove_control_conn frees a node that is in use, and every node there   *)
(* is when the list was exact.                                             *)
LEMMA RemovedNodes ==
    ASSUME TypeOK, ~Ended, NodesAndConnections, watch_list # {},
           isControl(sock_index), remove_control_conn
    PROVE  NodesAndConnections'
<1> DEFINE found == Min(Holds(sock_index))
           nodes == {Walk[i] : i \in DOMAIN Walk}
<1> SUFFICES ASSUME pc' = "pass"
             PROVE  \/ Cardinality(allocated') < Cardinality(Connections')
                    \/ /\ Cardinality(allocated') = Cardinality(Connections')
                       /\ ListIsExact'
  BY DEF NodesAndConnections, remove_control_conn, Ended
<1>1. /\ \A i \in DOMAIN Walk : Walk[i] \in allocated
      /\ allocated' = allocated \ nodes
      /\ peer' = [peer EXCEPT ![sock_index] = "none"]
      /\ sock_index \in Fds
  BY Visited DEF remove_control_conn
<1>2. found \in DOMAIN Walk /\ sockfd[Walk[found]] = sock_index
  BY FirstHolder
<1>3. Connections' = Connections \ {sock_index}
  BY <1>1, ConnectionsChange
<1>4. IsFiniteSet(allocated) /\ Cardinality(allocated) \in Nat
  BY CountsNodes DEF TypeOK
<1>5. IsFiniteSet(Connections) /\ Cardinality(Connections) \in Nat
  BY CountsConnections
<1>6. /\ Cardinality(Connections') \in Nat
      /\ Cardinality(Connections') =
           IF sock_index \in Connections THEN Cardinality(Connections) - 1
           ELSE Cardinality(Connections)
  BY <1>3, <1>5, FS_RemoveElement, FS_CardinalityType
<1>7. CASE Cardinality(allocated) < Cardinality(Connections)
  <2> DEFINE node == Walk[found]
  <2>1. node \in allocated /\ allocated' \subseteq allocated \ {node}
    BY <1>1, <1>2
  <2> HIDE DEF node
  <2>2. /\ IsFiniteSet(allocated \ {node})
        /\ Cardinality(allocated \ {node}) = Cardinality(allocated) - 1
    BY <1>4, <2>1, FS_RemoveElement
  <2>3. /\ Cardinality(allocated') <= Cardinality(allocated \ {node})
        /\ IsFiniteSet(allocated')
    BY <2>1, <2>2, FS_Subset
  <2>4. Cardinality(allocated') \in Nat
    BY <2>3, FS_CardinalityType
  <2> QED
    BY <1>4, <1>5, <1>6, <1>7, <2>2, <2>3, <2>4
<1>8. CASE Cardinality(allocated) = Cardinality(Connections) /\ ListIsExact
  <2>1. sock_index \in Connections
    BY <1>2, <1>8, OneToOne
  <2>2. nodes \in SUBSET allocated
    BY <1>1
  <2> DEFINE f == [fd \in Connections |->
                     CHOOSE n \in nodes : sockfd[n] = fd]
  <2>3. \A fd \in Connections : f[fd] \in nodes /\ sockfd[f[fd]] = fd
    <3>1. \A fd \in Connections : \E n \in nodes : sockfd[n] = fd
      BY <1>8, OneToOne
    <3> HIDE DEF nodes
    <3> QED
      BY <3>1
  <2> HIDE DEF nodes
  <2>4. f \in Injection(Connections, nodes)
    <3>1. f \in [Connections -> nodes]
      BY <2>3
    <3>2. \A a, b \in Connections : f[a] = f[b] => a = b
      BY <2>3
    <3> HIDE DEF f
    <3> QED
      BY <3>1, <3>2 DEF Injection, IsInjective
  <2>5. IsFiniteSet(nodes) /\ Cardinality(nodes) <= Cardinality(allocated)
    BY <1>4, <2>2, FS_Subset
  <2> HIDE DEF f
  <2>6. Cardinality(Connections) <= Cardinality(nodes)
    BY <2>4, <2>5, FS_Injection
  <2>7. Cardinality(nodes) \in Nat
    BY <2>5, FS_CardinalityType
  <2>8. Cardinality(nodes) = Cardinality(allocated)
    BY <1>4, <1>5, <1>8, <2>5, <2>6, <2>7
  <2>9. nodes = allocated
    BY <1>4, <2>2, <2>8, FS_Subset
  <2>10. Cardinality(allocated') = 0
    BY <1>1, <2>9, FS_EmptySet DEF nodes
  <2>11. CASE Connections = {sock_index}
    <3>1. ListIsExact'
      BY <1>8, <2>11, LastRemoved
    <3>2. Cardinality(Connections') = 0
      BY <1>3, <2>11, FS_EmptySet
    <3> QED
      BY <2>10, <3>1, <3>2
  <2>12. CASE Connections # {sock_index}
    <3>1. Connections' # {}
      BY <1>3, <2>1, <2>12
    <3>2. IsFiniteSet(Connections')
      BY <1>3, <1>5, FS_RemoveElement
    <3>3. Cardinality(Connections') # 0
      BY <3>1, <3>2, FS_EmptySet
    <3>4. Cardinality(Connections') \in Nat
      BY <1>6
    <3>5. Cardinality(allocated') < Cardinality(Connections')
      BY <2>10, <3>3, <3>4
    <3> QED
      BY <3>5
  <2> QED
    BY <2>11, <2>12
<1> QED
  BY <1>7, <1>8 DEF NodesAndConnections

LEMMA AcceptedNodes ==
    ASSUME TypeOK, NodesAndConnections, Accept
    PROVE  NodesAndConnections'
<1>1. ~Ended
  BY DEF Accept, Visiting, Ended
<1>2. LowestFree \in Fds /\ LowestFree \notin Connections
  BY Lowest DEF Accept, Connections
<1>3. Connections' = Connections \cup {LowestFree}
  BY <1>2, ConnectionsChange DEF Accept
<1>4. PICK c \in Nodes \ allocated : allocated' = allocated \cup {c}
  BY DEF Accept
<1>5. IsFiniteSet(allocated) /\ Cardinality(allocated) \in Nat
  BY CountsNodes DEF TypeOK
<1>6. IsFiniteSet(Connections) /\ Cardinality(Connections) \in Nat
  BY CountsConnections
<1>7. /\ Cardinality(allocated') = Cardinality(allocated) + 1
      /\ Cardinality(Connections') = Cardinality(Connections) + 1
  BY <1>2, <1>3, <1>4, <1>5, <1>6, FS_AddElement
<1>8. ListIsExact => ListIsExact'
  BY AcceptExact
<1> QED
  BY <1>1, <1>5, <1>6, <1>7, <1>8 DEF NodesAndConnections

(* Nothing else changes the list or who is connected.                      *)
LEMMA SameList ==
    ASSUME NodesAndConnections, ~Ended' => ~Ended, UNCHANGED listVars,
           Connections' = Connections
    PROVE  NodesAndConnections'
BY DEF NodesAndConnections, ListIsExact, Holds, Walk, listVars

LEMMA NodesStep ==
    ASSUME TypeOK, AtPayloadOf, NodesAndConnections, [Next]_vars
    PROVE  NodesAndConnections'
<1>1. CASE Outside
  <2>1. ~Ended /\ UNCHANGED listVars
    BY <1>1 DEF Outside
  <2> QED
    BY <1>1, <2>1, OutsideAdds, SameList
<1>2. CASE Accept
  BY <1>2, AcceptedNodes
<1>3. CASE ConnectionClosed
  <2>1. ~Ended
    BY <1>3, ClosedOne DEF Ended
  <2> QED
    BY <1>3, <2>1, ClosedOne, RemovedNodes
<1>4. CASE init_response
  <2>1. LowestFree \in Fds /\ LowestFree \notin Connections
    BY <1>4, Lowest DEF init_response, create_router_sock, Connections
  <2>2. Connections' = Connections \ {LowestFree}
    BY <1>4, <2>1, ConnectionsChange DEF init_response, create_router_sock
  <2>3. ~Ended /\ UNCHANGED listVars
    BY <1>4 DEF init_response, AtPayload, Ended
  <2> QED
    BY <2>1, <2>2, <2>3, SameList
<1>5. CASE \/ Select \/ Tick \/ TimeOut \/ EndOfPass \/ PassOver
           \/ UnknownSocket \/ ConnectionCut \/ author_response \/ RecvHeader
           \/ UNCHANGED vars
  <2>1. ~Ended' => ~Ended
    BY <1>5 DEF Ended, vars, Select, Tick, TimeOut, EndOfPass, PassOver,
                Visiting, UnknownSocket, VisitingConnection, ConnectionCut,
                AtConnection, AtPayload, author_response, RecvHeader
  <2>2. UNCHANGED <<listVars, peer>>
    BY <1>5 DEF vars, Select, Tick, TimeOut, EndOfPass, PassOver,
                UnknownSocket, ConnectionCut, author_response, RecvHeader,
                outsideVars
  <2>3. Connections' = Connections
    BY <2>2 DEF Connections
  <2> QED
    BY <2>1, <2>2, <2>3, SameList
<1> QED
  BY <1>1, <1>2, <1>3, <1>4, <1>5 DEF Next, Router

-----------------------------------------------------------------------------
LEMMA InitInvariant == Init => IInv
<1> SUFFICES ASSUME Init PROVE IInv
  OBVIOUS
<1>1. TypeOK
  BY InitType
<1>2. WatchesWhatIsOpen
  BY ControlSocket DEF Init, WatchesWhatIsOpen
<1>3. VisitsOnlyReadable /\ AtPayloadOf
  BY DEF Init, VisitsOnlyReadable, AtPayloadOf
<1>4. Connections = {} /\ allocated = {}
  BY DEF Init, Connections
<1>5. Walk = << >>
  <2>1. IsPath(<< >>, control_conn_list, next)
    BY MostIsNatural, EmptySeq DEF IsPath, Init
  <2>2. control_conn_list \in Place /\ next \in [Nodes -> Place]
    BY DEF Place, Init
  <2> QED
    BY <2>1, <2>2, WalkAlongPath DEF Walk
<1>6. NodesAndConnections
  BY <1>4, <1>5, FS_EmptySet DEF NodesAndConnections, ListIsExact
<1> QED
  BY <1>1, <1>2, <1>3, <1>6 DEF IInv

LEMMA StepInvariant == IInv /\ [Next]_vars => IInv'
<1> SUFFICES ASSUME IInv, [Next]_vars PROVE IInv'
  OBVIOUS
<1>1. /\ TypeOK /\ WatchesWhatIsOpen /\ VisitsOnlyReadable
      /\ AtPayloadOf /\ NodesAndConnections
  BY DEF IInv
<1>2. TypeOK'
  BY <1>1, TypeStep
<1>3. WatchesWhatIsOpen'
  BY <1>1, WatchStep
<1>4. VisitsOnlyReadable'
  BY <1>1, VisitStep
<1>5. AtPayloadOf'
  BY <1>1, AtPayloadStep
<1>6. NodesAndConnections'
  BY <1>1, NodesStep
<1> QED
  BY <1>2, <1>3, <1>4, <1>5, <1>6 DEF IInv

-----------------------------------------------------------------------------
(* IInv holds in every state the control plane reaches, whatever           *)
(* controllers send and whenever they close.                               *)
THEOREM Invariant == Spec => []IInv
BY InitInvariant, StepInvariant, PTL DEF Spec

(* The variables stay within their types, the list's links among them.     *)
THEOREM TypeCorrect == Spec => []TypeOK
<1>1. IInv => TypeOK
  BY DEF IInv
<1> QED
  BY <1>1, Invariant, PTL

(* master_list and head_fd cover what is open and nothing else, through    *)
(* accepts, closes and the router socket (FD_SET, FD_CLR, head_fd).        *)
THEOREM WatchesAllOpen == Spec => []WatchesWhatIsOpen
<1>1. IInv => WatchesWhatIsOpen
  BY DEF IInv
<1> QED
  BY <1>1, Invariant, PTL

(* A visited descriptor is open and has something to read: the recv of a   *)
(* header does not block (main_loop).                                      *)
THEOREM ReadsOnlyWhatIsThere == Spec => []VisitsOnlyReadable
<1>1. IInv => VisitsOnlyReadable
  BY DEF IInv
<1> QED
  BY <1>1, Invariant, PTL

(* The list of connections is exact until a removal frees the entry of a   *)
(* connection that is still open, and never after with as many entries as  *)
(* connections (new_control_conn, remove_control_conn).                    *)
THEOREM ListExactUntilFreed == Spec => []ExactUntilFreed
<1>1. IInv => ExactUntilFreed
  <2>1. Cardinality(allocated) \in Nat \/ ~IInv
    BY CountsNodes DEF IInv, TypeOK
  <2> QED
    BY <2>1, CountsConnections DEF IInv, NodesAndConnections, ExactUntilFreed
<1> QED
  BY <1>1, Invariant, PTL
=============================================================================
