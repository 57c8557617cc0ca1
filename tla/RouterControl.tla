--------------------------- MODULE RouterControl ----------------------------
(***************************************************************************)
(* The control plane of the router of assignment 3: the select loop of     *)
(* connection_manager.c, the list of control connections of                *)
(* control_handler.c, recvALL, the INIT and AUTHOR messages of controllers *)
(* and the timeout that sends routing updates.                             *)
(*                                                                         *)
(* The router is one thread: its steps are a select, the visit of one      *)
(* ready descriptor, and the recv of a payload, which may block.           *)
(* Controllers connect, send and close in between.                         *)
(***************************************************************************)
EXTENDS Integers, FiniteSets, Sequences, FiniteSetsExt

CONSTANTS
    Fds,            \* descriptors the system hands out, the lowest first
    Nodes,          \* chunks malloc hands out for a list node
    NULL,
    Topologies,     \* costs an INIT may carry, one sequence each
    Intervals,      \* update intervals an INIT may carry, in ticks
    MayCut,         \* may a controller close in the middle of a message?
    MaxOpen,        \* bound: controllers connected at a time
    MaxConns,       \* bound: connections in all
    MaxMsgs,        \* bound: AUTHOR messages in all
    MaxInits        \* bound: INIT messages in all

ASSUME FdsAssumption ==
    /\ Fds \subseteq Nat \ {0} /\ IsFiniteSet(Fds)
    /\ Cardinality(Fds) >= 1 + MaxOpen + MaxInits
ASSUME NodesAssumption ==
    /\ IsFiniteSet(Nodes) /\ NULL \notin Nodes
    /\ Cardinality(Nodes) >= MaxOpen
ASSUME InitAssumption ==
    /\ Topologies \subseteq Seq(Nat)
    /\ \A cost \in Topologies : \E i \in DOMAIN cost : cost[i] = 0
    /\ Intervals \subseteq Nat \ {0}
ASSUME BoundsAssumption ==
    {MaxOpen, MaxConns, MaxMsgs, MaxInits} \subseteq Nat

VARIABLES
    pc,             \* where the router is, or how it ended
    master_list, watch_list, head_fd,
    router_socket,  \* 0 until INIT
    sockfd, next,   \* the fields of each node
    control_conn_list,
    allocated,      \* nodes malloc returned and nobody freed
    timeout,        \* what select left of it
    router_init, router_count, update_interval,
    isNeighbor,     \* routers with a link to this one
    updated,        \* routers the last update went to
    (* the world outside *)
    backlog,        \* controllers that wait for accept
    stream,         \* what arrived at a descriptor and was not read
    peer,           \* what the other end of a descriptor is doing
    count           \* connections, AUTHORs, INITs so far

socketVars  == <<master_list, head_fd>>
listVars    == <<sockfd, next, control_conn_list, allocated>>
updateVars  == <<timeout, router_init, router_count, update_interval,
                 isNeighbor, updated>>
outsideVars == <<backlog, peer, count>>
vars == <<pc, watch_list, router_socket, stream, socketVars, listVars,
          updateVars, outsideVars>>

control_socket == Min(Fds)
INFINITY == 65535
Garbage  == 0       \* what free leaves of sockfd: a link between free chunks

Ended == pc \in {"exited", "crashed"}

Init ==
    /\ pc = "select"
    /\ master_list = {control_socket} /\ watch_list = {}
    /\ head_fd = control_socket /\ router_socket = 0
    /\ sockfd = [n \in Nodes |-> Garbage] /\ next = [n \in Nodes |-> NULL]
    /\ control_conn_list = NULL /\ allocated = {}
    /\ timeout = 2
    /\ router_init = FALSE /\ router_count = 0 /\ update_interval = 0
    /\ isNeighbor = {} /\ updated = {}
    /\ backlog = 0
    /\ stream = [fd \in Fds |-> << >>]
    /\ peer = [fd \in Fds |-> IF fd = control_socket THEN "listen" ELSE "none"]
    /\ count = [conns |-> 0, authors |-> 0, inits |-> 0]

(***************************************************************************)
(* Controllers and neighbours.  A header arrives whole; the payload of an  *)
(* INIT comes after it, or never.                                          *)
(***************************************************************************)
Connections == {fd \in Fds : peer[fd] \in {"open", "owes", "closed"}}

Connect ==
    /\ count.conns < MaxConns
    /\ Cardinality(Connections) + backlog < MaxOpen
    /\ backlog' = backlog + 1
    /\ count' = [count EXCEPT !.conns = @ + 1]
    /\ UNCHANGED <<stream, peer>>

Arrives(fd, chunk) == stream' = [stream EXCEPT ![fd] = Append(@, chunk)]

SendAuthor(fd) ==
    /\ peer[fd] = "open" /\ count.authors < MaxMsgs
    /\ Arrives(fd, "author")
    /\ count' = [count EXCEPT !.authors = @ + 1]
    /\ UNCHANGED <<backlog, peer>>

SendInit(fd) ==
    /\ peer[fd] = "open" /\ count.inits < MaxInits
    /\ Arrives(fd, "init")
    /\ peer' = [peer EXCEPT ![fd] = "owes"]
    /\ count' = [count EXCEPT !.inits = @ + 1]
    /\ UNCHANGED backlog

SendPayload(fd) ==
    /\ peer[fd] = "owes"
    /\ Arrives(fd, "payload")
    /\ peer' = [peer EXCEPT ![fd] = "open"]
    /\ UNCHANGED <<backlog, count>>

(* Between two messages, between a header and its payload, or inside one.  *)
CloseConnection(fd) ==
    /\ peer[fd] \in {"open", "owes"}
    /\ \/ Arrives(fd, "eof")
       \/ MayCut /\ Arrives(fd, "part, eof")
    /\ peer' = [peer EXCEPT ![fd] = "closed"]
    /\ UNCHANGED <<backlog, count>>

Datagram(fd) ==
    /\ peer[fd] = "udp" /\ stream[fd] = << >>
    /\ Arrives(fd, "datagram")
    /\ UNCHANGED <<backlog, peer, count>>

Outside ==
    /\ ~Ended
    /\ \/ Connect
       \/ \E fd \in Fds : \/ SendAuthor(fd) \/ SendInit(fd) \/ SendPayload(fd)
                          \/ CloseConnection(fd) \/ Datagram(fd)
    /\ UNCHANGED <<pc, watch_list, router_socket, socketVars, listVars,
                   updateVars>>

(***************************************************************************)
(* select.  It puts what is left of the timeout back into its argument,    *)
(* and nobody sets it again.                                               *)
(***************************************************************************)
Readable(fd) ==
    IF fd = control_socket THEN backlog > 0 ELSE stream[fd] # << >>

(* mutant: the result of select is not looked at *)
EverReady == master_list

(* mutant: select is given head_fd instead of head_fd+1 *)
ReadyBelowHead == {fd \in master_list : fd < head_fd /\ Readable(fd)}

Ready == {fd \in master_list : fd <= head_fd /\ Readable(fd)}

Select ==
    /\ pc = "select"
    /\ Ready # {}
    /\ watch_list' = Ready
    /\ pc' = "pass"
    /\ UNCHANGED <<router_socket, stream, socketVars, listVars, updateVars,
                   outsideVars>>

Tick ==
    /\ pc = "select"
    /\ Ready = {} /\ timeout > 0
    /\ timeout' = timeout - 1
    /\ UNCHANGED <<pc, watch_list, router_socket, stream, socketVars, listVars,
                   router_init, router_count, update_interval, isNeighbor,
                   updated, outsideVars>>

(* The count comes out of a fresh chunk, which nobody wrote to: a chunk of *)
(* this size is cut from the top of the heap, where memory is still zero.  *)
FreshCount == 0

TimeOut ==
    /\ pc = "select"
    /\ Ready = {} /\ timeout = 0
    /\ watch_list' = {}
    /\ IF router_init
       THEN /\ router_count' = FreshCount
            /\ updated' = {i \in isNeighbor : i <= FreshCount}
       ELSE UNCHANGED <<router_count, updated>>
    /\ UNCHANGED <<pc, router_socket, stream, socketVars, listVars, timeout,
                   router_init, update_interval, isNeighbor, outsideVars>>

(***************************************************************************)
(* The loop over the descriptors, lowest first: watch_list keeps those     *)
(* that are still to be visited.                                           *)
(***************************************************************************)
sock_index == Min(watch_list)

Visiting == pc = "pass" /\ watch_list # {}

(* mutant: the loop looks at the list of all descriptors *)
RestOfMaster(new) == (watch_list \ {sock_index}) \cup new

(* What is left to visit once sock_index is done; `new' was added to       *)
(* master_list on the way.                                                 *)
Rest(new) == watch_list \ {sock_index}

EndOfPass ==
    /\ pc = "pass" /\ watch_list = {}
    /\ pc' = "select"
    /\ UNCHANGED <<watch_list, router_socket, stream, socketVars, listVars,
                   updateVars, outsideVars>>

(* mutant: the new descriptor is taken for the highest *)
LastFd(fd) == fd

(* mutant: head_fd is not raised for a new connection *)
NotRaised(fd) == head_fd

Raised(fd) == IF fd > head_fd THEN fd ELSE head_fd

Watch(fd) ==
    /\ master_list' = master_list \cup {fd}
    /\ head_fd' = Raised(fd)

(* Bound: accept and socket do not fail; one descriptor at least is free.  *)
FreeFds == {fd \in Fds : peer[fd] = "none"}

LowestFree == Min(FreeFds)

(* new_control_conn                                                        *)
Accept ==
    /\ Visiting /\ sock_index = control_socket
    /\ FreeFds # {}
    /\ LET fd == LowestFree
       IN  /\ peer' = [peer EXCEPT ![fd] = "open"]
           /\ Watch(fd)
           /\ \E connection \in Nodes \ allocated :
                 /\ allocated' = allocated \cup {connection}
                 /\ sockfd' = [sockfd EXCEPT ![connection] = fd]
                 /\ next' = [next EXCEPT ![connection] = control_conn_list]
                 /\ control_conn_list' = connection
           /\ watch_list' = Rest({fd})
    /\ backlog' = backlog - 1
    /\ UNCHANGED <<pc, router_socket, stream, updateVars, count>>

(* Nothing reads the router socket, and data_socket never differs from 0.  *)
PassOver ==
    /\ Visiting /\ sock_index = router_socket
    /\ watch_list' = Rest({})
    /\ UNCHANGED <<pc, router_socket, stream, socketVars, listVars, updateVars,
                   outsideVars>>

(***************************************************************************)
(* The list of connections: the nodes LIST_FOREACH meets, one more than    *)
(* there are when it runs in a circle.                                     *)
(***************************************************************************)
WalkFrom(head, link) ==
    LET most == Cardinality(Nodes) + 1
        met[i \in 1..most] ==
            IF i = 1 THEN head
            ELSE IF met[i - 1] = NULL THEN NULL ELSE link[met[i - 1]]
        ends == {i \in 1..most : met[i] = NULL}
    IN  [i \in 1..(IF ends = {} THEN most ELSE Min(ends) - 1) |-> met[i]]

Walk == WalkFrom(control_conn_list, next)

EndlessWalk == Len(Walk) > Cardinality(Nodes)

Holds(fd) == {i \in DOMAIN Walk : sockfd[Walk[i]] = fd}

isControl(fd) == Holds(fd) # {}

VisitingConnection ==
    Visiting /\ sock_index \notin {control_socket, router_socket}

(* ERROR("Unknown socket index"), unless the search does not end.          *)
UnknownSocket ==
    /\ VisitingConnection /\ ~isControl(sock_index)
    /\ pc' = IF EndlessWalk THEN "spins" ELSE "exited"
    /\ UNCHANGED <<watch_list, router_socket, stream, socketVars, listVars,
                   updateVars, outsideVars>>

(* mutant: the node is freed and not unlinked *)
HeadKept(found) == control_conn_list

(* Where the list starts without its found-th node.                        *)
HeadWithout(found) ==
    IF found = 1 THEN next[Walk[1]] ELSE control_conn_list

(* remove_control_conn frees every node it walks over, unlinks the one of  *)
(* sock_index, and reads the link of a node after it freed it.  The link   *)
(* is still there or, where the allocator wrote over it, leads nowhere and *)
(* the router crashes, as it does when it frees a node twice.              *)
remove_control_conn ==
    /\ \/ pc' = "crashed"
       \/ /\ pc' = "pass"
          /\ \A i \in DOMAIN Walk : Walk[i] \in allocated
          /\ ~EndlessWalk
    /\ LET nodes == {Walk[i] : i \in DOMAIN Walk}
           found == Min(Holds(sock_index))
       IN  /\ allocated' = allocated \ nodes
           /\ sockfd' = [n \in Nodes |-> IF n \in nodes THEN Garbage
                                         ELSE sockfd[n]]
           /\ control_conn_list' = HeadWithout(found)
           /\ next' = IF found = 1 THEN next
                      ELSE [next EXCEPT ![Walk[found - 1]] = next[Walk[found]]]
    /\ peer' = [peer EXCEPT ![sock_index] = "none"]
    /\ stream' = [stream EXCEPT ![sock_index] = << >>]
    /\ master_list' = master_list \ {sock_index}
    /\ watch_list' = Rest({})
    /\ UNCHANGED <<router_socket, head_fd, updateVars, backlog, count>>

(***************************************************************************)
(* control_recv_hook: the header, then the payload.  recvALL goes on after *)
(* the end of the stream when it has a part of what it wants: recv then    *)
(* returns 0 for ever.                                                     *)
(***************************************************************************)
chunk == Head(stream[sock_index])

Consume == stream' = [stream EXCEPT ![sock_index] = Tail(@)]

AtConnection ==
    /\ VisitingConnection /\ isControl(sock_index)
    /\ stream[sock_index] # << >>

author_response ==
    /\ AtConnection /\ chunk = "author"
    /\ Consume
    /\ watch_list' = Rest({})
    /\ UNCHANGED <<pc, router_socket, socketVars, listVars, updateVars,
                   outsideVars>>

RecvHeader ==
    /\ AtConnection /\ chunk = "init"
    /\ Consume
    /\ pc' = "payload"
    /\ UNCHANGED <<watch_list, router_socket, socketVars, listVars, updateVars,
                   outsideVars>>

AtPayload == pc = "payload" /\ stream[sock_index] # << >>

ConnectionClosed ==
    /\ AtConnection \/ AtPayload
    /\ chunk = "eof"
    /\ remove_control_conn

ConnectionCut ==
    /\ AtConnection \/ AtPayload
    /\ chunk = "part, eof"
    /\ pc' = "spins"
    /\ UNCHANGED <<watch_list, router_socket, stream, socketVars, listVars,
                   updateVars, outsideVars>>

(* create_router_sock                                                      *)
create_router_sock ==
    /\ FreeFds # {}
    /\ router_socket' = LowestFree
    /\ peer' = [peer EXCEPT ![LowestFree] = "udp"]
    /\ Watch(LowestFree)

Neighbours(cost) ==
    {i \in DOMAIN cost : cost[i] # 0 /\ cost[i] # INFINITY}

init_response ==
    /\ AtPayload /\ chunk = "payload"
    /\ Consume
    /\ \E cost \in Topologies, interval \in Intervals :
          /\ router_count' = Len(cost)
          /\ isNeighbor' = Neighbours(cost)
          /\ update_interval' = interval
          /\ timeout' = interval
    /\ create_router_sock
    /\ router_init' = TRUE
    /\ updated' = {}
    /\ watch_list' = Rest({router_socket'})
    /\ pc' = "pass"
    /\ UNCHANGED <<listVars, backlog, count>>

Router ==
    \/ Select \/ TimeOut \/ Tick \/ EndOfPass
    \/ Accept \/ PassOver \/ UnknownSocket
    \/ author_response \/ RecvHeader \/ init_response
    \/ ConnectionClosed \/ ConnectionCut

Next == Router \/ Outside

Spec == Init /\ [][Next]_vars

(* The router does not stop between two steps, and its loop visits every   *)
(* ready descriptor; a controller that sent a header sends its payload or  *)
(* closes.                                                                 *)
FairSpec ==
    /\ Spec
    /\ WF_vars(Router)
    /\ \A fd \in Fds : WF_vars((SendPayload(fd) \/ CloseConnection(fd))
                                 /\ peer[fd] = "owes" /\ Outside)
-----------------------------------------------------------------------------
Chunks == {"author", "init", "payload", "eof", "part, eof", "datagram"}

TypeOK ==
    /\ pc \in {"select", "pass", "payload", "spins", "exited", "crashed"}
    /\ master_list \subseteq Fds /\ watch_list \subseteq Fds
    /\ head_fd \in Fds /\ router_socket \in Fds \cup {0}
    /\ sockfd \in [Nodes -> Fds \cup {Garbage}]
    /\ next \in [Nodes -> Nodes \cup {NULL}]
    /\ control_conn_list \in Nodes \cup {NULL} /\ allocated \subseteq Nodes
    /\ timeout \in Nat /\ router_count \in Nat
    /\ update_interval \in Intervals \cup {0}
    /\ router_init \in BOOLEAN
    /\ isNeighbor \subseteq Nat /\ updated \subseteq isNeighbor
    /\ backlog \in 0..MaxOpen
    /\ stream \in [Fds -> Seq(Chunks)]
    /\ peer \in [Fds -> {"listen", "none", "open", "owes", "closed", "udp"}]

(* The list holds the connections, each once, and nothing else.            *)
ListIsExact ==
    /\ \A fd \in Connections : Cardinality(Holds(fd)) = 1
    /\ \A i \in DOMAIN Walk : /\ Walk[i] \in allocated
                              /\ sockfd[Walk[i]] \in Connections

(* "Linked List for active control connections" (control_handler.c:41),    *)
(* and the error "Unknown socket index" (connection_manager.c:138) for a   *)
(* descriptor that is none of the router's: the list is exact while the    *)
(* router runs.                                                            *)
ActiveConnectionsListed == ~Ended => ListIsExact

(* Unless the entry of an open connection was freed, which cannot be made  *)
(* good: through accepts, closes, reuse of descriptors and of nodes the    *)
(* list is exact (new_control_conn, remove_control_conn).                  *)
ExactUntilFreed ==
    ~Ended /\ Cardinality(allocated) = Cardinality(Connections) => ListIsExact

(* Every open descriptor is watched, and below head_fd, or select would    *)
(* never report it; nothing that was closed is watched.                    *)
WatchesWhatIsOpen ==
    ~Ended =>
        /\ master_list = {fd \in Fds : peer[fd] # "none"}
        /\ \A fd \in master_list : fd <= head_fd

(* A descriptor that is visited has something to read, although others     *)
(* were opened and closed since select: the header is not waited for.      *)
VisitsOnlyReadable ==
    pc = "pass" => \A fd \in watch_list : peer[fd] # "none" /\ Readable(fd)

(***************************************************************************)
(* The inductive invariant.                                                *)
(***************************************************************************)
(* While the payload of an INIT is awaited, the descriptor it comes from   *)
(* is on the list and the others still to be visited are readable.         *)
AtPayloadOf ==
    pc = "payload" =>
        /\ watch_list # {} /\ isControl(sock_index)
        /\ \A fd \in watch_list \ {sock_index} :
              peer[fd] # "none" /\ Readable(fd)

(* There are never more nodes than connections, and as many only while     *)
(* nothing that is in use was freed.                                       *)
NodesAndConnections ==
    ~Ended =>
        \/ Cardinality(allocated) < Cardinality(Connections)
        \/ /\ Cardinality(allocated) = Cardinality(Connections)
           /\ ListIsExact

IInv ==
    /\ TypeOK
    /\ WatchesWhatIsOpen /\ VisitsOnlyReadable
    /\ AtPayloadOf /\ NodesAndConnections

(* The router ended, or is in a loop that does not end (ConnectionCut).    *)
Lost == Ended \/ pc = "spins"

(* Controllers that close are noticed and their descriptors closed in      *)
(* turn, unless the router is lost (control_recv_hook, FD_CLR).            *)
CloseIsNoticed ==
    (\E fd \in Fds : peer[fd] = "closed")
        ~> (\A fd \in Fds : peer[fd] # "closed") \/ Lost

(* Controllers that wait are accepted, whatever the connected ones send,   *)
(* unless the router is lost (main_loop, new_control_conn).                *)
WaitingIsAccepted == backlog > 0 ~> backlog = 0 \/ Lost
=============================================================================
