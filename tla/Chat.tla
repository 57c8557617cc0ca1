-------------------------------- MODULE Chat --------------------------------
(***************************************************************************)
(* The chat system of assignment 1: ChatServer with its clients            *)
(* (clientside of vchincho_assignment1.c).  A client is one thread: a step *)
(* is one command of its user or one message of the server.                *)
(*                                                                         *)
(* `server' is both variables of a client, loggedin and server: loggedin   *)
(* is 1 exactly when server is a socket.                                   *)
(***************************************************************************)
EXTENDS ChatServer

CONSTANT MaxActs        \* bound: commands, logouts and exits in all

ASSUME MaxActsAssumption == MaxActs \in Nat

VARIABLES
    server,     \* the connection of each client
    owed,       \* commands of a client whose end was not reported to it
    acts        \* commands, logouts and exits so far

clientVars == <<server, owed, acts>>
vars == <<serverVars, tcpVars, clientVars>>

LoggedOut == 0

Init ==
    /\ ServerInit
    /\ server = [h \in Hosts |-> LoggedOut]
    /\ owed = [h \in Hosts |-> 0]
    /\ acts = 0

(***************************************************************************)
(* LOGIN.  The client is bound to its port, again after a LOGOUT.  When    *)
(* connect fails, and while the client is connected, LOGIN reports success *)
(* and sends nothing.                                                      *)
(***************************************************************************)
Login(h) ==
    /\ server[h] = LoggedOut
    /\ Len(host) < MaxConns
    /\ host' = Append(host, h)
    /\ LET c == Len(host')
       IN  /\ server' = [server EXCEPT ![h] = c]
           /\ backlog' = Append(backlog, c)
           /\ peer' = [peer EXCEPT ![c] = "open"]
    /\ owed' = [owed EXCEPT ![h] = 1]
    /\ UNCHANGED <<requests, replies>>

(***************************************************************************)
(* The commands that send one request.                                     *)
(***************************************************************************)
Requests(h) ==
    {[cmd |-> "SEND", ip |-> ip, info |-> [from |-> h, to |-> ip]] :
        ip \in Hosts}
    \cup {[cmd |-> "BROADCAST", info |-> [from |-> h, to |-> Null]],
          [cmd |-> "LIST"]}
    \cup {[cmd |-> cmd, ip |-> ip] : cmd \in {"BLOCK", "UNBLOCK"}, ip \in Hosts}

Awaited == {"SEND", "LIST"}     \* the client waits until these are over
Ends    == {"MSG_SENT", "MSG_SENT_FAIL", "LISTOVER", "LOGLISTOVER"}

Count(messages, cmds) ==
    Cardinality({i \in DOMAIN messages : messages[i].cmd \in cmds})

Command(h) ==
    /\ server[h] \in Conns
    /\ \E request \in Requests(h) :
          /\ requests' = [requests EXCEPT ![server[h]] = Append(@, request)]
          /\ owed' = [owed EXCEPT ![h] =
                        IF request.cmd \in Awaited THEN @ + 1 ELSE @]
    /\ UNCHANGED <<backlog, host, replies, peer, server>>

Close(h) ==
    /\ server[h] \in Conns
    /\ peer' = [peer EXCEPT ![server[h]] = IF replies[server[h]] = << >>
                                          THEN "closed" ELSE "unread"]
    /\ replies' = [replies EXCEPT ![server[h]] = << >>]
    /\ server' = [server EXCEPT ![h] = LoggedOut]
    /\ owed' = [owed EXCEPT ![h] = 0]
    /\ UNCHANGED <<backlog, host>>

LOGOUT(h) ==
    /\ Close(h)
    /\ requests' = [requests EXCEPT ![server[h]] =
                      Append(@, [cmd |-> "LOGOUT"])]

EXIT(h) == Close(h) /\ UNCHANGED requests

(* The messages of the server are printed, in steps of which only the last *)
(* shows elsewhere.                                                        *)
Receive(h) ==
    /\ server[h] \in Conns
    /\ replies[server[h]] # << >>
    /\ replies' = [replies EXCEPT ![server[h]] = << >>]
    /\ owed' = [owed EXCEPT ![h] = @ - Count(replies[server[h]], Ends)]
    /\ UNCHANGED <<backlog, host, requests, peer, server>>

Client(h) ==
    /\ running
    /\ \/ /\ acts < MaxActs
          /\ acts' = acts + 1
          /\ Command(h) \/ LOGOUT(h) \/ EXIT(h)
       \/ (Login(h) \/ Receive(h)) /\ UNCHANGED acts
    /\ UNCHANGED serverVars

Server == Serve /\ UNCHANGED clientVars

Next ==
    \/ Server
    \/ Operator /\ UNCHANGED clientVars
    \/ \E h \in Hosts : Client(h)

Spec == Init /\ [][Next]_vars

FairSpec == Spec /\ WF_vars(Server)
-----------------------------------------------------------------------------
Texts == [from : Hosts, to : Hosts \cup {Null}]

RequestTypes ==
    [cmd : {"SEND"}, ip : Hosts, info : Texts]
    \cup [cmd : {"BROADCAST"}, info : Texts] \cup [cmd : {"LIST", "LOGOUT"}]
    \cup [cmd : {"BLOCK", "UNBLOCK"}, ip : Hosts]

ReplyTypes ==
    [cmd : {"MSG"}, sender_ip : Hosts, info : Texts]
    \cup [cmd : {"LIST"}, list_ip : Hosts]
    \cup [cmd : {"MSG_SENT", "MSG_SENT_FAIL", "LISTOVER", "LOGLISTOVER"}]

Rows == [list_ip : Hosts, fd_socket : Fds, state : {"logged-in", "logged-out"}]

(* No handler writes beyond a table or a descriptor beyond its kind.       *)
TypeOK ==
    /\ running \in BOOLEAN
    /\ list_ptr \in Seq(Rows) /\ C_ip \in Seq(Hosts)
    /\ Len(list_ptr) <= SLOTS /\ Len(C_ip) = Len(list_ptr)
    /\ blockers \in [Slots -> [1..BLOCKS -> Hosts \cup {Null}]]
    /\ master_list \subseteq Fds \cup {server_socket}
    /\ watch_list \subseteq master_list
    /\ head_socket \in Fds \cup {server_socket}
    /\ send_socket \in Fds \cup {STDIN}
    /\ sock \in [Fds -> Conns \cup {0}]
    /\ backlog \in Seq(Conns) /\ host \in Seq(Hosts)
    /\ requests \in [Conns -> Seq(RequestTypes)]
    /\ replies \in [Conns -> Seq(ReplyTypes)]
    /\ peer \in [Conns -> {"open", "closed", "unread", "reset"}]
    /\ server \in [Hosts -> Conns \cup {LoggedOut}]
    /\ owed \in [Hosts -> Nat] /\ acts \in 0..MaxActs

LoggedIn == {i \in DOMAIN list_ptr : list_ptr[i].state = "logged-in"}

(* Through logouts, and descriptors given out again while the row of their *)
(* last owner still has them, the rows marked logged-in are those of the   *)
(* watched connections, one each and of the right address, and each has an *)
(* entry for its block list; select reports them all.  So no search of a   *)
(* handler runs into what is not initialised (serverSide: accept, LOGOUT). *)
OneRowPerLogin ==
    running =>
        /\ master_list = {server_socket} \cup {fd \in Fds : sock[fd] # 0}
        /\ \A fd \in master_list : fd <= head_socket
        /\ \A fd \in master_list \ {server_socket} :
              \E i \in LoggedIn :
                 /\ list_ptr[i].fd_socket = fd
                 /\ list_ptr[i].list_ip = host[sock[fd]]
                 /\ \A j \in LoggedIn : list_ptr[j].fd_socket = fd => j = i
        /\ \A i \in LoggedIn : list_ptr[i].fd_socket \in master_list
        /\ \A i \in DOMAIN list_ptr : list_ptr[i].list_ip \in Range(C_ip)

(* The LIST of a client, which sorts nothing, is in order of port and in   *)
(* one piece, whatever logins and relayed messages happen around it.       *)
ListsInPortOrder ==
    \A c \in Conns : \A i \in 1..Len(replies[c]) - 1 :
        replies[c][i].cmd = "LIST" =>
            LET following == replies[c][i + 1]
            IN  \/ following.cmd = "LISTOVER"
                \/ /\ following.cmd = "LIST"
                   /\ Port[replies[c][i].list_ip] <= Port[following.list_ip]

(* The end of each LOGIN, SEND and LIST is reported once to the client     *)
(* that gave it: it is due, or on its way (MSG_SENT, LISTOVER, ...).       *)
EndForEachCommand ==
    running => \A h \in Hosts : server[h] \in Conns =>
        owed[h] = Count(requests[server[h]], Awaited)
                  + Count(replies[server[h]], Ends)
                  + (IF server[h] \in Range(backlog) THEN 1 ELSE 0)

Serving ==
    watch_list # {} /\ sock_index \in Fds /\ requests[sock[sock_index]] # << >>

BlockersOf(ip) == Range(blockers[Entry(ip)]) \ {Null}

Sender == host[sock[sock_index]]

(* Whom the first-row search may take for the sender: hosts that left and  *)
(* whose row, at the sender's or a lower port, still has its descriptor.   *)
Predecessors ==
    {list_ptr[i].list_ip :
        i \in {j \in RowsOf(sock_index) \ LoggedIn :
                  PortAt(list_ptr, j) <= Port[Sender]}}

(* The blocks that a request of h for itself makes or ends.                *)
Changed(blocking, h) ==
    IF rcv_data.cmd = "BLOCK" THEN blocking \cup {h} ELSE blocking \ {h}

(* Who blocks a host that has been here changes by a BLOCK or UNBLOCK that *)
(* names it, and in one host: the client that sent it, or, when its        *)
(* descriptor was given out again, a predecessor it is taken for.  Logins, *)
(* logouts and the second entry of an address change nothing.              *)
BlocksOutliveLogins ==
    [][\A ip \in Range(C_ip) :
          BlockersOf(ip)' # BlockersOf(ip) =>
              /\ Serving /\ rcv_data.cmd \in {"BLOCK", "UNBLOCK"}
              /\ rcv_data.ip = ip
              /\ \E h \in {Sender} \cup Predecessors :
                    BlockersOf(ip)' = Changed(BlockersOf(ip), h)]_vars

(* Connections that wait are accepted and requests handled, in the order   *)
(* of descriptors however the others keep the server busy, unless it ends. *)
Pending == backlog # << >> \/ \E c \in Conns : requests[c] # << >>

EveryRequestIsHandled == Pending ~> ~Pending \/ ~running

(* "search list for receivers socket based on ip sent by the sender"       *)
(* (vchincho_assignment1.c:850): a message is relayed to the host its      *)
(* sender named.                                                           *)
RelayedToNamedHost ==
    \A c \in DOMAIN host : \A i \in DOMAIN replies[c] :
        replies[c][i].cmd = "MSG" => replies[c][i].info.to \in {host[c], Null}
-----------------------------------------------------------------------------
(***************************************************************************)
(* The inductive invariant of the proofs.                                  *)
(***************************************************************************)
(* Connections are numbered as they are made: each one that waits, or is   *)
(* behind a descriptor, was made, waits once, and carries nothing before.  *)
ConnsWereMade ==
    /\ Len(host) <= MaxConns
    /\ \A i \in 1..Len(backlog) : backlog[i] \in 1..Len(host)
    /\ \A i, j \in 1..Len(backlog) : backlog[i] = backlog[j] => i = j
    /\ server_socket \in watch_list => backlog # << >>
    /\ \A fd \in Fds : sock[fd] \in 0..Len(host)
    /\ \A c \in Conns :
          c > Len(host) => requests[c] = << >> /\ replies[c] = << >>

(* The connection of a client is its own, open at both ends.               *)
ClientsAreConnected ==
    \A h \in Hosts :
        /\ server[h] \in 0..Len(host)
        /\ server[h] # LoggedOut =>
              /\ host[server[h]] = h /\ peer[server[h]] = "open"
              /\ \A i \in 1..Len(requests[server[h]]) :
                    requests[server[h]][i].cmd # "LOGOUT"

InPortOrder(rows) ==
    \A i, j \in DOMAIN rows : i < j => PortAt(rows, i) <= PortAt(rows, j)

(* In a stream every line of a list is followed by the next, or its end.   *)
Whole(stream) ==
    \A i \in 1..Len(stream) : stream[i].cmd = "LIST" =>
        /\ i + 1 \in 1..Len(stream)
        /\ \/ stream[i + 1].cmd = "LISTOVER"
           \/ /\ stream[i + 1].cmd = "LIST"
              /\ Port[stream[i].list_ip] <= Port[stream[i + 1].list_ip]

IInv ==
    /\ TypeOK
    /\ ConnsWereMade /\ ClientsAreConnected
    /\ OneRowPerLogin /\ EndForEachCommand
    /\ InPortOrder(list_ptr) /\ \A c \in Conns : Whole(replies[c])
=============================================================================
