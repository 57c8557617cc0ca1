----------------------------- MODULE ChatServer -----------------------------
(***************************************************************************)
(* The server of assignment 1 (serverSide of vchincho_assignment1.c): the  *)
(* select loop, the table of logged-in hosts, the lists of blocked hosts   *)
(* and the relaying of messages, over the TCP connections of its clients.  *)
(*                                                                         *)
(* The server is one thread: its steps are a select and the visit of one   *)
(* ready descriptor, which handles one request to its end.  Clients        *)
(* connect, send and close between any two steps.                          *)
(*                                                                         *)
(* Descriptors are numbers the system gives out again after a close, and   *)
(* the tables keep the numbers; connections have an identity of their own. *)
(***************************************************************************)
EXTENDS Integers, Sequences, FiniteSets, FiniteSetsExt, Functions

CONSTANTS
    Hosts,      \* addresses with a client, one each
    Port,       \* the port of each client
    Null,       \* "null", an empty entry of a block list
    SLOTS,      \* entries of list_ptr and client_ptr: 5
    BLOCKS,     \* ip1..ip4 of an entry of client_ptr: 4
    MaxConns    \* bound: connections in all

ASSUME HostsAssumption ==
    /\ Port \in [Hosts -> Nat]
    /\ Null \notin Hosts
ASSUME SizesAssumption ==
    SLOTS \in Nat \ {0} /\ BLOCKS \in Nat \ {0} /\ MaxConns \in Nat

VARIABLES
    running,        \* has the server not crashed?
    list_ptr,       \* the used rows of the table, a prefix of it
    C_ip,           \* addresses of the used entries of client_ptr, a prefix
    blockers,       \* ip1..ip4 of each entry of client_ptr, used or not
    master_list, watch_list, head_socket,
    send_socket,    \* where the last message was relayed to
    sock,           \* the connection behind each descriptor, 0 if it is free
    (* TCP *)
    backlog,        \* connections that wait for accept
    host,           \* the client of each connection made so far
    requests,       \* what it sent and the server did not read
    replies,        \* what the server sent and it did not read
    peer            \* its end: "open", "closed", "unread" if it closed before
                    \* it read all, "reset" once it was written to after that

tableVars  == <<list_ptr, C_ip, blockers>>
socketVars == <<master_list, head_socket, sock>>
streamVars == <<requests, replies, peer>>
serverVars == <<running, watch_list, send_socket, tableVars, socketVars>>
tcpVars    == <<backlog, host, streamVars>>

STDIN         == 0
server_socket == 3
Fds   == server_socket + 1..server_socket + SLOTS
Conns == 1..MaxConns
Slots == 1..SLOTS

ServerInit ==
    /\ running = TRUE
    /\ list_ptr = << >> /\ C_ip = << >>
    /\ blockers = [n \in Slots |-> [k \in 1..BLOCKS |-> Null]]
    /\ master_list = {server_socket} /\ watch_list = {}
    /\ head_socket = server_socket /\ send_socket = STDIN
    /\ sock = [fd \in Fds |-> 0]
    /\ backlog = << >> /\ host = << >>
    /\ requests = [c \in Conns |-> << >>]
    /\ replies = [c \in Conns |-> << >>]
    /\ peer = [c \in Conns |-> "closed"]

(***************************************************************************)
(* select, and the loop over the descriptors it reports, lowest first.     *)
(***************************************************************************)
(* mutant: the listening socket is visited without a test *)
AlwaysAccepting(fd) ==
    fd = server_socket \/ requests[sock[fd]] # << >> \/ peer[sock[fd]] # "open"

Readable(fd) ==
    IF fd = server_socket THEN backlog # << >>
    ELSE requests[sock[fd]] # << >> \/ peer[sock[fd]] # "open"

Ready == {fd \in master_list : fd <= head_socket /\ Readable(fd)}

(* Nothing happens between the end of a pass and the next select.          *)
AtSelect == running /\ watch_list = {}

Select ==
    /\ AtSelect
    /\ Ready # {}
    /\ watch_list' = Ready
    /\ UNCHANGED <<running, send_socket, tableVars, socketVars, tcpVars>>

sock_index == Min(watch_list)

Visit ==
    /\ running /\ watch_list # {}
    /\ watch_list' = watch_list \ {sock_index}

(***************************************************************************)
(* Writing to the clients: sent[c] is what a handler sends on connection   *)
(* c.  A client that closed gets nothing; the first write to it still      *)
(* succeeds, and its answer, once it is here, makes the next one raise     *)
(* SIGPIPE, which nobody catches.                                          *)
(***************************************************************************)
Nothing == [c \in Conns |-> << >>]

Signalled(sent) ==
    \E c \in Conns : /\ peer[c] # "open" /\ sent[c] # << >>
                     /\ peer[c] = "reset" \/ Len(sent[c]) > 1

Transmit(sent) ==
    \/ /\ replies' = [c \in Conns |-> IF peer[c] = "open"
                                      THEN replies[c] \o sent[c]
                                      ELSE replies[c]]
       /\ peer' = [c \in Conns |-> IF peer[c] # "open" /\ sent[c] # << >>
                                   THEN "reset" ELSE peer[c]]
       /\ running' = TRUE
    \/ /\ Signalled(sent)
       /\ running' = FALSE
       /\ UNCHANGED <<replies, peer>>

Text(c, message) == [Nothing EXCEPT ![c] = <<message>>]

(***************************************************************************)
(* The table of hosts: sort_list_port puts the rows in order of port, and  *)
(* rows of the same port stay in the order they had.                       *)
(***************************************************************************)
PortAt(rows, i) == Port[rows[i].list_ip]

Precedes(rows, i, j) ==
    \/ PortAt(rows, i) < PortAt(rows, j)
    \/ PortAt(rows, i) = PortAt(rows, j) /\ i <= j

Rank(rows, i) == Cardinality({j \in DOMAIN rows : Precedes(rows, j, i)})

(* mutant: nothing is moved *)
unsorted(rows) == rows

sort_list_port(rows) ==
    [k \in DOMAIN rows |-> rows[CHOOSE i \in DOMAIN rows : Rank(rows, i) = k]]

RowsOf(fd) == {i \in DOMAIN list_ptr : list_ptr[i].fd_socket = fd}

(* mutant: the search goes on after the row it found *)
last_ip == list_ptr[Max(RowsOf(sock_index))].list_ip

(* "search list for senders ip based on current socket"                    *)
sender_ip == list_ptr[Min(RowsOf(sock_index))].list_ip

(* mutant: the newest entry of an address counts *)
LastEntry(ip) ==
    LET found == {n \in DOMAIN C_ip : C_ip[n] = ip}
    IN  IF found = {} THEN Len(C_ip) + 1 ELSE Max(found)

(* Where the searches through client_ptr stop: at the first entry of the   *)
(* address or at the first free one, which is one past the table when the  *)
(* table is full.  The pointer there is none, and following it ends the    *)
(* server.                                                                 *)
Entry(ip) ==
    LET found == {n \in DOMAIN C_ip : C_ip[n] = ip}
    IN  IF found = {} THEN Len(C_ip) + 1 ELSE Min(found)

(***************************************************************************)
(* A new connection: an entry for its block list, a row, and the message   *)
(* that ends the login.  The sixth one finds the tables full.              *)
(***************************************************************************)
(* mutant: head_socket is not raised *)
NotRaised(fd) == head_socket

Raised(fd) == IF fd > head_socket THEN fd ELSE head_socket

(* mutant: one row more *)
Overfull == Len(list_ptr) > SLOTS

Full == Len(list_ptr) = SLOTS

Accept ==
    /\ Visit /\ sock_index = server_socket
    /\ backlog' = Tail(backlog)
    /\ ~Full
    /\ LET c == Head(backlog)
           fdaccept == Min({fd \in Fds : sock[fd] = 0})
           row == [list_ip |-> host[c], fd_socket |-> fdaccept,
                   state |-> "logged-in"]
       IN  /\ sock' = [sock EXCEPT ![fdaccept] = c]
           /\ master_list' = master_list \cup {fdaccept}
           /\ head_socket' = Raised(fdaccept)
           /\ C_ip' = Append(C_ip, host[c])
           /\ list_ptr' = sort_list_port(Append(list_ptr, row))
           /\ Transmit(Text(c, [cmd |-> "LOGLISTOVER"]))
    /\ UNCHANGED <<send_socket, blockers, host, requests>>

AcceptBeyondTable ==
    /\ Visit /\ sock_index = server_socket
    /\ Full
    /\ running' = FALSE
    /\ UNCHANGED <<send_socket, tableVars, socketVars, tcpVars>>

(***************************************************************************)
(* A request of a client.                                                  *)
(***************************************************************************)
rcv_data == Head(requests[sock[sock_index]])

Request(cmd) ==
    /\ Visit /\ sock_index # server_socket
    /\ requests[sock[sock_index]] # << >>
    /\ rcv_data.cmd = cmd
    /\ requests' = [requests EXCEPT ![sock[sock_index]] = Tail(@)]
    /\ UNCHANGED <<C_ip, backlog, host>>

(* "search list for receivers socket": without a row of that address it    *)
(* stays where the message before this one went.                           *)
Receiver(ip) ==
    LET rows == {i \in DOMAIN list_ptr : list_ptr[i].list_ip = ip}
    IN  IF rows = {} THEN send_socket ELSE list_ptr[Min(rows)].fd_socket

Blocked == rcv_data.ip \in Range(blockers[Entry(sender_ip)])

Message == [cmd |-> "MSG", sender_ip |-> sender_ip, info |-> rcv_data.info]

ConnOf(fd) == IF fd \in Fds THEN sock[fd] ELSE 0

(* What the first send of SEND may return: a descriptor that is closed, or *)
(* standard input, gives an error, and so does a client that closed        *)
(* without reading all it was sent.                                        *)
Results(c) ==
    IF c = 0 THEN {"MSG_SENT_FAIL"}
    ELSE IF peer[c] = "unread" THEN {"MSG_SENT", "MSG_SENT_FAIL"}
    ELSE {"MSG_SENT"}

(* mutant: the sender of a blocked message is not answered *)
NoAnswer(result) == << >>

Answer(result) == <<[cmd |-> result]>>

SendBlocked ==
    /\ Request("SEND") /\ Blocked
    /\ send_socket' = Receiver(rcv_data.ip)
    /\ Transmit([Nothing EXCEPT ![sock[sock_index]] = Answer("MSG_SENT")])
    /\ UNCHANGED <<list_ptr, blockers, socketVars>>

SendRelayed ==
    /\ Request("SEND") /\ ~Blocked
    /\ send_socket' = Receiver(rcv_data.ip)
    /\ LET to == ConnOf(Receiver(rcv_data.ip))
       IN  \E result \in Results(to) :
              Transmit([c \in Conns |->
                          (IF c = to THEN <<Message>> ELSE << >>) \o
                          (IF c = sock[sock_index] THEN Answer(result)
                                                   ELSE << >>)])
    /\ UNCHANGED <<list_ptr, blockers, socketVars>>

(* Every row of another address gets the message, whoever blocked whom.    *)
OtherRows == {i \in DOMAIN list_ptr : list_ptr[i].list_ip # sender_ip}

Broadcast ==
    /\ Request("BROADCAST")
    /\ send_socket' = IF OtherRows = {} THEN send_socket
                      ELSE list_ptr[Max(OtherRows)].fd_socket
    /\ Transmit([c \in Conns |->
          [k \in 1..Cardinality({i \in OtherRows :
                                    sock[list_ptr[i].fd_socket] = c})
             |-> Message]])
    /\ UNCHANGED <<list_ptr, blockers, socketVars>>

(* The first entry of list that holds `old' holds `new'.                   *)
Replace(entries, old, new) ==
    LET found == {k \in DOMAIN entries : entries[k] = old}
    IN  IF found = {} THEN entries ELSE [entries EXCEPT ![Min(found)] = new]

ChangeBlockers(old, new) ==
    LET z == Entry(rcv_data.ip)
    IN  IF z > SLOTS
        THEN running' = FALSE /\ UNCHANGED blockers
        ELSE running' = TRUE
             /\ blockers' = [blockers EXCEPT ![z] = Replace(@, old, new)]

Block ==
    /\ Request("BLOCK")
    /\ ChangeBlockers(Null, sender_ip)
    /\ UNCHANGED <<list_ptr, send_socket, socketVars, replies, peer>>

Unblock ==
    /\ Request("UNBLOCK")
    /\ ChangeBlockers(sender_ip, Null)
    /\ UNCHANGED <<list_ptr, send_socket, socketVars, replies, peer>>

List ==
    /\ Request("LIST")
    /\ Transmit([Nothing EXCEPT ![sock[sock_index]] =
          Append([i \in DOMAIN list_ptr |->
                     [cmd |-> "LIST", list_ip |-> list_ptr[i].list_ip]],
                 [cmd |-> "LISTOVER"])])
    /\ UNCHANGED <<list_ptr, blockers, send_socket, socketVars>>

(* mutant: the search for the row stops at the first, as the others do *)
FirstRow(fd) == {Min(RowsOf(fd))}

(* The rows that LOGOUT marks: all that have the descriptor.               *)
LeavingRows(fd) == RowsOf(fd)

Logout ==
    /\ Request("LOGOUT")
    /\ list_ptr' = sort_list_port(
          [i \in DOMAIN list_ptr |->
              IF i \in LeavingRows(sock_index)
              THEN [list_ptr[i] EXCEPT !.state = "logged-out"]
              ELSE list_ptr[i]])
    /\ sock' = [sock EXCEPT ![sock_index] = 0]
    /\ master_list' = master_list \ {sock_index}
    /\ peer' = [peer EXCEPT ![sock[sock_index]] = "closed"]
    /\ running' = TRUE
    /\ UNCHANGED <<blockers, send_socket, head_socket, replies>>

(* The client is gone without a LOGOUT.  remove_from_list looks at the row *)
(* after each row, for the last one beyond the table, where no pointer is. *)
remove_from_list ==
    /\ Visit /\ sock_index # server_socket
    /\ requests[sock[sock_index]] = << >>
    /\ running' = FALSE
    /\ UNCHANGED <<send_socket, tableVars, socketVars, tcpVars>>

(***************************************************************************)
(* Commands at the server, descriptor 0 and so the first of a pass.  LIST  *)
(* sorts the table; BLOCKED searches the block lists.                      *)
(***************************************************************************)
ListCommand ==
    /\ AtSelect
    /\ list_ptr' = sort_list_port(list_ptr)
    /\ UNCHANGED <<running, watch_list, send_socket, C_ip, blockers, socketVars,
                   tcpVars>>

BlockedCommand(ip) ==
    /\ AtSelect
    /\ running' = (Entry(ip) <= SLOTS)
    /\ UNCHANGED <<watch_list, send_socket, tableVars, socketVars, tcpVars>>

Serve ==
    \/ Select
    \/ Accept \/ AcceptBeyondTable \/ remove_from_list
    \/ SendBlocked \/ SendRelayed \/ Broadcast
    \/ Block \/ Unblock \/ List \/ Logout

Operator == ListCommand \/ \E ip \in Hosts : BlockedCommand(ip)
=============================================================================
