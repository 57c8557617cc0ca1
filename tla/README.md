# Formal models of the CSE 489/589 assignments

TLA+ models, TLC runs and TLAPS proofs for the programs of this repository: the
chat server of assignment 1 with its clients, the three reliable-transport
protocols of assignment 2 and the network simulator they run on, and the control
plane of the router of assignment 3.

Paths are relative to the repository; `PA1`, `PA2`, `PA3` stand for
`cse489589_assignment{1,2,3}/vchincho`.

## 1. Inventory

| component | code | state | operations | hard behaviour |
|---|---|---|---|---|
| layer 3 and simulator | PA2 `src/simulator.c` | event list, `application_msgs`, `cur_msg_sent`, `cur_msg_recv`, random draws | main loop (one event at a time), `starttimer`, `stoptimer`, `tolayer3`, `tolayer5`, `insertevent` | loss, corruption of one of three fields, delays, FIFO order, one timer per entity, run ends by `exit` when a delivery is wrong |
| Alternating Bit | PA2 `src/abt.c` | `A_seqnum`, `B_seqnum`, `sender_state`, `cur_packet`, buffer | `A_output`, `A_input`, `A_timerinterrupt`, `B_input` | stale timers, late acknowledgements, messages left in the buffer |
| Go-Back-N | PA2 `src/gbn.c` | ring `packets`, `window_start`, `last`, `pkt_in_window`, `nextseq`, `B_seqnum`, buffer | the same four handlers, `A_init` | ring arithmetic at the empty, full and wrapping window, when to restart the timer, replies to duplicates only |
| Selective Repeat | PA2 `src/sr.c` | two rings with per-slot deadline or number, counts and pointers, `is_timer_off`, clock, buffer | the same four handlers, `A_init`, `B_init` | early packets, per-packet deadlines, late acknowledgements, slots reused |
| chat server | PA1 `src/vchincho_assignment1.c` (`serverSide`) | `select` sets, five rows of hosts (`list_ptr`), five block lists by address (`client_ptr`), `send_socket` of the last message | accept, SEND, BROADCAST, BLOCK, UNBLOCK, LIST, LOGOUT, a client that is gone; LIST and BLOCKED at its terminal | tables searched with loops that expect to find something, descriptors given out again, rows of hosts that left, writes to clients that closed |
| chat client | the same file (`clientside`) | `loggedin`, `server`, its copy of the list | LOGIN, SEND, BROADCAST, BLOCK, UNBLOCK, LIST, LOGOUT, EXIT, the replies; REFRESH and SENDFILE are empty | replies to its command mixed with messages of others |
| logger | PA1 `src/logger.c` | none | formatted output | none |
| router control plane | PA3 `src/connection_manager.c`, `control_handler.c`, `router_handler.c`, `init.c`, `control_header_lib.c`, `network_util.c`, `author.c` | `select` sets, list of control connections, routing table, timeout | accept, receive a control message, INIT, AUTHOR, routing update, timeout | list changed while it is walked, partial `recv`, timeout kept across events |
| graders, controller, scripts | `grader/`, `controller/`, `*.sh` | - | - | compiled drivers and packaging, no protocol source |

Interaction in PA2. The simulator calls a handler of the protocol for each event
it takes off its list and the handler runs to its end before the next event; so
the handlers are the atomic steps. They call back `tolayer3` (which draws the
packet's fate and puts an arrival on the list of the other entity), `starttimer`
and `stoptimer` (an event of A on the list) and `tolayer5` (which compares the
data with the message layer 5 gave and calls `exit` when it differs). The
concurrency is between A, B and the packets, acknowledgements and timeouts that
are under way at the same time.

What makes the components correct:

* medium: what arrives was sent, in order, perhaps damaged, and damage shows;
* ABT, GBN, SR: the messages given to A are delivered at B in order, once
  each; what A counts as acknowledged was delivered; a packet that is
  outstanding has a timer; a message is never forgotten; in the end all is
  delivered;
* chat server: a message reaches the host it names (the code does not keep this);
  one row of the table per login, so the searches end; a client gets the end of
  each command once, and its lists whole; blocks outlive the logins of both
  hosts and are made in the name of the client that asked (the code keeps this only
  for the first owner of a descriptor); everybody is served;
* event list: its pointers stay consistent, it is in order of time, the run ends;
* router: a connection is in the list exactly while its descriptor is open and
  in the select set; a controller that closes is noticed; an update goes to
  every neighbour, once per interval.

The hazards this suggests are listed line by line in `PROJECT.json`.

## 2. Modules

```
Packet          data of the layer 3/4 interface, checksum, what layer 3 may do
  Simulator     channels, timer, messages, the events and services of simulator.c
    ABT   GBN   SR            one protocol each, handlers as actions
    MCABT MCGBN MCSR          their instances for TLC
ReliableDelivery              abstract: in-order, exactly-once delivery
PacketProofs                  lemmas on Packet
  ABTProofs GBNProofs SRProofs   theorems on ABT, on GBN and on SR

EventList                     the event list and main loop of simulator.c
  Medium                      abstract: what Simulator takes for granted
  EventListProofs             theorems on EventList
MessageBuffer                 the linked list of abt.c, gbn.c and sr.c
  FifoBuffer                  abstract: the sequence ABT, GBN and SR take it for
  MessageBufferProofs         theorems on MessageBuffer

ChatServer                    the server of PA1, on the connections of its clients
  Chat                        composed with the clients; properties
    ChatProofs                theorems: the tables, the handlers, the clients

RouterControl                 the select loop of the router (PA3)
  RouterProofs                theorems on RouterControl
```

**Packet.** `pkt` as a record. A payload is twenty copies of a letter of which
corruption can change only the first, so it is kept as `first` and `rest`.
`calc_checksum` is the sum of the code on that representation. `tolayer3(chan, p)`
is the set of contents a channel may have after one call: unchanged (loss), or
with `p` or a damaged copy appended; `tolayer3Each` is the same for a handler
that calls it in a loop. `Corruptions` names which fields may be overwritten.

**Simulator.** `toA` and `toB` are the arrivals on the event list, `timer` says
whether a TIMER_INTERRUPT of A is on it, `cur_msg_sent` and `cur_msg_recv` are
the program's counters, `exit_code` is 0 while the program runs, 52 or 63 after
a panic of `tolayer5`, and -1 for a handler that never returns. Message k is
twenty times the letter k % 26, so only its number is kept. `FromLayer5`,
`ArrivesAtA`, `ArrivesAtB` and `TimerGoesOff` are the parts of the main loop;
each protocol completes them to its handlers.

**ABT, GBN, SR.** One action per handler, a disjunct per path through it:

| handler | ABT | GBN | SR |
|---|---|---|---|
| `A_output` | `BufferMessage`, `SendMessage` | `BufferMessage`, `SendMessage` | `BufferMessage`, `SendMessage` |
| `A_input` | `A_input` | `IgnoreAck`, `EmptyWindow`, `SlideWindow` | `EmptyWindow`, `SlideWindow`, `NoteAck`, `IgnoreAck` |
| `A_timerinterrupt` | `A_timerinterrupt` | `A_timerinterrupt` | `A_timerinterrupt` |
| `B_input` | `IgnoreDamaged`, `AckDuplicate`, `DeliverAndAck` | `DropPacket`, `AckOldPacket`, `DeliverPacket` | `DeliverPackets`, `StorePacket`, `AckOldPacket`, `DropPacket` |

The linked list of each protocol (`list_head` .. `list_end`) is the sequence
`list`, `append_msg` is `Append`, `pop_msg` is `Head` and `Tail`. SR's clock is
folded into its slots: `timeover` is kept as the number of ticks that are left,
-1 once it passed. The ring of A in SR is not initialised by `A_init` (the loop
compares where it means to assign); it is one of the first blocks of a fresh
heap and is modelled as the zeros such a block holds. GBN's ring is not
initialised either, but no slot is read before it is written.

**ReliableDelivery.** Counts messages given and delivered; a step gives one or
delivers some of those that wait; the exit code stays 0. `FairSpec` adds that
deliveries go on. ABT and GBN are shown to implement `Spec` (every delivered
payload is the right one: `tolayer5` checks it, and the exit code stays 0), GBN
and, on a patient network, SR to implement `FairSpec`.

**EventList, Medium.** The machinery below `Simulator`: the doubly linked list of
events with its pointers, `insertevent`, `starttimer`, `stoptimer`, `tolayer3`,
`generate_next_arrival`, and the main loop (`TakeEvent`, then any calls of the
handler, then `Return`, or `Terminate`). `Medium` is the network the protocol
modules are written for, with the calls of a handler left open: one event at a
time, FIFO packets, one timer, `nsimmax` messages, the end with the first event
after the last message. `ImplementsMedium` closes the gap: what `Simulator`
takes for granted is what the list of `simulator.c` does, as long as times are
exact. A freed struct is blanked and `malloc` returns the first free address, as
good as any other, since no pointer to a freed struct is followed. A float holds
every whole number up to 2^24; `Exact` stands for that limit and `Rounded` for
the sums beyond it.

**MessageBuffer, FifoBuffer.** `append_msg` and `pop_msg` on nodes that `malloc`
may refuse and `free` may return for reuse, with the contents of freed nodes
kept. The lists of the three protocols are the same code. They implement the
FIFO queue that `list` is in `ABT`, `GBN` and `SR`.

**ChatServer, Chat.** The server is one thread: `Select` takes the snapshot
`watch_list`, then the loop visits its members, lowest first, one action per
request: `Accept` and `AcceptBeyondTable`, `SendBlocked`, `SendRelayed`,
`Broadcast`, `Block`, `Unblock`, `List`, `Logout`, and `remove_from_list` for a
client that closed without a LOGOUT. `ListCommand` and `BlockedCommand` are typed at the
server. Clients connect (`Login`), send (`Command`), close (`LOGOUT`, `EXIT`) and
read (`Receive`) between any two visits, so a pass works on a `select` result
that is out of date. Descriptors and connections are kept apart: `sock` says which
connection is behind a descriptor, `Min` of the free ones is given out next, and
the tables hold descriptors, as in the code, also of hosts that left. `list_ptr`
is the sequence of the rows in use and `sort_list_port` the stable sort by port
that its bubble sort is. `client_ptr` is `C_ip`, the addresses of the used
entries in order of login, and `blockers`, `ip1`..`ip4` of every entry: BLOCK of
an address that never logged in writes to the first unused entry (`Entry`). A
search that runs past a full table follows a pointer that is none: the server
stops (`running`). TCP is `requests` and `replies`, a FIFO per direction, and
`peer`, what the client's end has become; `Transmit` is a handler's writes, with
the two ways they end at a client that is gone, nothing or SIGPIPE.

**RouterControl.** `Select` takes the snapshot `watch_list`; then the loop visits
its members, lowest first (`Accept`, `PassOver`, `UnknownSocket`,
`author_response`, `RecvHeader`, `ConnectionClosed`, `ConnectionCut`), a payload
is received in a step of its own (`init_response`) since the router may block
there, and `EndOfPass` goes back. `Tick` and `TimeOut` are the passing of time
in `select`. Controllers connect, send and close between any two steps. The list
of connections is kept at the level of its links (`next`, `sockfd`,
`allocated`), because `remove_control_conn` frees what stays on it. What freed
memory reads as depends on the allocator: `sockfd` holds a link between free
chunks, which is no descriptor; the list's own link is intact where the allocator uses
one word of a free chunk (glibc before 2.29) and is overwritten where it uses
two, and then the router crashes. Both are in the model. A double free crashes.
The packet that a timeout reads from is cut fresh from the top of the heap and
holds zeros (`FreshCount`).

### Abstractions and bounds

* *Time.* A running timer may go off and the head of a channel may arrive at any
  moment. That contains every order the event list can produce, and more (a
  premature timeout at any time), so what holds here holds for every choice of
  delays and random seeds. The runs that need real delays (SR's liveness) use
  `PatientSpec`: no deadline passes while a packet is under way.
* *End of the run.* `simulator.c` stops at the first event after message
  `nsimmax`; here layer 5 stops giving messages after `MaxMsgs` and the protocol
  goes on, so every prefix of a run is covered. The system then goes quiet,
  which is why deadlock is not checked.
* `MaxMsgs` (at most 1000, the size of `application_msgs`) bounds the messages;
  windows wrap and bits repeat within 3 or 4.
* `MaxChan` bounds each channel. A full channel loses a packet of A, which layer
  3 may do at any time; `B_input` waits until its reply has room, so that a
  reply is lost by choice only. Two or three packets are enough for an old and
  a new packet, and their acknowledgements, to be under way at once.
* `Corruptions` is the set of fields that may be damaged: all three for ABT, the
  payload alone where the sequence numbers make the state space large (all that
  matters then is that the checksum test fails, and `DamageIsDetected` proves
  that it does for each).
* `MaxDrift` bounds how far below 0 SR's `pkt_in_window` is followed.
* `malloc` never fails in the protocol modules (it does in `MessageBuffer`).
* `EventList`: 7 event structs, 2 messages, up to 2 packets under way
  to an entity, 2 calls per handler: enough for an event to be inserted and
  removed at either end and in the middle of the list, and for a timer to be
  stopped or found running. Delays are whole numbers of ticks.
* `RouterControl`: at most 2 controllers at a time and 3 in all, so descriptors
  and nodes are given out again, 1 AUTHOR, 1 INIT (a second one would leave the
  first router socket watched and unknown). A header arrives
  whole; a response is always taken (a controller reads before it closes);
  socket calls succeed; the routing table, which is only printed, is left out.

* `Chat`: 2 hosts with different ports, 3 rows for the code's 5 and 2 entries
  of a block list for its 4 (`SLOTS`, `BLOCKS`), 4 connections in all and 2 commands,
  logouts or exits: enough to leave and come back on the same descriptor while the old row
  still has it, to fill the tables and to run past them. The theorems hold for
  every value. A client takes all replies that are there in one step (only the
  last one, which ends its command, shows elsewhere), a request arrives in one piece (the code calls
  `recv` once per request), connections succeed, and LOGIN while connected,
  which sends nothing, is left out, as are the counters of STATISTICS, AUTHOR,
  IP, PORT and all output. A server that has stopped is `running = FALSE`, after which the
  clients are of no interest.

### Fairness

The main loop takes every event off its list in order of time, so a packet that
is under way arrives and a started timer goes off: weak fairness of the
handlers. Every packet's fate is drawn independently with `lossprob` and
`corruptprob`, so for values below 1 (the program accepts 1.0, under which
nothing arrives and nothing is claimed) a packet that is sent again and again
gets through undamaged: strong fairness of "this packet gets through", per
packet. No fairness is assumed of layer 5.

`EventList!FairSpec`: the loop takes the next event and a handler returns. No
fairness is assumed of what handlers call. `RouterControl!FairSpec`: the router,
one thread, goes on when it can; its loop visits every descriptor of a pass, so no
fairness per connection is needed. `Chat!FairSpec` is the same for the chat server, and
assumes nothing of its clients: whether they read or send is up to them. A controller that has sent the header of an
INIT sends the payload or closes; of one that does neither the router would wait
for ever, and nothing is claimed.

## 3. Runs

| run | instance | result | shows |
|---|---|---|---|
| `abt` | 3 messages, channels of 3, all corruptions | holds | `StopAndWait`, `WaitingHasTimer`, `FlipsOnlyWhileWaiting`, refinement of `ReliableDelivery`, the inductive invariant `IInv`; every packet sent is acknowledged in the end |
| `gbn` | window 3, 4 messages, so it fills, refills and wraps | holds | ring shape, timer, acknowledged implies delivered, the inductive invariant `IInv`; every packet acknowledged, refinement of `ReliableDelivery` with fairness |
| `sr_receiver` | window 3, 4 messages, premature timeouts | holds | receiver window, acknowledged means received, the timer flag |
| `sr_live` | window 3, 3 messages, patient network | holds | window drains, `ReliableDelivery` with fairness |
| `sr_overwrite` | window 2, 3 messages, patient network | **violated** | `UnreceivedIsKept`: a refill overwrites an outstanding packet |
| `sr_late_ack` | window 4, 3 messages, premature timeouts | **violated** | `NoPanic`: a late acknowledgement on an empty window ends in `exit(63)` |
| `message_buffer` | 3 nodes, 2 messages | holds | links of the buffer, refinement of `FifoBuffer` |
| `eventlist` | 7 structs, 2 messages, exact times | holds | links, order of time, refinement of `Medium` (one arrival, one timer, FIFO packets); the run ends whatever handlers call |
| `control` | 2 controllers at a time, 3 in all, broken messages | holds | select sets follow the open descriptors, a visit finds something to read, the list is exact until an open connection's entry is freed; closes are noticed, the waiting are accepted |
| `control_list` | 2 controllers | **violated** | `ActiveConnectionsListed`: closing one frees the entry of the other |
| `chat` | 2 hosts, 3 rows, 4 connections, 2 commands | holds | one row per login, lists sorted and whole, one end for each command, blocks outlive logins and change only for their sender or a host taken for it, the inductive invariant `IInv`; every request is handled |
| `chat_relay` | the same | **violated** | `RelayedToNamedHost`: a message to a host without a row goes to whoever got the one before |

The four violations are disagreements of the code with its own comments and
assertions; `PROJECT.json` quotes both sides. SR's sender therefore has no
safety run under arbitrary timing: what it promises is checked where it keeps
the promise (`sr_live`: no buffering because `MaxMsgs <= WINDOW`, no premature
deadlines), and the receiver is checked against whatever that sender does.

The compiled router was seen to exit, or to crash, when one of two controllers
closes.

`control` says something of closed connections only for the allocators that leave
the link of a freed node alone: with the others the router crashes at the first
close, and its properties say nothing of a router that has ended.

Each property of a passing run is paired with a mutant of the code (a dropped
guard, an off-by-one, a timer not restarted, ...) under which it fails; the
mutated operators stand in the modules, each marked `mutant`.

### Known divergences without a run

Met while modelling; the modules contain the behaviour, no property is stated.

* ABT (`abt.c:103`): only `A_output` empties the buffer, one message for each it
  puts in, so a message that arrived during a wait stays there until a later one
  pushes it out.
* GBN and SR with `-w 1` (`gbn.c:64`, `sr.c:81`): `(last+1)%WINDOW` always equals
  `window_start`, so every message is taken out of the buffer and forgotten. The
  runs use a window of at least 2.
* SR (`sr.c:275`): for the last slot of the ring the deadline of that slot is
  tested and the packet of `window_start` is sent.
* Simulator (`simulator.c:512`): beyond 2^24 `lastime + 1 + 9*jimsrand()` may round
  to `lastime`, and `insertevent` puts equal times in front: the medium reorders.
* Simulator (`simulator.c:451`): from there on the clock itself may stand still,
  and with it the run: `sr -m 1000 -t 20000` was seen not to end, `-t 10000` ends.
  (`EventList` has these sums as `Rounded`; the run keeps times exact.)
* Router (`connection_manager.c:56`): a timeout sends nothing, where the comment at
  line 81 announces the update of the neighbours.
* Router (`network_util.c:35`): `recvALL` never ends when the stream ends inside a
  message, nor after an error (`ConnectionCut`); nobody is served after that.
* Router (`connection_manager.c:40`): `select` leaves 0 in `timeout` after the
  first update and nobody sets it again, so updates follow without a pause.
* Router (`connection_manager.c:124`): nothing reads the router socket; once a
  neighbour's update is there, `select` always returns at once.

* Chat server (`vchincho_assignment1.c:764`, `:772`): the sixth login, of whoever, writes
  past both tables; logouts give no row back.
* Chat server (`:1225`): a client that closes without a LOGOUT makes
  `remove_from_list` look at `list_ptr[5]`, and the server crashes.
* Chat server (`:898`): nobody handles SIGPIPE; the second write to a client that
  closed, while its LOGOUT has not been read, ends the server.
* Chat server (`:839`, `:1097`): rows of hosts that left keep their descriptor. Once
  it is given out again, the search by descriptor may find the old row first: a message then
  carries the address of the host that left, its block list decides, and a
  BROADCAST comes back to its sender (`:942`).
* Chat server (`:981`, `:1026`): the same search decides who blocks. bob (port 1)
  logs in on descriptor 4 and out, amy (port 3) logs in and is given
  descriptor 4: her BLOCK is recorded as one of bob's, who is the first row with
  descriptor 4, and whom she blocked can go on writing to her; her UNBLOCK ends
  one of bob's. The comment there is "search list for senders ip based on current
  socket". `BlocksOutliveLogins` has the exact extent: the client itself, or a
  host that left, with a port no higher, whose row still has the descriptor
  (`Predecessors`). With `Sender` alone it is violated, by this trace.
* Chat server (`:993`, `:1005`): a BLOCK of an unknown address goes to the first
  free entry and is inherited by the next host that logs in there; with a full table the server
  crashes. Two BLOCKs need two UNBLOCKs, and a fifth blocker is dropped.
* Chat server (`:955`): BROADCAST asks no block list. LIST shows hosts that
  logged out.
* Chat client (`:284`): LOGIN reports success when `connect` failed.

## 4. Proofs

`ABTProofs` proves, for every `MaxMsgs`, every `MaxChan` and every set of
corruptions (assumptions: `MaxMsgs \in 1..1000`, `MaxChan \in Nat \ {0}`,
`Corruptions` a subset of the three fields), that every behaviour of `Spec`
satisfies `IInv` (`Invariant`), hence `TypeOK` (`TypeCorrect`), `StopAndWait`
(`AckedImpliesDelivered`), `WaitingHasTimer` (`TimerWhileWaiting`), the action
property `FlipsOnlyWhileWaiting` (`FlipsOnlyForOutstanding`), and that `Spec`
implements `ReliableDelivery!Spec` (`Implementation`).

The argument. `StopAndWait` is not inductive: one bit in a packet does not say
which message it carries. `IInv` says what is under way. Intact packets towards
B either carry A's current bit, and then they are copies of the outstanding
packet, or the other bit, and then the message was delivered; and because the
medium is FIFO no packet with the old bit stands behind one with the current
bit. The same for acknowledgements towards A. With that,
an acknowledgement that carries `A_seqnum` can only mean that B has the current
message, and after the bit flips every packet left is an old one. `PacketProofs`
adds what is needed of the medium: a sealed packet is intact, each of the three
damages breaks the checksum (so 'Z' is not a letter of a message and 999999 not
a number in use), and `tolayer3` appends at most one packet.

`GBNProofs` does the same for GBN: for every `WINDOW` greater than 1, every
`MaxMsgs \in 1..1000`, `MaxChan` and set of corruptions, `IInv` (`Invariant`),
`TypeOK`, `WindowShape` (`RingIsAWindow`), `TimerIffOutstanding` (`TimerIsExact`),
`AckedImpliesDelivered` (`SlidesOverDelivered`) and the refinement of
`ReliableDelivery!Spec` (`Implementation`). The argument: an intact packet n
carries message n and was sent, an intact acknowledgement n is for a packet B
has; so the sequence numbers of what is under way need no order, unlike in ABT. The ring is what is
hard: `WindowShape` speaks of the slots `(window_start + i) % WINDOW`, and the lemmas
`SlotAt`, `SuccAt` and `WindowLength` say when two of them are the same and what
the count is, also when the ring is full and its pointers are as they are when it is
empty. Two more parts make it inductive: an empty slot is blanked with -1 at
`window_start`, so a late acknowledgement does not match it, and the buffer holds something only while the
window is full, so the loop at `gbn.c:121` is never entered by an empty window.
A window of one packet is excluded because the theorem is false for it (`gbn.c:64`, see above).

`ChatProofs` proves, for all hosts and ports, all sizes of the
tables and any number of connections and commands (`HostsAssumption`,
`SizesAssumption`, `MaxActsAssumption`), the inductive invariant `IInv` of `Chat`
and from it every safety property that the run checks. `IInv` adds to these
properties what they rest on:

* connections are numbered as they are made, each waits once, and while the
  listening socket is still to be visited somebody waits: `Accept` takes
  the head of the backlog without asking;
* a connected client is on its own connection, open at both ends, with no
  LOGOUT behind it;
* `OneRowPerLogin`, which the searches take for granted. A login finds a free
  descriptor because the rows outnumber the logins (a pigeonhole over the
  rows), and appending, sorting and marking rows keep the one-to-one relation;
* the rows are in order of port after every handler, so that LIST, which does not
  sort, sends them in order, and no handler writes into the middle of a list;
* the ends due to a client are counted over requests, replies and backlog, with lemmas
  on how `Count` goes through concatenation and `Tail`.

`BlocksAreKept` is an action property: the entry of a known address stays where
it is when another login appends one, and `Replace` changes one entry of one list.
In whose name is a question of its own, since the code looks for the sender by
descriptor: `OneRowPerLogin` says that exactly one row marked logged-in has the
descriptor of a visit and that it is the client's, and the table is in order of
port, so the first row found is that one or, before it, a row of a host that left
(`SenderOrPredecessor`). Nothing better holds (Known divergences, `:981`).
The run `chat` checks `IInv` as well.

`SRProofs` proves, for every `WINDOW`, `TIMEOUT`, `MaxMsgs`, `MaxChan`, bound of
drift and set of corruptions, `TypeOK` (`TypeCorrect`), `ReceiverWindow`
(`ReceiverKeepsItsWindow`), `AckMeansReceived` (`AcknowledgedIsReceived`) and
`TimerFlagExact` (`TimerFlagIsExact`), with no restriction on when deadlines
pass. SR's sender breaks its own promises (`sr_overwrite`, `sr_late_ack`), so
the argument may use very little of it: only the counts (`Counts`: B does not get
ahead of layer 5, and while the program runs B expects the message layer 3
expects) and that any run of
slots it refills or resends leaves every ring index in its ring. What B
stores and acknowledges then does not depend on what A remembers. The hard step is
`DeliverPackets`: the slots `window_start_B .. ` are delivered as long as they
are filled, emptied and renumbered a window further on, and the lemmas
`SlotOfOffset`, `OffsetOfSlot`, `StoredRun` and `RenumberedSlot` show that the
slots, seen from the new start, are again numbered in sequence, also when the run
is the whole ring or stops at a message that `tolayer5` refuses.

`RouterProofs` proves, for all sets of descriptors and of nodes that are large
enough, all topologies and any numbers of controllers and messages, `TypeOK`,
`WatchesWhatIsOpen` (`WatchesAllOpen`), `VisitsOnlyReadable`
(`ReadsOnlyWhatIsThere`) and `ExactUntilFreed` (`ListExactUntilFreed`). "Large
enough" (`FdsAssumption`, `NodesAssumption`) says that `socket`, `accept` and
`malloc` do not fail, which the code takes for granted. `VisitsOnlyReadable`
needs to know where the router stands when it waits for a payload
(`AtPayloadOf`). For `ExactUntilFreed`, `NodesAndConnections`: a removal
frees either the node of the closed connection and unlinks it, or a node that
stays linked, after which there are fewer nodes than connections, and no later
accept, close or reuse makes the difference up. That the router may instead crash
when it follows the link of a freed node is in the model and ends the claim. The lemmas
`WalkGoesOn`, `WalkFollows`, `WalkAlongPath` and `PathOfWalk` relate the
walk over `next` to the paths it takes.

`MessageBufferProofs` proves, for any finite set of nodes, any messages and a
`malloc` that fails when nothing is free, `WellLinked` (`LinksAreSound`) and the
refinement of `FifoBuffer` (`Implementation`). `EndsWithNull` makes `WellLinked`
inductive: the walk ends at a NULL pointer and not because it was cut off. The lemma
`WalkAlongChain` is the heart: a sequence of distinct nodes whose first is the
head, each followed by the `next` of the one before and the last by NULL, is the walk. So each
operation has to exhibit the new sequence (one appended; the tail) and that
its own writes, reused nodes included, change no field of the others.

`EventListProofs` proves, for any finite set of structs, any draws, any number
of messages and any calls of the handlers, `TypeOK`, `WellLinked`
(`LinksAreSound`) and `InTimeOrder` (`ListInTimeOrder`). The chain lemma is the
same; insertion is at the place k that the search of `insertevent` stops at, in
front of the first event that is not earlier, and removal, by the main loop or
`stoptimer`, at any place, with `prev` and `next` each in the cases of the
code (only event, first, last, middle). The order of time holds with rounded sums as well:
rounding is monotone and leaves the representable times alone, and every time
on the list is representable (`TimesAreFloats`), so a rounded sum is never
before the clock. What rounding breaks is strictness, and so `ImplementsMedium`.

The list implements `Medium` as long as no time on it is rounded:
`Spec /\ []TimesAreExact => ImplementsMedium` (`Implementation`). The hypothesis
is needed: from 2^24 on, the medium reorders (Known divergences). A queue of
`Medium` is the subsequence of the list that one entity's packets form
(`PacketsTo`), and the lemmas on `Chosen` say how it changes with the list:
an inserted or removed event that is no packet leaves it alone, the first event
is its first, and a packet is its last when no packet of the entity stands
behind it. That is what `lastime` is for. `tolayer3` schedules a packet at least
1 after the last one of its entity, so when times are exact it arrives strictly
later, and `insertevent`, which goes in front of events at equal times,
stops behind all of them (`BehindOthers`). `KindsOfEvents` (`KindsAreKept`) does
the rest: A has at most one timer, so stopping the first one found stops all;
layer 5 calls only A; and while the run lasts its next call is on the list, so
a run never ends for want of events. The packets of `Medium` are told
apart by the address of their struct, which no other event on the list has. That
`Exact` is even (2^24 is) is what a rounded sum below it needs to be exact.

The inductive invariants of `SR`, `RouterControl`, `MessageBuffer` and
`EventList` (the last with rounding from 1 and with exact times), and
`KindsOfEvents`, were model-checked on the instances of the runs before they were proved; those of
`ABT`, `GBN` and `Chat` are properties of their runs.

Only model-checked:

* liveness (`SentIsAcknowledged`, `EveryPacketAcknowledged`, `WindowDrains`,
  `RunEnds`, `CloseIsNoticed`, `WaitingIsAccepted`, `EveryRequestIsHandled`, the
  fair refinements of `gbn` and `sr_live`): fairness and `ENABLED` are out of the
  prover's reach;
* that SR's sender delivers on a patient network: it needs an invariant on
  deadlines and delays of its own;
* the four violations, which are counterexamples.

## 5. Plan

Done, with runs and theorems: `Packet`, `Simulator`, `ReliableDelivery`, `ABT`,
`GBN`, `SR`, `EventList`, `MessageBuffer`, `RouterControl`, `ChatServer`, `Chat`.
Every invariant that a run checks is a theorem, and so is every refinement
without fairness. Left: the safety of SR on a patient network, with an invariant
on deadlines and delays.

### Not modelled

The logger (output only), the routing table of the router (filled and printed,
never used), argument parsing, the statistics and traces of the simulator, SENDFILE
(empty in the code), graders, controller and scripts (compiled or packaging).
