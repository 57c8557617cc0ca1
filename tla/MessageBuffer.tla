--------------------------- MODULE MessageBuffer ----------------------------
(***************************************************************************)
(* The buffer of abt.c, gbn.c and sr.c, which share the code: a list of    *)
(* nodes from list_head to list_end, linked by `next', with nodes that     *)
(* come from malloc and go back to free.  The protocol modules keep it as  *)
(* the sequence `list'; this module shows that the pointers implement one. *)
(***************************************************************************)
EXTENDS FiniteSets, Sequences, Integers, FiniteSetsExt

CONSTANTS
    Nodes,          \* addresses malloc may return
    Messages,
    NULL

ASSUME NodesAssumption == IsFiniteSet(Nodes) /\ NULL \notin Nodes
ASSUME MessagesAssumption == Messages # {} /\ NULL \notin Messages

VARIABLES
    heap,           \* node -> its fields; what a freed node holds is kept
    allocated,      \* nodes malloc returned and nobody freed
    list_head, list_end,
    given,          \* what the last handler got from layer 5, or NULL
    taken           \* what it took out of the buffer to send, or NULL

vars == <<heap, allocated, list_head, list_end, given, taken>>

Buffer == [heap |-> heap, allocated |-> allocated,
           head |-> list_head, end |-> list_end]

Init ==
    /\ heap \in [Nodes -> [message : {CHOOSE m \in Messages : TRUE},
                           next : {NULL}]]
    /\ allocated = {}
    /\ list_head = NULL /\ list_end = NULL
    /\ given = NULL /\ taken = NULL

malloc == IF allocated = Nodes THEN {NULL} ELSE Nodes \ allocated

(* mutant: the next pointer of the node malloc returned is not reset *)
AppendStaleNext(b, m, node) ==
    LET filled == [b.heap EXCEPT ![node].message = m]
    IN  IF node = NULL THEN b
        ELSE [heap      |-> IF b.end = NULL THEN filled
                            ELSE [filled EXCEPT ![b.end].next = node],
              allocated |-> b.allocated \cup {node},
              head      |-> IF b.end = NULL THEN node ELSE b.head,
              end       |-> node]

(* append_msg with the node malloc returned: NULL loses the message.       *)
append_msg(b, m, node) ==
    LET filled == [b.heap EXCEPT ![node] = [message |-> m, next |-> NULL]]
    IN  IF node = NULL THEN b
        ELSE [heap      |-> IF b.end = NULL THEN filled
                            ELSE [filled EXCEPT ![b.end].next = node],
              allocated |-> b.allocated \cup {node},
              head      |-> IF b.end = NULL THEN node ELSE b.head,
              end       |-> node]

(* mutant: list_end is left alone when the list becomes empty *)
PopKeepsEnd(b) ==
    IF b.head = NULL THEN b ELSE [b EXCEPT !.head = b.heap[b.head].next]

(* pop_msg: the node it returns is b.head, which the caller then owns.     *)
pop_msg(b) ==
    IF b.head = NULL THEN b
    ELSE LET rest == b.heap[b.head].next
         IN  [b EXCEPT !.head = rest,
                       !.end = IF rest = NULL THEN NULL ELSE @]

free(b, node) == [b EXCEPT !.allocated = @ \ {node}]

Becomes(b) ==
    /\ heap' = b.heap /\ allocated' = b.allocated
    /\ list_head' = b.head /\ list_end' = b.end

(* Pop from b, copy the message into a packet and free the node; gbn.c and *)
(* sr.c forget the node when the ring has no slot for it.                  *)
PopFrom(b) ==
    IF b.head = NULL
    THEN Becomes(b) /\ taken' = NULL
    ELSE /\ Becomes(pop_msg(b)) \/ Becomes(free(pop_msg(b), b.head))
         /\ taken' = b.heap[b.head].message

(* A_output while the window is full, or the sender waiting.               *)
AppendOnly(m) ==
    /\ \E node \in malloc : Becomes(append_msg(Buffer, m, node))
    /\ given' = m /\ taken' = NULL

(* A_output otherwise.                                                     *)
AppendAndPop(m) ==
    /\ \E node \in malloc : PopFrom(append_msg(Buffer, m, node))
    /\ given' = m

(* A_input of gbn.c and sr.c.                                              *)
PopOnly == PopFrom(Buffer) /\ given' = NULL

Next == (\E m \in Messages : AppendOnly(m) \/ AppendAndPop(m)) \/ PopOnly

Spec == Init /\ [][Next]_vars
-----------------------------------------------------------------------------
(* The nodes a walk from `head' along the next pointers meets, one more    *)
(* than there are when it does not end.                                    *)
NodesFrom(head, memory) ==
    LET most == Cardinality(Nodes) + 1
        met[i \in 1..most] ==
            IF i = 1 THEN head
            ELSE IF met[i - 1] = NULL THEN NULL ELSE memory[met[i - 1]].next
        ends == {i \in 1..most : met[i] = NULL}
    IN  [i \in 1..(IF ends = {} THEN most ELSE Min(ends) - 1) |-> met[i]]

Linked == NodesFrom(list_head, heap)

TypeOK ==
    /\ heap \in [Nodes -> [message : Messages, next : Nodes \cup {NULL}]]
    /\ allocated \subseteq Nodes
    /\ list_head \in Nodes \cup {NULL} /\ list_end \in Nodes \cup {NULL}
    /\ given \in Messages \cup {NULL} /\ taken \in Messages \cup {NULL}

(* The list never runs into a node that was freed, and so may be handed    *)
(* out by malloc again; it has no cycle, and list_end is its last node     *)
(* (append_msg writes through list_end, pop_msg resets it).                *)
WellLinked ==
    /\ TypeOK
    /\ \A i \in 1..Len(Linked) : Linked[i] \in allocated
    /\ \A i, j \in 1..Len(Linked) : i # j => Linked[i] # Linked[j]
    /\ list_end = IF Linked = << >> THEN NULL ELSE Linked[Len(Linked)]

(* The inductive invariant: the walk ends, with the node whose next        *)
(* pointer is NULL.                                                        *)
EndsWithNull ==
    /\ Linked \in Seq(Nodes) /\ Len(Linked) <= Cardinality(Nodes)
    /\ list_head = IF Linked = << >> THEN NULL ELSE Linked[1]
    /\ \A i \in 1..Len(Linked) :
          heap[Linked[i]].next = IF i = Len(Linked) THEN NULL ELSE Linked[i + 1]

IInv == WellLinked /\ EndsWithNull

Queue == [i \in 1..Len(Linked) |-> heap[Linked[i]].message]

(* The pointers implement a FIFO buffer, through reuse of nodes; a message *)
(* is lost only when malloc fails.                                         *)
FB == INSTANCE FifoBuffer
        WITH queue <- Queue, Nothing <- NULL, short <- (allocated = Nodes)

ImplementsFifo == FB!Spec
=============================================================================
