----------------------------- MODULE EventList ------------------------------
(***************************************************************************)
(* The machinery of simulator.c: a doubly linked list of events in order   *)
(* of time, the main loop that takes the first one and runs its handler,   *)
(* and the routines a handler calls.  The protocol is left open: a handler *)
(* makes any calls.  The module shows that this machinery is the medium    *)
(* (Medium.tla) that the protocol modules are written for.                 *)
(*                                                                         *)
(* Time is a float.  Up to 2^24 its whole numbers are exact, from there to *)
(* 2^25 a sum is rounded to an even one; Exact stands for 2^24.            *)
(***************************************************************************)
EXTENDS Integers, FiniteSets, Sequences, FiniteSetsExt

CONSTANTS
    Cells,          \* addresses malloc may return, for all it is asked
    NULL,
    nsimmax,        \* the -m argument
    Arrivals,       \* what lambda*jimsrand()*2 may be
    Delays,         \* what 1 + 9*jimsrand() may be
    Increments,     \* what a handler starts the timer with
    Exact,          \* times from here on are rounded
    MaxChan,        \* bound: packets under way to one entity
    MaxCalls        \* bound: calls of one handler

ASSUME CellsAssumption ==
    /\ Cells \subseteq Nat /\ IsFiniteSet(Cells) /\ Cells # {}
    /\ NULL \notin Cells /\ NULL \notin {"A", "B"}
ASSUME DrawsAssumption ==
    /\ Arrivals \subseteq Nat /\ Delays \subseteq Nat \ {0}
    /\ Increments \subseteq Nat \ {0}
ASSUME BoundsAssumption ==
    /\ nsimmax \in Nat \ {0} /\ Exact \in Nat /\ Exact % 2 = 0
    /\ MaxChan \in Nat /\ MaxCalls \in Nat

TIMER_INTERRUPT == 0
FROM_LAYER5     == 1
FROM_LAYER3     == 2

VARIABLES
    event,          \* address -> fields of the struct
    evlist,         \* the first event, or NULL
    used,           \* addresses malloc returned and nobody freed
    time,
    nsim,
    eventptr,       \* the event being handled, or NULL between two of them
    calls,          \* calls its handler has made
    terminated

listVars == <<event, evlist, used>>
vars == <<listVars, time, nsim, eventptr, calls, terminated>>

Blank == [evtime |-> 0, evtype |-> FROM_LAYER5, eventity |-> "A",
          prev |-> NULL, next |-> NULL]

(* Addition of floats, ties to even: see the head of the module.           *)
Rounded(t) ==
    IF t < Exact \/ t % 2 = 0 THEN t
    ELSE IF (t - 1) % 4 = 0 THEN t - 1 ELSE t + 1

(***************************************************************************)
(* The list.  A routine takes the memory it finds and returns the memory   *)
(* it leaves, so that one step of the program can call several.            *)
(***************************************************************************)
Memory == [event |-> event, evlist |-> evlist, used |-> used]

Becomes(m) == event' = m.event /\ evlist' = m.evlist /\ used' = m.used

(* The events a walk from `head' along `next' meets, one more than there   *)
(* are when it does not end.                                               *)
From(head, structs) ==
    LET most == Cardinality(Cells) + 1
        behind == [q \in Cells \cup {NULL} |->
                     IF q = NULL THEN NULL ELSE structs[q].next]
        met[i \in 1..most] == IF i = 1 THEN head ELSE behind[met[i - 1]]
        long == Cardinality({i \in 1..most : met[i] # NULL})
    IN  [i \in 1..long |-> met[i]]

Walk(m) == From(m.evlist, m.event)

(* An address malloc returns: the first free one, as good as any other.    *)
(* Bound: there is one (MemoryLeft).                                       *)
malloc(m) == Min(Cells \ m.used)

MemoryLeft == Cells \ used # {}

free(m, p) == [m EXCEPT !.used = @ \ {p}, !.event[p] = Blank]

(* mutant: a new event goes behind the first one, whatever its time *)
SecondOnList(m, evtime) == IF Len(Walk(m)) < 2 THEN NULL ELSE Walk(m)[2]

(* The event insertevent puts a new one in front of, NULL for the end.     *)
Before(m, evtime) ==
    LET walk  == Walk(m)
        later == {i \in 1..Len(walk) : evtime <= m.event[walk[i]].evtime}
    IN  IF later = {} THEN NULL ELSE walk[Min(later)]

(* insertevent: into an empty list, at the front, at the end, between two. *)
insertevent(m, fields) ==
    LET p    == malloc(m)
        next == Before(m, fields.evtime)
        prev == IF next # NULL THEN m.event[next].prev
                ELSE IF m.evlist = NULL THEN NULL
                ELSE Walk(m)[Len(Walk(m))]
    IN  [event  |-> [c \in Cells |->
                        CASE c = p    -> [fields EXCEPT !.prev = prev,
                                                        !.next = next]
                          [] c = prev -> [m.event[c] EXCEPT !.next = p]
                          [] c = next -> [m.event[c] EXCEPT !.prev = p]
                          [] OTHER    -> m.event[c]],
         evlist |-> IF prev = NULL THEN p ELSE m.evlist,
         used   |-> m.used \cup {p}]

(* mutant: the event behind q keeps pointing back at q *)
UnlinkForward(m, q) ==
    LET prev == m.event[q].prev
        next == m.event[q].next
    IN  [m EXCEPT !.event = [c \in Cells |->
                               IF c = prev THEN [@[c] EXCEPT !.next = next]
                                           ELSE @[c]],
                  !.evlist = IF prev = NULL THEN next ELSE @]

(* Taking q off the list: the only event, the first, the last, or one      *)
(* between two.                                                            *)
Unlink(m, q) ==
    LET prev == m.event[q].prev
        next == m.event[q].next
    IN  [m EXCEPT !.event = [c \in Cells |->
                               CASE c = prev -> [@[c] EXCEPT !.next = next]
                                 [] c = next -> [@[c] EXCEPT !.prev = prev]
                                 [] OTHER    -> @[c]],
                  !.evlist = IF prev = NULL THEN next ELSE @]

Fields(evtime, evtype, eventity) ==
    [Blank EXCEPT !.evtime = Rounded(evtime), !.evtype = evtype,
                  !.eventity = eventity]

generate_next_arrival(m, now, x) ==
    insertevent(m, Fields(now + x, FROM_LAYER5, "A"))

(* Where on the list the events of a kind are.                             *)
Places(evtype, entity) ==
    LET walk == Walk(Memory)
    IN  {i \in 1..Len(walk) : /\ event[walk[i]].evtype = evtype
                              /\ event[walk[i]].eventity = entity}

Under_way(entity) == Places(FROM_LAYER3, entity)
Timers == Places(TIMER_INTERRUPT, "A")

(***************************************************************************)
(* The main loop.  A handler runs from TakeEvent to Return.                *)
(***************************************************************************)
Init ==
    /\ \E x \in Arrivals :
          LET m == generate_next_arrival(
                     [event  |-> [c \in Cells |-> Blank],
                      evlist |-> NULL, used |-> {}], 0, x)
          IN  event = m.event /\ evlist = m.evlist /\ used = m.used
    /\ time = 0 /\ nsim = 0
    /\ eventptr = NULL /\ calls = 0
    /\ terminated = FALSE

(* mutant: one message too many *)
AllGivenLate == nsim > nsimmax

AllGiven == nsim = nsimmax

(* The first event leaves the list and becomes the current one; an arrival *)
(* from layer 5 schedules the next.                                        *)
TakeEvent ==
    /\ eventptr = NULL /\ ~terminated
    /\ evlist # NULL
    /\ ~AllGiven
    /\ eventptr' = evlist
    /\ time' = event[evlist].evtime
    /\ IF event[evlist].evtype = FROM_LAYER5
       THEN /\ MemoryLeft
            /\ \E x \in Arrivals, left \in {Unlink(Memory, evlist)} :
                  Becomes(generate_next_arrival(left, time', x))
            /\ nsim' = nsim + 1
       ELSE Becomes(Unlink(Memory, evlist)) /\ UNCHANGED nsim
    /\ calls' = 0
    /\ UNCHANGED terminated

(* The run ends when there is no event, or with the first event after the  *)
(* last message, which is taken off the list and not handled.              *)
Terminate ==
    /\ eventptr = NULL /\ ~terminated
    /\ evlist = NULL \/ AllGiven
    /\ terminated' = TRUE
    /\ IF evlist = NULL
       THEN UNCHANGED <<listVars, time>>
       ELSE Becomes(Unlink(Memory, evlist)) /\ time' = event[evlist].evtime
    /\ UNCHANGED <<nsim, eventptr, calls>>

Return ==
    /\ eventptr # NULL
    /\ Becomes(free(Memory, eventptr))
    /\ eventptr' = NULL
    /\ calls' = 0
    /\ UNCHANGED <<time, nsim, terminated>>

(***************************************************************************)
(* The calls a handler makes.                                              *)
(***************************************************************************)
handler == IF eventptr = NULL THEN NULL ELSE event[eventptr].eventity

Call ==
    /\ eventptr # NULL
    /\ calls < MaxCalls
    /\ calls' = calls + 1
    /\ UNCHANGED <<time, nsim, eventptr, terminated>>

Other(entity) == IF entity = "A" THEN "B" ELSE "A"

(* mutant: the packets already under way are not looked at *)
NowOnly(entity) == time

(* When the last packet under way to the entity arrives.                   *)
lastime(entity) ==
    IF Under_way(entity) = {} THEN time
    ELSE event[Walk(Memory)[Max(Under_way(entity))]].evtime

tolayer3 ==
    /\ Call
    /\ \/ UNCHANGED listVars
       \/ LET entity == Other(handler)
          IN  /\ Cardinality(Under_way(entity)) < MaxChan /\ MemoryLeft
              /\ \E d \in Delays :
                    Becomes(insertevent(Memory,
                        Fields(lastime(entity) + d, FROM_LAYER3, entity)))

TimerRuns == Timers # {}

(* mutant: the increment is forgotten *)
AtOnce(increment) == time

Expiry(increment) == time + increment

starttimer ==
    /\ Call
    /\ handler = "A"
    /\ IF TimerRuns
       THEN UNCHANGED listVars
       ELSE MemoryLeft /\ \E increment \in Increments :
               Becomes(insertevent(Memory,
                   Fields(Expiry(increment), TIMER_INTERRUPT, "A")))

stoptimer ==
    /\ Call
    /\ handler = "A"
    /\ IF ~TimerRuns
       THEN UNCHANGED listVars
       ELSE LET q == Walk(Memory)[Min(Timers)]
            IN  Becomes(free(Unlink(Memory, q), q))

Next ==
    \/ TakeEvent \/ Terminate \/ Return
    \/ tolayer3 \/ starttimer \/ stoptimer

Spec == Init /\ [][Next]_vars

(* The program does not stop in the middle of its loop, and a handler      *)
(* returns after finitely many calls.                                      *)
FairSpec ==
    Spec /\ WF_vars(TakeEvent) /\ WF_vars(Terminate) /\ WF_vars(Return)
-----------------------------------------------------------------------------
(* The pointers lead to allocated structs, and neither the clock nor the   *)
(* counters leave their ranges.                                            *)
TypeOK ==
    /\ event \in [Cells -> [evtime : Nat, evtype : 0..2, eventity : {"A", "B"},
                            prev : Cells \cup {NULL}, next : Cells \cup {NULL}]]
    /\ used \subseteq Cells
    /\ evlist \in used \cup {NULL} /\ eventptr \in used \cup {NULL}
    /\ time \in Nat /\ nsim \in 0..nsimmax /\ calls \in 0..MaxCalls
    /\ terminated \in BOOLEAN

(* Both chains of pointers describe one list: `prev' undoes `next', which  *)
(* stoptimer relies on, no event is on it twice, and what is allocated is  *)
(* on the list or being handled (insertevent and stoptimer, all cases).    *)
WellLinked ==
    LET walk == Walk(Memory)
    IN  /\ \A i \in 1..Len(walk) :
              event[walk[i]].prev = IF i = 1 THEN NULL ELSE walk[i - 1]
        /\ \A i, j \in 1..Len(walk) : i # j => walk[i] # walk[j]
        /\ ~terminated =>
              used = {walk[i] : i \in 1..Len(walk)}
                        \cup (IF eventptr = NULL THEN {} ELSE {eventptr})

(* The list is in order of time and nothing on it lies in the past, so the *)
(* clock never goes back.                                                  *)
InTimeOrder ==
    LET walk == Walk(Memory)
    IN  /\ \A i, j \in 1..Len(walk) :
              i < j => event[walk[i]].evtime <= event[walk[j]].evtime
        /\ \A i \in 1..Len(walk) : time <= event[walk[i]].evtime

(* The inductive invariant: the walk ends at a NULL pointer, whatever is on *)
(* it is allocated and not the current event, and times are those a float  *)
(* can have.                                                               *)
EndsWithNull ==
    LET walk == Walk(Memory)
    IN  /\ walk \in Seq(Cells) /\ Len(walk) <= Cardinality(Cells)
        /\ evlist = IF walk = << >> THEN NULL ELSE walk[1]
        /\ \A i \in 1..Len(walk) :
              /\ event[walk[i]].next = IF i = Len(walk) THEN NULL
                                                        ELSE walk[i + 1]
              /\ walk[i] \in used /\ walk[i] # eventptr
        /\ terminated => eventptr = NULL

Representable(t) == Rounded(t) = t

TimesAreFloats ==
    LET walk == Walk(Memory)
    IN  /\ Representable(time)
        /\ \A i \in 1..Len(walk) : Representable(event[walk[i]].evtime)

IInv == TypeOK /\ WellLinked /\ InTimeOrder /\ EndsWithNull /\ TimesAreFloats

(* What the steps of the medium rest on: A has one timer, layer 5 calls A, *)
(* and until the run ends its next call is on the list.                    *)
Listed == {Walk(Memory)[i] : i \in 1..Len(Walk(Memory))}

KindsOfEvents ==
    /\ \A c, d \in Listed :
          /\ event[c].evtype = TIMER_INTERRUPT
          /\ event[d].evtype = TIMER_INTERRUPT
          => c = d
    /\ \A c \in Listed :
          event[c].evtype # FROM_LAYER3 => event[c].eventity = "A"
    /\ ~terminated => \E c \in Listed : event[c].evtype = FROM_LAYER5

(* No time on the list is one that a float rounds.                         *)
TimesAreExact == \A c \in Listed : event[c].evtime < Exact

(* However the handlers resend and restart their timer, the run ends: time *)
(* goes on, and layer 5 gives its last message.                            *)
RunEnds == <>terminated

(* The members of S on a list, in its order.                               *)
Chosen(S) ==
    [w \in Seq(Cells) |->
        LET kept[i \in 0..Len(w)] ==
                IF i = 0 THEN << >>
                ELSE IF w[i] \in S THEN Append(kept[i - 1], w[i])
                                   ELSE kept[i - 1]
        IN  kept[Len(w)]]

Packets(entity) ==
    {q \in Cells : event[q].evtype = FROM_LAYER3 /\ event[q].eventity = entity}

PacketsTo(entity) == Chosen(Packets(entity))[Walk(Memory)]

(* The machinery is the medium the protocols are modelled on.              *)
M == INSTANCE Medium
        WITH toA <- PacketsTo("A"), toB <- PacketsTo("B"),
             timer <- TimerRuns, given <- nsim,
             Ids <- Cells, Nobody <- NULL, done <- terminated

ImplementsMedium == M!Spec
=============================================================================
