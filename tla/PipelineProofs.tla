--------------------------- MODULE PipelineProofs ---------------------------
(***************************************************************************)
(* Proofs about Pipeline, for any number of workers, deliveries, keys and  *)
(* messages, any number of attempts, cycles and crashes.  TypeCorrect,     *)
(* DoneHasReturned and DeathsAreAnnounced assume nothing about timing.     *)
(* TerminalIsFinal speaks of what happens before a pass of the sweeper has *)
(* taken up a row with a message outstanding: such a row can be revived    *)
(* after its end.                                                          *)
(***************************************************************************)
EXTENDS Pipeline, TLAPS

MainRec == [pc : MainPc, slot : Slot \cup {NoSlot}]
ThreadRec == [pc : ThreadPc, d : Delivery \cup {NoDelivery}, holder : Delivery \cup {NoDelivery}]
SweepRec == [pc : SweepPc, todo : SUBSET SweepRow, d : Delivery \cup {NoDelivery},
             keys : SUBSET Watched, key : Key \cup {NoKey}]

EventsOK == /\ events \in [Delivery -> Event]
            /\ \A d \in Delivery : St(d) # "absent" => KeyOf(d) \in Key
QueueOK == queue \in [Slot -> Message] /\ ingress \subseteq Hook
MainsOK == main \in [Worker -> MainRec]
ThreadsOK == thread \in [Threads -> ThreadRec]
SweepOK == /\ sweep \in SweepRec
           /\ sweep.pc \in {"flight", "record", "escalate"} => sweep.key \in Key
TablesOK == /\ claims \in [Key -> Delivery \cup {NoDelivery}]
            /\ cycles \in [Key -> Nat]
            /\ returned \subseteq Key /\ comments \subseteq Key
            /\ failures \subseteq Delivery
            /\ crashes \in Nat /\ overtaken \in Nat /\ abandoned \in BOOLEAN

\* Where a delivery can be: in messages, in workers' hands, in the sweeper's.
Leasing == {"join", "ack", "nack", "defer"}
Burying == {"bury", "dead", "unclaim", "notify"}
Holding == {"fail_dead", "dead", "note", "fail_retry", "requeue", "put", "put_recon"}

InQueue(d) == \E s \in Slot : s[1] = d /\ queue[s].state # "none"
InWork(d) == \E w \in Worker : main[w].slot[1] = d
Loose(d) == ~InQueue(d) /\ ~InWork(d)
InSweep(d) == (\E r \in sweep.todo : r.d = d) \/ (sweep.d = d /\ sweep.pc \in Holding)

Types == EventsOK /\ QueueOK /\ MainsOK /\ ThreadsOK /\ SweepOK /\ TablesOK

-----------------------------------------------------------------------------
\* The graph of transition(), spelled out.
LEMMA StatesAre == State = {"absent", "received", "queued", "processing", "failed", "done", "dead_letter"}
BY DEF State, Allowed

LEMMA GraphIs ==
    ASSUME NEW from \in State, NEW to \in Allowed[from]
    PROVE  /\ to \in State /\ to # "absent" /\ from # "absent" /\ from # "done"
           /\ from = "dead_letter" => to = "queued"
           /\ to = "queued" => from \in {"received", "failed", "dead_letter"}
           /\ to = "processing" => from = "queued"
           /\ to = "done" => from = "processing"
           /\ to = "failed" => from \in {"received", "queued", "processing"}
           /\ to = "dead_letter" => from = "failed"
<1>1. from \in {"absent", "received", "queued", "processing", "failed", "done", "dead_letter"}
  BY StatesAre
<1>2. /\ Allowed["absent"] = {} /\ Allowed["received"] = {"queued", "failed"}
      /\ Allowed["queued"] = {"processing", "failed"} /\ Allowed["processing"] = {"done", "failed"}
      /\ Allowed["failed"] = {"queued", "dead_letter"} /\ Allowed["done"] = {}
      /\ Allowed["dead_letter"] = {"queued"}
  BY DEF Allowed
<1> QED
  BY <1>1, <1>2, StatesAre

\* What happens to a row: it is recorded, moves along the graph, ages or counts an attempt.
MovesTo(d, to) == d \in Delivery /\ Legal(d, to) /\ events' = Moved(d, to)
Records(d, k) == d \in Delivery /\ k \in Key /\ St(d) = "absent" /\ events' = Recorded(d, k)
Ages(d) == d \in Delivery /\ events' = [events EXCEPT ![d].fresh = FALSE]
Counts(d) == /\ d \in Delivery
             /\ events' = [events EXCEPT ![d].attempts = AtMost(@ + 1), ![d].fresh = TRUE]

\* All other rows keep their state, and no recorded one its key.
Beside(a) == \A d \in Delivery : /\ d # a => St(d)' = St(d)
                                 /\ St(d) # "absent" => KeyOf(d)' = KeyOf(d) /\ St(d)' # "absent"

LEMMA RowMoves ==
    ASSUME EventsOK, NEW d, NEW to, MovesTo(d, to)
    PROVE  EventsOK' /\ Beside(d) /\ St(d)' = to
<1>1. St(d) \in State /\ to \in State /\ to # "absent" /\ St(d) # "absent"
  BY GraphIs DEF EventsOK, Event, MovesTo, Legal, St
<1>2. events' = [events EXCEPT ![d] = [events[d] EXCEPT !.state = to, !.fresh = TRUE]] /\ d \in Delivery
  BY DEF MovesTo, Moved
<1>3. [events[d] EXCEPT !.state = to, !.fresh = TRUE] \in Event
  BY <1>1, <1>2 DEF EventsOK, Event
<1>4. events'[d].state = to /\ events'[d].key = events[d].key
  BY <1>2 DEF EventsOK, Event
<1>5. \A e \in Delivery \ {d} : events'[e] = events[e]
  BY <1>2 DEF EventsOK
<1>6. events' \in [Delivery -> Event]
  BY <1>2, <1>3 DEF EventsOK
<1> QED
  BY <1>1, <1>4, <1>5, <1>6 DEF EventsOK, Beside, St, KeyOf

LEMMA RowRecords ==
    ASSUME EventsOK, NEW d, NEW k, Records(d, k)
    PROVE  EventsOK' /\ Beside(d) /\ St(d)' = "received"
<1>1. [state |-> "received", key |-> k, attempts |-> 0, fresh |-> TRUE] \in Event
  BY PipelineAssumption, StatesAre DEF Event, Records
<1>2. /\ events' \in [Delivery -> Event] /\ events'[d].state = "received" /\ events'[d].key = k
      /\ \A e \in Delivery \ {d} : events'[e] = events[e]
  BY <1>1 DEF EventsOK, Records, Recorded
<1> QED
  BY <1>2 DEF EventsOK, Beside, St, KeyOf, Records

LEMMA RowAgesOrCounts ==
    ASSUME EventsOK, NEW d, Ages(d) \/ Counts(d)
    PROVE  EventsOK' /\ Beside(NoDelivery) /\ Beside(d) /\ St(d)' = St(d)
<1>1. \A n \in 0..MaxAttempts : AtMost(n + 1) \in 0..MaxAttempts
  BY PipelineAssumption DEF AtMost
<1>2. CASE Ages(d)
  BY <1>2 DEF Ages, EventsOK, Event, Beside, St, KeyOf
<1>3. CASE Counts(d)
  <2>1. AtMost(events[d].attempts + 1) \in 0..MaxAttempts
    BY <1>1, <1>3 DEF Counts, EventsOK, Event
  <2> QED
    BY <1>3, <2>1 DEF Counts, EventsOK, Event, Beside, St, KeyOf
<1> QED
  BY <1>2, <1>3

\* Nothing moves a row that has reached a terminal state, or takes a key away.
Settled == \A d \in Delivery :
             /\ St(d) \in Terminal => St(d)' = St(d)
             /\ St(d) # "absent" => KeyOf(d)' = KeyOf(d) /\ St(d)' # "absent"

LEMMA MovesSettle ==
    ASSUME EventsOK, NEW d, NEW to, MovesTo(d, to), to = "queued" => St(d) \notin Terminal
    PROVE  EventsOK' /\ Beside(d) /\ Settled /\ St(d)' = to
<1>1. EventsOK' /\ Beside(d) /\ St(d)' = to
  BY RowMoves
<1>2. St(d) \in State /\ to \in Allowed[St(d)]
  BY DEF MovesTo, Legal, EventsOK, Event, St
<1>3. St(d) \notin Terminal
  BY <1>2, GraphIs DEF Terminal
<1> QED
  BY <1>1, <1>3 DEF Settled, Beside

LEMMA EventsStay ==
    ASSUME EventsOK, events' = events
    PROVE  EventsOK' /\ Settled /\ \A a : Beside(a)
BY DEF EventsOK, Settled, Beside, St, KeyOf

-----------------------------------------------------------------------------
LEMMA Slots == /\ \A s \in Slot : s[1] \in Delivery /\ s # NoSlot
               /\ NoSlot[1] = NoDelivery /\ NoDelivery \notin Delivery
<1>1. \A s \in Slot : s[1] \in Delivery
  BY DEF Slot
<1>2. NoSlot[1] = NoDelivery /\ NoDelivery \notin Delivery
  BY PipelineAssumption DEF NoSlot, Delivery
<1> QED
  BY <1>1, <1>2

(***************************************************************************)
(* Whatever the timeouts: what the tables and the positions of the         *)
(* processes keep although analyses are abandoned and messages wait.       *)
(***************************************************************************)
Kept == \A d \in Delivery : St(d) # "absent" => St(d)' # "absent" /\ KeyOf(d)' = KeyOf(d)

\* A worker waits, has a message leased that nobody else has, or buries one.
WellHeld(w) ==
    \/ main[w].pc = "idle" /\ main[w].slot = NoSlot
    \/ /\ main[w].pc \in Leasing /\ main[w].slot \in Slot
       /\ queue[main[w].slot].state = "leased" /\ queue[main[w].slot].receives >= 1
    \/ main[w].pc \in Burying /\ main[w].slot \in Slot
OneLease == \A w, v \in Worker : main[w].pc \in Leasing /\ main[v].slot = main[w].slot
                                   /\ main[v].pc \in Leasing => w = v
HandsInv == (\A w \in Worker : WellHeld(w)) /\ OneLease

\* The main thread waits for its own thread, which works on its delivery; an orphan was in
\* an analysis when it was abandoned.
Late == {"off", "analyze", "late", "done", "failed", "free_ack", "free_nack"}
Awaited(t) ==
    /\ thread[t].pc # "off" => /\ thread[t].d \in Delivery
                               /\ t[2] = "own" => /\ main[t[1]].pc = "join"
                                                  /\ thread[t].d = main[t[1]].slot[1]
    /\ t[2] = "orphan" => thread[t].pc \in Late
AwaitedInv == \A t \in Threads : Awaited(t)

\* Whatever somebody works on has been recorded.
InThread(d) == \E t \in Threads : thread[t].d = d
Busy(d) == InQueue(d) \/ InWork(d) \/ d \in ingress \/ InSweep(d) \/ InThread(d)
RecordedInv == /\ \A d \in Delivery : Busy(d) => St(d) # "absent"
               /\ sweep.pc \in Holding => sweep.d \in Delivery

ShapeInv == Types /\ HandsInv /\ AwaitedInv /\ RecordedInv

LEMMA RowsAreKept ==
    ASSUME EventsOK, NEW a, Beside(a), St(a)' # "absent"
    PROVE  Kept
BY DEF Beside, Kept

LEMMA BusyIsKnown ==
    ASSUME ShapeInv, NEW d \in Delivery, Busy(d)
    PROVE  St(d) # "absent" /\ KeyOf(d) \in Key
BY DEF ShapeInv, RecordedInv, Types, EventsOK

\* Main threads and messages stay, or ...
LEMMA HandsStay ==
    ASSUME HandsInv, UNCHANGED main,
           \A w \in Worker : main[w].pc \in Leasing => queue'[main[w].slot] = queue[main[w].slot]
    PROVE  HandsInv'
BY DEF HandsInv, WellHeld, OneLease

LEMMA StopHands ==
    ASSUME ShapeInv, NEW w \in Worker, Stop(w)
    PROVE  /\ queue' \in [Slot -> Message] /\ MainsOK' /\ ThreadsOK' /\ HandsInv' 
           /\ \A s \in Slot : queue'[s].state # "none" => queue[s].state # "none"
           /\ main'[w].slot = NoSlot /\ \A v \in Worker : v # w => main'[v] = main[v]
           /\ main'[w].pc = "idle"
           /\ thread'[Own(w)] = Off /\ thread'[Orphan(w)] = Off
           /\ \A t \in Threads : t # Own(w) /\ t # Orphan(w) => thread'[t] = thread[t]
<1> USE DEF ShapeInv, Types, QueueOK, MainsOK, ThreadsOK
<1>1. /\ Off \in ThreadRec /\ [pc |-> "idle", slot |-> NoSlot] \in MainRec
      /\ Own(w) \in Threads /\ Orphan(w) \in Threads
  BY DEF Off, ThreadRec, ThreadPc, MainRec, MainPc, Own, Orphan, Threads
<1>2. /\ MainsOK' /\ main'[w].slot = NoSlot /\ main'[w].pc = "idle"
      /\ \A v \in Worker : v # w => main'[v] = main[v]
  BY <1>1 DEF Stop, Rest
<1>3. /\ ThreadsOK' /\ thread'[Own(w)] = Off /\ thread'[Orphan(w)] = Off
      /\ \A t \in Threads : t # Own(w) /\ t # Orphan(w) => thread'[t] = thread[t]
  BY <1>1 DEF Stop
<1>4. /\ queue' \in [Slot -> Message]
      /\ \A s \in Slot : queue'[s].state # "none" => queue[s].state # "none"
      /\ \A s \in Slot : queue'[s] = queue[s] \/ (s = main[w].slot /\ main[w].pc \in Leasing)
  <2>1. CASE main[w].slot # NoSlot /\ main[w].pc \in {"join", "ack", "nack", "defer"}
    <3>1. main[w].slot \in Slot /\ queue[main[w].slot].state = "leased"
      BY <2>1 DEF HandsInv, WellHeld, Burying
    <3> QED
      BY <2>1, <3>1 DEF Stop, Message, Leasing
  <2>2. CASE ~(main[w].slot # NoSlot /\ main[w].pc \in {"join", "ack", "nack", "defer"})
    BY <2>2 DEF Stop
  <2> QED
    BY <2>1, <2>2
<1>5. HandsInv'
  <2>1. ASSUME NEW v \in Worker PROVE WellHeld(v)'
    <3>1. CASE v = w
      BY <1>2, <3>1 DEF WellHeld
    <3>2. CASE v # w
      <4>1. main[v].pc \in Leasing => queue'[main[v].slot] = queue[main[v].slot]
        BY <1>4, <3>2 DEF HandsInv, WellHeld, OneLease, Burying, Leasing
      <4> QED
        BY <1>2, <3>2, <4>1 DEF HandsInv, WellHeld
    <3> QED
      BY <3>1, <3>2
  <2>2. OneLease'
    BY <1>2 DEF HandsInv, OneLease, Leasing
  <2> QED
    BY <2>1, <2>2 DEF HandsInv
<1> QED
  BY <1>2, <1>3, <1>4, <1>5

LEMMA NothingNew ==
    ASSUME ShapeInv, Kept,
           \A s \in Slot : queue'[s].state # "none" => queue[s].state # "none" \/ St(s[1])' # "absent",
           \A d \in ingress' : d \in ingress \/ St(d)' # "absent",
           \A w \in Worker : \/ main'[w].slot = main[w].slot \/ main'[w].slot = NoSlot
                             \/ events'[main'[w].slot[1]].state # "absent",
           \A t \in Threads : \/ thread'[t].d = thread[t].d \/ thread'[t].d = NoDelivery
                              \/ events'[thread'[t].d].state # "absent",
           \A r \in sweep'.todo : r \in sweep.todo \/ St(r.d)' # "absent",
           sweep'.pc \in Holding => /\ sweep'.d \in Delivery
                                    /\ \/ sweep.pc \in Holding /\ sweep'.d = sweep.d
                                       \/ events'[sweep'.d].state # "absent"
    PROVE  RecordedInv'
<1> SUFFICES ASSUME NEW d \in Delivery, Busy(d)', St(d)' = "absent" PROVE FALSE
  BY DEF RecordedInv
<1>1. ~Busy(d)
  BY DEF ShapeInv, RecordedInv, Kept
<1>2. ~InQueue(d)' /\ ~(d \in ingress)'
  BY <1>1 DEF Busy, InQueue
<1>3. ~InWork(d)'
  BY <1>1, Slots DEF Busy, InWork, St
<1>4. ~InThread(d)'
  BY <1>1, Slots DEF Busy, InThread, St
<1>5. ~InSweep(d)'
  BY <1>1 DEF Busy, InSweep, St
<1> QED
  BY <1>2, <1>3, <1>4, <1>5 DEF Busy

\* Steps of ingress and of time.
LEMMA IngressShape ==
    ASSUME ShapeInv, IngressStep \/ IngressCrash \/ \E d \in Delivery : Age(d)
    PROVE  ShapeInv' /\ Kept
<1> USE DEF ShapeInv, Types
<1>1. ASSUME NEW d \in Hook, NEW k \in Key, Receive(d, k) PROVE ShapeInv' /\ Kept
  <2>1. d \in Delivery /\ Records(d, k)
    BY <1>1 DEF Delivery, Records, Receive
  <2>2. EventsOK' /\ Beside(d) /\ St(d)' = "received" /\ Kept
    BY <2>1, RowRecords, RowsAreKept
  <2>3. Types' /\ AwaitedInv' /\ HandsInv'
    BY <1>1, <2>2 DEF Receive, QueueOK, MainsOK, ThreadsOK, SweepOK, TablesOK, outcomes, past, AwaitedInv, Awaited,
                      HandsInv, WellHeld, OneLease
  <2>4. RecordedInv'
    BY <1>1, <2>2, NothingNew DEF Receive, RecordedInv
  <2> QED
    BY <2>2, <2>3, <2>4
<1>2. ASSUME NEW d \in Hook, Schedule(d) PROVE ShapeInv' /\ Kept
  <2>1. d \in Delivery /\ St(d) # "absent"
    BY <1>2 DEF Delivery, Schedule, RecordedInv, Busy
  <2>2. EventsOK' /\ Kept
    BY <1>2, EventsStay, RowsAreKept DEF Schedule, Kept, St, KeyOf
  <2>3. PICK c \in (1..MaxCopies) \ Copies(d) :
          queue' = [queue EXCEPT ![<<d, c>>] = [state |-> "ready", receives |-> 0]]
    BY <1>2 DEF Schedule, Enqueue
  <2>4. /\ <<d, c>> \in Slot /\ queue[<<d, c>>].state = "none" /\ queue' \in [Slot -> Message]
        /\ \A s \in Slot : s # <<d, c>> => queue'[s] = queue[s]
    BY <2>1, <2>3, PipelineAssumption DEF Copies, Slot, QueueOK, Message
  <2>5. HandsInv'
    BY <1>2, <2>4, HandsStay DEF Schedule, HandsInv, WellHeld, Burying, Leasing
  <2>6. Types' /\ AwaitedInv'
    BY <1>2, <2>2, <2>4 DEF Schedule, QueueOK, MainsOK, ThreadsOK, SweepOK, TablesOK, outcomes, past, AwaitedInv, Awaited
  <2>7. RecordedInv'
    BY <1>2, <2>1, <2>2, <2>4, NothingNew DEF Schedule, RecordedInv, St
  <2> QED
    BY <2>2, <2>5, <2>6, <2>7
<1>3. CASE IngressCrash
  <2>1. EventsOK' /\ Kept
    BY <1>3, EventsStay, RowsAreKept DEF IngressCrash, db, Kept, St, KeyOf
  <2>2. Types' /\ AwaitedInv' /\ HandsInv'
    BY <1>3, <2>1 DEF IngressCrash, db, QueueOK, MainsOK, ThreadsOK, SweepOK, TablesOK, outcomes, past, AwaitedInv, Awaited,
                      HandsInv, WellHeld, OneLease
  <2>3. RecordedInv'
    BY <1>3, <2>1, NothingNew DEF IngressCrash, db, RecordedInv
  <2> QED
    BY <2>1, <2>2, <2>3
<1>4. ASSUME NEW d \in Delivery, Age(d) PROVE ShapeInv' /\ Kept
  <2> USE <1>4 DEF Age, OnlyEvents
  <2>1. EventsOK' /\ Beside(d) /\ St(d)' = St(d)
    BY RowAgesOrCounts DEF Ages
  <2>2. Kept
    BY <2>1 DEF Kept, Beside
  <2>3. Types' /\ AwaitedInv' /\ HandsInv'
    BY <2>1 DEF QueueOK, MainsOK, ThreadsOK, SweepOK, TablesOK, outcomes, past, AwaitedInv, Awaited,
                      HandsInv, WellHeld, OneLease
  <2>4. RecordedInv'
    BY <2>2, NothingNew DEF RecordedInv
  <2> QED
    BY <2>2, <2>3, <2>4
<1> QED
  BY <1>1, <1>2, <1>3, <1>4 DEF IngressStep

\* Steps of a main thread, and of the poison-guard.
LEMMA LeaseShape ==
    ASSUME ShapeInv, NEW s \in Slot, PoisonGuard(s) \/ \E w \in Worker : Lease(w, s)
    PROVE  ShapeInv' /\ Kept
<1> USE DEF ShapeInv, Types, outcomes, past
<1>0. /\ EventsOK' /\ Kept /\ UNCHANGED <<events, ingress, sweep>>
      /\ s[1] \in Delivery /\ St(s[1]) # "absent"
  <2>1. UNCHANGED <<events, ingress, sweep>> /\ queue[s].state # "none"
    BY DEF PoisonGuard, Lease
  <2>2. EventsOK' /\ Kept
    BY <2>1, EventsStay DEF Kept, St, KeyOf
  <2>3. s[1] \in Delivery /\ InQueue(s[1])
    BY <2>1, Slots DEF InQueue
  <2> QED
    BY <2>1, <2>2, <2>3 DEF RecordedInv, Busy
<1>1. CASE PoisonGuard(s)
  <2>1. /\ queue' \in [Slot -> Message] /\ queue'[s].state = "none"
        /\ \A r \in Slot : r # s => queue'[r] = queue[r]
    <3>1. NoMessage \in Message /\ NoMessage.state = "none"
      BY PipelineAssumption DEF NoMessage, Message
    <3> QED
      BY <1>1, <3>1 DEF PoisonGuard, QueueOK
  <2>2. HandsInv'
    BY <1>1, <2>1, HandsStay DEF PoisonGuard, HandsInv, WellHeld, Burying, Leasing
  <2>3. Types' /\ AwaitedInv'
    BY <1>0, <1>1, <2>1 DEF PoisonGuard, QueueOK, MainsOK, ThreadsOK, SweepOK, TablesOK, AwaitedInv, Awaited
  <2>4. RecordedInv'
    BY <1>0, <1>1, <2>1, NothingNew DEF PoisonGuard, RecordedInv
  <2> QED
    BY <1>0, <2>2, <2>3, <2>4
<1>2. ASSUME NEW w \in Worker, Lease(w, s) PROVE ShapeInv' /\ Kept
  <2> DEFINE fresh == [Off EXCEPT !.pc = "check", !.d = s[1]]
  <2>1. /\ fresh \in ThreadRec /\ fresh.pc = "check" /\ fresh.d = s[1]
        /\ [pc |-> "join", slot |-> s] \in MainRec /\ Own(w) \in Threads
    BY <1>0 DEF Off, ThreadRec, ThreadPc, MainRec, MainPc, Own, Threads
  <2>2. /\ queue' \in [Slot -> Message] /\ queue'[s].state = "leased" /\ queue'[s].receives >= 1
        /\ \A r \in Slot : r # s => queue'[r] = queue[r]
    <3>1. queue[s].receives \in Nat /\ queue[s].receives < MaxAttempts /\ MaxAttempts \in Nat
      BY <1>2, PipelineAssumption DEF Lease, QueueOK, Message
    <3>2. [state |-> "leased", receives |-> queue[s].receives + 1] \in Message
      BY <3>1 DEF Message
    <3> QED
      BY <1>2, <3>1, <3>2 DEF Lease, QueueOK
  <2>3. /\ MainsOK' /\ main'[w].pc = "join" /\ main'[w].slot = s
        /\ \A v \in Worker : v # w => main'[v] = main[v]
    BY <1>2, <2>1 DEF Lease, MainsOK
  <2>4. /\ ThreadsOK' /\ thread'[Own(w)] = fresh
        /\ \A t \in Threads : t # Own(w) => thread'[t] = thread[t]
    <3> HIDE DEF fresh
    <3>1. thread' = [thread EXCEPT ![Own(w)] = fresh]
      BY <1>2 DEF Lease, fresh
    <3> QED
      BY <2>1, <3>1 DEF ThreadsOK
  <2>5. HandsInv'
    <3>1. \A v \in Worker : main[v].pc \in Leasing => main[v].slot # s
      BY <1>2 DEF Lease, HandsInv, WellHeld, Burying, Leasing
    <3>2. ASSUME NEW v \in Worker PROVE WellHeld(v)'
      BY <2>2, <2>3, <3>1 DEF HandsInv, WellHeld, Leasing
    <3>3. OneLease'
      BY <2>3, <3>1 DEF HandsInv, OneLease
    <3> QED
      BY <3>2, <3>3 DEF HandsInv
  <2>6. AwaitedInv'
    <3> SUFFICES ASSUME NEW t \in Threads PROVE Awaited(t)'
      BY DEF AwaitedInv
    <3>1. CASE t = Own(w)
      BY <1>0, <2>1, <2>3, <2>4, <3>1 DEF Awaited, Own
    <3>2. CASE t # Own(w)
      <4>1. t[2] = "own" => t[1] # w /\ t[1] \in Worker
        BY <3>2 DEF Own, Threads
      <4> QED
        BY <2>3, <2>4, <3>2, <4>1 DEF AwaitedInv, Awaited
    <3> QED
      BY <3>1, <3>2
  <2>7. Types'
    BY <1>0, <1>2, <2>2, <2>3, <2>4 DEF Lease, QueueOK, SweepOK, TablesOK
  <2>8. RecordedInv'
    <3>1. events' = events /\ thread'[Own(w)].d = s[1]
      BY <1>0, <2>1, <2>4
    <3> QED
      BY <1>0, <1>2, <2>2, <2>3, <2>4, <3>1, NothingNew DEF Lease, RecordedInv, St
  <2> QED
    BY <1>0, <2>5, <2>6, <2>7, <2>8
<1> QED
  BY <1>1, <1>2

LEMMA StopShape ==
    ASSUME ShapeInv, NEW w \in Worker, Stop(w), UNCHANGED <<events, ingress, sweep>>, TablesOK'
    PROVE  ShapeInv' /\ Kept
<1> USE DEF ShapeInv, Types
<1>1. EventsOK' /\ Kept
  BY EventsStay DEF Kept, St, KeyOf
<1>2. AwaitedInv'
  <2> SUFFICES ASSUME NEW t \in Threads, thread'[t].pc # "off" PROVE Awaited(t)'
    BY DEF AwaitedInv, Awaited, Late
  <2>1. t # Own(w) /\ t # Orphan(w)
    BY StopHands DEF Off
  <2>2. t[1] \in Worker /\ (t[2] = "own" => t[1] # w)
    BY <2>1 DEF Own, Threads
  <2> QED
    BY <2>1, <2>2, StopHands DEF AwaitedInv, Awaited
<1>3. RecordedInv'
  <2>1. \A t \in Threads : thread'[t] = thread[t] \/ thread'[t].d = NoDelivery
    BY StopHands DEF Off
  <2>2. \A v \in Worker : main'[v].slot = main[v].slot \/ main'[v].slot = NoSlot
    BY StopHands
  <2> QED
    BY <1>1, <2>1, <2>2, StopHands, NothingNew DEF RecordedInv
<1> QED
  BY <1>1, <1>2, <1>3, StopHands DEF QueueOK, SweepOK

\* A worker goes on burying, or is done with its message.
LEMMA MainShape ==
    ASSUME ShapeInv, NEW w \in Worker, MainStep(w)
    PROVE  ShapeInv' /\ Kept
<1> USE DEF ShapeInv, Types, outcomes, past
<1> DEFINE s == main[w].slot
           d == main[w].slot[1]
<1>0. /\ s \in Slot /\ d \in Delivery /\ St(d) # "absent" /\ KeyOf(d) \in Key
      /\ main[w].pc # "join" /\ main[w].pc # "idle"
      /\ thread[Own(w)].pc = "off"
  <2>1. main[w].pc \in {"ack", "defer", "nack", "bury", "dead", "unclaim", "notify"}
    BY DEF MainStep, Ack, Defer, Nack, Bury, BuryDead, Unclaim, Notify
  <2>2. s \in Slot
    BY <2>1 DEF HandsInv, WellHeld
  <2>3. d \in Delivery /\ InWork(d)
    BY <2>2, Slots DEF InWork
  <2>4. Own(w) \in Threads
    BY DEF Own, Threads
  <2>5. thread[Own(w)].pc = "off"
    BY <2>1, <2>4 DEF AwaitedInv, Awaited, Own
  <2> QED
    BY <2>1, <2>2, <2>3, <2>5, BusyIsKnown DEF Busy
<1>1. ASSUME MainsOK', UNCHANGED thread, \A v \in Worker : v # w => main'[v] = main[v] PROVE AwaitedInv' /\ ThreadsOK'
  <2>1. ASSUME NEW t \in Threads PROVE Awaited(t)'
    <3>1. t[2] = "own" /\ t[1] = w => t = Own(w)
      BY DEF Threads, Own
    <3>2. t[1] \in Worker
      BY DEF Threads
    <3> QED
      BY <1>0, <1>1, <3>1, <3>2 DEF AwaitedInv, Awaited
  <2> QED
    BY <1>1, <2>1 DEF AwaitedInv, ThreadsOK
<1>2. CASE Ack(w) \/ Defer(w) \/ Nack(w)
  <2>1. /\ main[w].pc \in Leasing /\ queue[s].state = "leased" /\ queue[s].receives \in 1..MaxAttempts
        /\ UNCHANGED <<events, ingress, sweep, thread>>
    <3>1. main[w].pc \in Leasing
      BY <1>2 DEF Ack, Defer, Nack, Leasing
    <3> QED
      BY <1>0, <1>2, <3>1, PipelineAssumption DEF Ack, Defer, Nack, HandsInv, WellHeld, Burying, Leasing, QueueOK, Message
  <2>2. /\ queue' \in [Slot -> Message]
        /\ \A r \in Slot : r # s => queue'[r] = queue[r]
    <3>1. NoMessage \in Message
      BY PipelineAssumption DEF NoMessage, Message
    <3>2. \A n \in 1..MaxAttempts : [state |-> "ready", receives |-> GivenBack(n)] \in Message
      BY PipelineAssumption DEF GivenBack, Message
    <3> QED
      BY <1>0, <1>2, <2>1, <3>1, <3>2 DEF Ack, Defer, Nack, QueueOK, Message
  <2>3. /\ MainsOK' /\ \A v \in Worker : v # w => main'[v] = main[v]
        /\ \/ main'[w].pc = "idle" /\ main'[w].slot = NoSlot
           \/ main'[w].pc = "bury" /\ main'[w].slot = s
    BY <1>0, <1>2 DEF Ack, Defer, Nack, Rest, Goto, MainsOK, MainRec, MainPc
  <2>4. HandsInv'
    <3>1. \A v \in Worker : v # w /\ main[v].pc \in Leasing => main[v].slot # s
      BY <2>1 DEF HandsInv, OneLease
    <3>2. ASSUME NEW v \in Worker PROVE WellHeld(v)'
      <4>1. CASE v = w
        BY <1>0, <2>3, <4>1 DEF WellHeld, Burying
      <4>2. CASE v # w
        <5>1. main[v].pc \in Leasing /\ main[v].slot \in Slot => queue'[main[v].slot] = queue[main[v].slot]
          BY <2>2, <3>1, <4>2
        <5> QED
          BY <2>3, <4>2, <5>1 DEF HandsInv, WellHeld
      <4> QED
        BY <4>1, <4>2
    <3>3. OneLease'
      <4>1. main'[w].pc \notin Leasing
        BY <2>3 DEF Leasing
      <4> QED
        BY <2>3, <4>1 DEF HandsInv, OneLease
    <3> QED
      BY <3>2, <3>3 DEF HandsInv
  <2>5. EventsOK' /\ Kept
    BY <2>1, EventsStay DEF Kept, St, KeyOf
  <2>6. Types' /\ AwaitedInv'
    BY <1>0, <1>1, <1>2, <2>1, <2>2, <2>3, <2>5 DEF Ack, Defer, Nack, QueueOK, SweepOK, TablesOK
  <2>7. RecordedInv'
    <3>1. \A r \in Slot : queue'[r].state # "none" => queue[r].state # "none"
      BY <2>1, <2>2
    <3> QED
      BY <2>1, <2>3, <2>5, <3>1, NothingNew DEF RecordedInv
  <2> QED
    BY <2>4, <2>5, <2>6, <2>7
<1>3. CASE Bury(w) \/ (BuryDead(w) /\ Legal(d, "dead_letter")) \/ Unclaim(w) \/ Notify(w)
  <2>1. /\ main[w].pc \in Burying /\ UNCHANGED <<queue, ingress, sweep, thread>>
        /\ \/ UNCHANGED events
           \/ \E to : MovesTo(d, to)
    BY <1>0, <1>3 DEF Bury, BuryDead, Unclaim, Notify, Burying, MovesTo, db
  <2>2. EventsOK' /\ Kept
    <3>1. CASE UNCHANGED events
      BY <3>1, EventsStay DEF Kept, St, KeyOf
    <3>2. ASSUME NEW to, MovesTo(d, to) PROVE EventsOK' /\ Kept
      <4>1. EventsOK' /\ Beside(d)
        BY <3>2, RowMoves
      <4> QED
        BY <4>1 DEF Kept, Beside
    <3> QED
      BY <2>1, <3>1, <3>2
  <2>3. /\ MainsOK' /\ \A v \in Worker : v # w => main'[v] = main[v]
        /\ \/ main'[w].pc = "idle" /\ main'[w].slot = NoSlot
           \/ main'[w].pc \in Burying /\ main'[w].slot = s
    BY <1>0, <1>3 DEF Bury, BuryDead, Unclaim, Notify, Rest, Goto, MainsOK, MainRec, MainPc, Burying
  <2>4. HandsInv'
    <3>1. main'[w].pc \notin Leasing
      BY <2>3 DEF Leasing, Burying
    <3>2. ASSUME NEW v \in Worker PROVE WellHeld(v)'
      BY <1>0, <2>1, <2>3 DEF HandsInv, WellHeld
    <3> QED
      BY <2>3, <3>1, <3>2 DEF HandsInv, OneLease
  <2>5. TablesOK'
    BY <1>0, <1>3 DEF Bury, BuryDead, Unclaim, Notify, Unclaimed, Tell, TablesOK, db
  <2>6. Types' /\ AwaitedInv'
    BY <1>1, <2>1, <2>2, <2>3, <2>5 DEF QueueOK, SweepOK
  <2>7. RecordedInv'
    BY <2>1, <2>2, <2>3, NothingNew DEF RecordedInv
  <2> QED
    BY <2>2, <2>4, <2>6, <2>7
<1>4. CASE BuryDead(w) /\ ~Legal(d, "dead_letter")
  <2>1. Stop(w) /\ UNCHANGED <<events, ingress, sweep>> /\ TablesOK'
    BY <1>4 DEF BuryDead, TablesOK
  <2> QED
    BY <1>4, <2>1, StopShape
<1> QED
  BY <1>2, <1>3, <1>4 DEF MainStep

LEMMA LapseShape ==
    ASSUME ShapeInv, NEW w \in Worker, WorkerCrash(w) \/ Timeout(w) \/ AttemptTimeout(w)
    PROVE  ShapeInv' /\ Kept
<1> USE DEF ShapeInv, Types, outcomes, past, db
<1>1. CASE WorkerCrash(w)
  BY <1>1, StopShape DEF WorkerCrash, TablesOK
<1>2. CASE Timeout(w) \/ AttemptTimeout(w)
  <2> DEFINE t == Own(w)
             d == thread[t].d
  <2>1. /\ t \in Threads /\ Orphan(w) \in Threads /\ Orphan(w) # t /\ thread[t].pc = "analyze"
        /\ UNCHANGED <<events, ingress, sweep, queue>>
    BY <1>2 DEF Timeout, AttemptTimeout, Own, Orphan, Threads
  <2>2. /\ d \in Delivery /\ main[w].pc = "join" /\ d = main[w].slot[1]
        /\ t[2] = "own" /\ t[1] = w
    BY <2>1 DEF AwaitedInv, Awaited, Own
  <2>3. EventsOK' /\ Kept
    BY <2>1, EventsStay DEF Kept, St, KeyOf
  <2>4. /\ ThreadsOK' /\ thread'[Orphan(w)].d = d /\ thread'[Orphan(w)].pc \in {"analyze", "late"}
        /\ thread'[t] = Off \/ (thread'[t].d = d /\ UNCHANGED main)
        /\ \A u \in Threads : u # t /\ u # Orphan(w) => thread'[u] = thread[u]
    <3>1. /\ Off \in ThreadRec /\ thread[t] \in ThreadRec
          /\ [thread[t] EXCEPT !.pc = "late"] \in ThreadRec
      BY <2>1 DEF Off, ThreadRec, ThreadPc, ThreadsOK
    <3>2. CASE Timeout(w)
      <4>1. thread' = [thread EXCEPT ![Orphan(w)] = thread[t], ![t] = Off]
        BY <3>2 DEF Timeout
      <4> QED
        BY <2>1, <3>1, <4>1 DEF ThreadsOK
    <3>3. CASE AttemptTimeout(w)
      <4>1. thread' = [thread EXCEPT ![Orphan(w)] = [thread[t] EXCEPT !.pc = "late"], ![t].pc = "failed"]
        BY <3>3 DEF AttemptTimeout
      <4> QED
        BY <2>1, <3>1, <3>3, <4>1 DEF ThreadsOK, ThreadRec, ThreadPc, AttemptTimeout
    <3> QED
      BY <1>2, <3>2, <3>3
  <2>5. /\ MainsOK' /\ \A v \in Worker : v # w => main'[v] = main[v]
        /\ main'[w].slot = main[w].slot /\ main'[w].pc \in {"join", "nack"}
    BY <1>2, <2>2 DEF Timeout, AttemptTimeout, Goto, MainsOK, MainRec, MainPc
  <2>6. HandsInv'
    <3>1. \A v \in Worker : /\ main'[v].slot = main[v].slot
                            /\ main'[v].pc \in Leasing <=> main[v].pc \in Leasing
                            /\ main'[v].pc = main[v].pc \/ main[v].pc = "join"
      BY <2>2, <2>5 DEF Leasing
    <3>2. ASSUME NEW v \in Worker PROVE WellHeld(v)'
      <4>1. CASE v = w
        BY <2>1, <2>2, <2>5, <4>1 DEF HandsInv, WellHeld, Burying, Leasing
      <4>2. CASE v # w
        BY <2>1, <2>5, <4>2 DEF HandsInv, WellHeld
      <4> QED
        BY <4>1, <4>2
    <3> QED
      BY <3>1, <3>2 DEF HandsInv, OneLease
  <2>7. AwaitedInv'
    <3> SUFFICES ASSUME NEW u \in Threads, thread'[u].pc # "off" PROVE Awaited(u)'
      BY DEF AwaitedInv, Awaited, Late
    <3>1. CASE u = t
      BY <2>2, <2>4, <3>1 DEF Awaited, Off, Late
    <3>2. CASE u = Orphan(w)
      BY <2>2, <2>4, <3>2 DEF Awaited, Orphan, Late
    <3>3. CASE u # t /\ u # Orphan(w)
      <4>1. u[1] \in Worker /\ (u[2] = "own" => u[1] # w)
        BY <3>3 DEF Own, Threads
      <4> QED
        BY <2>4, <2>5, <3>3, <4>1 DEF AwaitedInv, Awaited
    <3> QED
      BY <3>1, <3>2, <3>3
  <2>8. TablesOK'
    BY <1>2, <2>2 DEF Timeout, AttemptTimeout, TablesOK
  <2>9. RecordedInv'
    <3>1. InThread(d) /\ St(d) # "absent"
      BY <2>1, <2>2 DEF InThread, RecordedInv, Busy
    <3>2. \A u \in Threads : thread'[u].d \in {thread[u].d, NoDelivery, d}
      BY <2>1, <2>4 DEF Off
    <3>3. events'[d].state # "absent"
      BY <2>1, <3>1 DEF St
    <3> HIDE DEF d
    <3> QED
      BY <2>1, <2>3, <2>5, <3>2, <3>3, NothingNew DEF RecordedInv
  <2> QED
    BY <2>1, <2>3, <2>4, <2>5, <2>6, <2>7, <2>8, <2>9 DEF QueueOK, SweepOK
<1> QED
  BY <1>1, <1>2

-----------------------------------------------------------------------------
\* What a step of process() may do: move its row, take or free its claim, publish, fail,
\* go on or come to an end.
Working == {"queued", "processing", "done", "failed"}
Revivable(t) == thread[t].pc = "to_queued" \/ St(thread[t].d) # "dead_letter"
ThreadDoes(t) ==
    LET d == thread[t].d IN
    /\ thread[t].pc # "off"
    /\ UNCHANGED <<cycles, queue, ingress, sweep, comments, crashes, overtaken, abandoned>>
    /\ \/ UNCHANGED events
       \/ \E to \in Working : MovesTo(d, to) /\ (to = "queued" => Revivable(t))
       \/ Counts(d)
    /\ thread[t].pc \in Late => thread'[t].pc \in Late
    /\ thread'[t].pc = "to_queued" => thread[t].pc = "drive" /\ St(d) \notin Terminal /\ UNCHANGED events
    /\ \/ UNCHANGED claims
       \/ \E h \in {d, NoDelivery} : claims' = [claims EXCEPT ![KeyOf(d)] = h]
    /\ returned' \in {returned, returned \cup {KeyOf(d)}}
    /\ failures' \in {failures, failures \cup {d}}
    /\ \A u \in Threads \ {t} : thread'[u] = thread[u]
    /\ ThreadsOK'
    /\ \/ UNCHANGED main /\ thread'[t].d = d /\ thread'[t].pc # "off"
       \/ thread'[t] = Off /\ UNCHANGED main
       \/ /\ thread'[t] = Off /\ t[2] = "own"
          /\ \E pc \in {"ack", "nack", "defer"} : main' = [main EXCEPT ![t[1]].pc = pc]

LEMMA ProceedDoes ==
    ASSUME ThreadsOK, NEW t \in Threads, NEW pc \in ThreadPc \ {"off"}, Proceed(t, pc)
    PROVE  /\ ThreadsOK' /\ \A u \in Threads \ {t} : thread'[u] = thread[u]
           /\ UNCHANGED main /\ thread'[t].d = thread[t].d /\ thread'[t].pc # "off" /\ thread'[t].pc = pc
BY DEF ThreadsOK, ThreadRec, Proceed

LEMMA ReturnDoes ==
    ASSUME ThreadsOK, NEW t \in Threads, NEW pc \in {"ack", "nack", "defer"}, Return(t, pc)
    PROVE  /\ ThreadsOK' /\ \A u \in Threads \ {t} : thread'[u] = thread[u]
           /\ thread'[t] = Off /\ thread'[t].pc = "off" /\ "off" \in Late
           /\ UNCHANGED main \/ (t[2] = "own" /\ main' = [main EXCEPT ![t[1]].pc = pc])
<1>1. Off \in ThreadRec
  BY DEF Off, ThreadRec, ThreadPc
<1>2. Off.pc = "off" /\ "off" \in Late
  BY DEF Off, Late
<1> QED
  BY <1>1, <1>2 DEF ThreadsOK, Return, Goto

LEMMA TransitionDoes ==
    ASSUME ShapeInv, NEW t \in Threads, thread[t].pc # "off", NEW to \in Working, NEW pc \in ThreadPc \ {"off", "to_queued"},
           to = "queued" => Revivable(t), thread[t].pc \in Late => pc \in Late,
           Transition(t, to, pc), OnlyEvents
    PROVE  ThreadDoes(t)
<1>1. thread[t].d \in Delivery
  BY DEF ShapeInv, AwaitedInv, Awaited
<1>2. CASE Proceed(t, pc) /\ Legal(thread[t].d, to) /\ events' = Moved(thread[t].d, to)
  <2>1. MovesTo(thread[t].d, to)
    BY <1>1, <1>2 DEF MovesTo
  <2> QED
    BY <1>2, <2>1, ProceedDoes DEF ThreadDoes, OnlyEvents, outcomes, past, ShapeInv, Types
<1>3. CASE Return(t, "nack") /\ UNCHANGED events
  BY <1>3, ReturnDoes DEF ThreadDoes, OnlyEvents, outcomes, past, ShapeInv, Types
<1> QED
  BY <1>2, <1>3 DEF Transition, Raise

LEMMA ThreadStepDoes ==
    ASSUME ShapeInv, NEW t \in Threads, ThreadStep(t)
    PROVE  ThreadDoes(t)
<1> USE DEF outcomes, past, db, Working, Late, Revivable
<1>0. thread[t].pc # "off" /\ ThreadsOK
  BY DEF ThreadStep, Plan, Conclude, Check, Drive, DriveTo, DriveEnd, Claim, Steal, Ensure, Start, Count,
         MarkDone, MarkFailed, Free, AnalysisReturns, AnalysisFails, AnalysisHeldBack, LateCall, ShapeInv, Types
<1>1. thread[t].d \in Delivery
  BY <1>0 DEF ShapeInv, AwaitedInv, Awaited
<1>2. CASE Check(t) \/ Drive(t) \/ DriveEnd(t)
  BY <1>0, <1>2, ProceedDoes, ReturnDoes DEF Check, Drive, DriveEnd, Pure, ThreadDoes, ThreadPc
<1>3. ASSUME NEW from \in ThreadPc \ Late, NEW to \in Working, NEW pc \in ThreadPc \ {"off", "to_queued"},
             to = "queued" => from = "to_queued", DriveTo(t, from, to, pc)
      PROVE  ThreadDoes(t)
  BY <1>0, <1>3, ProceedDoes, TransitionDoes DEF DriveTo, OnlyEvents, ThreadDoes
<1>4. CASE Ensure(t)
  <2>1. {"count", "start"} \subseteq ThreadPc \ {"off", "to_queued"}
    BY DEF ThreadPc
  <2> QED
    BY <1>0, <1>4, <2>1, ProceedDoes, TransitionDoes DEF Ensure, OnlyEvents, ThreadDoes
<1>5. CASE Start(t) \/ MarkDone(t) \/ MarkFailed(t)
  <2>1. {"count", "free_ack", "free_nack"} \subseteq ThreadPc \ {"off", "to_queued"}
    BY DEF ThreadPc
  <2> QED
    BY <1>0, <1>5, <2>1, TransitionDoes DEF Start, MarkDone, MarkFailed
<1>6. CASE Count(t)
  BY <1>0, <1>1, <1>6, ProceedDoes DEF Count, Counts, OnlyEvents, ThreadDoes, ThreadPc
<1>7. CASE Conclude(t)
  BY <1>0, <1>7, ProceedDoes DEF Conclude, AnalysisReturns, AnalysisFails, ThreadDoes, ThreadPc
<1>8. CASE AnalysisHeldBack(t)
  BY <1>0, <1>8, ReturnDoes DEF AnalysisHeldBack, Pure, ThreadDoes
<1>9. CASE LateCall(t)
  <2>1. Off \in ThreadRec
    BY DEF Off, ThreadRec, ThreadPc
  <2> QED
    BY <1>0, <1>9, <2>1 DEF LateCall, Pure, ThreadDoes, ThreadsOK, Off
<1>10. ASSUME NEW from, NEW pc \in {"ack", "nack"}, Free(t, from, pc) PROVE ThreadDoes(t)
  BY <1>0, <1>10, ReturnDoes DEF Free, Unclaimed, ThreadDoes
<1>11. CASE Steal(t)
  <2>1. {"ensure", "claim"} \subseteq ThreadPc \ {"off"}
    BY DEF ThreadPc
  <2>2. PICK pc \in {"ensure", "claim"} :
          thread' = [thread EXCEPT ![t].pc = pc, ![t].holder = NoDelivery]
    BY <1>11 DEF Steal
  <2>3. /\ ThreadsOK' /\ \A u \in Threads \ {t} : thread'[u] = thread[u]
        /\ thread'[t].d = thread[t].d /\ thread'[t].pc = pc
    BY <1>0, <2>1, <2>2 DEF ThreadsOK, ThreadRec
  <2> QED
    BY <1>0, <1>11, <2>3 DEF Steal, ThreadDoes
<1>12. CASE Claim(t)
  <2> DEFINE d == thread[t].d
             holder == claims[KeyOf(d)]
  <2>1. CASE claims' = [claims EXCEPT ![KeyOf(d)] = d] /\ Proceed(t, "ensure")
    BY <1>0, <1>12, <2>1, ProceedDoes DEF Claim, ThreadDoes, ThreadPc
  <2>2. CASE /\ thread' = [thread EXCEPT ![t].pc = "steal", ![t].holder = holder]
             /\ UNCHANGED <<claims, main>> /\ holder \in Delivery
    <3>1. /\ ThreadsOK' /\ \A u \in Threads \ {t} : thread'[u] = thread[u]
          /\ thread'[t].d = thread[t].d /\ thread'[t].pc = "steal"
      BY <1>0, <2>2 DEF ThreadsOK, ThreadRec, ThreadPc
    <3> QED
      BY <1>0, <1>12, <2>2, <3>1 DEF Claim, ThreadDoes
  <2>3. CASE Return(t, "ack") /\ UNCHANGED claims
    BY <1>0, <1>12, <2>3, ReturnDoes DEF Claim, ThreadDoes
  <2> QED
    BY <1>12, <2>1, <2>2, <2>3 DEF Claim
<1> QED
  BY <1>2, <1>3, <1>4, <1>5, <1>6, <1>7, <1>8, <1>9, <1>10, <1>11, <1>12 DEF ThreadStep, Plan, ThreadPc

LEMMA ThreadShape ==
    ASSUME ShapeInv, NEW t \in Threads, ThreadDoes(t)
    PROVE  ShapeInv' /\ Kept
<1> USE DEF ShapeInv, Types
<1> DEFINE d == thread[t].d
<1>0. /\ d \in Delivery /\ St(d) # "absent" /\ KeyOf(d) \in Key /\ t[1] \in Worker
      /\ t[2] = "own" => main[t[1]].pc = "join"
      /\ UNCHANGED <<queue, ingress, sweep>>
  <2>1. d \in Delivery /\ InThread(d)
    BY DEF ThreadDoes, AwaitedInv, Awaited, InThread
  <2> QED
    BY <2>1, BusyIsKnown DEF Busy, ThreadDoes, AwaitedInv, Awaited, Threads
<1>1. EventsOK' /\ Kept
  <2>1. CASE UNCHANGED events
    BY <2>1, EventsStay DEF Kept, St, KeyOf
  <2>2. ASSUME NEW to, MovesTo(d, to) PROVE EventsOK' /\ Kept
    <3>1. EventsOK' /\ Beside(d)
      BY <2>2, RowMoves
    <3> QED
      BY <3>1 DEF Kept, Beside
  <2>3. CASE Counts(d)
    <3>1. EventsOK' /\ Beside(d)
      BY <2>3, RowAgesOrCounts
    <3> QED
      BY <3>1 DEF Kept, Beside
  <2> QED
    BY <2>1, <2>2, <2>3 DEF ThreadDoes
<1>2. TablesOK'
  <2>1. claims' \in [Key -> Delivery \cup {NoDelivery}]
    BY <1>0 DEF ThreadDoes, TablesOK
  <2> QED
    BY <1>0, <2>1 DEF ThreadDoes, TablesOK
<1>3. /\ MainsOK' /\ \A v \in Worker : main'[v].slot = main[v].slot
      /\ \A v \in Worker : \/ main'[v] = main[v]
                           \/ /\ main[v].pc = "join" /\ main'[v].pc \in {"ack", "nack", "defer"}
                              /\ t[2] = "own" /\ t[1] = v /\ thread'[t] = Off
  BY <1>0 DEF ThreadDoes, MainsOK, MainRec, MainPc
<1>4. HandsInv'
  <2>1. ASSUME NEW v \in Worker PROVE WellHeld(v)'
    <3>1. CASE main'[v] = main[v]
      BY <1>0, <3>1 DEF HandsInv, WellHeld
    <3>2. CASE main[v].pc = "join" /\ main'[v].pc \in {"ack", "nack", "defer"}
      BY <1>0, <1>3, <3>2 DEF HandsInv, WellHeld, Burying, Leasing
    <3> QED
      BY <1>3, <3>1, <3>2
  <2>2. \A v \in Worker : main'[v].pc \in Leasing => main[v].pc \in Leasing
    BY <1>3 DEF Leasing
  <2> QED
    BY <1>3, <2>1, <2>2 DEF HandsInv, OneLease
<1>5. AwaitedInv'
  <2> SUFFICES ASSUME NEW u \in Threads, thread'[u].pc # "off" PROVE Awaited(u)'
    BY DEF AwaitedInv, Awaited, Late
  <2>1. CASE u = t
    BY <1>0, <2>1 DEF ThreadDoes, AwaitedInv, Awaited, Off, Late
  <2>2. CASE u # t
    <3>1. u[1] \in Worker /\ (u[2] = "own" /\ t[2] = "own" => u[1] # t[1])
      BY <2>2 DEF Threads
    <3>2. thread'[u] = thread[u] /\ Awaited(u)
      BY <2>2 DEF ThreadDoes, AwaitedInv
    <3> QED
      BY <1>3, <3>1, <3>2 DEF Awaited
  <2> QED
    BY <2>1, <2>2
<1>6. RecordedInv'
  <2>1. \A u \in Threads : thread'[u].d \in {thread[u].d, NoDelivery}
    BY DEF ThreadDoes, Off
  <2> QED
    BY <1>0, <1>1, <1>3, <2>1, NothingNew DEF RecordedInv
<1> QED
  BY <1>0, <1>1, <1>2, <1>3, <1>4, <1>5, <1>6 DEF ThreadDoes, QueueOK, SweepOK

-----------------------------------------------------------------------------
\* The rows the sweeper has read and not yet seen to, one of each event.
ReadInv == /\ \A r \in sweep.todo : r.state # "absent"
           /\ \A r, q \in sweep.todo : r.d = q.d => r = q
           /\ sweep.pc \in Holding => \A r \in sweep.todo : r.d # sweep.d

\* What a step of the sweeper may do: read the stale rows, record a reconcile event,
\* enqueue what it has in hand, or go on, moving the row in hand or taking the next.
Reads == /\ UNCHANGED <<events, queue>>
         /\ sweep'.pc = "rows" /\ sweep'.todo = StaleRows
         /\ overtaken' = 0 => \A r \in StaleRows : ~Waiting(r.d)
Books == /\ UNCHANGED queue
         /\ Records(sweep'.d, sweep.key)
         /\ sweep'.pc = "put_recon" /\ sweep'.todo = sweep.todo
Puts == /\ UNCHANGED events
        /\ sweep.pc \in Holding /\ Enqueue(sweep.d)
        /\ sweep'.pc \notin Holding /\ sweep'.todo = sweep.todo
Goes == /\ UNCHANGED queue
        /\ \/ UNCHANGED events
           \/ /\ sweep'.pc \in Holding /\ sweep.pc \in Holding
              /\ \E to \in {"queued", "failed", "dead_letter"} :
                   /\ MovesTo(sweep.d, to)
                   /\ to = "queued" => sweep.pc = "requeue"
                   /\ to = "dead_letter" => sweep.pc = "dead" /\ sweep'.pc = "note"
        /\ sweep'.todo \subseteq sweep.todo
        /\ sweep'.pc \in Holding =>
             \/ /\ sweep.pc \in Holding /\ sweep'.d = sweep.d
                /\ sweep'.pc # sweep.pc => /\ sweep'.pc = "note" => sweep.pc = "dead"
                                           /\ sweep'.pc # "note" => sweep.pc # "note"
                                           /\ sweep'.pc = "dead" => sweep.pc = "fail_dead"
                                           /\ sweep'.pc # "fail_dead"
             \/ \E r \in sweep.todo : /\ sweep'.d = r.d /\ sweep'.todo = sweep.todo \ {r}
                                      /\ sweep'.pc # "note"
                                      /\ sweep'.pc \in {"fail_dead", "dead"} => r.over
SweeperDoes == /\ UNCHANGED <<claims, ingress, main, thread, returned, failures, abandoned>>
               /\ TablesOK' /\ SweepOK'
               /\ Reads \/ Books \/ Puts \/ Goes

LEMMA StaleRowIs ==
    ASSUME EventsOK, NEW r \in StaleRows
    PROVE  /\ r \in SweepRow /\ r.d \in Delivery /\ Stale(r.d) /\ St(r.d) # "absent"
           /\ r.state = St(r.d)
           /\ r.over = (events[r.d].attempts >= MaxAttempts)
           /\ r = [d |-> r.d, state |-> St(r.d), over |-> events[r.d].attempts >= MaxAttempts]
<1>1. PICK d \in Delivery : /\ Stale(d)
                            /\ r = [d |-> d, state |-> St(d), over |-> events[d].attempts >= MaxAttempts]
  BY DEF StaleRows
<1>2. St(d) \in State \ Terminal /\ St(d) # "absent"
  BY <1>1 DEF Stale, Active, EventsOK, Event, St
<1>3. (events[d].attempts >= MaxAttempts) \in BOOLEAN
  OBVIOUS
<1> QED
  BY <1>1, <1>2, <1>3 DEF SweepRow

LEMMA StaleRowsAre ==
    ASSUME EventsOK
    PROVE  /\ StaleRows \subseteq SweepRow
           /\ \A r \in StaleRows : r.state # "absent" /\ r.d \in Delivery /\ St(r.d) # "absent"
           /\ \A r, q \in StaleRows : r.d = q.d => r = q
BY StaleRowIs

LEMMA SweepTransitionDoes ==
    ASSUME ShapeInv, ReadInv,
           \/ SweepTransition("fail_dead", "failed", "dead")
           \/ SweepTransition("dead", "dead_letter", "note")
           \/ SweepTransition("fail_retry", "failed", "requeue")
           \/ SweepTransition("requeue", "queued", "put")
    PROVE  SweeperDoes
<1> USE DEF ShapeInv, Types
<1>1. PICK from \in {"fail_dead", "dead", "fail_retry", "requeue"}, to \in {"failed", "dead_letter", "queued"},
           pc \in {"dead", "note", "requeue", "put"} :
        /\ SweepTransition(from, to, pc)
        /\ to = "queued" => from = "requeue"
        /\ to = "dead_letter" \/ pc = "note" => from = "dead" /\ pc = "note"
        /\ pc = "dead" => from = "fail_dead"
  OBVIOUS
<1>2. /\ sweep.pc = from /\ sweep.pc \in Holding /\ pc \in Holding /\ pc \in SweepPc
      /\ pc \notin {"flight", "record", "escalate"}
  BY <1>1 DEF Holding, SweepPc, SweepTransition
<1>3. sweep.d \in Delivery
  BY <1>2 DEF RecordedInv
<1>4. TablesOK' /\ UNCHANGED <<claims, cycles, queue, ingress, main, thread, returned, comments, failures, abandoned>>
  BY <1>1 DEF SweepTransition, SweepsEvents, TablesOK, outcomes, past
<1>5. CASE Legal(sweep.d, to) /\ events' = Moved(sweep.d, to) /\ Sweeping(pc)
  <2>1. MovesTo(sweep.d, to)
    BY <1>3, <1>5 DEF MovesTo
  <2>2. SweepOK' /\ sweep'.todo = sweep.todo /\ sweep'.d = sweep.d /\ sweep'.pc = pc
    BY <1>2, <1>5 DEF Sweeping, SweepOK, SweepRec
  <2>3. Goes
    BY <1>1, <1>2, <1>4, <2>1, <2>2 DEF Goes
  <2> QED
    BY <1>4, <2>2, <2>3 DEF SweeperDoes
<1>6. CASE sweep' = Quiet /\ UNCHANGED events
  <2>1. SweepOK' /\ sweep'.todo = {} /\ sweep'.pc = "idle"
    BY <1>6 DEF Quiet, SweepOK, SweepRec, SweepPc
  <2> QED
    BY <1>4, <1>6, <2>1 DEF SweeperDoes, Reads, Books, Puts, Goes, Holding
<1> QED
  BY <1>1, <1>5, <1>6 DEF SweepTransition

LEMMA NextKeyHas ==
    ASSUME SweepOK
    PROVE  /\ NextKey \in SweepRec /\ NextKey.pc = "keys" /\ NextKey.todo = sweep.todo
           /\ NextKey.keys = sweep.keys
BY DEF NextKey, SweepOK, SweepRec, SweepPc

LEMMA SweepStepDoes ==
    ASSUME ShapeInv, ReadInv, SweepStart \/ SweepStep \/ SweepCrash
    PROVE  SweeperDoes
<1> USE DEF ShapeInv, Types, db, outcomes, past
\* Steps after which the sweeper has nothing in hand.
<1>0. ASSUME TablesOK', SweepOK', sweep'.todo \subseteq sweep.todo, sweep'.pc \notin Holding,
             UNCHANGED <<events, claims, queue, ingress, main, thread, returned, failures, abandoned>>
      PROVE  SweeperDoes
  BY <1>0 DEF SweeperDoes, Goes
<1>1. CASE SweepStart
  <2>1. StaleRows \subseteq SweepRow
    BY StaleRowsAre
  <2>2. SweepOK' /\ sweep'.todo = StaleRows /\ sweep'.pc = "rows"
    <3> DEFINE new == [Quiet EXCEPT !.pc = "rows", !.todo = StaleRows]
    <3>1. new \in SweepRec /\ new.todo = StaleRows /\ new.pc = "rows"
      BY <2>1 DEF Quiet, SweepRec, SweepPc
    <3> HIDE DEF new
    <3>2. sweep' = new
      BY <1>1 DEF new, SweepStart
    <3> QED
      BY <3>1, <3>2 DEF SweepOK
  <2>3. TablesOK' /\ (overtaken' = 0 => \A r \in StaleRows : ~Waiting(r.d))
    <3>1. overtaken \in Nat
      BY DEF TablesOK
    <3>2. \/ overtaken' = overtaken + 1
          \/ overtaken' = overtaken /\ \A r \in StaleRows : ~Waiting(r.d)
      BY <1>1 DEF SweepStart, Overtakes
    <3>3. UNCHANGED <<claims, cycles, returned, comments, failures, crashes, abandoned>>
      BY <1>1 DEF SweepStart
    <3>4. overtaken' \in Nat
      BY <3>1, <3>2
    <3>5. TablesOK'
      BY <3>3, <3>4 DEF TablesOK
    <3> QED
      BY <3>1, <3>2, <3>5
  <2> QED
    BY <1>1, <2>1, <2>2, <2>3 DEF SweepStart, SweeperDoes, Reads
<1>2. CASE SweepNextRow
  <2>1. PICK r \in sweep.todo :
        sweep' = [sweep EXCEPT
           !.todo = @ \ {r}, !.d = r.d,
           !.pc = CASE r.over /\ r.state = "failed"           -> "dead"
                    [] r.over /\ r.state # "failed"           -> "fail_dead"
                    [] ~r.over /\ r.state = "processing"      -> "fail_retry"
                    [] ~r.over /\ r.state = "queued"          -> "put"
                    [] ~r.over /\ r.state \in {"received", "failed"} -> "requeue"]
    BY <1>2 DEF SweepNextRow
  <2>2. r.d \in Delivery /\ r.over \in BOOLEAN /\ r.state \in {"received", "queued", "processing", "failed"}
    BY StatesAre DEF SweepOK, SweepRec, SweepRow, ReadInv, Terminal
  <2>3. PICK pc \in {"dead", "fail_dead", "fail_retry", "put", "requeue"} :
          /\ sweep' = [sweep EXCEPT !.todo = @ \ {r}, !.d = r.d, !.pc = pc]
          /\ pc \in {"fail_dead", "dead"} => r.over
    BY <2>1, <2>2
  <2>4. SweepOK' /\ sweep'.todo = sweep.todo \ {r} /\ sweep'.d = r.d /\ sweep'.pc = pc
    BY <2>2, <2>3 DEF SweepOK, SweepRec, SweepPc
  <2>5. Goes
    BY <1>2, <2>3, <2>4 DEF SweepNextRow, OnlySweep, Goes
  <2> QED
    BY <1>2, <2>4, <2>5 DEF SweepNextRow, OnlySweep, SweeperDoes, TablesOK
<1>3. CASE SweepNotify
  <2>1. sweep.d \in Delivery /\ KeyOf(sweep.d) \in Key
    <3>1. sweep.pc \in Holding
      BY <1>3 DEF SweepNotify, Holding
    <3> QED
      BY <3>1, BusyIsKnown DEF RecordedInv, Busy, InSweep
  <2>2. SweepOK' /\ sweep'.todo = sweep.todo /\ sweep'.pc = "rows"
    BY <1>3 DEF SweepNotify, Sweeping, SweepOK, SweepRec, SweepPc
  <2> QED
    BY <1>0, <1>3, <2>1, <2>2 DEF SweepNotify, Tell, TablesOK, Holding
<1>4. CASE SweepKeys \/ SweepEnd \/ SweepCrash
  <2>1. SweepOK' /\ sweep'.todo = {} /\ sweep'.pc \in {"keys", "idle"}
    <3>1. CASE sweep' = Quiet
      BY <3>1 DEF Quiet, SweepOK, SweepRec, SweepPc
    <3>2. CASE sweep' = [Quiet EXCEPT !.pc = "keys", !.keys = Watched]
      <4> DEFINE new == [Quiet EXCEPT !.pc = "keys", !.keys = Watched]
      <4>1. new \in SweepRec /\ new.todo = {} /\ new.pc = "keys"
        BY DEF Quiet, SweepRec, SweepPc
      <4> HIDE DEF new
      <4>2. sweep' = new
        BY <3>2 DEF new
      <4> QED
        BY <4>1, <4>2 DEF SweepOK
    <3> QED
      BY <1>4, <3>1, <3>2 DEF SweepKeys, SweepEnd, SweepCrash
  <2>2. TablesOK' /\ UNCHANGED <<events, claims, queue, ingress, main, thread, returned, failures, abandoned>>
    BY <1>4 DEF SweepKeys, SweepEnd, SweepCrash, OnlySweep, TablesOK
  <2> QED
    BY <1>0, <2>1, <2>2 DEF Holding
<1>5. ASSUME NEW k \in Key, SweepKey(k) PROVE SweeperDoes
  <2>1. SweepOK' /\ sweep'.todo = sweep.todo /\ sweep'.pc \in {"keys", "flight"}
    <3>1. CASE sweep' = [NextKey EXCEPT !.keys = @ \ {k}]
      <4>1. sweep'.todo = NextKey.todo /\ sweep'.pc = NextKey.pc /\ sweep' \in SweepRec
        BY <3>1, NextKeyHas DEF SweepRec
      <4> QED
        BY <4>1, NextKeyHas DEF SweepOK
    <3>2. CASE sweep' = [sweep EXCEPT !.pc = "flight", !.key = k, !.keys = @ \ {k}]
      BY <3>2 DEF SweepOK, SweepRec, SweepPc
    <3> QED
      BY <1>5, <3>1, <3>2 DEF SweepKey
  <2>2. TablesOK'
    BY <1>5 DEF SweepKey, TablesOK
  <2> QED
    BY <1>0, <1>5, <2>1, <2>2 DEF SweepKey, Holding
<1>6. CASE SweepFlight
  <2>1. sweep.key \in Key
    BY <1>6 DEF SweepFlight, SweepOK
  <2>2. cycles' \in [Key -> Nat]
    <3>1. cycles[sweep.key] \in Nat
      BY <2>1 DEF TablesOK
    <3>2. (IF cycles[sweep.key] > MaxCycles THEN cycles[sweep.key] ELSE cycles[sweep.key] + 1) \in Nat
      BY <3>1, PipelineAssumption
    <3>3. \/ cycles' = cycles
          \/ cycles' = [cycles EXCEPT ![sweep.key] =
                 IF cycles[sweep.key] > MaxCycles THEN cycles[sweep.key] ELSE cycles[sweep.key] + 1]
      BY <1>6 DEF SweepFlight
    <3> QED
      BY <2>1, <3>2, <3>3 DEF TablesOK
  <2>3. TablesOK'
    BY <1>6, <2>2 DEF SweepFlight, TablesOK
  <2>4. SweepOK' /\ sweep'.todo = sweep.todo /\ sweep'.pc \in {"keys", "record", "escalate"}
    <3>1. CASE sweep' = NextKey
      BY <3>1, NextKeyHas DEF SweepOK
    <3>2. ASSUME NEW pc \in {"record", "escalate"}, sweep' = [sweep EXCEPT !.pc = pc]
          PROVE  SweepOK' /\ sweep'.todo = sweep.todo /\ sweep'.pc = pc
      BY <2>1, <3>2 DEF SweepOK, SweepRec, SweepPc
    <3>3. sweep' \in {NextKey, [sweep EXCEPT !.pc = "record"], [sweep EXCEPT !.pc = "escalate"]}
      BY <1>6 DEF SweepFlight
    <3> QED
      BY <3>1, <3>2, <3>3
  <2> QED
    BY <1>0, <1>6, <2>3, <2>4 DEF SweepFlight, Holding
<1>7. CASE SweepEscalate
  <2>1. sweep.key \in Key
    BY <1>7 DEF SweepEscalate, SweepOK
  <2>2. TablesOK'
    BY <1>7, <2>1 DEF SweepEscalate, Tell, TablesOK
  <2>3. SweepOK' /\ sweep'.todo = sweep.todo /\ sweep'.pc = "keys"
    BY <1>7, NextKeyHas DEF SweepEscalate, SweepOK
  <2> QED
    BY <1>0, <1>7, <2>2, <2>3 DEF SweepEscalate, Holding
<1>8. CASE SweepEnqueue \/ SweepEnqueueRecon
  <2>1. SweepOK' /\ sweep'.todo = sweep.todo /\ sweep'.pc \in {"rows", "keys"}
    <3>1. CASE Sweeping("rows")
      BY <3>1 DEF Sweeping, SweepOK, SweepRec, SweepPc
    <3>2. CASE sweep' = NextKey
      BY <3>2, NextKeyHas DEF SweepOK
    <3> QED
      BY <1>8, <3>1, <3>2 DEF SweepEnqueue, SweepEnqueueRecon
  <2>2. TablesOK' /\ sweep.pc \in Holding
    BY <1>8 DEF SweepEnqueue, SweepEnqueueRecon, TablesOK, Holding
  <2> QED
    BY <1>8, <2>1, <2>2 DEF SweepEnqueue, SweepEnqueueRecon, SweeperDoes, Reads, Books, Puts, Goes, Holding
<1>9. ASSUME NEW d \in Recon, SweepRecord(d) PROVE SweeperDoes
  <2>1. d \in Delivery /\ sweep.key \in Key /\ Records(d, sweep.key)
    BY <1>9 DEF Delivery, SweepRecord, Records, SweepOK
  <2>2. SweepOK' /\ sweep'.todo = sweep.todo /\ sweep'.d = d /\ sweep'.pc = "put_recon"
    BY <1>9, <2>1 DEF SweepRecord, SweepOK, SweepRec, SweepPc
  <2>3. St(d)' # "absent"
    BY <2>1, RowRecords
  <2> QED
    BY <1>9, <2>1, <2>2, <2>3 DEF SweepRecord, SweepsEvents, SweeperDoes, Reads, Books, Puts, Goes, TablesOK, St
<1> QED
  BY <1>1, <1>2, <1>3, <1>4, <1>5, <1>6, <1>7, <1>8, <1>9, SweepTransitionDoes DEF SweepStep

LEMMA SweepShape ==
    ASSUME ShapeInv, ReadInv, SweeperDoes
    PROVE  ShapeInv' /\ Kept /\ ReadInv'
<1> USE DEF ShapeInv, Types
<1>1. EventsOK' /\ Kept
  <2>1. CASE UNCHANGED events
    BY <2>1, EventsStay DEF Kept, St, KeyOf
  <2>2. ASSUME NEW to, MovesTo(sweep.d, to) PROVE EventsOK' /\ Kept
    <3>1. EventsOK' /\ Beside(sweep.d)
      BY <2>2, RowMoves
    <3> QED
      BY <3>1 DEF Kept, Beside
  <2>3. ASSUME NEW d, Records(d, sweep.key) PROVE EventsOK' /\ Kept
    <3>1. EventsOK' /\ Beside(d) /\ St(d)' = "received"
      BY <2>3, RowRecords
    <3> QED
      BY <3>1 DEF Kept, Beside
  <2> QED
    BY <2>1, <2>2, <2>3 DEF SweeperDoes, Reads, Books, Puts, Goes
<1>2. /\ queue' \in [Slot -> Message] /\ HandsInv'
      /\ \A s \in Slot : queue'[s].state # "none" => queue[s].state # "none" \/ St(s[1])' # "absent"
  <2>1. CASE UNCHANGED queue
    BY <2>1 DEF SweeperDoes, QueueOK, HandsInv, WellHeld, OneLease
  <2>2. CASE sweep.pc \in Holding /\ Enqueue(sweep.d) /\ UNCHANGED events
    <3> DEFINE d == sweep.d
    <3>1. d \in Delivery /\ St(d) # "absent"
      BY <2>2 DEF RecordedInv, Busy, InSweep
    <3>2. PICK c \in (1..MaxCopies) \ Copies(d) :
            queue' = [queue EXCEPT ![<<d, c>>] = [state |-> "ready", receives |-> 0]]
      BY <2>2 DEF Enqueue
    <3>3. /\ <<d, c>> \in Slot /\ queue[<<d, c>>].state = "none" /\ queue' \in [Slot -> Message]
          /\ \A s \in Slot : s # <<d, c>> => queue'[s] = queue[s]
      BY <3>1, <3>2, PipelineAssumption DEF Copies, Slot, QueueOK, Message
    <3>4. HandsInv'
      BY <3>3, HandsStay DEF SweeperDoes, HandsInv, WellHeld, Burying, Leasing
    <3> QED
      BY <2>2, <3>1, <3>3, <3>4 DEF St
  <2> QED
    BY <2>1, <2>2 DEF SweeperDoes, Reads, Books, Puts, Goes
<1>3. Types' /\ AwaitedInv'
  BY <1>1, <1>2 DEF SweeperDoes, QueueOK, MainsOK, ThreadsOK, AwaitedInv, Awaited
<1>4. RecordedInv'
  <2>1. \A r \in sweep.todo : r.d \in Delivery /\ St(r.d) # "absent"
    BY DEF SweepOK, SweepRec, SweepRow, RecordedInv, Busy, InSweep
  <2>2. \A r \in sweep'.todo : r \in sweep.todo \/ St(r.d)' # "absent"
    <3>1. CASE Reads
      BY <1>1, <3>1, StaleRowsAre DEF Reads, Kept
    <3> QED
      BY <3>1 DEF SweeperDoes, Books, Puts, Goes
  <2>3. sweep'.pc \in Holding => /\ sweep'.d \in Delivery
                                 /\ \/ sweep.pc \in Holding /\ sweep'.d = sweep.d
                                    \/ events'[sweep'.d].state # "absent"
    <3>1. CASE Reads \/ Puts
      BY <3>1 DEF Reads, Puts, Holding
    <3>2. CASE Books
      <4>1. PICK d : d = sweep'.d
        OBVIOUS
      <4>2. d \in Delivery /\ St(d)' = "received"
        BY <3>2, <4>1, RowRecords DEF Books, Records
      <4> QED
        BY <4>1, <4>2 DEF St
    <3>3. CASE Goes
      BY <1>1, <2>1, <3>3 DEF Goes, RecordedInv, Kept, St
    <3> QED
      BY <3>1, <3>2, <3>3 DEF SweeperDoes
  <2> QED
    BY <1>1, <1>2, <2>2, <2>3, NothingNew DEF SweeperDoes
<1>5. ReadInv'
  <2>1. CASE Reads
    BY <2>1, StaleRowsAre DEF Reads, ReadInv, Holding
  <2>2. CASE Books
    <3>1. \A r \in sweep.todo : r.d # sweep'.d
      BY <2>2 DEF SweepOK, SweepRec, SweepRow, RecordedInv, Busy, InSweep, Books, Records
    <3> QED
      BY <2>2, <3>1 DEF Books, ReadInv
  <2>3. CASE Puts \/ Goes
    BY <2>3 DEF Puts, Goes, ReadInv
  <2> QED
    BY <2>1, <2>2, <2>3 DEF SweeperDoes
<1> QED
  BY <1>1, <1>2, <1>3, <1>4, <1>5

-----------------------------------------------------------------------------
LEMMA ShapeInit == Init => ShapeInv /\ ReadInv
<1> SUFFICES ASSUME Init PROVE ShapeInv /\ ReadInv
  OBVIOUS
<1> USE DEF Init
<1>1. Types
  <2>1. TablesOK
    <3>1. abandoned \in BOOLEAN
      BY Zenon
    <3> QED
      BY <3>1 DEF TablesOK
  <2> QED
    BY <2>1, PipelineAssumption, StatesAre DEF Types, EventsOK, Event, QueueOK, Message, NoMessage, MainsOK, MainRec,
       MainPc, ThreadsOK, ThreadRec, ThreadPc, Off, SweepOK, SweepRec, SweepPc, St, KeyOf
<1>2. \A w \in Worker : main[w].slot[1] = NoDelivery /\ main[w].slot = NoSlot /\ main[w].pc = "idle"
  BY Slots
<1>3. \A t \in Threads : thread[t].pc = "off" /\ thread[t].d = NoDelivery
  BY DEF Off
<1>4. HandsInv /\ AwaitedInv
  BY <1>2, <1>3 DEF HandsInv, WellHeld, OneLease, AwaitedInv, Awaited, Late, Leasing
<1>5. RecordedInv
  BY <1>2, <1>3, Slots DEF RecordedInv, Busy, InQueue, InWork, InSweep, InThread, NoMessage, Holding
<1> QED
  BY <1>1, <1>4, <1>5 DEF ShapeInv, ReadInv, Holding

LEMMA OthersLeaveTheSweep ==
    ASSUME ShapeInv, IngressStep \/ IngressCrash \/ (\E d \in Delivery : Age(d))
           \/ (\E s \in Slot : PoisonGuard(s) \/ \E w \in Worker : Lease(w, s))
           \/ (\E w \in Worker : MainStep(w) \/ WorkerCrash(w) \/ Timeout(w) \/ AttemptTimeout(w))
    PROVE  UNCHANGED sweep
BY DEF IngressStep, Receive, Schedule, IngressCrash, Age, OnlyEvents, PoisonGuard, Lease, MainStep, Ack,
       Defer, Nack, Bury, BuryDead, Unclaim, Notify, WorkerCrash, Timeout, AttemptTimeout

LEMMA StepKeepsShape == ShapeInv /\ ReadInv /\ [Next]_vars => ShapeInv' /\ ReadInv' /\ Kept
<1> SUFFICES ASSUME ShapeInv, ReadInv, [Next]_vars PROVE ShapeInv' /\ ReadInv' /\ Kept
  OBVIOUS
<1>0. UNCHANGED sweep => ReadInv'
  BY DEF ReadInv
<1>1. CASE IngressStep \/ IngressCrash \/ \E d \in Delivery : Age(d)
  BY <1>0, <1>1, IngressShape, OthersLeaveTheSweep
<1>2. CASE \E s \in Slot : PoisonGuard(s) \/ \E w \in Worker : Lease(w, s)
  BY <1>0, <1>2, LeaseShape, OthersLeaveTheSweep
<1>3. CASE \E w \in Worker : MainStep(w) \/ WorkerCrash(w) \/ Timeout(w) \/ AttemptTimeout(w)
  BY <1>0, <1>3, MainShape, LapseShape, OthersLeaveTheSweep
<1>4. CASE \E t \in Threads : ThreadStep(t)
  BY <1>0, <1>4, ThreadStepDoes, ThreadShape DEF ThreadDoes
<1>5. CASE SweepStart \/ SweepStep \/ SweepCrash
  BY <1>5, SweepStepDoes, SweepShape DEF SweeperDoes
<1>6. CASE UNCHANGED vars
  <2> USE <1>6 DEF vars, db, outcomes, past
  <2>1. SweeperDoes
    BY DEF SweeperDoes, Goes, ShapeInv, Types, TablesOK, SweepOK
  <2> QED
    BY <2>1, SweepShape DEF SweeperDoes
<1> QED
  BY <1>1, <1>2, <1>3, <1>4, <1>5, <1>6 DEF Next

LEMMA ShapeInvariant == Spec => [](ShapeInv /\ ReadInv)
<1>1. ShapeInv /\ ReadInv /\ [Next]_vars => (ShapeInv /\ ReadInv)'
  BY StepKeepsShape
<1> QED
  BY <1>1, ShapeInit, PTL DEF Spec

\* The tables of reliability.db and queue.db stay well typed, a recorded event has its key,
\* and every process is at one of its points with a delivery it may have there.
THEOREM TypeCorrect == Spec => []TypeOK
<1>1. ShapeInv => TypeOK
  BY DEF ShapeInv, Types, EventsOK, QueueOK, MainsOK, ThreadsOK, SweepOK, TablesOK, TypeOK,
         MainRec, ThreadRec, SweepRec, St, KeyOf
<1> QED
  BY <1>1, ShapeInvariant, PTL

-----------------------------------------------------------------------------
(***************************************************************************)
(* What has been returned, and who says so: a thread that has come so far *)
(* knows that the result of its key is on GitHub.                          *)
(***************************************************************************)
Publishing == {"done", "drive", "to_queued", "to_processing", "to_done", "driven"}
SaysInv == \A t \in Threads : thread[t].pc \in Publishing => KeyOf(thread[t].d) \in returned
ResultInv == DoneMeansReturned /\ SaysInv

\* A step that makes an event DONE, or brings a thread as far as that, knows of the result.
FoundDone(d) == \E e \in Delivery : St(e) = "done" /\ KeyOf(e) = KeyOf(d)
Publishes ==
    /\ returned \subseteq returned'
    /\ \A e \in Delivery : St(e)' = "done" =>
         \/ St(e) = "done"
         \/ \E t \in Threads : thread[t].pc \in Publishing /\ thread[t].d = e
    /\ \A t \in Threads : thread'[t].pc \in Publishing =>
         /\ thread'[t].d = thread[t].d /\ thread[t].pc # "off"
         /\ \/ thread[t].pc \in Publishing
            \/ KeyOf(thread[t].d) \in returned'
            \/ FoundDone(thread[t].d)

LEMMA ResultsKept ==
    ASSUME ShapeInv, ResultInv, Kept, Publishes
    PROVE  ResultInv'
<1>1. ASSUME NEW t \in Threads, thread[t].pc # "off"
      PROVE  thread[t].d \in Delivery /\ events'[thread[t].d].key = KeyOf(thread[t].d)
  <2>1. thread[t].d \in Delivery /\ InThread(thread[t].d)
    BY <1>1 DEF ShapeInv, AwaitedInv, Awaited, InThread
  <2> QED
    BY <2>1, BusyIsKnown DEF Busy, Kept, KeyOf
<1>2. ASSUME NEW e \in Delivery, St(e)' = "done" PROVE KeyOf(e)' \in returned'
  <2>1. St(e) # "absent" /\ KeyOf(e) \in returned
    <3>1. CASE St(e) = "done"
      BY <3>1 DEF ResultInv, DoneMeansReturned
    <3>2. ASSUME NEW t \in Threads, thread[t].pc \in Publishing, thread[t].d = e
          PROVE  St(e) # "absent" /\ KeyOf(e) \in returned
      <4>1. InThread(e)
        BY <3>2 DEF InThread
      <4> QED
        BY <3>2, <4>1, BusyIsKnown DEF Busy, ResultInv, SaysInv
    <3> QED
      BY <1>2, <3>1, <3>2 DEF Publishes
  <2> QED
    BY <2>1 DEF Kept, Publishes
<1>3. ASSUME NEW t \in Threads, thread'[t].pc \in Publishing PROVE events'[thread'[t].d].key \in returned'
  <2>1. thread'[t].d = thread[t].d /\ thread[t].pc # "off"
    BY <1>3 DEF Publishes
  <2>2. thread[t].pc \in Publishing \/ FoundDone(thread[t].d) => KeyOf(thread[t].d) \in returned
    BY DEF ResultInv, SaysInv, DoneMeansReturned, FoundDone
  <2> QED
    BY <1>1, <1>3, <2>1, <2>2 DEF Publishes
<1> QED
  BY <1>2, <1>3 DEF ResultInv, DoneMeansReturned, SaysInv, KeyOf

\* Steps that finish no event and send no thread that way.
LEMMA NothingFinished ==
    ASSUME returned' = returned,
           \A e \in Delivery : St(e)' = "done" => St(e) = "done",
           \A t \in Threads : thread'[t].pc \in Publishing => thread'[t] = thread[t]
    PROVE  Publishes
BY DEF Publishes, Publishing

LEMMA MoveFinishes ==
    ASSUME EventsOK, NEW d, NEW to, MovesTo(d, to), to # "done"
    PROVE  \A e \in Delivery : St(e)' = "done" => St(e) = "done"
<1>1. Beside(d) /\ St(d)' = to
  BY RowMoves
<1> QED
  BY <1>1 DEF Beside

LEMMA ThreadPublishes ==
    ASSUME ShapeInv, NEW t \in Threads, ThreadStep(t)
    PROVE  Publishes
<1> DEFINE d == thread[t].d
<1>0. /\ ThreadDoes(t) /\ EventsOK /\ ThreadsOK /\ d \in Delivery /\ t \in Threads
      /\ \A u \in Threads \ {t} : thread'[u] = thread[u]
  BY ThreadStepDoes DEF ShapeInv, Types, ThreadDoes, AwaitedInv, Awaited
<1>1. ASSUME returned \subseteq returned',
             thread[t].pc \notin Publishing => \A e \in Delivery : St(e)' = "done" => St(e) = "done",
             thread'[t].pc \in Publishing => \/ thread[t].pc \in Publishing
                                             \/ KeyOf(d) \in returned' \/ FoundDone(d)
      PROVE  Publishes
  <2>1. \A e \in Delivery : St(e)' = "done" => St(e) = "done" \/ (e = d /\ thread[t].pc \in Publishing)
    <3>1. Beside(d) \/ UNCHANGED events
      BY <1>0, RowMoves, RowAgesOrCounts DEF ThreadDoes
    <3> QED
      BY <1>1, <3>1 DEF Beside, St
  <2>2. thread'[t].pc \in Publishing => thread'[t].d = d /\ thread[t].pc # "off"
    BY <1>0 DEF ThreadDoes, Off, Publishing
  <2>3. \A u \in Threads : u # t => thread'[u] = thread[u]
    BY <1>0
  <2>4. \A u \in Threads : thread[u].pc \in Publishing => thread[u].pc # "off"
    BY DEF Publishing
  <2> QED
    BY <1>1, <2>1, <2>2, <2>3, <2>4 DEF Publishes
<1>2. UNCHANGED events \/ Counts(d) => \A e \in Delivery : St(e)' = "done" => St(e) = "done"
  BY <1>0, RowAgesOrCounts DEF Beside, St
<1>3. \A pc : Proceed(t, pc) => thread'[t].pc = pc
  BY <1>0 DEF Proceed, ThreadsOK, ThreadRec
<1>4. \A pc : Return(t, pc) => thread'[t].pc \notin Publishing
  BY <1>0 DEF Return, Off, Publishing, ThreadsOK
<1>5. CASE Check(t)
  BY <1>1, <1>2, <1>3, <1>5 DEF Check, Pure, db, outcomes, past, Publishing, AlreadyDone, FoundDone
<1>6. CASE Drive(t) \/ DriveEnd(t)
  BY <1>1, <1>2, <1>3, <1>4, <1>6 DEF Drive, DriveEnd, Pure, db, outcomes, past, Publishing
<1>7. ASSUME NEW from \in Publishing, NEW to, NEW pc \in Publishing, DriveTo(t, from, to, pc) PROVE Publishes
  BY <1>1, <1>7 DEF DriveTo, OnlyEvents, outcomes, past
<1>8. ASSUME NEW to, NEW pc, to # "done", pc \notin Publishing, Transition(t, to, pc), OnlyEvents PROVE Publishes
  <2>1. thread'[t].pc \notin Publishing
    BY <1>3, <1>4, <1>8 DEF Transition, Raise
  <2>2. UNCHANGED events \/ MovesTo(d, to)
    BY <1>0, <1>8 DEF Transition, Raise, MovesTo
  <2>3. \A e \in Delivery : St(e)' = "done" => St(e) = "done"
    BY <1>0, <1>2, <1>8, <2>2, MoveFinishes
  <2> QED
    BY <1>1, <1>8, <2>1, <2>3 DEF OnlyEvents, outcomes, past
<1>9. CASE Ensure(t) \/ Start(t) \/ MarkFailed(t)
  <2>1. {"count", "start", "free_nack"} \cap Publishing = {}
    BY DEF Publishing
  <2>2. CASE \E to \in {"queued", "processing", "failed"}, pc \in {"count", "start", "free_nack"} :
               Transition(t, to, pc) /\ OnlyEvents
    BY <1>8, <2>1, <2>2
  <2>3. CASE UNCHANGED events /\ OnlyEvents /\ \E pc \in {"count", "start"} : Proceed(t, pc)
    BY <1>1, <1>2, <1>3, <2>1, <2>3 DEF OnlyEvents, outcomes, past
  <2> QED
    BY <1>9, <2>2, <2>3 DEF Ensure, Start, MarkFailed
<1>10. CASE MarkDone(t)
  <2>1. thread[t].pc \in Publishing
    BY <1>10 DEF MarkDone, Publishing
  <2> QED
    BY <1>1, <1>10, <2>1 DEF MarkDone, OnlyEvents, outcomes, past
<1>11. CASE Count(t)
  <2>1. Counts(d)
    BY <1>0, <1>11 DEF Count, Counts
  <2> QED
    BY <1>1, <1>2, <1>3, <1>11, <2>1 DEF Count, OnlyEvents, outcomes, past, Publishing
<1>12. CASE Conclude(t) \/ AnalysisHeldBack(t)
  BY <1>1, <1>2, <1>3, <1>4, <1>12 DEF Conclude, AnalysisReturns, AnalysisFails, AnalysisHeldBack, Pure, db, outcomes, past, Publishing
<1>13. CASE LateCall(t)
  <2>1. thread'[t].pc \notin Publishing
    BY <1>0, <1>13 DEF LateCall, Off, Publishing, ThreadsOK
  <2> QED
    BY <1>1, <1>2, <1>13, <2>1 DEF LateCall, Pure, db, outcomes, past
<1>14. ASSUME NEW from, NEW pc, Free(t, from, pc) PROVE Publishes
  BY <1>1, <1>2, <1>4, <1>14 DEF Free, outcomes, past
<1>15. CASE Claim(t) \/ Steal(t)
  <2>1. thread'[t].pc \in {"ensure", "claim", "steal", "off"}
    BY <1>0, <1>15 DEF Claim, Steal, Proceed, Return, Off, ThreadsOK, ThreadRec
  <2> QED
    BY <1>1, <1>2, <1>15, <2>1 DEF Claim, Steal, outcomes, past, Publishing
<1> QED
  BY <1>5, <1>6, <1>7, <1>9, <1>10, <1>11, <1>12, <1>13, <1>14, <1>15 DEF ThreadStep, Plan, Publishing

LEMMA OthersPublishNothing ==
    ASSUME ShapeInv,
           \/ IngressStep \/ IngressCrash \/ \E d \in Delivery : Age(d)
           \/ \E s \in Slot : PoisonGuard(s) \/ \E w \in Worker : Lease(w, s)
           \/ \E w \in Worker : MainStep(w) \/ WorkerCrash(w) \/ Timeout(w) \/ AttemptTimeout(w)
           \/ SweeperDoes
           \/ UNCHANGED vars
    PROVE  Publishes
<1> USE DEF ShapeInv, Types, outcomes, past, db
<1>0. /\ UNCHANGED events => \A e \in Delivery : St(e)' = "done" => St(e) = "done"
      /\ UNCHANGED thread => \A t \in Threads : thread'[t].pc \in Publishing => thread'[t] = thread[t]
  BY DEF St
<1>1. CASE IngressStep \/ IngressCrash \/ \E d \in Delivery : Age(d)
  <2>1. UNCHANGED <<thread, returned>>
    BY <1>1 DEF IngressStep, Receive, Schedule, IngressCrash, Age, OnlyEvents
  <2>2. \A e \in Delivery : St(e)' = "done" => St(e) = "done"
    <3>1. ASSUME NEW d \in Hook, NEW k \in Key, Receive(d, k)
          PROVE  \A e \in Delivery : St(e)' = "done" => St(e) = "done"
      <4>1. Records(d, k)
        BY <3>1 DEF Delivery, Records, Receive
      <4> QED
        BY <4>1, RowRecords DEF Beside
    <3>2. ASSUME NEW d \in Delivery, Age(d) PROVE \A e \in Delivery : St(e)' = "done" => St(e) = "done"
      <4>1. Ages(d)
        BY <3>2 DEF Age, Ages
      <4> QED
        BY <4>1, RowAgesOrCounts DEF Beside
    <3>3. CASE UNCHANGED events
      BY <1>0, <3>3
    <3> QED
      BY <1>1, <3>1, <3>2, <3>3 DEF IngressStep, Schedule, IngressCrash
  <2> QED
    BY <1>0, <2>1, <2>2, NothingFinished
<1>2. ASSUME NEW s \in Slot, PoisonGuard(s) \/ \E w \in Worker : Lease(w, s) PROVE Publishes
  <2>1. UNCHANGED <<events, returned>>
    BY <1>2 DEF PoisonGuard, Lease
  <2>2. ASSUME NEW t \in Threads, thread'[t].pc \in Publishing PROVE thread'[t] = thread[t]
    <3>1. CASE UNCHANGED thread
      BY <3>1
    <3>2. ASSUME NEW w \in Worker, NEW fresh, fresh.pc = "check", thread' = [thread EXCEPT ![Own(w)] = fresh]
          PROVE  thread'[t] = thread[t]
      BY <2>2, <3>2 DEF ThreadsOK, Publishing
    <3>3. \A w \in Worker : Lease(w, s) => [Off EXCEPT !.pc = "check", !.d = s[1]].pc = "check"
      BY DEF Off
    <3> QED
      BY <1>2, <3>1, <3>2, <3>3 DEF PoisonGuard, Lease
  <2> QED
    BY <1>0, <2>1, <2>2, NothingFinished
<1>3. ASSUME NEW w \in Worker, MainStep(w) \/ WorkerCrash(w) \/ Timeout(w) \/ AttemptTimeout(w) PROVE Publishes
  <2>1. returned' = returned
    BY <1>3 DEF MainStep, Ack, Defer, Nack, Bury, BuryDead, Unclaim, Notify, WorkerCrash, Timeout, AttemptTimeout
  <2>2. \A e \in Delivery : St(e)' = "done" => St(e) = "done"
    <3>1. UNCHANGED events \/ \E to \in {"failed", "dead_letter"} : events' = Moved(main[w].slot[1], to)
             /\ Legal(main[w].slot[1], to) /\ main[w].pc \in Burying
      BY <1>3 DEF MainStep, Ack, Defer, Nack, Bury, BuryDead, Unclaim, Notify, WorkerCrash, Timeout, AttemptTimeout, Burying
    <3>2. main[w].pc \in Burying => main[w].slot[1] \in Delivery
      BY Slots DEF HandsInv, WellHeld, Burying, Leasing
    <3> QED
      BY <1>0, <3>1, <3>2, MoveFinishes DEF MovesTo
  <2>3. ASSUME NEW t \in Threads, thread'[t].pc \in Publishing PROVE thread'[t] = thread[t]
    <3>1. CASE UNCHANGED thread
      BY <3>1
    <3>2. CASE Stop(w)
      <4>1. t # Own(w) /\ t # Orphan(w)
        BY <2>3, <3>2, StopHands DEF Off, Publishing
      <4> QED
        BY <3>2, <4>1, StopHands
    <3>3. CASE Timeout(w)
      BY <2>3, <3>3 DEF Timeout, ThreadsOK, Off, Publishing, Own, Orphan
    <3>4. CASE AttemptTimeout(w)
      <4> DEFINE late == [thread[Own(w)] EXCEPT !.pc = "late"]
      <4>1. late.pc = "late" /\ Own(w) \in Threads /\ Orphan(w) \in Threads
        BY <3>4 DEF ThreadsOK, ThreadRec, Own, Orphan, Threads
      <4> HIDE DEF late
      <4>2. thread' = [thread EXCEPT ![Orphan(w)] = late, ![Own(w)].pc = "failed"]
        BY <3>4 DEF AttemptTimeout, late
      <4> QED
        BY <2>3, <4>1, <4>2 DEF ThreadsOK, ThreadRec, Publishing, Own, Orphan
    <3> QED
      BY <1>3, <3>1, <3>2, <3>3, <3>4 DEF MainStep, Ack, Defer, Nack, Bury, BuryDead, Unclaim, Notify, WorkerCrash
  <2> QED
    BY <2>1, <2>2, <2>3, NothingFinished
<1>4. CASE SweeperDoes
  <2>1. \A e \in Delivery : St(e)' = "done" => St(e) = "done"
    <3>1. ASSUME NEW to \in {"queued", "failed", "dead_letter"}, MovesTo(sweep.d, to)
          PROVE  \A e \in Delivery : St(e)' = "done" => St(e) = "done"
      BY <3>1, MoveFinishes
    <3>2. ASSUME NEW d, Records(d, sweep.key) PROVE \A e \in Delivery : St(e)' = "done" => St(e) = "done"
      BY <3>2, RowRecords DEF Beside
    <3> QED
      BY <1>0, <1>4, <3>1, <3>2 DEF SweeperDoes, Reads, Books, Puts, Goes
  <2> QED
    BY <1>0, <1>4, <2>1, NothingFinished DEF SweeperDoes
<1>5. CASE UNCHANGED vars
  BY <1>0, <1>5, NothingFinished DEF vars
<1> QED
  BY <1>1, <1>2, <1>3, <1>4, <1>5

LEMMA StepPublishes == ASSUME ShapeInv, ReadInv, [Next]_vars PROVE Publishes
<1>1. SweepStart \/ SweepStep \/ SweepCrash => SweeperDoes
  BY SweepStepDoes
<1> QED
  BY <1>1, ThreadPublishes, OthersPublishNothing DEF Next

(***************************************************************************)
(* К-1: DONE on the event means a result on GitHub (worker.py:102-118),    *)
(* also when the event was driven there for a sibling's result, and also   *)
(* when it was abandoned and its late thread finishes it.                  *)
(***************************************************************************)
THEOREM DoneHasReturned == Spec => []DoneMeansReturned
<1>1. Init => ResultInv
  BY StatesAre DEF Init, ResultInv, DoneMeansReturned, SaysInv, St, Off, Publishing
<1>2. ShapeInv /\ ReadInv /\ ResultInv /\ [Next]_vars => ResultInv'
  BY StepKeepsShape, StepPublishes, ResultsKept
<1>3. ResultInv => DoneMeansReturned
  BY DEF ResultInv
<1> QED
  BY <1>1, <1>2, <1>3, ShapeInvariant, PTL DEF Spec

-----------------------------------------------------------------------------
(***************************************************************************)
(* Who dead-letters an event announces it: nothing but a crash comes       *)
(* between the two.                                                        *)
(***************************************************************************)
Announces ==
    /\ crashes' = 0 => crashes = 0
    /\ comments \subseteq comments'
    /\ \A e \in Delivery : St(e)' = "dead_letter" => St(e) = "dead_letter" \/ Announcing(e)'
    /\ crashes' = 0 => \A e \in Delivery : Announcing(e) => Announcing(e)' \/ KeyOf(e) \in comments'

LEMMA DeathsKept == ASSUME NoSilentDeath, Kept, Announces PROVE NoSilentDeath'
<1> SUFFICES ASSUME crashes' = 0, NEW e \in Delivery, St(e)' = "dead_letter", ~Announcing(e)'
             PROVE  KeyOf(e)' \in comments'
  BY DEF NoSilentDeath
<1>1. St(e) = "dead_letter" /\ KeyOf(e)' = KeyOf(e)
  BY DEF Announces, Kept
<1>2. Announcing(e) => KeyOf(e) \in comments'
  BY DEF Announces
<1> QED
  BY <1>1, <1>2 DEF NoSilentDeath, Announces

\* Steps that kill no event and after which the announcers are where they were.
LEMMA NobodyDies ==
    ASSUME UNCHANGED comments, crashes' = 0 => crashes = 0,
           \A e \in Delivery : St(e)' = "dead_letter" => St(e) = "dead_letter",
           crashes' = 0 => \A w \in Worker : main[w].pc \in {"unclaim", "notify"} => main'[w] = main[w],
           crashes' = 0 => (sweep.pc = "note" => sweep' = sweep)
    PROVE  Announces
<1> SUFFICES ASSUME crashes' = 0, NEW e \in Delivery, Announcing(e) PROVE Announcing(e)'
  BY DEF Announces
<1> QED
  BY DEF Announcing

LEMMA MoveBuries ==
    ASSUME EventsOK, NEW d, NEW to, MovesTo(d, to), to # "dead_letter"
    PROVE  \A e \in Delivery : St(e)' = "dead_letter" => St(e) = "dead_letter"
<1>1. Beside(d) /\ St(d)' = to
  BY RowMoves
<1> QED
  BY <1>1 DEF Beside

LEMMA ThreadAnnounces ==
    ASSUME ShapeInv, NEW t \in Threads, ThreadDoes(t)
    PROVE  Announces
<1> USE DEF ShapeInv, Types
<1> DEFINE d == thread[t].d
<1>1. \A e \in Delivery : St(e)' = "dead_letter" => St(e) = "dead_letter"
  <2>1. CASE UNCHANGED events
    BY <2>1 DEF St
  <2>2. ASSUME NEW to \in Working, MovesTo(d, to)
        PROVE  \A e \in Delivery : St(e)' = "dead_letter" => St(e) = "dead_letter"
    BY <2>2, MoveBuries DEF Working
  <2>3. CASE Counts(d)
    BY <2>3, RowAgesOrCounts DEF Beside
  <2> QED
    BY <2>1, <2>2, <2>3 DEF ThreadDoes
<1>2. ASSUME NEW w \in Worker, main[w].pc \in {"unclaim", "notify"} PROVE main'[w] = main[w]
  <2>1. t[2] = "own" => main[t[1]].pc = "join"
    BY DEF ThreadDoes, AwaitedInv, Awaited
  <2> QED
    BY <1>2, <2>1 DEF ThreadDoes, MainsOK
<1> QED
  BY <1>1, <1>2, NobodyDies DEF ThreadDoes

LEMMA OthersAnnounce ==
    ASSUME ShapeInv,
           \/ IngressStep \/ IngressCrash \/ \E d \in Delivery : Age(d)
           \/ \E s \in Slot : PoisonGuard(s) \/ \E w \in Worker : Lease(w, s)
           \/ UNCHANGED vars
    PROVE  Announces
<1> USE DEF ShapeInv, Types, outcomes, past, db, TablesOK
<1>1. UNCHANGED <<comments, sweep>> /\ (crashes' = 0 => crashes = 0)
  <2>1. UNCHANGED <<comments, sweep>> /\ crashes' \in {crashes, crashes + 1}
    BY DEF IngressStep, Receive, Schedule, IngressCrash, Age, OnlyEvents, PoisonGuard, Lease, vars
  <2>2. crashes \in Nat
    OBVIOUS
  <2> QED
    BY <2>1, <2>2
<1>2. \A e \in Delivery : St(e)' = "dead_letter" => St(e) = "dead_letter"
  <2>1. ASSUME NEW d \in Hook, NEW k \in Key, Receive(d, k)
        PROVE  \A e \in Delivery : St(e)' = "dead_letter" => St(e) = "dead_letter"
    <3>1. Records(d, k)
      BY <2>1 DEF Delivery, Records, Receive
    <3> QED
      BY <3>1, RowRecords DEF Beside
  <2>2. ASSUME NEW d \in Delivery, Age(d)
        PROVE  \A e \in Delivery : St(e)' = "dead_letter" => St(e) = "dead_letter"
    <3>1. Ages(d)
      BY <2>2 DEF Age, Ages
    <3> QED
      BY <3>1, RowAgesOrCounts DEF Beside
  <2>3. CASE UNCHANGED events
    BY <2>3 DEF St
  <2> QED
    BY <2>1, <2>2, <2>3 DEF IngressStep, Schedule, IngressCrash, PoisonGuard, Lease, vars
<1>3. ASSUME NEW w \in Worker, main[w].pc \in {"unclaim", "notify"} PROVE main'[w] = main[w]
  <2>1. ASSUME NEW s \in Slot, NEW v \in Worker, Lease(v, s) PROVE main'[w] = main[w]
    BY <1>3, <2>1 DEF Lease, MainsOK
  <2>2. CASE UNCHANGED main
    BY <2>2
  <2> QED
    BY <2>1, <2>2 DEF IngressStep, Receive, Schedule, IngressCrash, Age, PoisonGuard, vars
<1> QED
  BY <1>1, <1>2, <1>3, NobodyDies

LEMMA MainAnnounces ==
    ASSUME ShapeInv, NEW w \in Worker,
           MainStep(w) \/ WorkerCrash(w) \/ Timeout(w) \/ AttemptTimeout(w)
    PROVE  Announces
<1> USE DEF ShapeInv, Types, outcomes, past, db, TablesOK
<1> DEFINE d == main[w].slot[1]
<1>0. /\ UNCHANGED sweep
      /\ main[w].pc # "idle" => main[w].slot \in Slot /\ d \in Delivery
  BY OthersLeaveTheSweep, Slots DEF HandsInv, WellHeld
<1>1. UNCHANGED events => \A e \in Delivery : St(e)' = "dead_letter" => St(e) = "dead_letter"
  BY DEF St
<1>2. CASE Ack(w) \/ Defer(w) \/ Nack(w) \/ Timeout(w) \/ AttemptTimeout(w) \/ (BuryDead(w) /\ ~Legal(d, "dead_letter"))
  <2>1. UNCHANGED <<events, comments, crashes>>
    BY <1>2 DEF Ack, Defer, Nack, Timeout, AttemptTimeout, BuryDead
  <2>2. main[w].pc \notin {"unclaim", "notify"} \/ UNCHANGED main
    <3>1. Timeout(w) => thread[Own(w)].pc = "analyze" /\ Own(w) \in Threads /\ Own(w)[1] = w /\ Own(w)[2] = "own"
      BY DEF Timeout, Own, Threads
    <3>2. Timeout(w) => main[w].pc = "join"
      BY <3>1 DEF AwaitedInv, Awaited
    <3> QED
      BY <1>2, <3>2 DEF Ack, Defer, Nack, AttemptTimeout, BuryDead
  <2>3. \A v \in Worker : v # w => main'[v] = main[v]
    BY <1>2 DEF Ack, Defer, Nack, Timeout, AttemptTimeout, BuryDead, Stop, Rest, Goto, MainsOK
  <2> QED
    BY <1>0, <1>1, <2>1, <2>2, <2>3, NobodyDies
<1>3. CASE Bury(w)
  <2>1. UNCHANGED events \/ MovesTo(d, "failed")
    BY <1>0, <1>3 DEF Bury, MovesTo
  <2>2. \A e \in Delivery : St(e)' = "dead_letter" => St(e) = "dead_letter"
    BY <1>1, <2>1, MoveBuries
  <2> QED
    BY <1>0, <1>3, <2>2, NobodyDies DEF Bury, Goto, MainsOK
<1>4. CASE BuryDead(w) /\ Legal(d, "dead_letter")
  <2>0. PICK a : a = d
    OBVIOUS
  <2>1. MovesTo(a, "dead_letter")
    BY <1>0, <1>4, <2>0 DEF BuryDead, MovesTo
  <2>2. Beside(a)
    BY <2>1, RowMoves
  <2>3. /\ main'[w].pc = "unclaim" /\ main'[w].slot = main[w].slot
        /\ \A v \in Worker : v # w => main'[v] = main[v]
    BY <1>4 DEF BuryDead, Goto, MainsOK, MainRec
  <2>4. Announcing(a)'
    BY <2>0, <2>3 DEF Announcing
  <2>5. \A e \in Delivery : Announcing(e) => Announcing(e)'
    BY <1>0, <1>4, <2>3 DEF Announcing, BuryDead
  <2>6. \A e \in Delivery : St(e)' = "dead_letter" => St(e) = "dead_letter" \/ Announcing(e)'
    BY <2>2, <2>4 DEF Beside
  <2> QED
    BY <1>4, <2>5, <2>6 DEF BuryDead, Announces
<1>5. CASE Unclaim(w)
  <2>1. /\ main'[w].pc = "notify" /\ main'[w].slot = main[w].slot
        /\ \A v \in Worker : v # w => main'[v] = main[v]
    BY <1>5 DEF Unclaim, Goto, MainsOK, MainRec
  <2>2. \A e \in Delivery : Announcing(e) => Announcing(e)'
    BY <1>0, <2>1 DEF Announcing
  <2> QED
    BY <1>1, <1>5, <2>2 DEF Unclaim, Announces
<1>6. CASE Notify(w)
  <2>1. /\ comments' = comments \cup {KeyOf(d)} /\ UNCHANGED events /\ crashes' = crashes
        /\ \A v \in Worker : v # w => main'[v] = main[v]
    BY <1>6 DEF Notify, Tell, Rest, MainsOK
  <2>2. ASSUME NEW e \in Delivery, Announcing(e) PROVE Announcing(e)' \/ KeyOf(e) \in comments'
    <3>1. CASE main[w].slot[1] = e
      BY <2>1, <3>1
    <3>2. CASE main[w].slot[1] # e
      BY <1>0, <2>1, <2>2, <3>2 DEF Announcing
    <3> QED
      BY <3>1, <3>2
  <2> QED
    BY <1>1, <2>1, <2>2 DEF Announces
<1>7. CASE WorkerCrash(w)
  <2>1. crashes' # 0 /\ UNCHANGED <<events, comments>>
    BY <1>7 DEF WorkerCrash
  <2> QED
    BY <1>1, <2>1 DEF Announces
<1> QED
  BY <1>2, <1>3, <1>4, <1>5, <1>6, <1>7 DEF MainStep

LEMMA SweeperAnnounces ==
    ASSUME ShapeInv, ReadInv, SweepStart \/ SweepStep \/ SweepCrash
    PROVE  Announces
<1> USE DEF ShapeInv, Types, outcomes, past, db, TablesOK
<1>0. SweeperDoes /\ UNCHANGED main
  BY SweepStepDoes DEF SweeperDoes
<1>1. UNCHANGED events => \A e \in Delivery : St(e)' = "dead_letter" => St(e) = "dead_letter"
  BY DEF St
<1>2. CASE SweepTransition("dead", "dead_letter", "note")
  <2>1. CASE Legal(sweep.d, "dead_letter")
    <3>1. MovesTo(sweep.d, "dead_letter")
      <4>1. sweep.d \in Delivery
        BY <1>2 DEF SweepTransition, RecordedInv, Holding
      <4> QED
        BY <1>2, <2>1, <4>1 DEF SweepTransition, MovesTo
    <3>2. Beside(sweep.d)
      BY <3>1, RowMoves
    <3>3. sweep'.pc = "note" /\ sweep'.d = sweep.d /\ sweep.pc = "dead"
      BY <1>2, <2>1 DEF SweepTransition, Sweeping, SweepOK, SweepRec
    <3>4. \A e \in Delivery : Announcing(e) => Announcing(e)'
      BY <1>0, <3>3 DEF Announcing
    <3>5. \A e \in Delivery : St(e)' = "dead_letter" => St(e) = "dead_letter" \/ Announcing(e)'
      BY <3>2, <3>3 DEF Beside, Announcing
    <3> QED
      BY <1>2, <3>4, <3>5 DEF SweepTransition, SweepsEvents, Announces
  <2>2. CASE ~Legal(sweep.d, "dead_letter")
    BY <1>0, <1>1, <1>2, <2>2, NobodyDies DEF SweepTransition, SweepsEvents
  <2> QED
    BY <2>1, <2>2
<1>3. CASE \/ SweepTransition("fail_dead", "failed", "dead")
           \/ SweepTransition("fail_retry", "failed", "requeue")
           \/ SweepTransition("requeue", "queued", "put")
  <2>1. /\ sweep.pc \in Holding /\ sweep.pc # "note" /\ UNCHANGED <<comments, crashes>>
    BY <1>3 DEF SweepTransition, SweepsEvents, Holding
  <2>2. UNCHANGED events \/ \E to \in {"failed", "queued"} : MovesTo(sweep.d, to)
    BY <1>3, <2>1 DEF SweepTransition, MovesTo, RecordedInv
  <2>3. \A e \in Delivery : St(e)' = "dead_letter" => St(e) = "dead_letter"
    <3>1. ASSUME NEW to \in {"failed", "queued"}, MovesTo(sweep.d, to)
          PROVE  \A e \in Delivery : St(e)' = "dead_letter" => St(e) = "dead_letter"
      BY <3>1, MoveBuries
    <3> QED
      BY <1>1, <2>2, <3>1
  <2> QED
    BY <1>0, <2>1, <2>3, NobodyDies
<1>4. CASE SweepNotify
  <2>1. comments' = comments \cup {KeyOf(sweep.d)} /\ UNCHANGED <<events, crashes>>
    BY <1>4 DEF SweepNotify, Tell
  <2>2. ASSUME NEW e \in Delivery, Announcing(e) PROVE Announcing(e)' \/ KeyOf(e) \in comments'
    BY <1>0, <2>1, <2>2 DEF Announcing
  <2> QED
    BY <1>1, <2>1, <2>2 DEF Announces
<1>5. ASSUME NEW d \in Recon, SweepRecord(d) PROVE Announces
  <2>1. Records(d, sweep.key)
    BY <1>5 DEF Records, SweepRecord, SweepOK, Delivery
  <2>2. \A e \in Delivery : St(e)' = "dead_letter" => St(e) = "dead_letter"
    BY <2>1, RowRecords DEF Beside
  <2> QED
    BY <1>0, <1>5, <2>2, NobodyDies DEF SweepRecord, SweepsEvents
<1>6. CASE SweepCrash
  BY <1>1, <1>6 DEF SweepCrash, Announces
<1>7. CASE \/ SweepStart \/ SweepNextRow \/ SweepEnqueue \/ SweepKeys \/ (\E k \in Key : SweepKey(k)) \/ SweepFlight
           \/ SweepEnqueueRecon \/ SweepEnd
  <2>1. UNCHANGED <<events, comments, crashes>>
    BY <1>7 DEF SweepStart, SweepNextRow, SweepEnqueue, SweepKeys, SweepKey, SweepFlight, SweepEnqueueRecon,
                SweepEnd, OnlySweep
  <2>2. sweep.pc # "note"
    <3>1. SweepStart => sweep.pc = "idle"
      <4>1. Quiet.pc = "idle"
        BY DEF Quiet
      <4> QED
        BY <4>1 DEF SweepStart
    <3>2. \A k \in Key : SweepKey(k) => sweep.pc = "keys"
      BY DEF SweepKey
    <3>3. SweepNextRow \/ SweepKeys => sweep.pc = "rows"
      BY DEF SweepNextRow, SweepKeys
    <3> QED
      BY <1>7, <3>1, <3>2, <3>3 DEF SweepEnqueue, SweepFlight, SweepEnqueueRecon, SweepEnd
  <2> QED
    BY <1>0, <1>1, <2>1, <2>2, NobodyDies
<1>8. CASE SweepEscalate
  <2>1. /\ comments' = comments \cup {sweep.key} /\ UNCHANGED <<events, crashes>> /\ sweep.pc # "note"
    BY <1>8 DEF SweepEscalate, Tell
  <2>2. \A e \in Delivery : Announcing(e) => Announcing(e)'
    BY <1>0, <2>1 DEF Announcing
  <2> QED
    BY <1>1, <2>1, <2>2 DEF Announces
<1> QED
  BY <1>2, <1>3, <1>4, <1>5, <1>6, <1>7, <1>8 DEF SweepStep

(***************************************************************************)
(* К-1: as long as nothing crashes, whoever dead-letters an event, worker  *)
(* or sweeper, comments on it before it turns to anything else             *)
(* (worker.py:136-146, supervisor.py:82-88).                               *)
(***************************************************************************)
THEOREM DeathsAreAnnounced == Spec => []NoSilentDeath
<1>1. Init => NoSilentDeath
  BY DEF Init, NoSilentDeath, St
<1>2. ShapeInv /\ ReadInv /\ NoSilentDeath /\ [Next]_vars => NoSilentDeath'
  <2> SUFFICES ASSUME ShapeInv, ReadInv, NoSilentDeath, [Next]_vars PROVE NoSilentDeath'
    OBVIOUS
  <2>1. Announces
    BY ThreadStepDoes, ThreadAnnounces, OthersAnnounce, MainAnnounces, SweeperAnnounces DEF Next
  <2> QED
    BY <2>1, StepKeepsShape, DeathsKept
<1> QED
  BY <1>1, <1>2, ShapeInvariant, PTL DEF Spec

-----------------------------------------------------------------------------
(***************************************************************************)
(* Custody.  While no message waits past the stale deadline, a delivery is *)
(* with nobody, or in ingress, in one message, in one worker's hands or in *)
(* the sweeper's, also when an analysis of it has been abandoned.          *)
(***************************************************************************)
Emptied(w) == main[w].pc \in Burying => queue[main[w].slot].state = "none"
OneMessage == \A s, r \in Slot :
                s[1] = r[1] /\ queue[s].state # "none" /\ queue[r].state # "none" => s = r
OneWorker == \A w, v \in Worker :
               main[w].pc # "idle" /\ main[w].slot[1] = main[v].slot[1] => w = v
WorkersMessage == \A w \in Worker, s \in Slot :
                    s[1] = main[w].slot[1] /\ s # main[w].slot => queue[s].state = "none"
OnePlace == \A d \in Delivery :
              /\ d \in ingress => Loose(d) /\ ~InSweep(d)
              /\ InSweep(d) => Loose(d)
Custody == (\A w \in Worker : Emptied(w)) /\ OneMessage /\ OneWorker /\ WorkersMessage /\ OnePlace

\* Nobody is about to requeue a dead-lettered event.
LifeInv == /\ \A t \in Threads : thread[t].pc = "to_queued" => St(thread[t].d) # "dead_letter"
           /\ \A r \in sweep.todo : St(r.d) # "dead_letter"
           /\ sweep.pc \in Holding \ {"note"} => St(sweep.d) # "dead_letter"

CareInv == ShapeInv /\ ReadInv /\ Custody /\ LifeInv

\* Messages go, and workers go on with their lease or are done with it.
LEMMA HandsFrame ==
    ASSUME ShapeInv, HandsInv', Custody,
           \A s \in Slot : queue'[s].state # "none" => queue[s].state # "none",
           \A w \in Worker : \/ main'[w].slot = main[w].slot
                             \/ main'[w].pc = "idle" /\ main'[w].slot = NoSlot
    PROVE  OneMessage' /\ OneWorker' /\ WorkersMessage' /\ \A d \in Delivery : Loose(d) => Loose(d)'
<1>1. \A w \in Worker : main'[w].pc # "idle" => /\ main'[w].slot = main[w].slot
                                                /\ main[w].slot \in Slot /\ main[w].pc # "idle"
  BY Slots DEF ShapeInv, HandsInv, WellHeld, Burying, Leasing
<1>2. \A w \in Worker : main'[w].pc = "idle" => main'[w].slot = NoSlot
  BY DEF HandsInv, WellHeld, Burying, Leasing
<1>3. OneMessage'
  BY DEF OneMessage, Custody
<1>4. OneWorker'
  <2> SUFFICES ASSUME NEW w \in Worker, NEW v \in Worker,
                      main'[w].pc # "idle", main'[w].slot[1] = main'[v].slot[1]
               PROVE  w = v
    BY DEF OneWorker
  <2>1. main'[v].pc # "idle"
    BY <1>1, <1>2, Slots
  <2> QED
    BY <1>1, <2>1 DEF Custody, OneWorker
<1>5. WorkersMessage'
  <2> SUFFICES ASSUME NEW w \in Worker, NEW s \in Slot,
                      s[1] = main'[w].slot[1], s # main'[w].slot
               PROVE  queue'[s].state = "none"
    BY DEF WorkersMessage
  <2>1. main'[w].pc # "idle"
    BY <1>2, Slots
  <2>2. main'[w].slot = main[w].slot
    BY <1>1, <2>1
  <2> QED
    BY <2>2 DEF Custody, WorkersMessage
<1>6. ASSUME NEW d \in Delivery, Loose(d) PROVE Loose(d)'
  <2>1. ~InQueue(d)'
    BY <1>6 DEF Loose, InQueue
  <2>2. ~InWork(d)'
    <3> SUFFICES ASSUME NEW w \in Worker, main'[w].slot[1] = d PROVE FALSE
      BY DEF InWork
    <3>1. main'[w].slot = main[w].slot
      BY Slots
    <3> QED
      BY <3>1, <1>6 DEF Loose, InWork
  <2> QED
    BY <2>1, <2>2 DEF Loose
<1> QED
  BY <1>3, <1>4, <1>5, <1>6

\* And nothing new comes to ingress or the sweeper.
Lessens ==
    /\ ingress' \subseteq ingress
    /\ \A s \in Slot : queue'[s].state # "none" => queue[s].state # "none"
    /\ \A w \in Worker : \/ main'[w].slot = main[w].slot
                         \/ main'[w].pc = "idle" /\ main'[w].slot = NoSlot
    /\ \A w \in Worker : main'[w].pc \in Burying => \/ main[w].pc \in Burying
                                                   \/ queue'[main'[w].slot].state = "none"
    /\ \A d \in Delivery : InSweep(d)' => InSweep(d)

LEMMA EmptiedStays ==
    ASSUME ShapeInv, Custody, NEW w \in Worker,
           \A s \in Slot : queue[s].state = "none" => queue'[s].state = "none",
           main'[w].slot = main[w].slot, main'[w].pc \in Burying => main[w].pc \in Burying
    PROVE  Emptied(w)'
<1>1. main[w].pc \in Burying => main[w].slot \in Slot
  BY DEF ShapeInv, HandsInv, WellHeld, Burying, Leasing
<1> QED
  BY <1>1 DEF Custody, Emptied

LEMMA LessKeepsCustody ==
    ASSUME ShapeInv, ShapeInv', Custody, Lessens
    PROVE  Custody'
<1>1. OneMessage' /\ OneWorker' /\ WorkersMessage' /\ \A d \in Delivery : Loose(d) => Loose(d)'
  BY HandsFrame DEF ShapeInv, Lessens
<1>2. OnePlace'
  BY <1>1 DEF Custody, OnePlace, Lessens
<1>3. ASSUME NEW w \in Worker PROVE Emptied(w)'
  <2>1. QueueOK /\ QueueOK'
    BY DEF ShapeInv, Types
  <2>2. main[w].pc \in Burying => main[w].slot \in Slot
    BY DEF ShapeInv, HandsInv, WellHeld, Burying, Leasing
  <2> QED
    BY <2>1, <2>2 DEF Custody, Emptied, Lessens, Burying
<1> QED
  BY <1>1, <1>2, <1>3 DEF Custody

\* enqueue() of a delivery that is with nobody else.
LEMMA EnqueueCustody ==
    ASSUME ShapeInv, ShapeInv', Custody, NEW d \in Delivery, Loose(d), Enqueue(d),
           UNCHANGED main, ingress' \subseteq ingress, d \notin ingress',
           \A e \in Delivery : InSweep(e)' => InSweep(e), ~InSweep(d)'
    PROVE  Custody'
<1>1. PICK c \in (1..MaxCopies) \ Copies(d) :
        queue' = [queue EXCEPT ![<<d, c>>] = [state |-> "ready", receives |-> 0]]
  BY DEF Enqueue
<1>2. <<d, c>> \in Slot /\ queue \in [Slot -> Message]
  BY DEF Slot, ShapeInv, Types, QueueOK
<1>3. /\ \A s \in Slot : s # <<d, c>> => queue'[s] = queue[s]
      /\ \A s \in Slot : s[1] = d => queue[s].state = "none"
  BY <1>1, <1>2 DEF Loose, InQueue
<1>4. \A w \in Worker : main[w].slot[1] # d
  BY DEF Loose, InWork
<1>5. ASSUME NEW w \in Worker PROVE Emptied(w)'
  <2>1. main[w].slot \in Slot => queue'[main[w].slot] = queue[main[w].slot]
    BY <1>3, <1>4
  <2>2. main[w].pc \in Burying => main[w].slot \in Slot
    BY DEF ShapeInv, HandsInv, WellHeld, Burying, Leasing
  <2> QED
    BY <2>1, <2>2 DEF Custody, Emptied
<1>6. OneMessage'
  <2> SUFFICES ASSUME NEW s \in Slot, NEW r \in Slot, s[1] = r[1],
                      queue'[s].state # "none", queue'[r].state # "none"
               PROVE  s = r
    BY DEF OneMessage
  <2>1. CASE s[1] = d
    BY <2>1, <1>3
  <2>2. CASE s[1] # d
    <3>1. queue'[s] = queue[s] /\ queue'[r] = queue[r]
      BY <2>2, <1>3
    <3> QED
      BY <3>1 DEF Custody, OneMessage
  <2> QED
    BY <2>1, <2>2
<1>7. OneWorker' /\ WorkersMessage'
  <2>1. WorkersMessage'
    BY <1>3, <1>4 DEF Custody, WorkersMessage
  <2> QED
    BY <2>1 DEF Custody, OneWorker
<1>8. \A e \in Delivery : e # d /\ Loose(e) => Loose(e)'
  <2> SUFFICES ASSUME NEW e \in Delivery, e # d, Loose(e) PROVE Loose(e)'
    OBVIOUS
  <2>1. ~InQueue(e)'
    BY <1>3 DEF Loose, InQueue
  <2> QED
    BY <2>1 DEF Loose, InWork
<1>9. OnePlace'
  BY <1>8 DEF Custody, OnePlace
<1> QED
  BY <1>5, <1>6, <1>7, <1>9 DEF Custody

\* A worker's own message is never ready.
LEMMA ReadyIsNobodys ==
    ASSUME ShapeInv, Custody, NEW s \in Slot, queue[s].state = "ready", NEW w \in Worker
    PROVE  main[w].slot[1] # s[1]
<1>1. main[w].slot # s
  BY Slots DEF ShapeInv, HandsInv, WellHeld, Custody, Emptied
<1>2. s[1] = main[w].slot[1] => queue[s].state = "none"
  BY <1>1 DEF Custody, WorkersMessage
<1> QED
  BY <1>2

LEMMA LeaseCustody ==
    ASSUME ShapeInv, ShapeInv', Custody, NEW s \in Slot, NEW w \in Worker, Lease(w, s)
    PROVE  Custody'
<1>1. /\ queue'[s].state = "leased" /\ \A r \in Slot : r # s => queue'[r] = queue[r]
      /\ \A r \in Slot : queue'[r].state # "none" <=> queue[r].state # "none"
  BY DEF Lease, ShapeInv, Types, QueueOK
<1>2. /\ main'[w].pc = "join" /\ main'[w].slot = s
      /\ \A v \in Worker : v # w => main'[v] = main[v]
  BY DEF Lease, ShapeInv, Types, MainsOK
<1>3. s[1] \in Delivery /\ \A v \in Worker : main[v].slot[1] # s[1]
  BY Slots, ReadyIsNobodys DEF Lease
<1>4. ASSUME NEW v \in Worker PROVE Emptied(v)'
  <2>1. CASE v = w
    BY <1>2, <2>1 DEF Emptied, Burying
  <2>2. CASE v # w
    BY <1>1, <1>2, <2>2, EmptiedStays DEF ShapeInv
  <2> QED
    BY <2>1, <2>2
<1>5. OneMessage'
  BY <1>1 DEF Custody, OneMessage
<1>6. OneWorker'
  <2> SUFFICES ASSUME NEW u \in Worker, NEW v \in Worker,
                      main'[u].pc # "idle", main'[u].slot[1] = main'[v].slot[1]
               PROVE  u = v
    BY DEF OneWorker
  <2>1. CASE u = w \/ v = w
    BY <1>2, <1>3, <2>1
  <2>2. CASE u # w /\ v # w
    BY <1>2, <2>2 DEF Custody, OneWorker
  <2> QED
    BY <2>1, <2>2
<1>7. WorkersMessage'
  <2> SUFFICES ASSUME NEW v \in Worker, NEW r \in Slot, r[1] = main'[v].slot[1], r # main'[v].slot
               PROVE  queue'[r].state = "none"
    BY DEF WorkersMessage
  <2>1. CASE v = w
    <3>1. r[1] = s[1] /\ r # s /\ queue[s].state # "none"
      BY <1>1, <1>2, <2>1
    <3>2. queue[r].state = "none"
      BY <3>1 DEF Custody, OneMessage
    <3> QED
      BY <1>1, <3>2
  <2>2. CASE v # w
    <3>1. queue[r].state = "none"
      BY <1>2, <2>2 DEF Custody, WorkersMessage
    <3> QED
      BY <1>1, <3>1
  <2> QED
    BY <2>1, <2>2
<1>8. ASSUME NEW d \in Delivery, Loose(d) PROVE Loose(d)'
  <2>1. ~InQueue(d)' /\ d # s[1]
    BY <1>1, <1>8 DEF Loose, InQueue
  <2>2. ~InWork(d)'
    BY <1>2, <1>8, <2>1 DEF Loose, InWork
  <2> QED
    BY <2>1, <2>2 DEF Loose
<1>9. OnePlace'
  <2>1. \A e \in Delivery : InSweep(e)' <=> InSweep(e)
    BY DEF InSweep, Lease
  <2> QED
    BY <1>8, <2>1 DEF Custody, OnePlace, Lease
<1> QED
  BY <1>4, <1>5, <1>6, <1>7, <1>9 DEF Custody

LEMMA FreshIsNobodys ==
    ASSUME ShapeInv, NEW d \in Delivery, St(d) = "absent"
    PROVE  Loose(d) /\ ~InSweep(d) /\ d \notin ingress
BY DEF ShapeInv, RecordedInv, Busy, Loose

LEMMA IngressCustody ==
    ASSUME ShapeInv, ShapeInv', Custody, IngressStep
    PROVE  Custody'
<1>1. ASSUME NEW d \in Hook, NEW k \in Key, Receive(d, k) PROVE Custody'
  <2>1. d \in Delivery /\ Loose(d) /\ ~InSweep(d)
    BY <1>1, FreshIsNobodys DEF Delivery, Receive
  <2>2. OnePlace'
    BY <1>1, <2>1 DEF Receive, Custody, OnePlace, Loose, InQueue, InWork, InSweep
  <2> QED
    BY <1>1, <2>2 DEF Receive, Custody, Emptied, OneMessage, OneWorker, WorkersMessage
<1>2. ASSUME NEW d \in Hook, Schedule(d) PROVE Custody'
  <2>1. d \in Delivery /\ Loose(d) /\ ~InSweep(d)
    BY <1>2 DEF Delivery, Schedule, Custody, OnePlace
  <2>2. \A e \in Delivery : InSweep(e)' <=> InSweep(e)
    BY <1>2 DEF Schedule, InSweep
  <2> QED
    BY <1>2, <2>1, <2>2, EnqueueCustody DEF Schedule
<1> QED
  BY <1>1, <1>2 DEF IngressStep

LEMMA SweepCustody ==
    ASSUME overtaken' = 0, ShapeInv, ShapeInv', ReadInv, Custody, SweeperDoes
    PROVE  Custody'
<1> USE DEF SweeperDoes
<1>0. UNCHANGED <<ingress, main>>
  OBVIOUS
<1>1. CASE Reads
  <2>1. ASSUME NEW d \in Delivery, InSweep(d)' PROVE Loose(d) /\ d \notin ingress
    <3>1. ~Waiting(d)
      BY <1>1, <2>1 DEF Reads, InSweep, Holding
    <3>2. ~InQueue(d)
      BY <3>1 DEF Waiting, Copies, InQueue, Slot
    <3> QED
      BY <3>1, <3>2 DEF Waiting, InHand, Loose, InWork
  <2>2. OnePlace'
    BY <1>0, <1>1, <2>1 DEF Reads, Custody, OnePlace, Loose, InQueue, InWork
  <2> QED
    BY <1>0, <1>1, <2>2 DEF Reads, Custody, Emptied, OneMessage, OneWorker, WorkersMessage
<1>2. CASE Books
  <2>1. ASSUME NEW d \in Delivery, InSweep(d)' PROVE Loose(d) /\ d \notin ingress
    <3>1. CASE InSweep(d)
      BY <3>1 DEF Custody, OnePlace
    <3>2. CASE ~InSweep(d)
      <4>1. d = sweep'.d /\ St(d) = "absent"
        BY <1>2, <2>1, <3>2 DEF Books, InSweep, Records
      <4> QED
        BY <4>1, FreshIsNobodys
    <3> QED
      BY <3>1, <3>2
  <2>2. OnePlace'
    BY <1>0, <1>2, <2>1 DEF Books, Custody, OnePlace, Loose, InQueue, InWork
  <2> QED
    BY <1>0, <1>2, <2>2 DEF Books, Custody, Emptied, OneMessage, OneWorker, WorkersMessage
<1>3. CASE Puts
  <2>1. sweep.d \in Delivery /\ InSweep(sweep.d)
    BY <1>3 DEF Puts, ShapeInv, RecordedInv, InSweep
  <2>2. Loose(sweep.d) /\ sweep.d \notin ingress
    BY <2>1 DEF Custody, OnePlace
  <2>3. ASSUME NEW e \in Delivery, InSweep(e)' PROVE InSweep(e) /\ e # sweep.d
    BY <1>3, <2>3 DEF Puts, InSweep, ReadInv
  <2>4. PICK d \in Delivery : d = sweep.d
    BY <2>1
  <2> QED
    BY <1>0, <1>3, <2>2, <2>3, <2>4, EnqueueCustody DEF Puts
<1>4. CASE Goes
  <2>1. \A e \in Delivery : InSweep(e)' => InSweep(e)
    BY <1>4 DEF Goes, InSweep
  <2>2. Lessens
    BY <1>0, <1>4, <2>1 DEF Goes, Lessens
  <2> QED
    BY <2>2, LessKeepsCustody
<1> QED
  BY <1>1, <1>2, <1>3, <1>4

-----------------------------------------------------------------------------
\* What a step of a main thread, a crash or a timeout of its worker may do.
MainDoes(w) ==
    /\ UNCHANGED <<ingress, sweep>>
    /\ \/ UNCHANGED events
       \/ /\ main[w].pc \in {"bury", "dead"}
          /\ \E to \in {"failed", "dead_letter"} : MovesTo(main[w].slot[1], to)
    /\ \A s \in Slot : queue'[s].state # "none" => queue[s].state # "none"
    /\ \A v \in Worker \ {w} : main'[v] = main[v]
    /\ \/ main'[w].slot = main[w].slot
       \/ main'[w].pc = "idle" /\ main'[w].slot = NoSlot
    /\ main'[w].pc \in Burying => \/ main[w].pc \in Burying
                                 \/ queue'[main'[w].slot].state = "none"
    /\ \A t \in Threads : thread'[t].pc = "to_queued" => thread'[t] = thread[t]

LEMMA StopDoes ==
    ASSUME ShapeInv, NEW w \in Worker, Stop(w), UNCHANGED <<events, ingress, sweep>>
    PROVE  MainDoes(w)
<1>1. \A t \in Threads : thread'[t].pc = "to_queued" => thread'[t] = thread[t]
  BY StopHands DEF Off
<1> QED
  BY <1>1, StopHands DEF MainDoes, Burying

LEMMA MainStepDoes ==
    ASSUME ShapeInv, NEW w \in Worker, MainStep(w)
    PROVE  MainDoes(w)
<1> USE DEF ShapeInv, Types
<1> DEFINE s == main[w].slot
           d == main[w].slot[1]
<1>0. /\ main[w].pc \in Leasing \cup Burying /\ s \in Slot /\ d \in Delivery
      /\ main[w].pc \in Leasing => queue[s].state = "leased"
  <2>1. main[w].pc \in Leasing \cup Burying
    BY DEF MainStep, Ack, Defer, Nack, Bury, BuryDead, Unclaim, Notify, Leasing, Burying
  <2>2. s \in Slot /\ (main[w].pc \in Leasing => queue[s].state = "leased")
    BY <2>1 DEF HandsInv, WellHeld, Leasing, Burying
  <2> QED
    BY <2>1, <2>2, Slots
<1>1. CASE Ack(w) \/ Defer(w) \/ Nack(w)
  <2>1. /\ UNCHANGED <<events, ingress, sweep, thread>> /\ main[w].pc \in Leasing
    BY <1>1 DEF Ack, Defer, Nack, Leasing
  <2>2. /\ \A r \in Slot : queue'[r].state # "none" => queue[r].state # "none"
        /\ \A v \in Worker \ {w} : main'[v] = main[v]
        /\ \/ main'[w].pc = "idle" /\ main'[w].slot = NoSlot
           \/ main'[w].pc = "bury" /\ main'[w].slot = s /\ queue'[s].state = "none"
    BY <1>0, <1>1, <2>1 DEF Ack, Defer, Nack, Rest, Goto, MainsOK, MainRec, QueueOK, Message, NoMessage
  <2> QED
    BY <2>1, <2>2 DEF MainDoes, Burying
<1>2. CASE Bury(w) \/ (BuryDead(w) /\ Legal(d, "dead_letter")) \/ Unclaim(w) \/ Notify(w)
  <2>1. /\ UNCHANGED <<queue, ingress, sweep, thread>> /\ main[w].pc \in Burying
        /\ \/ UNCHANGED events
           \/ /\ main[w].pc \in {"bury", "dead"}
              /\ \E to \in {"failed", "dead_letter"} : MovesTo(d, to)
    BY <1>0, <1>2 DEF Bury, BuryDead, Unclaim, Notify, Burying, MovesTo, db
  <2>2. /\ \A v \in Worker \ {w} : main'[v] = main[v]
        /\ main'[w].slot = s \/ (main'[w].pc = "idle" /\ main'[w].slot = NoSlot)
    BY <1>0, <1>2 DEF Bury, BuryDead, Unclaim, Notify, Rest, Goto, MainsOK, MainRec
  <2> QED
    BY <2>1, <2>2 DEF MainDoes
<1>3. CASE BuryDead(w) /\ ~Legal(d, "dead_letter")
  BY <1>3, StopDoes DEF BuryDead
<1> QED
  BY <1>1, <1>2, <1>3 DEF MainStep

LEMMA LapseDoes ==
    ASSUME ShapeInv, NEW w \in Worker, WorkerCrash(w) \/ Timeout(w) \/ AttemptTimeout(w)
    PROVE  MainDoes(w)
<1> USE DEF ShapeInv, Types, db, outcomes, past
<1>1. CASE WorkerCrash(w)
  BY <1>1, StopDoes DEF WorkerCrash
<1>2. CASE Timeout(w) \/ AttemptTimeout(w)
  <2>1. /\ Own(w) \in Threads /\ Orphan(w) \in Threads /\ Orphan(w) # Own(w)
        /\ thread[Own(w)].pc = "analyze" /\ UNCHANGED <<events, ingress, sweep, queue>>
    BY <1>2 DEF Timeout, AttemptTimeout, Own, Orphan, Threads
  <2>2. main[w].pc = "join"
    BY <2>1 DEF AwaitedInv, Awaited, Own
  <2>3. \A t \in Threads : thread'[t].pc = "to_queued" => thread'[t] = thread[t]
    BY <1>2, <2>1 DEF Timeout, AttemptTimeout, ThreadsOK, ThreadRec, Off
  <2>4. /\ \A v \in Worker \ {w} : main'[v] = main[v]
        /\ main'[w].slot = main[w].slot /\ main'[w].pc \notin Burying
    BY <1>2, <2>2 DEF Timeout, AttemptTimeout, Goto, MainsOK, MainRec, Burying
  <2> QED
    BY <2>1, <2>3, <2>4 DEF MainDoes
<1> QED
  BY <1>1, <1>2

-----------------------------------------------------------------------------
\* Events that are not about to be requeued may be dead-lettered.
Doomed(e) == /\ ~InSweep(e)
             /\ \A t \in Threads : thread[t].pc = "to_queued" => thread[t].d # e

LEMMA LifeKept ==
    ASSUME ShapeInv, LifeInv, UNCHANGED sweep,
           \A e \in Delivery : St(e)' = "dead_letter" => St(e) = "dead_letter" \/ Doomed(e),
           \A t \in Threads : thread'[t].pc = "to_queued" =>
             thread'[t] = thread[t] \/ events'[thread'[t].d].state # "dead_letter"
    PROVE  LifeInv'
<1>1. ASSUME NEW t \in Threads, thread'[t].pc = "to_queued", thread'[t] = thread[t]
      PROVE  events'[thread'[t].d].state # "dead_letter"
  <2>1. thread[t].d \in Delivery /\ thread[t].pc = "to_queued"
    BY <1>1 DEF ShapeInv, AwaitedInv, Awaited
  <2> QED
    BY <1>1, <2>1 DEF LifeInv, Doomed, St
<1>2. ASSUME NEW r \in sweep.todo PROVE events'[r.d].state # "dead_letter"
  <2>1. r.d \in Delivery /\ InSweep(r.d)
    BY DEF ShapeInv, Types, SweepOK, SweepRec, SweepRow, InSweep
  <2> QED
    BY <2>1 DEF LifeInv, Doomed, St
<1>3. sweep.pc \in Holding \ {"note"} => events'[sweep.d].state # "dead_letter"
  <2>1. sweep.pc \in Holding => sweep.d \in Delivery /\ InSweep(sweep.d)
    BY DEF ShapeInv, RecordedInv, InSweep
  <2> QED
    BY <2>1 DEF LifeInv, Doomed, St
<1> QED
  BY <1>1, <1>2, <1>3 DEF LifeInv, St

LEMMA QuietLife ==
    ASSUME ShapeInv, CareInv, UNCHANGED <<events, sweep>>,
           \A t \in Threads : thread'[t].pc = "to_queued" =>
             thread'[t] = thread[t] \/ events[thread'[t].d].state # "dead_letter"
    PROVE  LifeInv' /\ Settled
<1>1. Settled
  BY EventsStay DEF ShapeInv, Types
<1>2. LifeInv'
  BY LifeKept DEF CareInv, St
<1> QED
  BY <1>1, <1>2

LEMMA IngressLife ==
    ASSUME CareInv, IngressStep \/ IngressCrash \/ \E d \in Delivery : Age(d)
    PROVE  LifeInv' /\ Settled
<1> USE DEF CareInv, ShapeInv, Types
<1>1. UNCHANGED <<sweep, thread>>
  BY DEF IngressStep, Receive, Schedule, IngressCrash, Age, OnlyEvents
<1>2. ASSUME NEW d \in Delivery, Beside(d), St(d)' = St(d) \/ (St(d) = "absent" /\ St(d)' = "received")
      PROVE  LifeInv' /\ Settled
  <2>1. \A e \in Delivery : St(e)' = "dead_letter" => St(e) = "dead_letter"
    BY <1>2 DEF Beside
  <2>2. Settled
    BY <1>2 DEF Settled, Beside, Terminal
  <2> QED
    BY <1>1, <2>1, <2>2, LifeKept
<1>3. ASSUME NEW d \in Hook, NEW k \in Key, Receive(d, k) PROVE LifeInv' /\ Settled
  <2>1. d \in Delivery /\ Records(d, k)
    BY <1>3 DEF Delivery, Records, Receive
  <2>2. Beside(d) /\ St(d) = "absent" /\ St(d)' = "received"
    BY <2>1, RowRecords DEF Records
  <2> QED
    BY <1>2, <2>1, <2>2
<1>4. ASSUME NEW d \in Delivery, Age(d) PROVE LifeInv' /\ Settled
  <2>1. Ages(d)
    BY <1>4 DEF Ages, Age
  <2> QED
    BY <1>2, <2>1, RowAgesOrCounts
<1>5. CASE UNCHANGED events
  BY <1>1, <1>5, QuietLife
<1> QED
  BY <1>3, <1>4, <1>5 DEF IngressStep, Schedule, IngressCrash, db

LEMMA MainLife ==
    ASSUME CareInv, NEW w \in Worker, MainDoes(w)
    PROVE  LifeInv' /\ Settled
<1> USE DEF CareInv, ShapeInv, Types
<1> DEFINE d == main[w].slot[1]
<1>1. CASE UNCHANGED events
  BY <1>1, QuietLife DEF MainDoes
<1>2. ASSUME main[w].pc \in {"bury", "dead"}, NEW to \in {"failed", "dead_letter"}, MovesTo(d, to)
      PROVE  LifeInv' /\ Settled
  <2>1. Beside(d) /\ Settled
    BY <1>2, MovesSettle
  <2>2. d \in Delivery
    BY <1>2 DEF MovesTo
  <2>3. ~InSweep(d)
    <3>1. InWork(d)
      BY DEF InWork
    <3> QED
      BY <2>2, <3>1 DEF Custody, OnePlace, Loose
  <2>4. ASSUME NEW t \in Threads, thread[t].pc = "to_queued", thread[t].d = d PROVE FALSE
    <3>1. t[1] \in Worker /\ main[t[1]].pc = "join" /\ main[t[1]].slot[1] = d
      BY <2>4 DEF AwaitedInv, Awaited, Late, Threads
    <3>2. t[1] = w
      BY <3>1 DEF Custody, OneWorker
    <3> QED
      BY <1>2, <3>1, <3>2
  <2>5. Doomed(d)
    BY <2>3, <2>4 DEF Doomed
  <2>6. \A e \in Delivery : St(e)' = "dead_letter" => St(e) = "dead_letter" \/ Doomed(e)
    BY <2>1, <2>5 DEF Beside
  <2> QED
    BY <2>1, <2>6, LifeKept DEF MainDoes
<1> QED
  BY <1>1, <1>2 DEF MainDoes

LEMMA ThreadLife ==
    ASSUME CareInv, NEW t \in Threads, ThreadDoes(t)
    PROVE  LifeInv' /\ Settled
<1> USE DEF CareInv, ShapeInv, Types
<1> DEFINE d == thread[t].d
<1>1. d \in Delivery /\ UNCHANGED sweep
  BY DEF ThreadDoes, AwaitedInv, Awaited
<1>2. ASSUME NEW u \in Threads, thread'[u].pc = "to_queued"
      PROVE  thread'[u] = thread[u] \/ (UNCHANGED events /\ St(thread'[u].d) # "dead_letter")
  BY <1>2 DEF ThreadDoes, Terminal, Off
<1>3. CASE UNCHANGED events
  BY <1>1, <1>2, <1>3, QuietLife DEF St
<1>4. ASSUME NEW e \in Delivery, Beside(e), Settled, ~UNCHANGED events,
             St(e)' = "dead_letter" => St(e) = "dead_letter"
      PROVE  LifeInv' /\ Settled
  <2>1. \A f \in Delivery : St(f)' = "dead_letter" => St(f) = "dead_letter"
    BY <1>4 DEF Beside
  <2> QED
    BY <1>1, <1>2, <1>4, <2>1, LifeKept
<1>5. PICK c \in Delivery : c = thread[t].d
  BY <1>1
<1>6. CASE Counts(c)
  <2>1. Beside(c) /\ St(c)' = St(c)
    BY <1>6, RowAgesOrCounts
  <2>2. Settled
    BY <2>1 DEF Settled, Beside
  <2> QED
    BY <1>3, <1>4, <2>1, <2>2
<1>7. ASSUME NEW to \in Working, MovesTo(c, to), to = "queued" => Revivable(t)
      PROVE  LifeInv' /\ Settled
  <2>1. St(c) # "done"
    BY <1>7, GraphIs DEF MovesTo, Legal, EventsOK, Event, St
  <2>2. thread[t].pc = "to_queued" => St(c) # "dead_letter"
    BY <1>5 DEF LifeInv
  <2>3. to = "queued" => St(c) \notin Terminal
    BY <1>5, <1>7, <2>1, <2>2 DEF Revivable, Terminal
  <2>4. Beside(c) /\ Settled /\ St(c)' = to
    BY <1>7, <2>3, MovesSettle
  <2>5. to # "dead_letter"
    BY DEF Working
  <2> QED
    BY <1>3, <1>4, <2>4, <2>5
<1> QED
  BY <1>3, <1>5, <1>6, <1>7 DEF ThreadDoes

LEMMA SweepLife ==
    ASSUME CareInv, SweeperDoes
    PROVE  LifeInv' /\ Settled
<1> USE DEF CareInv, ShapeInv, Types
<1>0. UNCHANGED <<main, thread>>
  BY DEF SweeperDoes
<1>1. \A r \in sweep.todo : r.d \in Delivery /\ St(r.d) # "dead_letter"
  BY DEF SweepOK, SweepRec, SweepRow, LifeInv
<1>2. ASSUME NEW t \in Threads, thread[t].pc = "to_queued"
      PROVE  thread[t].d \in Delivery /\ ~InSweep(thread[t].d)
  <2>1. thread[t].d \in Delivery /\ InWork(thread[t].d)
    BY <1>2 DEF AwaitedInv, Awaited, Late, Threads, InWork
  <2> QED
    BY <2>1 DEF Custody, OnePlace, Loose
<1>3. CASE Reads
  <2>1. UNCHANGED events /\ Settled
    BY <1>3, EventsStay DEF Reads
  <2>2. \A r \in StaleRows : St(r.d) # "dead_letter"
    BY StaleRowIs DEF Stale, Active, Terminal
  <2> QED
    BY <1>0, <1>3, <2>1, <2>2 DEF Reads, LifeInv, Holding, St
<1>4. CASE Books
  <2>1. PICK d : d = sweep'.d /\ Records(d, sweep.key)
    BY <1>4 DEF Books
  <2>2. Beside(d) /\ St(d)' = "received" /\ St(d) = "absent" /\ d \in Delivery
    BY <2>1, RowRecords DEF Records
  <2>3. \A e \in Delivery : St(e) # "dead_letter" => events'[e].state # "dead_letter"
    BY <2>2 DEF Beside, St
  <2>4. events'[sweep'.d].state = "received"
    BY <2>1, <2>2 DEF St
  <2>5. Settled
    BY <2>2 DEF Settled, Beside, Terminal
  <2> QED
    BY <1>0, <1>1, <1>2, <1>4, <2>3, <2>4, <2>5 DEF Books, LifeInv, St
<1>5. CASE Puts
  <2>1. UNCHANGED events /\ Settled
    BY <1>5, EventsStay DEF Puts
  <2> QED
    BY <1>0, <1>5, <2>1 DEF Puts, LifeInv, St
<1>6. CASE Goes
  <2>1. sweep'.pc \in Holding \ {"note"} =>
          \/ sweep'.d = sweep.d /\ sweep.pc \in Holding \ {"note"}
          \/ \E r \in sweep.todo : sweep'.d = r.d
    BY <1>6 DEF Goes
  <2>2. CASE UNCHANGED events
    <3>1. Settled
      BY <2>2, EventsStay
    <3> QED
      BY <1>0, <1>1, <1>6, <2>1, <2>2, <3>1 DEF Goes, LifeInv, St
  <2>3. ASSUME NEW to \in {"queued", "failed", "dead_letter"}, MovesTo(sweep.d, to),
               sweep.pc \in Holding, to = "queued" => sweep.pc = "requeue",
               to = "dead_letter" => sweep.pc = "dead" /\ sweep'.pc = "note"
        PROVE  LifeInv' /\ Settled
    <3>1. PICK d \in Delivery : d = sweep.d
      BY <2>3 DEF MovesTo
    <3>2. St(d) # "done"
      BY <2>3, <3>1, GraphIs DEF MovesTo, Legal, EventsOK, Event, St
    <3>3. to = "queued" => St(d) \notin Terminal
      BY <2>3, <3>1, <3>2 DEF LifeInv, Holding, Terminal
    <3>4. Beside(d) /\ Settled /\ St(d)' = to
      BY <2>3, <3>1, <3>3, MovesSettle
    <3>5. InSweep(d) /\ \A r \in sweep.todo : r.d # d
      BY <2>3, <3>1 DEF InSweep, ReadInv
    <3>6. \A e \in Delivery : e # d /\ St(e) # "dead_letter" => events'[e].state # "dead_letter"
      BY <3>4 DEF Beside, St
    <3>7. \A t \in Threads : thread'[t].pc = "to_queued" => events'[thread'[t].d].state # "dead_letter"
      BY <1>0, <1>2, <3>5, <3>6 DEF LifeInv
    <3>8. \A r \in sweep'.todo : events'[r.d].state # "dead_letter"
      BY <1>1, <1>6, <3>5, <3>6 DEF Goes
    <3>9. sweep'.pc \in Holding \ {"note"} => events'[sweep'.d].state # "dead_letter"
      <4>1. to # "dead_letter" => events'[d].state # "dead_letter"
        BY <3>4 DEF St
      <4> QED
        BY <1>1, <2>1, <2>3, <3>1, <3>5, <3>6, <4>1
    <3> QED
      BY <3>4, <3>7, <3>8, <3>9 DEF LifeInv, St
  <2> QED
    BY <1>6, <2>2, <2>3 DEF Goes
<1> QED
  BY <1>3, <1>4, <1>5, <1>6 DEF SweeperDoes

LEMMA StepKeepsCare == ASSUME overtaken' = 0 PROVE CareInv /\ [Next]_vars => CareInv' /\ Settled
<1> SUFFICES ASSUME CareInv, [Next]_vars PROVE CareInv' /\ Settled
  OBVIOUS
<1>0. ShapeInv /\ ReadInv /\ Custody /\ ShapeInv' /\ ReadInv'
  BY StepKeepsShape DEF CareInv
<1>1. CASE IngressStep
  BY <1>0, <1>1, IngressCustody, IngressLife DEF CareInv
<1>2. CASE IngressCrash \/ \E d \in Delivery : Age(d)
  <2>1. Lessens
    BY <1>2 DEF IngressCrash, Age, OnlyEvents, db, Lessens, InSweep
  <2> QED
    BY <1>0, <1>2, <2>1, LessKeepsCustody, IngressLife DEF CareInv
<1>3. ASSUME NEW s \in Slot, PoisonGuard(s) PROVE CareInv' /\ Settled
  <2>1. Lessens
    BY <1>0, <1>3 DEF PoisonGuard, Lessens, InSweep, ShapeInv, Types, QueueOK, NoMessage
  <2> QED
    BY <1>0, <1>3, <2>1, LessKeepsCustody, QuietLife DEF PoisonGuard, CareInv
<1>4. ASSUME NEW s \in Slot, NEW w \in Worker, Lease(w, s) PROVE CareInv' /\ Settled
  <2>1. \A t \in Threads : thread'[t].pc = "to_queued" => thread'[t] = thread[t]
    <3> DEFINE fresh == [Off EXCEPT !.pc = "check", !.d = s[1]]
    <3>1. fresh.pc = "check" /\ thread' = [thread EXCEPT ![Own(w)] = fresh]
      BY <1>4 DEF Lease, Off
    <3> HIDE DEF fresh
    <3> QED
      BY <1>0, <3>1 DEF ShapeInv, Types, ThreadsOK
  <2> QED
    BY <1>0, <1>4, <2>1, LeaseCustody, QuietLife DEF Lease, CareInv
<1>5. ASSUME NEW w \in Worker, MainDoes(w) PROVE CareInv' /\ Settled
  <2>1. Lessens
    BY <1>5 DEF MainDoes, Lessens, InSweep
  <2> QED
    BY <1>0, <1>5, <2>1, LessKeepsCustody, MainLife DEF CareInv
<1>6. ASSUME NEW t \in Threads, ThreadDoes(t) PROVE CareInv' /\ Settled
  <2>1. \A w \in Worker : main'[w].slot = main[w].slot /\ (main'[w].pc \in Burying => main[w].pc \in Burying)
    BY <1>0, <1>6 DEF ThreadDoes, ShapeInv, Types, MainsOK, MainRec, Burying
  <2>2. Lessens
    BY <1>6, <2>1 DEF ThreadDoes, Lessens, InSweep
  <2> QED
    BY <1>0, <1>6, <2>2, LessKeepsCustody, ThreadLife DEF CareInv
<1>7. CASE SweeperDoes
  BY <1>0, <1>7, SweepCustody, SweepLife DEF CareInv
<1>8. CASE UNCHANGED vars
  <2>1. SweeperDoes
    BY <1>0, <1>8 DEF vars, db, outcomes, past, SweeperDoes, Goes, ShapeInv, Types, TablesOK, SweepOK
  <2> QED
    BY <1>7, <2>1
<1> QED
  BY <1>0, <1>1, <1>2, <1>3, <1>4, <1>5, <1>6, <1>7, <1>8, MainStepDoes, LapseDoes, ThreadStepDoes, SweepStepDoes
  DEF Next

LEMMA CareInit == Init => CareInv
<1> SUFFICES ASSUME Init PROVE CareInv
  OBVIOUS
<1>1. ShapeInv /\ ReadInv
  BY ShapeInit
<1>2. /\ \A w \in Worker : main[w].slot = NoSlot /\ main[w].pc = "idle"
      /\ \A s \in Slot : queue[s].state = "none"
      /\ \A t \in Threads : thread[t].pc = "off"
      /\ ingress = {} /\ sweep.todo = {} /\ sweep.pc = "idle"
  BY DEF Init, NoMessage, Off
<1> QED
  BY <1>1, <1>2 DEF CareInv, Custody, Emptied, OneMessage, OneWorker, WorkersMessage, OnePlace, InSweep,
                    LifeInv, Burying, Holding

\* Only the beginning of a pass counts, and it leaves the rows alone; nothing takes back
\* that an analysis has been abandoned.
LEMMA HistoryGrows ==
    ASSUME ShapeInv, ReadInv, [Next]_vars
    PROVE  /\ overtaken' = overtaken \/ (overtaken' # 0 /\ UNCHANGED events)
           /\ abandoned => abandoned'
<1> USE DEF past, outcomes
<1>1. CASE IngressStep \/ IngressCrash \/ \E d \in Delivery : Age(d)
  BY <1>1 DEF IngressStep, Receive, Schedule, IngressCrash, Age, OnlyEvents
<1>2. CASE \E s \in Slot : PoisonGuard(s) \/ \E w \in Worker : Lease(w, s)
  BY <1>2 DEF PoisonGuard, Lease
<1>3. CASE \E w \in Worker : MainStep(w) \/ WorkerCrash(w) \/ Timeout(w) \/ AttemptTimeout(w)
  BY <1>3 DEF MainStep, Ack, Defer, Nack, Bury, BuryDead, Unclaim, Notify, WorkerCrash, Timeout, AttemptTimeout
<1>4. CASE \E t \in Threads : ThreadStep(t)
  BY <1>4, ThreadStepDoes DEF ThreadDoes
<1>5. CASE SweepStart
  <2>1. overtaken \in Nat
    BY DEF ShapeInv, Types, TablesOK
  <2>2. UNCHANGED <<events, abandoned>> /\ (overtaken' = overtaken \/ overtaken' = overtaken + 1)
    BY <1>5 DEF SweepStart, db
  <2> QED
    BY <2>1, <2>2
<1>6. CASE SweepStep \/ SweepCrash
  <2>1. UNCHANGED <<overtaken, abandoned>>
    <3>1. CASE SweepNextRow \/ SweepKeys \/ SweepEnd
      BY <3>1 DEF SweepNextRow, SweepKeys, SweepEnd, OnlySweep
    <3>2. ASSUME NEW from, NEW to, NEW pc, SweepTransition(from, to, pc) PROVE UNCHANGED <<overtaken, abandoned>>
      BY <3>2 DEF SweepTransition, SweepsEvents
    <3>3. CASE SweepNotify \/ SweepEnqueue \/ SweepFlight \/ SweepEscalate \/ SweepEnqueueRecon \/ SweepCrash
      BY <3>3 DEF SweepNotify, SweepEnqueue, SweepFlight, SweepEscalate, SweepEnqueueRecon, SweepCrash
    <3>4. CASE (\E k \in Key : SweepKey(k)) \/ (\E d \in Recon : SweepRecord(d))
      BY <3>4 DEF SweepKey, SweepRecord, SweepsEvents
    <3> QED
      BY <1>6, <3>1, <3>2, <3>3, <3>4 DEF SweepStep
  <2> QED
    BY <2>1
<1>7. CASE UNCHANGED vars
  BY <1>7 DEF vars
<1> QED
  BY <1>1, <1>2, <1>3, <1>4, <1>5, <1>6, <1>7 DEF Next

(***************************************************************************)
(* A finished event stays finished (state.py:26-36, supervisor.py:24-33):  *)
(* no redelivery, sweep or late thread of an abandoned analysis revives    *)
(* it, as long as no pass has taken up a row with a message outstanding.   *)
(***************************************************************************)
CalmCare == ShapeInv /\ ReadInv /\ (overtaken = 0 => CareInv)

THEOREM TerminalsAreFinal == Spec => TerminalIsFinal
<1>1. CalmCare /\ [Next]_vars => CalmCare'
  BY StepKeepsShape, StepKeepsCare, HistoryGrows DEF CalmCare
<1>2. ASSUME CalmCare, [Next]_vars
      PROVE  [overtaken = 0 => \A d \in Delivery : St(d) \in Terminal => events'[d].state = St(d)]_vars
  <2>1. CASE overtaken = 0 /\ overtaken' = 0
    BY <1>2, <2>1, StepKeepsCare DEF CalmCare, Settled, St
  <2>2. CASE overtaken = 0 /\ overtaken' # 0
    BY <1>2, <2>2, HistoryGrows DEF CalmCare, St
  <2> QED
    BY <2>1, <2>2
<1>3. Init => CalmCare
  BY ShapeInit, CareInit DEF CalmCare
<1> QED
  BY <1>1, <1>2, <1>3, PTL DEF Spec, TerminalIsFinal
=============================================================================
