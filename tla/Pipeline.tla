------------------------------ MODULE Pipeline ------------------------------
(***************************************************************************)
(* The life of a webhook event through the three processes of the service: *)
(* ingress records and enqueues it, workers lease, claim and analyse it,   *)
(* the sweeper revives or dead-letters what got stuck and reconciles open  *)
(* pull requests with no finished review.  They share the events, claims   *)
(* and reconcile tables of reliability.db and the messages of queue.db.    *)
(*                                                                         *)
(* One action is one committed statement of StateStore or DurableQueue, or *)
(* one call to GitHub; a process may crash between any two.  A queue call  *)
(* is one step here: DurableQueue shows that a lease in force is nobody    *)
(* else's.  Clocks are abstracted to what they order: a lease lapses only  *)
(* when its worker is gone (TASK < VISIBILITY, worker.py:193), a row grows *)
(* stale only while nobody works on it (TASK < STALE_DEADLINE), and a pass *)
(* of the sweeper may begin at any moment.                                 *)
(*                                                                         *)
(* transition() reads the row and writes it with WHERE state=<read>: as    *)
(* PROCESSING, DONE and DEAD_LETTER have one predecessor each, a lost race *)
(* raises exactly as if the other write had come first.                    *)
(***************************************************************************)
EXTENDS Naturals, FiniteSets

CONSTANTS Worker,        \* worker replicas
          Hook,          \* delivery ids of webhooks
          Recon,         \* delivery ids reconcile:<key>:<seq> of the sweeper
          Key,           \* business keys repo#number@sha:command
          Watched,       \* keys of open PRs the sweeper reconciles
          NoDelivery, NoKey,
          MaxAttempts,   \* RELIABILITY_MAX_ATTEMPTS
          MaxCycles,     \* RELIABILITY_SWEEP_MAX_CYCLES
          TaskTimeouts,  \* may an analysis outlive TASK_TIMEOUT?
          MaxCrashes,    \* bound: crashes of any process
          MaxOvertaken,  \* bound: passes that find a stale row's message outstanding
          MaxCopies      \* bound: messages of one delivery in the queue

ASSUME PipelineAssumption ==
    /\ Hook \cap Recon = {}
    /\ NoDelivery \notin Hook \cup Recon
    /\ NoKey \notin Key
    /\ Watched \subseteq Key
    /\ MaxAttempts \in Nat \ {0}
    /\ MaxCycles \in Nat
    /\ TaskTimeouts \in BOOLEAN
    /\ MaxCrashes \in Nat /\ MaxOvertaken \in Nat
    /\ MaxCopies \in Nat \ {0}

VARIABLES
    events,     \* table events; state "absent" when there is no row
    claims,     \* table claims: the delivery that holds each key
    cycles,     \* table reconcile: cycles spent on each key
    queue,      \* table messages: the copies of each delivery
    ingress,    \* deliveries recorded by a webhook call and not yet enqueued
    main,       \* main thread of each worker: handle_lease
    thread,     \* threads running process(): a worker's own and its orphan
    sweep,      \* the sweeper's pass
    returned,   \* history: keys an analysis of which has returned to process()
    comments,   \* GitHub: keys with a visible failure or escalation comment
    failures,   \* history: deliveries with a failed attempt
    crashes,    \* crashes so far
    overtaken,  \* history: passes that have read a stale row with a message outstanding
    abandoned   \* history: has an analysis been abandoned to an orphan thread?

db == <<events, claims, cycles, queue>>
outcomes == <<returned, comments>>
past == <<failures, crashes, overtaken, abandoned>>
vars == <<db, ingress, main, thread, sweep, outcomes, past>>

Delivery == Hook \cup Recon
Slot == Delivery \X (1..MaxCopies)
Threads == Worker \X {"own", "orphan"}
Terminal == {"done", "dead_letter"}
Allowed == [absent      |-> {},
            received    |-> {"queued", "failed"},
            queued      |-> {"processing", "failed"},
            processing  |-> {"done", "failed"},
            failed      |-> {"queued", "dead_letter"},
            done        |-> {},
            dead_letter |-> {"queued"}]
State == DOMAIN Allowed

\* attempts saturates at MaxAttempts, the only value it is compared with.
Event == [state : State, key : Key \cup {NoKey}, attempts : 0..MaxAttempts, fresh : BOOLEAN]
Message == [state : {"none", "ready", "leased"}, receives : 0..MaxAttempts]
NoMessage == [state |-> "none", receives |-> 0]
NoSlot == <<NoDelivery, 0>>
Off == [pc |-> "off", d |-> NoDelivery, holder |-> NoDelivery]

MainPc == {"idle", "join", "ack", "nack", "defer", "bury", "dead", "unclaim", "notify"}
ThreadPc == {"off", "check", "drive", "to_queued", "to_processing", "to_done", "driven", "claim",
             "steal", "ensure", "start", "count", "analyze", "late", "done", "failed",
             "free_ack", "free_nack"}
SweepPc == {"idle", "rows", "fail_dead", "dead", "note", "fail_retry", "requeue", "put",
            "keys", "flight", "record", "put_recon", "escalate"}
SweepRow == [d : Delivery, state : State \ Terminal, over : BOOLEAN]

\* The tables of both databases and the position of every process are well typed; a
\* recorded event always has its business key (state.py:91-119).
TypeOK ==
    /\ events \in [Delivery -> Event]
    /\ \A d \in Delivery : events[d].state # "absent" => events[d].key \in Key
    /\ claims \in [Key -> Delivery \cup {NoDelivery}]
    /\ cycles \in [Key -> Nat]
    /\ queue \in [Slot -> Message]
    /\ ingress \subseteq Hook
    /\ main \in [Worker -> [pc : MainPc, slot : Slot \cup {NoSlot}]]
    /\ thread \in [Threads -> [pc : ThreadPc, d : Delivery \cup {NoDelivery},
                              holder : Delivery \cup {NoDelivery}]]
    /\ sweep \in [pc : SweepPc, todo : SUBSET SweepRow, d : Delivery \cup {NoDelivery},
                  keys : SUBSET Watched, key : Key \cup {NoKey}]
    /\ returned \subseteq Key /\ comments \subseteq Key
    /\ failures \subseteq Delivery
    /\ crashes \in Nat /\ overtaken \in Nat /\ abandoned \in BOOLEAN

St(d) == events[d].state
KeyOf(d) == events[d].key
LegalAlways(d, to) == TRUE   \* mutant: transition() checks nothing
Legal(d, to) == to \in Allowed[St(d)]
Moved(d, to) == [events EXCEPT ![d].state = to, ![d].fresh = TRUE]
Recorded(d, k) == [events EXCEPT ![d] = [state |-> "received", key |-> k,
                                         attempts |-> 0, fresh |-> TRUE]]
Active(d) == St(d) \notin Terminal \cup {"absent"}
\* Mutant: already_done without its state filter.
AlreadyStarted(k) == \E d \in Delivery : St(d) \in {"processing", "done"} /\ KeyOf(d) = k
AlreadyDone(k) == \E d \in Delivery : St(d) = "done" /\ KeyOf(d) = k
\* Mutant: in_flight counts finished events too.
EverSeen(k) == \E d \in Delivery : St(d) # "absent" /\ KeyOf(d) = k
InFlight(k) == \E d \in Delivery : Active(d) /\ KeyOf(d) = k
Unclaimed(d) == IF claims[KeyOf(d)] = d
                THEN [claims EXCEPT ![KeyOf(d)] = NoDelivery]
                ELSE claims

\* enqueue() puts one more message of d into the queue.
Copies(d) == {c \in 1..MaxCopies : queue[<<d, c>>].state # "none"}
Enqueue(d) == \E c \in (1..MaxCopies) \ Copies(d) :
                /\ 1..(c - 1) \subseteq Copies(d)
                /\ queue' = [queue EXCEPT ![<<d, c>>] = [state |-> "ready", receives |-> 0]]

Init ==
    /\ events = [d \in Delivery |-> [state |-> "absent", key |-> NoKey,
                                     attempts |-> 0, fresh |-> TRUE]]
    /\ claims = [k \in Key |-> NoDelivery]
    /\ cycles = [k \in Key |-> 0]
    /\ queue = [s \in Slot |-> NoMessage]
    /\ ingress = {}
    /\ main = [w \in Worker |-> [pc |-> "idle", slot |-> NoSlot]]
    /\ thread = [t \in Threads |-> Off]
    /\ sweep = [pc |-> "idle", todo |-> {}, d |-> NoDelivery, keys |-> {}, key |-> NoKey]
    /\ returned = {} /\ comments = {} /\ failures = {}
    /\ crashes = 0 /\ overtaken = 0 /\ abandoned = FALSE

-----------------------------------------------------------------------------
(***************************************************************************)
(* Ingress.  record_received() commits before schedule() enqueues.  A      *)
(* second delivery of the same id finds the row and changes nothing.       *)
(***************************************************************************)
Receive(d, k) ==
    /\ St(d) = "absent"
    /\ events' = Recorded(d, k)
    /\ ingress' = ingress \cup {d}
    /\ UNCHANGED <<claims, cycles, queue, main, thread, sweep, outcomes, past>>

Schedule(d) ==
    /\ d \in ingress
    /\ Enqueue(d)
    /\ ingress' = ingress \ {d}
    /\ UNCHANGED <<events, claims, cycles, main, thread, sweep, outcomes, past>>

\* The call dies or its INSERT fails: what it has recorded is never enqueued.
IngressCrash ==
    /\ ingress # {}
    /\ crashes < MaxCrashes
    /\ crashes' = crashes + 1
    /\ ingress' = {}
    /\ UNCHANGED <<db, main, thread, sweep, outcomes, failures, overtaken, abandoned>>

-----------------------------------------------------------------------------
(***************************************************************************)
(* The worker's main thread: run_once and handle_lease.                    *)
(***************************************************************************)
Own(w) == <<w, "own">>
Orphan(w) == <<w, "orphan">>
Lease(w, s) ==
    /\ main[w].pc = "idle"
    /\ queue[s].state = "ready"
    /\ queue[s].receives < MaxAttempts
    /\ queue' = [queue EXCEPT ![s] = [state |-> "leased", receives |-> @.receives + 1]]
    /\ main' = [main EXCEPT ![w] = [pc |-> "join", slot |-> s]]
    /\ thread' = [thread EXCEPT ![Own(w)] = [Off EXCEPT !.pc = "check", !.d = s[1]]]
    /\ UNCHANGED <<events, claims, cycles, ingress, sweep, outcomes, past>>

\* The poison-guard of lease(): the message goes, the event is not told.
PoisonGuard(s) ==
    /\ \E w \in Worker : main[w].pc = "idle"
    /\ queue[s].state = "ready"
    /\ queue[s].receives >= MaxAttempts
    /\ queue' = [queue EXCEPT ![s] = NoMessage]
    /\ UNCHANGED <<events, claims, cycles, ingress, main, thread, sweep, outcomes, past>>

\* The main thread goes on to pc, or is done with its lease.
Goto(w, pc) == main' = [main EXCEPT ![w].pc = pc]
Rest(w) == main' = [main EXCEPT ![w] = [pc |-> "idle", slot |-> NoSlot]]

Ack(w) ==
    /\ main[w].pc = "ack"
    /\ queue' = [queue EXCEPT ![main[w].slot] = NoMessage]
    /\ Rest(w)
    /\ UNCHANGED <<events, claims, cycles, ingress, thread, sweep, outcomes, past>>

\* Backpressure: the receive is given back.
GivenBackNever(n) == n        \* mutant: a deferral counts as a receive
GivenBackTwice(n) == n - 2    \* mutant: and one too many comes back
GivenBack(n) == n - 1
Defer(w) ==
    /\ main[w].pc = "defer"
    /\ queue' = [queue EXCEPT ![main[w].slot] = [state |-> "ready", receives |-> GivenBack(@.receives)]]
    /\ Rest(w)
    /\ UNCHANGED <<events, claims, cycles, ingress, thread, sweep, outcomes, past>>

Nack(w) ==
    LET s == main[w].slot IN
    /\ main[w].pc = "nack"
    /\ failures' = failures \cup {s[1]}
    /\ \/ /\ queue[s].receives >= MaxAttempts
          /\ queue' = [queue EXCEPT ![s] = NoMessage]
          /\ Goto(w, "bury")
       \/ /\ queue[s].receives < MaxAttempts
          /\ queue' = [queue EXCEPT ![s].state = "ready"]
          /\ Rest(w)
    /\ UNCHANGED <<events, claims, cycles, ingress, thread, sweep, outcomes, crashes, overtaken, abandoned>>

\* A worker process ends: its lease lapses, its orphan thread dies with it.
Stop(w) ==
    /\ queue' = IF main[w].slot # NoSlot /\ main[w].pc \in {"join", "ack", "nack", "defer"}
                THEN [queue EXCEPT ![main[w].slot].state = "ready"]
                ELSE queue
    /\ Rest(w)
    /\ thread' = [thread EXCEPT ![Own(w)] = Off, ![Orphan(w)] = Off]

\* _drive_to_dead_letter: FAILED first, unless the event is terminal or failed.
Bury(w) ==
    LET d == main[w].slot[1] IN
    /\ main[w].pc = "bury"
    /\ \/ /\ ~Active(d)
          /\ Goto(w, "unclaim")
          /\ UNCHANGED events
       \/ /\ St(d) = "failed"
          /\ Goto(w, "dead")
          /\ UNCHANGED events
       \/ /\ Active(d) /\ Legal(d, "failed")
          /\ events' = Moved(d, "failed")
          /\ Goto(w, "dead")
    /\ UNCHANGED <<claims, cycles, queue, ingress, thread, sweep, outcomes, past>>

\* An IllegalTransition here escapes from run_forever and ends the process.
BuryDead(w) ==
    LET d == main[w].slot[1] IN
    /\ main[w].pc = "dead"
    /\ \/ /\ Legal(d, "dead_letter")
          /\ events' = Moved(d, "dead_letter")
          /\ Goto(w, "unclaim")
          /\ UNCHANGED <<queue, thread>>
       \/ /\ ~Legal(d, "dead_letter")
          /\ Stop(w)
          /\ UNCHANGED events
    /\ UNCHANGED <<claims, cycles, ingress, sweep, outcomes, past>>

Unclaim(w) ==
    /\ main[w].pc = "unclaim"
    /\ claims' = Unclaimed(main[w].slot[1])
    /\ Goto(w, "notify")
    /\ UNCHANGED <<events, cycles, queue, ingress, thread, sweep, outcomes, past>>

TellNobody(k) == comments   \* mutant: a refused comment is swallowed
Tell(k) == comments \cup {k}

Notify(w) ==
    /\ main[w].pc = "notify"
    /\ comments' = Tell(KeyOf(main[w].slot[1]))
    /\ Rest(w)
    /\ UNCHANGED <<db, ingress, thread, sweep, returned, past>>

\* The worker dies, or a call to GitHub raises out of run_forever.
WorkerCrash(w) ==
    /\ main[w].pc # "idle" \/ thread[Orphan(w)] # Off
    /\ crashes < MaxCrashes
    /\ crashes' = crashes + 1
    /\ failures' = failures \cup ({main[w].slot[1]} \cap Delivery)
    /\ Stop(w)
    /\ UNCHANGED <<events, claims, cycles, ingress, sweep, outcomes, overtaken, abandoned>>

(***************************************************************************)
(* run_with_timeout gives up on an analysis; its thread runs on, orphaned, *)
(* and takes process() with it at TASK_TIMEOUT.  Bound: one orphan of a    *)
(* worker at a time.                                                       *)
(***************************************************************************)
Timeout(w) ==
    /\ TaskTimeouts
    /\ thread[Own(w)].pc = "analyze"
    /\ thread[Orphan(w)] = Off
    /\ thread' = [thread EXCEPT ![Orphan(w)] = thread[Own(w)], ![Own(w)] = Off]
    /\ Goto(w, "nack")
    /\ abandoned' = TRUE
    /\ UNCHANGED <<db, ingress, sweep, outcomes, failures, crashes, overtaken>>

\* The gateway gives up first, at ATTEMPT_TIMEOUT: process() sees a failure,
\* and only the call to the provider is orphaned.
AttemptTimeout(w) ==
    /\ TaskTimeouts
    /\ thread[Own(w)].pc = "analyze"
    /\ thread[Orphan(w)] = Off
    /\ failures' = failures \cup {thread[Own(w)].d}
    /\ thread' = [thread EXCEPT ![Orphan(w)] = [thread[Own(w)] EXCEPT !.pc = "late"],
                                ![Own(w)].pc = "failed"]
    /\ abandoned' = TRUE
    /\ UNCHANGED <<db, ingress, main, sweep, outcomes, crashes, overtaken>>

-----------------------------------------------------------------------------
(***************************************************************************)
(* process(), in the worker's own thread or in an orphaned one.  Its       *)
(* result, or the exception it raises, reaches handle_lease only while the *)
(* main thread still waits for it.                                         *)
(***************************************************************************)
Proceed(t, pc) == thread' = [thread EXCEPT ![t].pc = pc] /\ UNCHANGED main
Return(t, pc) == /\ thread' = [thread EXCEPT ![t] = Off]
                 /\ IF t[2] = "own" THEN Goto(t[1], pc) ELSE UNCHANGED main
Raise(t) == Return(t, "nack") /\ UNCHANGED events

\* transition(to), then pc; or IllegalTransition.
Transition(t, to, pc) ==
    LET d == thread[t].d IN
    \/ Legal(d, to) /\ events' = Moved(d, to) /\ Proceed(t, pc)
    \/ ~Legal(d, to) /\ Raise(t)

OnlyEvents == UNCHANGED <<claims, cycles, queue, ingress, sweep, outcomes, past>>
Pure == UNCHANGED <<db, ingress, sweep, outcomes, past>>

\* already_done, unless the event is a reconcile (force).
Check(t) ==
    LET d == thread[t].d IN
    /\ thread[t].pc = "check"
    /\ Proceed(t, IF d \notin Recon /\ AlreadyDone(KeyOf(d)) THEN "drive" ELSE "claim")
    /\ Pure

\* _drive_to_done: a terminal event is left alone, otherwise QUEUED,
\* PROCESSING and DONE are entered in turn unless the row is already there.
DriveAnyway(t) == thread[t].pc = "drive" /\ Proceed(t, "to_queued") /\ Pure  \* mutant

Drive(t) ==
    /\ thread[t].pc = "drive"
    /\ IF St(thread[t].d) \in Terminal THEN Return(t, "ack") ELSE Proceed(t, "to_queued")
    /\ Pure

DriveTo(t, from, to, pc) ==
    /\ thread[t].pc = from
    /\ \/ St(thread[t].d) = to /\ Proceed(t, pc) /\ UNCHANGED events
       \/ St(thread[t].d) # to /\ Transition(t, to, pc)
    /\ OnlyEvents

\* Skipped: the caller acks although this event has done nothing itself.
DriveEnd(t) ==
    /\ thread[t].pc = "driven"
    /\ Return(t, "ack")
    /\ Pure

(***************************************************************************)
(* try_claim: INSERT ... ON CONFLICT DO NOTHING takes a free key; a key    *)
(* held by this very delivery is re-entrant; one whose holder is terminal  *)
(* is stolen by an UPDATE that names the holder read before, and another   *)
(* one makes the caller skip (and ack).                                    *)
(***************************************************************************)
LapsedAlways(h) == TRUE    \* mutant: a live holder is robbed
LapsedNever(h) == FALSE    \* mutant: a leaked claim blocks its key for ever
Lapsed(h) == St(h) \in Terminal

Claim(t) ==
    LET d == thread[t].d
        holder == claims[KeyOf(d)] IN
    /\ thread[t].pc = "claim"
    /\ \/ /\ holder \in {NoDelivery, d}
          /\ claims' = [claims EXCEPT ![KeyOf(d)] = d]
          /\ Proceed(t, "ensure")
       \/ /\ holder \in Delivery \ {d} /\ Lapsed(holder)
          /\ thread' = [thread EXCEPT ![t].pc = "steal", ![t].holder = holder]
          /\ UNCHANGED <<claims, main>>
       \/ /\ holder \in Delivery \ {d} /\ ~Lapsed(holder)
          /\ Return(t, "ack")
          /\ UNCHANGED claims
    /\ UNCHANGED <<events, cycles, queue, ingress, sweep, outcomes, past>>

\* The CAS on the old holder; a lost one starts try_claim over.
Steal(t) ==
    LET d == thread[t].d
        won == claims[KeyOf(d)] = thread[t].holder IN
    /\ thread[t].pc = "steal"
    /\ claims' = IF won THEN [claims EXCEPT ![KeyOf(d)] = d] ELSE claims
    /\ thread' = [thread EXCEPT ![t].pc = IF won THEN "ensure" ELSE "claim",
                                ![t].holder = NoDelivery]
    /\ UNCHANGED <<events, cycles, queue, ingress, main, sweep, outcomes, past>>

\* _ensure_processing: through QUEUED from RECEIVED and FAILED, then PROCESSING.
Ensure(t) ==
    LET d == thread[t].d IN
    /\ thread[t].pc = "ensure"
    /\ \/ St(d) = "processing" /\ Proceed(t, "count") /\ UNCHANGED events
       \/ St(d) \in {"received", "failed"} /\ Transition(t, "queued", "start")
       \/ St(d) \notin {"processing", "received", "failed"}
          /\ Proceed(t, "start") /\ UNCHANGED events
    /\ OnlyEvents

Start(t) == thread[t].pc = "start" /\ Transition(t, "processing", "count") /\ OnlyEvents

AtMost(n) == IF n > MaxAttempts THEN MaxAttempts ELSE n
Count(t) ==
    LET d == thread[t].d IN
    /\ thread[t].pc = "count"
    /\ events' = [events EXCEPT ![d].attempts = AtMost(@ + 1), ![d].fresh = TRUE]
    /\ Proceed(t, "analyze")
    /\ OnlyEvents

\* analyze(event) returns: pr-agent is through, whether or not it has published anything,
\* or route_and_fanout has started the chunks of a large /review,
AnalysisReturns(t) ==
    /\ thread[t].pc = "analyze"
    /\ returned' = returned \cup {KeyOf(thread[t].d)}
    /\ Proceed(t, "done")
    /\ UNCHANGED <<db, ingress, sweep, comments, past>>

\* or raises,
AnalysisFails(t) ==
    /\ thread[t].pc = "analyze"
    /\ failures' = failures \cup {thread[t].d}
    /\ Proceed(t, "failed")
    /\ UNCHANGED <<db, ingress, sweep, outcomes, crashes, overtaken, abandoned>>

\* or is held back by the gateway: the claim stays, the row stays PROCESSING.
AnalysisHeldBack(t) ==
    /\ thread[t].pc = "analyze"
    /\ Return(t, "defer")
    /\ Pure

\* The orphaned call ends, unseen.
LateCall(t) ==
    /\ thread[t].pc = "late"
    /\ thread' = [thread EXCEPT ![t] = Off]
    /\ UNCHANGED main
    /\ Pure

MarkDone(t) == thread[t].pc = "done" /\ Transition(t, "done", "free_ack") /\ OnlyEvents
MarkFailed(t) == thread[t].pc = "failed" /\ Transition(t, "failed", "free_nack") /\ OnlyEvents

Free(t, from, pc) ==
    /\ thread[t].pc = from
    /\ claims' = Unclaimed(thread[t].d)
    /\ Return(t, pc)
    /\ UNCHANGED <<events, cycles, queue, ingress, sweep, outcomes, past>>

-----------------------------------------------------------------------------
(***************************************************************************)
(* The sweeper: sweep() and the loop of sweeper_runner.  A pass works from *)
(* the rows its SELECT returned.                                           *)
(***************************************************************************)
\* Mutant: a row that was recorded and never enqueued is left out.
StaleOnceQueued(d) == Active(d) /\ St(d) # "received" /\ ~events[d].fresh
Stale(d) == Active(d) /\ ~events[d].fresh
InHand(d) == \/ d \in ingress
             \/ \E w \in Worker : main[w].slot[1] = d
Waiting(d) == Copies(d) # {} \/ InHand(d)

\* updated_at falls behind the stale deadline while nobody works on the event.
Age(d) ==
    /\ Active(d) /\ events[d].fresh
    /\ ~InHand(d)
    /\ events' = [events EXCEPT ![d].fresh = FALSE]
    /\ OnlyEvents
    /\ UNCHANGED <<main, thread>>

Quiet == [pc |-> "idle", todo |-> {}, d |-> NoDelivery, keys |-> {}, key |-> NoKey]
StaleRows == {[d |-> d, state |-> St(d), over |-> events[d].attempts >= MaxAttempts] :
                d \in {x \in Delivery : Stale(x)}}

(***************************************************************************)
(* A pass begins every SWEEP_INTERVAL, whatever else is going on.  It may  *)
(* find rows that only wait: the backlog is longer than the stale          *)
(* deadline, or the last pass has enqueued a QUEUED row, whose updated_at  *)
(* it leaves alone, and no worker has got to it yet.                       *)
(***************************************************************************)
Overtakes == \E r \in StaleRows : Waiting(r.d)
SweepStart ==
    /\ sweep = Quiet
    /\ sweep' = [Quiet EXCEPT !.pc = "rows", !.todo = StaleRows]
    /\ \/ Overtakes /\ overtaken < MaxOvertaken /\ overtaken' = overtaken + 1
       \/ ~Overtakes /\ UNCHANGED overtaken
    /\ UNCHANGED <<db, ingress, main, thread, outcomes, failures, crashes, abandoned>>
Sweeping(pc) == sweep' = [sweep EXCEPT !.pc = pc]
OnlySweep == UNCHANGED <<db, ingress, main, thread, outcomes, past>>
SweepsEvents == UNCHANGED <<claims, cycles, queue, ingress, main, thread, outcomes, past>>

\* The next row of the pass, dispatched on the columns the SELECT returned.
SweepNextRow ==
    /\ sweep.pc = "rows"
    /\ \E r \in sweep.todo :
         sweep' = [sweep EXCEPT
           !.todo = @ \ {r}, !.d = r.d,
           !.pc = CASE r.over /\ r.state = "failed"           -> "dead"
                    [] r.over /\ r.state # "failed"           -> "fail_dead"
                    [] ~r.over /\ r.state = "processing"      -> "fail_retry"
                    [] ~r.over /\ r.state = "queued"          -> "put"
                    [] ~r.over /\ r.state \in {"received", "failed"} -> "requeue"]
    /\ OnlySweep

\* transition(to), then pc; an IllegalTransition ends the sweeper process.
SweepTransition(from, to, pc) ==
    /\ sweep.pc = from
    /\ \/ /\ Legal(sweep.d, to)
          /\ events' = Moved(sweep.d, to)
          /\ Sweeping(pc)
       \/ /\ ~Legal(sweep.d, to)
          /\ sweep' = Quiet
          /\ UNCHANGED events
    /\ SweepsEvents

SweepNotify ==
    /\ sweep.pc = "note"
    /\ comments' = Tell(KeyOf(sweep.d))
    /\ Sweeping("rows")
    /\ UNCHANGED <<db, ingress, main, thread, returned, past>>

SweepEnqueue ==
    /\ sweep.pc = "put"
    /\ Enqueue(sweep.d)
    /\ Sweeping("rows")
    /\ UNCHANGED <<events, claims, cycles, ingress, main, thread, outcomes, past>>

\* The rows are done: list_open_prs() and the commands give the watched keys.
SweepKeys ==
    /\ sweep.pc = "rows" /\ sweep.todo = {}
    /\ sweep' = [Quiet EXCEPT !.pc = "keys", !.keys = Watched]
    /\ OnlySweep

SweepEnd ==
    /\ sweep.pc = "keys" /\ sweep.keys = {}
    /\ sweep' = Quiet
    /\ OnlySweep

NextKey == [sweep EXCEPT !.pc = "keys", !.key = NoKey, !.d = NoDelivery]

\* has_completed_review: the key is settled and its counter cleared.
SweepKey(k) ==
    /\ sweep.pc = "keys" /\ k \in sweep.keys
    /\ \/ /\ AlreadyDone(k)
          /\ cycles' = [cycles EXCEPT ![k] = 0]
          /\ sweep' = [NextKey EXCEPT !.keys = @ \ {k}]
       \/ /\ ~AlreadyDone(k)
          /\ sweep' = [sweep EXCEPT !.pc = "flight", !.key = k, !.keys = @ \ {k}]
          /\ UNCHANGED cycles
    /\ UNCHANGED <<events, claims, queue, ingress, main, thread, outcomes, past>>

\* in_flight, else bump_reconcile: reconcile, escalate once, then stay silent.
\* Bound: cycles saturates at MaxCycles + 1, beyond which nothing looks at it.
SweepFlight ==
    LET k == sweep.key IN
    /\ sweep.pc = "flight"
    /\ \/ /\ InFlight(k)
          /\ sweep' = NextKey
          /\ UNCHANGED cycles
       \/ /\ ~InFlight(k)
          /\ cycles' = [cycles EXCEPT ![k] = IF @ > MaxCycles THEN @ ELSE @ + 1]
          /\ sweep' = CASE cycles[k] < MaxCycles -> [sweep EXCEPT !.pc = "record"]
                        [] cycles[k] = MaxCycles -> [sweep EXCEPT !.pc = "escalate"]
                        [] OTHER                 -> NextKey
    /\ UNCHANGED <<events, claims, queue, ingress, main, thread, outcomes, past>>

SweepEscalate ==
    /\ sweep.pc = "escalate"
    /\ comments' = Tell(sweep.key)
    /\ sweep' = NextKey
    /\ UNCHANGED <<db, ingress, main, thread, returned, past>>

\* A new reconcile event, under an id that next_seq() has not given before.
SweepRecord(d) ==
    /\ sweep.pc = "record"
    /\ St(d) = "absent"
    /\ events' = Recorded(d, sweep.key)
    /\ sweep' = [sweep EXCEPT !.pc = "put_recon", !.d = d]
    /\ SweepsEvents

SweepEnqueueRecon ==
    /\ sweep.pc = "put_recon"
    /\ Enqueue(sweep.d)
    /\ sweep' = NextKey
    /\ UNCHANGED <<events, claims, cycles, ingress, main, thread, outcomes, past>>

\* The sweeper dies, or GitHub or a lost CAS raises out of sweep(): a fresh pass.
SweepCrash ==
    /\ sweep # Quiet
    /\ crashes < MaxCrashes
    /\ crashes' = crashes + 1
    /\ sweep' = Quiet
    /\ UNCHANGED <<db, ingress, main, thread, outcomes, failures, overtaken, abandoned>>

-----------------------------------------------------------------------------
IngressStep == \E d \in Hook : Schedule(d) \/ \E k \in Key : Receive(d, k)

MainStep(w) == \/ Ack(w) \/ Defer(w) \/ Nack(w)
               \/ Bury(w) \/ BuryDead(w) \/ Unclaim(w) \/ Notify(w)

Plan(t) == \/ Check(t)
           \/ Drive(t)
           \/ DriveTo(t, "to_queued", "queued", "to_processing")
           \/ DriveTo(t, "to_processing", "processing", "to_done")
           \/ DriveTo(t, "to_done", "done", "driven")
           \/ DriveEnd(t)
           \/ Claim(t) \/ Steal(t) \/ Ensure(t) \/ Start(t) \/ Count(t)
           \/ MarkDone(t) \/ MarkFailed(t)
           \/ Free(t, "free_ack", "ack") \/ Free(t, "free_nack", "nack")
Conclude(t) == AnalysisReturns(t) \/ AnalysisFails(t)
ThreadStep(t) == Plan(t) \/ Conclude(t) \/ AnalysisHeldBack(t) \/ LateCall(t)

SweepStep == \/ SweepNextRow
             \/ SweepTransition("fail_dead", "failed", "dead")
             \/ SweepTransition("dead", "dead_letter", "note")
             \/ SweepTransition("fail_retry", "failed", "requeue")
             \/ SweepTransition("requeue", "queued", "put")
             \/ SweepNotify \/ SweepEnqueue
             \/ SweepKeys \/ (\E k \in Key : SweepKey(k)) \/ SweepFlight
             \/ SweepEscalate \/ (\E d \in Recon : SweepRecord(d))
             \/ SweepEnqueueRecon \/ SweepEnd

Next == \/ IngressStep \/ IngressCrash
        \/ \E s \in Slot : PoisonGuard(s) \/ \E w \in Worker : Lease(w, s)
        \/ \E w \in Worker : MainStep(w) \/ WorkerCrash(w) \/ Timeout(w) \/ AttemptTimeout(w)
        \/ \E t \in Threads : ThreadStep(t)
        \/ \E d \in Delivery : Age(d)
        \/ SweepStart \/ SweepStep \/ SweepCrash

Spec == Init /\ [][Next]_vars

(***************************************************************************)
(* Fairness.  Threads and processes run, and compose restarts what dies.   *)
(* The queue serves the longest-waiting partition and its oldest message,  *)
(* so a message that is available again and again is leased.  The sweeper  *)
(* wakes up every SWEEP_INTERVAL and time passes.  Nothing obliges the     *)
(* gateway to let an analysis through, and orphaned threads may stop       *)
(* anywhere.                                                               *)
(***************************************************************************)
Fairness ==
    /\ WF_vars(\E d \in Hook : Schedule(d))
    /\ \A w \in Worker : WF_vars(MainStep(w) \/ ThreadStep(Own(w)))
    /\ \A s \in Slot : SF_vars(PoisonGuard(s) \/ \E w \in Worker : Lease(w, s))
    /\ \A d \in Delivery : WF_vars(Age(d))
    /\ WF_vars(SweepStart) /\ WF_vars(SweepStep)
FairSpec == Spec /\ Fairness

(***************************************************************************)
(* Every outage ends: the gateway may hold an event back any number of     *)
(* times, but an analysis that is tried again and again is let through.    *)
(* An event of an outage without end stays in flight, so the sweeper never *)
(* comes to escalate it (sweeper.py:98).                                   *)
(***************************************************************************)
OutagesEnd == \A w \in Worker : SF_vars(Conclude(Own(w)))

-----------------------------------------------------------------------------
\* No key is analysed by two threads at the same time: what try_claim is there for
\* (state.py:258-260, supervisor.py:52-54).
NeverAnalysedTwice ==
    \A t, u \in Threads :
      t # u /\ {thread[t].pc, thread[u].pc} \subseteq {"analyze", "late"}
        => KeyOf(thread[t].d) # KeyOf(thread[u].d)

(***************************************************************************)
(* К-4, СТ-16: whichever webhooks, redeliveries and reconcile events ask   *)
(* for a business key, it is analysed twice at the same time only after    *)
(* the sweeper has taken up a row that still had a message outstanding, or *)
(* an analysis was abandoned: no other race defeats the claim.             *)
(***************************************************************************)
OneAnalysisPerKey == overtaken = 0 /\ ~abandoned => NeverAnalysedTwice

(***************************************************************************)
(* No event is DONE unless an analysis of its key has returned without an  *)
(* error, also when it was driven to DONE on the strength of a sibling,    *)
(* whatever was abandoned, swept or delivered twice.  What pr-agent has    *)
(* then published is not for the store to know (sweeper.py:6-8).           *)
(***************************************************************************)
DoneMeansReturned == \A d \in Delivery : St(d) = "done" => KeyOf(d) \in returned

(***************************************************************************)
(* No false alarm: the failure comment of handle_lease is never posted for *)
(* a webhook event that is DONE, however late its message is delivered     *)
(* again (supervisor.py:25-27), unless a pass has found its message        *)
(* outstanding or an analysis was abandoned.  A reconcile event skips that *)
(* check.                                                                  *)
(***************************************************************************)
NoFalseAlarm ==
    overtaken = 0 /\ ~abandoned =>
      \A w \in Worker :
        main[w].pc = "notify" /\ main[w].slot[1] \in Hook => St(main[w].slot[1]) # "done"

(***************************************************************************)
(* Backpressure is not failure (ARCHITECTURE.md:213): an event none of     *)
(* whose attempts failed, timed out or crashed is never dead-lettered,     *)
(* unless the sweeper has taken up a row whose message was only waiting.   *)
(***************************************************************************)
DeadOnlyAfterFailure ==
    overtaken = 0 => \A d \in Delivery : St(d) = "dead_letter" => d \in failures

(***************************************************************************)
(* К-1: as long as nothing crashes and GitHub takes every comment, a dead- *)
(* lettered event has a visible one, once the process that dead-lettered   *)
(* it is no longer on its way to post it.                                  *)
(***************************************************************************)
Announcing(d) == \/ \E w \in Worker : main[w].slot[1] = d /\ main[w].pc \in {"unclaim", "notify"}
                 \/ sweep.d = d /\ sweep.pc = "note"
NoSilentDeath ==
  crashes = 0 =>
    \A d \in Delivery : St(d) = "dead_letter" /\ ~Announcing(d) => KeyOf(d) \in comments

\* A finished event stays finished: no redelivery, sweep or late thread revives it, unless
\* the sweeper has taken up a row with a message outstanding.
TerminalIsFinal ==
    [][overtaken = 0 => \A d \in Delivery : St(d) \in Terminal => events'[d].state = St(d)]_vars

(***************************************************************************)
(* К-2, СТ-13: no event stays unfinished for ever, whichever message was   *)
(* lost with a crash, skipped for a sibling, doubled by the sweeper or     *)
(* buried by the poison-guard, if outages end.                             *)
(***************************************************************************)
EveryEventEnds ==
    OutagesEnd => \A d \in Delivery : []<>(St(d) \in Terminal \cup {"absent"})

(***************************************************************************)
(* К-1: for an open pull request a recorded event never ends in silence:   *)
(* an analysis of its key returns or a comment about the failure appears,  *)
(* if outages end.                                                         *)
(***************************************************************************)
EveryKeyAnswered ==
    OutagesEnd =>
      \A k \in Watched :
        []<>(\/ k \in returned \cup comments
             \/ \A d \in Delivery : St(d) # "absent" => KeyOf(d) # k)
=============================================================================
