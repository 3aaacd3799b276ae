------------------------------- MODULE Intake -------------------------------
(***************************************************************************)
(* How a pull request gets into the service: the author works on it,       *)
(* GitHub sends webhooks that may be lost, late or delivered twice,        *)
(* ingress filters and records them, and the sweeper looks at what is open *)
(* and starts what the webhooks have missed.  One pull request, one        *)
(* command; every head of its branch is a business key of its own.         *)
(*                                                                         *)
(* Workers are reduced to what Pipeline shows of them: an event that is    *)
(* queued ends DONE, or in DEAD_LETTER with a comment.  What is kept of    *)
(* reliability.db is its write lock: record_received swallows the          *)
(* IntegrityError of a duplicate and does not roll back                    *)
(* (state.py:144-158), so the transaction the INSERT has opened stays open *)
(* until ingress commits the next time, and everybody else's writes fail   *)
(* with "database is locked" when busy_timeout is over.                    *)
(***************************************************************************)
EXTENDS Naturals, FiniteSets

CONSTANTS Hook,        \* webhook deliveries
          Recon,       \* reconcile:<key>:<seq> events of the sweeper
          MaxHead,     \* bound: commits pushed to the branch
          NoDelivery,
          MaxCycles,   \* RELIABILITY_SWEEP_MAX_CYCLES
          Verify,      \* RELIABILITY_VERIFY_GITHUB
          MaxChanges,  \* bound: what the author and others do to the pull request
          MaxCrashes   \* bound: crashes of ingress or sweeper

ASSUME IntakeAssumption ==
    /\ Hook \cap Recon = {} /\ NoDelivery \notin Hook \cup Recon
    /\ MaxHead \in Nat \ {0} /\ MaxCycles \in Nat
    /\ Verify \in BOOLEAN
    /\ MaxChanges \in Nat /\ MaxCrashes \in Nat

VARIABLES
    pr,         \* the pull request: its head and whether it is open, draft, stop-labelled
    changes,    \* changes so far
    wire,       \* the payload of each webhook that was sent
    events,     \* table events: head of the key, state
    hand,       \* the delivery ingress has recorded and not yet enqueued
    holding,    \* ingress holds the write lock of reliability.db
    cycles,     \* table reconcile
    sweep,      \* the sweeper's pass
    answered,   \* GitHub: heads with a failure or escalation comment
    activity,   \* GitHub: there is a comment of a bot on the pull request
    lost,       \* history: how often the last of those comments has gone
    crashes

github == <<pr, changes, wire>>
process == <<hand, holding>>
past == <<lost, crashes>>
vars == <<github, events, process, cycles, sweep, answered, activity, past>>

Delivery == Hook \cup Recon
Head == 1..MaxHead
Unsent == [head |-> 0, sent |-> FALSE, stopped |-> FALSE]
NoEvent == [state |-> "absent", head |-> 0]
Idle == [pc |-> "idle", head |-> 0, d |-> NoDelivery]

\* Payloads, rows and the pass are well typed; a row always carries its head.
TypeOK ==
    /\ pr \in [head : Head, open : BOOLEAN, draft : BOOLEAN, stopped : BOOLEAN]
    /\ changes \in 0..MaxChanges
    /\ wire \in [Hook -> [head : {0} \cup Head, sent : BOOLEAN, stopped : BOOLEAN]]
    /\ events \in [Delivery -> [state : {"absent", "recorded", "queued", "done", "dead"},
                                head : {0} \cup Head]]
    /\ \A d \in Delivery : events[d].head = 0 <=> events[d].state = "absent"
    /\ hand \in Hook \cup {NoDelivery} /\ holding \in BOOLEAN
    /\ cycles \in [Head -> 0..MaxCycles + 1]
    /\ sweep \in [pc : {"idle", "list", "key", "record", "put", "escalate"},
                  head : {0} \cup Head, d : Recon \cup {NoDelivery}]
    /\ answered \subseteq Head /\ activity \in BOOLEAN
    /\ lost \in Nat /\ crashes \in 0..MaxCrashes

\* A pull request whose webhook was lost, or that is older than the service; as a draft
\* it also stands for one that is opened later, by Ready.
Init ==
    /\ pr \in [head : {1}, open : {TRUE}, draft : BOOLEAN, stopped : {FALSE}]
    /\ changes = 0
    /\ wire = [d \in Hook |-> Unsent]
    /\ events = [d \in Delivery |-> NoEvent]
    /\ hand = NoDelivery /\ holding = FALSE
    /\ cycles = [h \in Head |-> 0]
    /\ sweep = Idle
    /\ answered = {} /\ activity = FALSE
    /\ lost = 0 /\ crashes = 0

St(d) == events[d].state
Of(h) == {d \in Delivery : events[d].head = h}
AlreadyDone(h) == \E d \in Of(h) : St(d) = "done"
InFlight(h) == \E d \in Of(h) : St(d) \in {"recorded", "queued"}
Moved(ds, state) == [d \in Delivery |-> IF d \in ds THEN [events[d] EXCEPT !.state = state]
                                                    ELSE events[d]]
RecordedFirst(d, h) ==   \* mutant: the row is written before enrich_events
    [events EXCEPT ![d] = [state |-> "recorded", head |-> IF d \in Hook THEN wire[d].head ELSE h]]
Recorded(d, h) == [events EXCEPT ![d] = [state |-> "recorded", head |-> h]]

-----------------------------------------------------------------------------
(***************************************************************************)
(* The pull request.  Opening, pushing and leaving draft send a webhook    *)
(* that is acted on (PR_TRIGGER_ACTIONS); closing, becoming a draft and    *)
(* labels do not.  The payload shows the pull request as it then is; that  *)
(* of a comment has no head.  Webhooks are never forgotten by GitHub's     *)
(* redelivery and never sure to arrive.                                    *)
(***************************************************************************)
Change(p) ==
    /\ changes < MaxChanges
    /\ changes' = changes + 1
    /\ pr' = p
    /\ UNCHANGED <<events, process, cycles, sweep, answered, activity, past>>

\* Deliveries are interchangeable: GitHub takes a new id.
NewHook == CHOOSE d \in Hook : ~wire[d].sent
Send(h) ==
    /\ \E d \in Hook : ~wire[d].sent
    /\ wire' = [wire EXCEPT ![NewHook] = [head |-> h, sent |-> TRUE, stopped |-> pr.stopped]]

Open  == ~pr.open /\ Change([pr EXCEPT !.open = TRUE]) /\ Send(pr.head)
Push  == /\ pr.open /\ pr.head < MaxHead
         /\ Change([pr EXCEPT !.head = @ + 1]) /\ Send(pr.head + 1)
Ready == pr.open /\ pr.draft /\ Change([pr EXCEPT !.draft = FALSE]) /\ Send(pr.head)
Ask   == pr.open /\ Change(pr) /\ Send(0)
Close   == pr.open /\ Change([pr EXCEPT !.open = FALSE]) /\ UNCHANGED wire
Redraft  == pr.open /\ ~pr.draft /\ Change([pr EXCEPT !.draft = TRUE]) /\ UNCHANGED wire
Label   == pr.open /\ Change([pr EXCEPT !.stopped = ~@]) /\ UNCHANGED wire

\* has_bot_activity looks at the comments anew each time, and a comment can be deleted.
Forget == /\ activity /\ changes < MaxChanges
          /\ changes' = changes + 1
          /\ activity' = FALSE /\ lost' = lost + 1
          /\ UNCHANGED <<pr, wire, events, process, cycles, sweep, answered, crashes>>

-----------------------------------------------------------------------------
\* parse_events and enrich_events: the head an event is for, none if it is dropped.
Parsed(d) ==
    {h \in Head : /\ wire[d].sent /\ ~wire[d].stopped
                  /\ h = IF wire[d].head = 0 THEN pr.head ELSE wire[d].head}

(***************************************************************************)
(* handle_webhook: an INSERT that commits also ends the transaction an     *)
(* earlier duplicate has left open.  What parse_events drops, and a        *)
(* comment whose head cannot be fetched, changes nothing.                  *)
(***************************************************************************)
Receive(d) ==
    /\ hand = NoDelivery
    /\ \E h \in Parsed(d) :
         \/ /\ St(d) = "absent"
            /\ events' = Recorded(d, h)
            /\ hand' = d /\ holding' = FALSE
         \/ /\ St(d) # "absent"
            /\ holding' = TRUE
            /\ UNCHANGED <<events, hand>>
    /\ UNCHANGED <<github, cycles, sweep, answered, activity, past>>

Schedule ==
    /\ hand # NoDelivery
    /\ events' = Moved({hand}, "queued")
    /\ hand' = NoDelivery
    /\ UNCHANGED <<github, holding, cycles, sweep, answered, activity, past>>

IngressCrash ==
    /\ hand # NoDelivery \/ holding
    /\ crashes < MaxCrashes
    /\ crashes' = crashes + 1
    /\ hand' = NoDelivery /\ holding' = FALSE
    /\ UNCHANGED <<github, events, cycles, sweep, answered, activity, lost>>

-----------------------------------------------------------------------------
\* A worker ends the event.  pr-agent may return without having published anything.
Complete(d) ==
    /\ St(d) = "queued" /\ ~holding
    /\ events' = Moved({d}, "done")
    /\ activity' \in {activity, TRUE}
    /\ UNCHANGED <<github, process, cycles, sweep, answered, past>>

GiveUp(d) ==
    /\ St(d) = "queued" /\ ~holding
    /\ events' = Moved({d}, "dead")
    /\ answered' = answered \cup {events[d].head}
    /\ activity' = TRUE
    /\ UNCHANGED <<github, process, cycles, sweep, past>>

\* While the database is locked every attempt fails, and so does _drive_to_dead_letter:
\* the worker dies, the message is gone, the row stays as it was.
Drop(d) ==
    /\ St(d) = "queued" /\ holding
    /\ events' = Moved({d}, "recorded")
    /\ UNCHANGED <<github, process, cycles, sweep, answered, activity, past>>

-----------------------------------------------------------------------------
(***************************************************************************)
(* The sweeper.  A write it cannot make ends the process; compose starts   *)
(* it again.                                                               *)
(***************************************************************************)
Goto(s) == sweep' = s
OnlySweep == UNCHANGED <<github, events, process, cycles, answered, activity, past>>

OverdueOnceQueued == {d \in Recon : St(d) = "recorded" /\ sweep.d # d}   \* mutant
Overdue == {d \in Delivery : St(d) = "recorded" /\ d # hand}

\* Section 1 of sweep(): rows that nobody works on go back to the queue.
SweepStart ==
    /\ sweep = Idle
    /\ Overdue = {} \/ ~holding
    /\ events' = Moved(Overdue, "queued")
    /\ Goto([Idle EXCEPT !.pc = "list"])
    /\ UNCHANGED <<github, process, cycles, answered, activity, past>>

\* list_open_prs: drafts are left out, stop labels are not looked at.
List ==
    /\ sweep.pc = "list"
    /\ Goto(IF pr.open /\ ~pr.draft THEN [sweep EXCEPT !.pc = "key", !.head = pr.head]
                                    ELSE Idle)
    /\ OnlySweep

\* This repository's listing fails and it is passed over, or, with a fixed list of
\* repositories, any listing fails and ends the pass.
ListFails == sweep.pc = "list" /\ Goto(Idle) /\ OnlySweep

\* has_completed_review: with verify, a DONE row alone is not believed.
CompletedEarly(h) == AlreadyDone(h) \/ InFlight(h)   \* mutant
Completed(h) == AlreadyDone(h) /\ (Verify => activity)

Settled ==
    /\ sweep.pc = "key" /\ Completed(sweep.head) /\ ~holding
    /\ cycles' = [cycles EXCEPT ![sweep.head] = 0]
    /\ Goto(Idle)
    /\ UNCHANGED <<github, events, process, answered, activity, past>>

InWork ==
    /\ sweep.pc = "key" /\ ~Completed(sweep.head) /\ InFlight(sweep.head)
    /\ Goto(Idle)
    /\ OnlySweep

\* Bound: the counter saturates where nothing looks at it any more.
Counted(n) == IF n > MaxCycles THEN n ELSE n + 1
Bump ==
    /\ sweep.pc = "key" /\ ~Completed(sweep.head) /\ ~InFlight(sweep.head) /\ ~holding
    /\ cycles' = [cycles EXCEPT ![sweep.head] = Counted(@)]
    /\ \/ cycles[sweep.head] < MaxCycles /\ Goto([sweep EXCEPT !.pc = "record"])
       \/ cycles[sweep.head] = MaxCycles /\ Goto([sweep EXCEPT !.pc = "escalate"])
       \/ cycles[sweep.head] > MaxCycles /\ Goto(Idle)
    /\ UNCHANGED <<github, events, process, answered, activity, past>>

\* next_seq() makes the id a new one.
NewRecon == CHOOSE d \in Recon : St(d) = "absent"
Reconcile ==
    /\ sweep.pc = "record" /\ ~holding
    /\ \E d \in Recon : St(d) = "absent"
    /\ events' = Recorded(NewRecon, sweep.head)
    /\ Goto([sweep EXCEPT !.pc = "put", !.d = NewRecon])
    /\ UNCHANGED <<github, process, cycles, answered, activity, past>>

Put ==
    /\ sweep.pc = "put"
    /\ events' = Moved({sweep.d}, "queued")
    /\ Goto(Idle)
    /\ UNCHANGED <<github, process, cycles, answered, activity, past>>

Escalate ==
    /\ sweep.pc = "escalate"
    /\ answered' = answered \cup {sweep.head}
    /\ activity' = TRUE
    /\ Goto(Idle)
    /\ UNCHANGED <<github, events, process, cycles, past>>

\* clear_reconcile, bump_reconcile or record_received meets the lock.
Refused ==
    /\ holding
    /\ \/ sweep.pc = "key" /\ (Completed(sweep.head) \/ ~InFlight(sweep.head))
       \/ sweep.pc = "record"
    /\ Goto(Idle)
    /\ OnlySweep

SweepCrash ==
    /\ sweep # Idle
    /\ crashes < MaxCrashes
    /\ crashes' = crashes + 1
    /\ Goto(Idle)
    /\ UNCHANGED <<github, events, process, cycles, answered, activity, lost>>

-----------------------------------------------------------------------------
Author == Open \/ Push \/ Ready \/ Ask \/ Close \/ Redraft \/ Label \/ Forget
Work == \E d \in Delivery : Complete(d) \/ GiveUp(d)
SweepStep == Settled \/ InWork \/ Bump \/ Reconcile \/ Put \/ Escalate \/ Refused

Next == \/ Author
        \/ \E d \in Hook : Receive(d)
        \/ Schedule \/ IngressCrash
        \/ Work
        \/ \E d \in Delivery : Drop(d)
        \/ SweepStart \/ List \/ ListFails \/ SweepStep \/ SweepCrash

Spec == Init /\ [][Next]_vars

(***************************************************************************)
(* Fairness: processes run and are restarted, and a listing that is tried  *)
(* every SWEEP_INTERVAL finally succeeds.  No webhook has to arrive.       *)
(***************************************************************************)
Fairness ==
    /\ WF_vars(Schedule) /\ WF_vars(Work)
    /\ WF_vars(SweepStart) /\ SF_vars(List) /\ WF_vars(SweepStep)
FairSpec == Spec /\ Fairness

-----------------------------------------------------------------------------
Reviewable(h) == pr.open /\ ~pr.draft /\ ~pr.stopped /\ pr.head = h

(***************************************************************************)
(* К-1, К-2: a head that stays up for review is answered, whichever        *)
(* webhooks were lost, doubled or overtaken by a push, label or draft: its *)
(* event is DONE or a comment names it, and unless a crash swallowed the   *)
(* escalation, something of the bot is on the pull request, also when      *)
(* pr-agent kept returning without a result.  The exception is an ingress  *)
(* that holds the write lock for ever, because no new webhook comes.       *)
(***************************************************************************)
Answered(h) ==
    /\ AlreadyDone(h) \/ h \in answered
    /\ Verify => activity \/ crashes > 0
EveryHeadAnswered ==
    \A h \in Head : <>[]Reviewable(h) => <>(Answered(h) \/ []holding)

(***************************************************************************)
(* СТ-32: reconciliation is not an endless quiet loop.  However often a    *)
(* head is listed, settled, lost to crashes and listed again, the sweeper  *)
(* starts at most max_cycles events for it (sweeper.py:13, 100-109), and   *)
(* as many once more each time the comments that had settled it were gone  *)
(* again: then clear_reconcile has started the count anew (sweeper.py:96). *)
(***************************************************************************)
Restarts == IF Verify THEN lost ELSE 0
ReconcileBounded ==
    \A h \in Head : Cardinality({d \in Recon : events[d].head = h}) <= MaxCycles * (1 + Restarts)
=============================================================================
