------------------------------ MODULE MapReduce ------------------------------
(***************************************************************************)
(* The review of one large pull request in parts (RELIABILITY_MAPREDUCE):  *)
(* a worker that analyses the /review event plans the chunks, creates the  *)
(* job and enqueues one message per chunk; workers review the chunks and   *)
(* record their findings in the job store; whoever sees the last report    *)
(* and wins the compare-and-set enqueues the reduce message, and the       *)
(* worker that leases it publishes the collected review.                   *)
(*                                                                         *)
(* One action is one committed statement of StateStore or DurableQueue or  *)
(* one call to GitHub or to the model; a process may crash between any two.*)
(* Chunks and the reduce run without run_with_timeout, so nothing but the  *)
(* timeouts of the calls themselves keeps a worker within its lease.       *)
(***************************************************************************)
EXTENDS Naturals, FiniteSets

CONSTANTS Worker,       \* worker replicas
          NoWorker, NoMsg,
          Review,       \* messages of the /review event
          Chunk,        \* chunks of the plan, each with its message
          Reduce,       \* the message of the reduce
          MaxAttempts,  \* RELIABILITY_MAX_ATTEMPTS
          Overruns,     \* may a worker outlive its lease?
          MaxMishaps,   \* bound: workers that die, are refused a write or outlive a lease
          MaxFaults     \* bound: refused calls to GitHub while planning or publishing

Msg == Review \cup Chunk \cup {Reduce}

ASSUME MapReduceAssumption ==
    /\ Review \cap Chunk = {} /\ Reduce \notin Review \cup Chunk /\ NoMsg \notin Msg
    /\ NoWorker \notin Worker
    /\ Chunk # {}
    /\ MaxAttempts \in Nat \ {0}
    /\ Overruns \in BOOLEAN
    /\ MaxMishaps \in Nat /\ MaxFaults \in Nat

VARIABLES
    job,       \* table jobs: "absent", "open", or "reducing" (reduce_started)
    findings,  \* table chunk_findings: "none", "ok", "empty" (ok without a word) or "failed"
    queue,     \* table messages of queue.db
    work,      \* what each worker is doing with its lease
    review,    \* the published review: the chunks it shows and those it calls not reviewed
    sent,      \* history: messages ever enqueued, with how many times
    blank,     \* history: chunks with a report that was ok and empty
    mishaps,   \* history: workers that died, were refused a write or outlived a lease
    faults,    \* history: refused calls to GitHub while planning
    refused    \* history: refusals of the review

store == <<job, findings>>
output == <<review, sent, blank>>
trouble == <<mishaps, faults, refused>>
vars == <<store, queue, work, output, trouble>>

Status == {"none", "ok", "empty", "failed"}
NoReview == [posted |-> FALSE, reviewed |-> {}, missed |-> {}]
Row == [state : {"none", "ready", "leased"}, receives : Nat, holder : Worker \cup {NoWorker}]
NoRow == [state |-> "none", receives |-> 0, holder |-> NoWorker]
Ready == [state |-> "ready", receives |-> 0, holder |-> NoWorker]
Pc == {"idle", "plan", "create", "fan", "review", "record", "record_empty", "record_failed", "ack",
       "progress", "barrier", "cas", "start", "collect", "publish"}
Work == [pc : Pc, msg : Msg \cup {NoMsg}, todo : SUBSET Chunk, seen : [Chunk -> Status]]
Nothing == [c \in Chunk |-> "none"]
Idle == [pc |-> "idle", msg |-> NoMsg, todo |-> {}, seen |-> Nothing]

\* done_chunks and failed_chunks are counted again with every report.
Reported == {c \in Chunk : findings[c] # "none"}
Owns(w) == work[w].msg # NoMsg /\ queue[work[w].msg].holder = w

Goto(w, pc) == work' = [work EXCEPT ![w].pc = pc]
Rest(w) == work' = [work EXCEPT ![w] = Idle]
Send(m) == /\ queue' = [queue EXCEPT ![m] = Ready]
           /\ sent' = [sent EXCEPT ![m] = @ + 1]
Steady == UNCHANGED trouble

Init == /\ job = "absent"
        /\ findings = Nothing
        /\ queue = [m \in Msg |-> IF m \in Review THEN Ready ELSE NoRow]
        /\ work = [w \in Worker |-> Idle]
        /\ review = NoReview
        /\ sent = [m \in Msg |-> IF m \in Review THEN 1 ELSE 0]
        /\ blank = {}
        /\ mishaps = 0 /\ faults = 0 /\ refused = 0

-----------------------------------------------------------------------------
\* run_once and handle(): the message decides what the worker does with it.
Entry(m) == CASE m \in Review -> "plan" [] m \in Chunk -> "review" [] OTHER -> "collect"
Lease(w, m) ==
    /\ work[w].pc = "idle"
    /\ queue[m].state = "ready"
    /\ queue[m].receives < MaxAttempts
    /\ queue' = [queue EXCEPT ![m] = [state |-> "leased", receives |-> @.receives + 1,
                                      holder |-> w]]
    /\ work' = [work EXCEPT ![w].pc = Entry(m), ![w].msg = m]
    /\ UNCHANGED <<store, output>> /\ Steady

\* The poison-guard of lease() drops the message, whatever it was.
PoisonGuard(m) ==
    /\ \E w \in Worker : work[w].pc = "idle"
    /\ queue[m].state = "ready"
    /\ queue[m].receives >= MaxAttempts
    /\ queue' = [queue EXCEPT ![m] = NoRow]
    /\ UNCHANGED <<store, work, output>> /\ Steady

\* ack(): only the owner of the lease deletes the message.
Settled(w) == IF Owns(w) THEN [queue EXCEPT ![work[w].msg] = NoRow] ELSE queue
AfterAckIdle(w) == "idle"   \* mutant: the fan-in is left to somebody else
AfterAck(w) == IF work[w].msg \in Chunk THEN "progress" ELSE "idle"
Ack(w) ==
    /\ work[w].pc = "ack"
    /\ queue' = Settled(w)
    /\ IF AfterAck(w) = "idle" THEN Rest(w) ELSE Goto(w, AfterAck(w))
    /\ UNCHANGED <<store, output>> /\ Steady

(***************************************************************************)
(* nack(): "requeued", or "dead_letter" once the receives are used up, or  *)
(* "stale" for a worker that has outlived its lease.  Only a dead-lettered *)
(* chunk has something left to do.                                         *)
(***************************************************************************)
AfterDeadLetterSilent(m) == "idle"   \* mutant: a dead chunk is not reported
AfterDeadLetter(m) == IF m \in Chunk THEN "record_failed" ELSE "idle"
Nack(w) ==
    LET m == work[w].msg IN
    \/ /\ Owns(w) /\ queue[m].receives >= MaxAttempts
       /\ queue' = [queue EXCEPT ![m] = NoRow]
       /\ IF AfterDeadLetter(m) = "idle" THEN Rest(w) ELSE Goto(w, AfterDeadLetter(m))
    \/ /\ Owns(w) /\ queue[m].receives < MaxAttempts
       /\ queue' = [queue EXCEPT ![m].state = "ready", ![m].holder = NoWorker]
       /\ Rest(w)
    \/ /\ ~Owns(w)
       /\ Rest(w)
       /\ UNCHANGED queue

-----------------------------------------------------------------------------
\* route_and_fanout: the files are listed, the plan made, the fast ack posted;
PlanAck(w) ==
    /\ work[w].pc = "plan"
    /\ Goto(w, "create")
    /\ UNCHANGED <<store, queue, output>> /\ Steady

\* create_job() lets only its first caller go on to the fan-out;
IsNewAlways == TRUE   \* mutant: rowcount of INSERT OR IGNORE is not looked at
IsNew == job = "absent"
CreateJob(w) ==
    /\ work[w].pc = "create"
    /\ \/ /\ IsNew
          /\ job' = "open"
          /\ work' = [work EXCEPT ![w].pc = "fan", ![w].todo = Chunk]
       \/ /\ ~IsNew
          /\ Goto(w, "ack")
          /\ UNCHANGED job
    /\ UNCHANGED <<findings, queue, output>> /\ Steady

\* one enqueue per chunk, each committed on its own;
FanOut(w) ==
    /\ work[w].pc = "fan"
    /\ \E c \in work[w].todo :
         /\ Send(c)
         /\ work' = [work EXCEPT ![w].todo = @ \ {c},
                                 ![w].pc = IF work[w].todo = {c} THEN "ack" ELSE "fan"]
    /\ UNCHANGED <<store, review, blank>> /\ Steady

\* a refused call to GitHub is a failed attempt of the event,
PlanFails(w) ==
    /\ work[w].pc \in {"plan", "create"}
    /\ faults + refused < MaxFaults
    /\ faults' = faults + 1
    /\ Nack(w)
    /\ UNCHANGED <<store, output, mishaps, refused>>

\* and so is an enqueue that the database refuses.
FanOutFails(w) ==
    /\ work[w].pc = "fan"
    /\ mishaps < MaxMishaps
    /\ mishaps' = mishaps + 1
    /\ Nack(w)
    /\ UNCHANGED <<store, output, faults, refused>>

-----------------------------------------------------------------------------
\* _handle_chunk: the model answers, possibly with the empty string,
Reviewed(w) ==
    /\ work[w].pc = "review"
    /\ Goto(w, "record") \/ Goto(w, "record_empty")
    /\ UNCHANGED <<store, queue, output>> /\ Steady

\* raises (the patches could not be fetched, the model failed or timed out),
ReviewFails(w) ==
    /\ work[w].pc = "review"
    /\ Nack(w)
    /\ UNCHANGED <<store, output>> /\ Steady

\* or is held back: defer() gives the receive back.
GivenBackTwice(n) == n - 2   \* mutant: the receive is returned twice
GivenBack(n) == n - 1
HeldBack(w) ==
    LET m == work[w].msg IN
    /\ work[w].pc = "review"
    /\ queue' = IF Owns(w)
                THEN [queue EXCEPT ![m].state = "ready", ![m].holder = NoWorker,
                                   ![m].receives = GivenBack(@)]
                ELSE queue
    /\ Rest(w)
    /\ UNCHANGED <<store, output>> /\ Steady

\* record_chunk_finding: an upsert, so the last report of a chunk wins.
Record(w, from, status, pc) ==
    /\ work[w].pc = from
    /\ findings' = [findings EXCEPT ![work[w].msg] = status]
    /\ blank' = IF status = "empty" THEN blank \cup {work[w].msg} ELSE blank
    /\ Goto(w, pc)
    /\ UNCHANGED <<job, queue, review, sent>> /\ Steady

\* _progress_and_maybe_reduce: the progress comment,
Progress(w) ==
    /\ work[w].pc = "progress"
    /\ Goto(w, "barrier")
    /\ UNCHANGED <<store, queue, output>> /\ Steady

\* job_all_reported,
AllButOneReported == Cardinality(Reported) + 1 >= Cardinality(Chunk)   \* mutant
AllReported == Reported = Chunk
Barrier(w) ==
    /\ work[w].pc = "barrier"
    /\ IF AllReported THEN Goto(w, "cas") ELSE Rest(w)
    /\ UNCHANGED <<store, queue, output>> /\ Steady

\* try_start_reduce: UPDATE ... SET reduce_started=1 WHERE reduce_started=0,
CanStartAlways == TRUE   \* mutant: a plain read and write in place of the CAS
CanStart == job = "open"
TryStartReduce(w) ==
    /\ work[w].pc = "cas"
    /\ job' = "reducing"
    /\ IF CanStart THEN Goto(w, "start") ELSE Rest(w)
    /\ UNCHANGED <<findings, queue, output>> /\ Steady

\* and the enqueue of the reduce.
StartReduce(w) ==
    /\ work[w].pc = "start"
    /\ Send(Reduce)
    /\ Rest(w)
    /\ UNCHANGED <<store, review, blank>> /\ Steady

-----------------------------------------------------------------------------
\* _handle_reduce: collect_results reads the findings,
Collect(w) ==
    /\ work[w].pc = "collect"
    /\ work' = [work EXCEPT ![w].pc = "publish", ![w].seen = findings]
    /\ UNCHANGED <<store, queue, output>> /\ Steady

\* publish_review shows the chunks with findings and lists those that failed; one
\* that was reviewed without a finding is named in neither place,
Publish(w) ==
    LET collected(status) == {c \in Chunk : work[w].seen[c] = status} IN
    /\ work[w].pc = "publish"
    /\ review' = [posted |-> TRUE, reviewed |-> collected("ok"), missed |-> collected("failed")]
    /\ Goto(w, "ack")
    /\ UNCHANGED <<store, queue, sent, blank>> /\ Steady

\* or GitHub refuses it and the message is nacked.
PublishFails(w) ==
    /\ work[w].pc = "publish"
    /\ faults + refused < MaxFaults
    /\ refused' = refused + 1
    /\ Nack(w)
    /\ UNCHANGED <<store, output, mishaps, faults>>

-----------------------------------------------------------------------------
Released(w) == IF Owns(w) THEN [queue EXCEPT ![work[w].msg].state = "ready",
                                             ![work[w].msg].holder = NoWorker]
                          ELSE queue

\* The worker dies, or an exception leaves run_forever: the progress comment
\* is refused, the database is locked.  Its lease lapses.
WorkerCrash(w) ==
    /\ work[w].pc # "idle"
    /\ mishaps < MaxMishaps
    /\ mishaps' = mishaps + 1
    /\ queue' = Released(w)
    /\ Rest(w)
    /\ UNCHANGED <<store, output, faults, refused>>

\* The visibility timeout runs out under a worker that is still at work.
Lapse(w) ==
    /\ Overruns
    /\ Owns(w)
    /\ mishaps < MaxMishaps
    /\ mishaps' = mishaps + 1
    /\ queue' = Released(w)
    /\ UNCHANGED <<store, work, output, faults, refused>>

Steps(w) == \/ Ack(w)
            \/ PlanAck(w) \/ CreateJob(w) \/ FanOut(w)
            \/ Record(w, "record", "ok", "ack") \/ Record(w, "record_empty", "empty", "ack")
            \/ Record(w, "record_failed", "failed", "progress")
            \/ Progress(w) \/ Barrier(w) \/ TryStartReduce(w) \/ StartReduce(w)
            \/ Collect(w) \/ Publish(w)
Conclude(w) == Reviewed(w) \/ ReviewFails(w)

Next == \/ \E m \in Msg : PoisonGuard(m) \/ \E w \in Worker : Lease(w, m)
        \/ \E w \in Worker : \/ Steps(w) \/ Conclude(w) \/ HeldBack(w)
                             \/ PlanFails(w) \/ FanOutFails(w) \/ PublishFails(w)
                             \/ WorkerCrash(w) \/ Lapse(w)

Spec == Init /\ [][Next]_vars

(***************************************************************************)
(* Fairness: workers run and are restarted, as long as messages are        *)
(* available one of them is handed out, and a model that is asked again    *)
(* and again finally answers or fails.                                     *)
(***************************************************************************)
Fairness ==
    /\ \A w \in Worker : WF_vars(Steps(w)) /\ SF_vars(Conclude(w))
    /\ WF_vars(\E m \in Msg : PoisonGuard(m) \/ \E w \in Worker : Lease(w, m))
FairSpec == Spec /\ Fairness

-----------------------------------------------------------------------------
\* The tables, the messages with their receives, and the steps of the workers are well
\* typed; a receive given back by defer() was taken before (queue.py:184).
TypeOK ==
    /\ job \in {"absent", "open", "reducing"}
    /\ findings \in [Chunk -> Status]
    /\ queue \in [Msg -> Row]
    /\ work \in [Worker -> Work]
    /\ review \in [posted : BOOLEAN, reviewed : SUBSET Chunk, missed : SUBSET Chunk]
    /\ sent \in [Msg -> Nat] /\ blank \subseteq Chunk
    /\ mishaps \in Nat /\ faults \in Nat /\ refused \in Nat

(***************************************************************************)
(* M4: the fan-in starts exactly one reduce, whichever workers see the     *)
(* last report at the same time and whatever is delivered twice            *)
(* (mapreduce.py:54-59, state.py:360-369).                                 *)
(***************************************************************************)
ReduceOnce == sent[Reduce] <= 1

(***************************************************************************)
(* The jobs row lets one planner fan out: however many deliveries of the   *)
(* event are planned, no chunk is enqueued twice                           *)
(* (mapreduce_worker.py:53-55).                                            *)
(***************************************************************************)
FanOutOnce == \A c \in Chunk : sent[c] <= 1

(***************************************************************************)
(* НФТ-APRP-6: a published review accounts for every chunk of the plan, as *)
(* reviewed or as explicitly not reviewed (reduce.py:3-5), but for those   *)
(* the model has answered with no text at all.                             *)
(***************************************************************************)
ReviewAccountsForAll ==
    review.posted => Chunk \subseteq review.reviewed \cup review.missed \cup blank

(***************************************************************************)
(* As long as no worker dies, is refused a write or outlives its lease, a  *)
(* chunk that was enqueued is still in the queue, or has reported, or is   *)
(* about to be recorded as failed by the worker whose nack dead-lettered   *)
(* it: a chunk whose receives are used up is marked as failed and never    *)
(* just vanishes (mapreduce_worker.py:9-10).                               *)
(***************************************************************************)
ChunkTracked ==
  mishaps = 0 =>
    \A c \in Chunk :
      sent[c] > 0 => \/ queue[c].state # "none"
                     \/ c \in Reported
                     \/ \E w \in Worker : work[w].msg = c /\ work[w].pc = "record_failed"

(***************************************************************************)
(* К-2 (ARCHITECTURE.md:120): a job that was created ends in a published   *)
(* review, a partial one if chunks failed, whatever else is refused or     *)
(* delivered twice, as long as no worker dies, is refused a write by the   *)
(* database or outlives its lease.  The exception is a review that GitHub  *)
(* refuses as often as its message is received: it is dead-lettered and    *)
(* nobody says so.                                                         *)
(***************************************************************************)
EveryLiveJobAnswered ==
    job # "absent" ~> review.posted \/ mishaps > 0 \/ refused >= MaxAttempts

(***************************************************************************)
(* The promise as the document makes it, with dying workers too.           *)
(***************************************************************************)
EveryJobAnswered == job # "absent" ~> review.posted
=============================================================================
