------------------------ MODULE PipelineOutcomeProofs ------------------------
(***************************************************************************)
(* Proofs about how events of Pipeline are analysed and end, for any       *)
(* number of workers, deliveries and attempts: one analysis of a key at a  *)
(* time, no false alarm, no death without a failed attempt.  Each is about *)
(* what happens before a pass of the sweeper has taken up a row with a     *)
(* message outstanding; PipelineRequeue shows what comes after.            *)
(***************************************************************************)
EXTENDS PipelineProofs

-----------------------------------------------------------------------------
(***************************************************************************)
(* Orphans.  An abandoned analysis of an event is one of its failures, as  *)
(* soon as the main thread has handled the timeout.                        *)
(***************************************************************************)
Clean(d) == abandoned => d \notin failures
OrphanInv == \A t \in Threads : t[2] = "orphan" /\ thread[t].pc # "off" =>
               /\ abandoned
               /\ \/ thread[t].d \in failures
                  \/ main[t[1]].pc = "nack" /\ main[t[1]].slot[1] = thread[t].d

LEMMA OrphansStay ==
    ASSUME OrphanInv, failures \subseteq failures', abandoned => abandoned',
           \A t \in Threads : thread'[t] = thread[t] \/ thread'[t].pc = "off" \/ t[2] = "own",
           \A w \in Worker : main[w].pc = "nack" => main'[w] = main[w] \/ main[w].slot[1] \in failures'
    PROVE  OrphanInv'
<1> SUFFICES ASSUME NEW t \in Threads, t[2] = "orphan", thread'[t].pc # "off"
             PROVE  /\ abandoned'
                    /\ \/ thread'[t].d \in failures'
                       \/ main'[t[1]].pc = "nack" /\ main'[t[1]].slot[1] = thread'[t].d
  BY DEF OrphanInv
<1>1. thread'[t] = thread[t] /\ t[1] \in Worker
  BY DEF Threads
<1> QED
  BY <1>1 DEF OrphanInv

LEMMA StepKeepsOrphans ==
    ASSUME ShapeInv, ReadInv, OrphanInv, [Next]_vars
    PROVE  OrphanInv' /\ failures \subseteq failures'
<1>0. abandoned => abandoned'
  BY HistoryGrows
<1> USE DEF ShapeInv, Types, db, outcomes, past
<1>1. CASE IngressStep \/ IngressCrash \/ \E d \in Delivery : Age(d)
  BY <1>1, <1>0, OrphansStay DEF IngressStep, Receive, Schedule, IngressCrash, Age, OnlyEvents
<1>2. CASE \E s \in Slot : PoisonGuard(s) \/ \E w \in Worker : Lease(w, s)
  <2>1. ASSUME NEW s \in Slot, PoisonGuard(s) PROVE OrphanInv' /\ failures \subseteq failures'
    BY <2>1, <1>0, OrphansStay DEF PoisonGuard
  <2>2. ASSUME NEW s \in Slot, NEW w \in Worker, Lease(w, s) PROVE OrphanInv' /\ failures \subseteq failures'
    <3>1. \A t \in Threads : thread'[t] = thread[t] \/ t[2] = "own"
      BY <2>2 DEF Lease, Own, ThreadsOK
    <3>2. \A v \in Worker : main[v].pc = "nack" => main'[v] = main[v]
      BY <2>2 DEF Lease, MainsOK
    <3> QED
      BY <2>2, <3>1, <3>2, <1>0, OrphansStay DEF Lease
  <2> QED
    BY <1>2, <2>1, <2>2
<1>3. ASSUME NEW w \in Worker, MainStep(w) PROVE OrphanInv' /\ failures \subseteq failures'
  <2>1. failures \subseteq failures' /\ (main[w].pc = "nack" => main[w].slot[1] \in failures')
    BY <1>3 DEF MainStep, Ack, Defer, Nack, Bury, BuryDead, Unclaim, Notify
  <2>2. \A v \in Worker : v # w => main'[v] = main[v]
    BY <1>3 DEF MainStep, Ack, Defer, Nack, Bury, BuryDead, Unclaim, Notify, Goto, Rest, Stop, MainsOK
  <2>3. \A t \in Threads : thread'[t] = thread[t] \/ thread'[t].pc = "off"
    <3>1. UNCHANGED thread \/ Stop(w)
      BY <1>3 DEF MainStep, Ack, Defer, Nack, Bury, BuryDead, Unclaim, Notify
    <3> QED
      BY <3>1, StopHands DEF Off
  <2> QED
    BY <2>1, <2>2, <2>3, <1>0, OrphansStay
<1>4. ASSUME NEW w \in Worker, WorkerCrash(w) PROVE OrphanInv' /\ failures \subseteq failures'
  <2>1. failures \subseteq failures' /\ \A t \in Threads : thread'[t] = thread[t] \/ thread'[t].pc = "off"
    BY <1>4, StopHands DEF WorkerCrash, Off
  <2>2. \A v \in Worker : v # w => main'[v] = main[v]
    BY <1>4, StopHands DEF WorkerCrash
  <2>3. main[w].pc = "nack" => main[w].slot[1] \in failures'
    <3>1. main[w].pc = "nack" => main[w].slot \in Slot
      BY DEF HandsInv, WellHeld
    <3> QED
      BY <1>4, <3>1, Slots DEF WorkerCrash
  <2> QED
    BY <2>1, <2>2, <2>3, <1>0, OrphansStay
<1>5. ASSUME NEW w \in Worker, Timeout(w) \/ AttemptTimeout(w) PROVE OrphanInv' /\ failures \subseteq failures'
  <2> DEFINE o == Own(w)
  <2>1. /\ o \in Threads /\ Orphan(w) \in Threads /\ Orphan(w) # o /\ Orphan(w)[1] = w
        /\ o[2] = "own" /\ o[1] = w /\ thread[o].pc = "analyze" /\ abandoned'
    BY <1>5 DEF Timeout, AttemptTimeout, Own, Orphan, Threads
  <2>2. main[w].pc = "join" /\ main[w].slot[1] = thread[o].d
    BY <2>1 DEF AwaitedInv, Awaited
  <2>3. /\ failures \subseteq failures' /\ thread'[Orphan(w)].d = thread[o].d
        /\ \A t \in Threads : t # o /\ t # Orphan(w) => thread'[t] = thread[t]
    BY <1>5, <2>1 DEF Timeout, AttemptTimeout, ThreadsOK, ThreadRec
  <2>4. /\ \A v \in Worker : v # w => main'[v] = main[v]
        /\ \/ thread[o].d \in failures' /\ UNCHANGED main
           \/ main'[w].pc = "nack" /\ main'[w].slot[1] = thread[o].d
    BY <1>5, <2>2 DEF Timeout, AttemptTimeout, Goto, MainsOK, MainRec
  <2> SUFFICES ASSUME NEW t \in Threads, t[2] = "orphan", thread'[t].pc # "off"
               PROVE  \/ thread'[t].d \in failures'
                      \/ main'[t[1]].pc = "nack" /\ main'[t[1]].slot[1] = thread'[t].d
    BY <2>1, <2>3 DEF OrphanInv
  <2>5. CASE t = Orphan(w)
    BY <2>1, <2>3, <2>4, <2>5
  <2>6. CASE t # Orphan(w)
    <3>1. t # o /\ t[1] \in Worker /\ t[1] # w
      BY <2>1, <2>6 DEF Threads, Orphan
    <3> QED
      BY <2>3, <2>4, <2>6, <3>1 DEF OrphanInv
  <2> QED
    BY <2>5, <2>6
<1>6. ASSUME NEW t \in Threads, ThreadDoes(t) PROVE OrphanInv' /\ failures \subseteq failures'
  <2>1. /\ failures \subseteq failures' /\ \A u \in Threads \ {t} : thread'[u] = thread[u]
        /\ thread[t].pc # "off" /\ (thread'[t].d = thread[t].d \/ thread'[t] = Off)
    BY <1>6 DEF ThreadDoes
  <2>2. \A w \in Worker : main[w].pc = "nack" => main'[w] = main[w]
    BY <1>6 DEF ThreadDoes, MainsOK, AwaitedInv, Awaited
  <2> SUFFICES ASSUME NEW u \in Threads, u[2] = "orphan", thread'[u].pc # "off"
               PROVE  /\ abandoned'
                      /\ \/ thread'[u].d \in failures'
                         \/ main'[u[1]].pc = "nack" /\ main'[u[1]].slot[1] = thread'[u].d
    BY <2>1 DEF OrphanInv
  <2>3. thread[u].pc # "off" /\ thread'[u].d = thread[u].d /\ u[1] \in Worker
    BY <2>1 DEF Off, Threads
  <2> QED
    BY <1>0, <2>1, <2>2, <2>3 DEF OrphanInv
<1>7. CASE SweeperDoes \/ UNCHANGED vars
  BY <1>7, <1>0, OrphansStay DEF SweeperDoes, vars
<1> QED
  BY <1>1, <1>2, <1>3, <1>4, <1>5, <1>6, <1>7, ThreadStepDoes, SweepStepDoes DEF Next

-----------------------------------------------------------------------------
(***************************************************************************)
(* Claims.  A worker's own thread that is past try_claim holds its key and *)
(* analyses a PROCESSING event, unless that event has failed while         *)
(* analyses are abandoned.                                                 *)
(***************************************************************************)
Claimed(t) ==
    LET d == thread[t].d IN
    /\ thread[t].pc \in {"count", "analyze", "done", "failed"} /\ Clean(d) =>
         St(d) = "processing" /\ claims[KeyOf(d)] = d
    /\ thread[t].pc \in {"ensure", "start"} /\ Clean(d) =>
         St(d) \in Terminal \/ claims[KeyOf(d)] = d
    /\ thread[t].pc = "steal" => thread[t].holder \in Delivery /\ St(thread[t].holder) \in Terminal
    /\ thread[t].pc # "late"
ClaimInv == \A t \in Threads : t[2] = "own" => Claimed(t)

\* Whoever works on a loses its own claim at most, or takes over what was free or finished.
Takes(a) == \A k \in Key : claims'[k] # claims[k] =>
              \/ claims[k] \in {NoDelivery, a}
              \/ claims[k] \in Delivery /\ St(claims[k]) \in Terminal

\* A worker's own thread is the only one that works on an event without a failure.
LEMMA OnlyMine ==
    ASSUME CareInv, OrphanInv, NEW t \in Threads, t[2] = "own", thread[t].pc # "off", Clean(thread[t].d)
    PROVE  /\ \A u \in Threads : thread[u].pc # "off" /\ thread[u].d = thread[t].d => u = t
           /\ \A w \in Worker : main[w].slot[1] = thread[t].d => w = t[1] /\ main[w].pc = "join"
           /\ ~InSweep(thread[t].d)
<1> USE DEF CareInv, ShapeInv, Types
<1> DEFINE d == thread[t].d
<1>1. d \in Delivery /\ t[1] \in Worker /\ main[t[1]].pc = "join" /\ main[t[1]].slot[1] = d
  BY DEF AwaitedInv, Awaited, Threads
<1>2. \A w \in Worker : main[w].slot[1] = d => w = t[1]
  BY <1>1 DEF Custody, OneWorker
<1>3. ASSUME NEW u \in Threads, thread[u].pc # "off", thread[u].d = d PROVE u = t
  <2>1. u[1] \in Worker /\ u[2] \in {"own", "orphan"}
    BY DEF Threads
  <2>2. u[2] = "own"
    <3>1. ~(main[u[1]].pc = "nack" /\ main[u[1]].slot[1] = d)
      BY <1>1, <1>2, <2>1
    <3> QED
      BY <1>3, <2>1, <3>1 DEF OrphanInv, Clean
  <2>3. u[1] = t[1]
    BY <1>2, <1>3, <2>1, <2>2 DEF AwaitedInv, Awaited
  <2> QED
    BY <2>2, <2>3 DEF Threads
<1>4. ~InSweep(d)
  BY <1>1 DEF Custody, OnePlace, Loose, InWork
<1> QED
  BY <1>1, <1>2, <1>3, <1>4

LEMMA ClaimStays ==
    ASSUME CareInv, NEW t \in Threads, t[2] = "own", Claimed(t), thread'[t] = thread[t], Settled,
           failures \subseteq failures', abandoned => abandoned', NEW a, Beside(a), Takes(a), Clean(thread[t].d) => thread[t].d # a
    PROVE  Claimed(t)'
<1> USE DEF CareInv, ShapeInv, Types
<1>1. CASE thread[t].pc = "off"
  BY <1>1 DEF Claimed
<1>2. CASE thread[t].pc # "off"
  <2>1. PICK d \in Delivery : d = thread[t].d
    BY <1>2 DEF AwaitedInv, Awaited
  <2>2. InThread(d) /\ St(d) # "absent" /\ KeyOf(d) \in Key
    BY <2>1, BusyIsKnown DEF InThread, Busy
  <2>3. PICK h : h = thread[t].holder
    OBVIOUS
  <2>4. thread'[t].d = d /\ thread'[t].holder = h /\ thread'[t].pc = thread[t].pc
    BY <2>1, <2>3
  <2>5. Clean(d)' => Clean(d)
    BY DEF Clean
  <2>6. Clean(d) => St(d)' = St(d)
    BY <2>1 DEF Beside
  <2>7. KeyOf(d)' = KeyOf(d)
    BY <2>2 DEF Settled
  <2>8. Clean(d) /\ claims[KeyOf(d)] = d => St(d) \in Terminal \/ claims'[KeyOf(d)] = d
    BY <2>1, <2>2, Slots DEF Takes
  <2>9. h \in Delivery /\ St(h) \in Terminal => St(h)' \in Terminal
    BY DEF Settled
  <2>10. "processing" \notin Terminal
    BY DEF Terminal
  <2> QED
    BY <2>1, <2>3, <2>4, <2>5, <2>6, <2>7, <2>8, <2>9, <2>10 DEF Claimed, Clean, St, KeyOf
<1> QED
  BY <1>1, <1>2

LEMMA ThreadTakes ==
    ASSUME CareInv, ClaimInv, NEW t \in Threads, ThreadStep(t)
    PROVE  Takes(thread[t].d)
<1> USE DEF CareInv, ShapeInv, Types
<1>1. PICK d \in Delivery : d = thread[t].d
  BY ThreadStepDoes DEF ThreadDoes, AwaitedInv, Awaited
<1>2. KeyOf(d) \in Key /\ claims \in [Key -> Delivery \cup {NoDelivery}]
  <2>1. InThread(d)
    BY <1>1 DEF InThread
  <2> QED
    BY <2>1, BusyIsKnown DEF Busy, TablesOK
<1>3. CASE UNCHANGED claims
  BY <1>3 DEF Takes
<1>4. CASE Claim(t)
  BY <1>1, <1>2, <1>3, <1>4 DEF Claim, Takes
<1>5. CASE Steal(t)
  <2>1. thread[t].pc = "steal" => t[2] = "own"
    BY DEF AwaitedInv, Awaited, Late, Threads
  <2>2. thread[t].holder \in Delivery /\ St(thread[t].holder) \in Terminal
    BY <1>5, <2>1 DEF Steal, ClaimInv, Claimed
  <2>3. claims' = claims \/ (/\ claims' = [claims EXCEPT ![KeyOf(d)] = d]
                             /\ claims[KeyOf(d)] = thread[t].holder)
    BY <1>1, <1>5 DEF Steal
  <2> QED
    BY <1>1, <1>2, <2>2, <2>3 DEF Takes
<1>6. ASSUME NEW from, NEW pc, Free(t, from, pc) PROVE Takes(thread[t].d)
  BY <1>1, <1>2, <1>6 DEF Free, Unclaimed, Takes
<1> QED
  BY <1>3, <1>4, <1>5, <1>6 DEF ThreadStep, Plan, Conclude, Check, Drive, DriveTo, DriveEnd, Ensure, Start, Count, MarkDone, MarkFailed,
     AnalysisReturns, AnalysisFails, AnalysisHeldBack, LateCall, OnlyEvents, Pure, db

LEMMA OwnClaim ==
    ASSUME CareInv, ClaimInv, NEW t \in Threads, t[2] = "own", ThreadStep(t), Settled, ShapeInv'
    PROVE  Claimed(t)'
<1> USE DEF CareInv, ShapeInv, Types, db, outcomes, past
<1> SUFFICES ASSUME thread'[t].pc # "off" PROVE Claimed(t)'
  BY DEF Claimed
<1>1. PICK d \in Delivery : d = thread[t].d
  BY ThreadStepDoes DEF ThreadDoes, AwaitedInv, Awaited
<1>2. thread'[t].d = d /\ failures \subseteq failures' /\ abandoned' = abandoned
  <2>1. ThreadDoes(t) /\ Off.pc = "off"
    BY ThreadStepDoes DEF Off
  <2>2. failures \subseteq failures' /\ abandoned' = abandoned
    BY <2>1 DEF ThreadDoes
  <2>3. thread'[t].d = thread[t].d
    BY <2>1 DEF ThreadDoes
  <2> QED
    BY <1>1, <2>2, <2>3
<1>3. /\ KeyOf(d) \in Key /\ claims \in [Key -> Delivery \cup {NoDelivery}]
      /\ KeyOf(d)' = KeyOf(d) /\ St(d) \in State
  <2>1. InThread(d)
    BY <1>1 DEF InThread
  <2> QED
    BY <2>1, BusyIsKnown DEF Busy, TablesOK, Settled, EventsOK, Event, St
<1>4. Claimed(t) /\ "off" # "steal" /\ Off.pc = "off"
  BY DEF ClaimInv, Off
<1>5. Clean(d)' => Clean(d)
  BY <1>2 DEF Clean
<1>6. /\ "processing" \notin Terminal /\ "queued" \notin Terminal
      /\ "received" \notin Terminal /\ "failed" \notin Terminal
  BY DEF Terminal
<1> DEFINE Good(pc) ==
      /\ pc \in {"count", "analyze", "done", "failed"} /\ Clean(d)' => St(d)' = "processing" /\ claims'[KeyOf(d)] = d
      /\ pc \in {"ensure", "start"} /\ Clean(d)' => St(d)' \in Terminal \/ claims'[KeyOf(d)] = d
      /\ pc \notin {"steal", "late"}
<1>7. ASSUME NEW pc, thread'[t].pc = pc, Good(pc) PROVE Claimed(t)'
  BY <1>2, <1>3, <1>7 DEF Claimed, Clean, St, KeyOf
<1>8. ASSUME NEW pc \in ThreadPc, Proceed(t, pc) PROVE thread'[t].pc = pc
  BY <1>8 DEF Proceed, ThreadsOK, ThreadRec
<1>9. ASSUME NEW pc \in ThreadPc, NEW to, Transition(t, to, pc)
      PROVE  thread'[t].pc = pc /\ MovesTo(d, to) /\ St(d)' = to
  <2>1. ~Raise(t)
    BY <1>4 DEF Raise, Return, ThreadsOK
  <2>2. Proceed(t, pc) /\ MovesTo(d, to)
    BY <1>1, <1>9, <2>1 DEF Transition, MovesTo
  <2>3. St(d)' = to
    BY <2>2, RowMoves
  <2> QED
    BY <1>8, <2>2, <2>3
<1>10. ~Return(t, "ack") /\ ~Return(t, "nack") /\ ~Return(t, "defer")
  BY <1>4 DEF Return, ThreadsOK
<1>11. CASE Check(t) \/ Drive(t)
  <2>1. {"drive", "claim", "to_queued"} \subseteq ThreadPc
    BY DEF ThreadPc
  <2> QED
    BY <1>7, <1>8, <1>10, <1>11, <2>1 DEF Check, Drive
<1>12. ASSUME NEW from, NEW to, NEW pc \in {"to_processing", "to_done", "driven"}, DriveTo(t, from, to, pc)
       PROVE  Claimed(t)'
  <2>1. pc \in ThreadPc
    BY DEF ThreadPc
  <2> QED
    BY <1>7, <1>8, <1>9, <1>12, <2>1 DEF DriveTo
<1>13. CASE Claim(t)
  <2>1. CASE claims' = [claims EXCEPT ![KeyOf(d)] = d] /\ Proceed(t, "ensure")
    <3>1. thread'[t].pc = "ensure" /\ claims'[KeyOf(d)] = d
      BY <1>3, <1>8, <2>1 DEF ThreadPc
    <3> QED
      BY <1>7, <3>1
  <2>2. ASSUME NEW h \in Delivery, Lapsed(h), UNCHANGED events,
               thread' = [thread EXCEPT ![t].pc = "steal", ![t].holder = h]
        PROVE  Claimed(t)'
    <3>1. thread'[t].pc = "steal" /\ thread'[t].holder = h
      BY <2>2 DEF ThreadsOK, ThreadRec
    <3> QED
      BY <2>2, <3>1 DEF Claimed, Lapsed, St
  <2> QED
    BY <1>1, <1>10, <1>13, <2>1, <2>2 DEF Claim
<1>14. CASE Steal(t)
  <2> DEFINE pc == IF claims[KeyOf(d)] = thread[t].holder THEN "ensure" ELSE "claim"
  <2>1. /\ pc \in {"ensure", "claim"} /\ thread'[t].pc = pc
        /\ pc = "ensure" => claims' = [claims EXCEPT ![KeyOf(d)] = d]
    BY <1>1, <1>14 DEF Steal, ThreadsOK, ThreadRec
  <2>2. pc = "ensure" => claims'[KeyOf(d)] = d
    BY <1>3, <2>1
  <2> HIDE DEF pc
  <2> QED
    BY <1>7, <2>1, <2>2
<1>15. CASE Ensure(t)
  <2>1. thread[t].pc = "ensure" /\ claims' = claims
    BY <1>15 DEF Ensure, OnlyEvents
  <2>2. Clean(d)' => St(d) \in Terminal \/ claims'[KeyOf(d)] = d
    BY <1>1, <1>4, <1>5, <2>1 DEF Claimed
  <2>3. CASE St(d) = "processing" /\ Proceed(t, "count") /\ UNCHANGED events
    <3>1. thread'[t].pc = "count"
      BY <1>8, <2>3 DEF ThreadPc
    <3>2. St(d)' = "processing"
      BY <2>3 DEF St
    <3> QED
      BY <1>6, <1>7, <2>2, <2>3, <3>1, <3>2
  <2>4. CASE St(d) \in {"received", "failed"} /\ Transition(t, "queued", "start")
    <3>1. thread'[t].pc = "start"
      BY <1>9, <2>4 DEF ThreadPc
    <3> QED
      BY <1>6, <1>7, <2>2, <2>4, <3>1
  <2>5. CASE Proceed(t, "start") /\ UNCHANGED events
    <3>1. thread'[t].pc = "start" /\ St(d)' = St(d)
      BY <1>8, <2>5 DEF ThreadPc, St
    <3> QED
      BY <1>7, <2>2, <3>1
  <2> QED
    BY <1>1, <1>15, <2>3, <2>4, <2>5 DEF Ensure
<1>16. CASE Start(t)
  <2>1. thread[t].pc = "start" /\ claims' = claims
    BY <1>16 DEF Start, OnlyEvents
  <2>2. thread'[t].pc = "count" /\ MovesTo(d, "processing") /\ St(d)' = "processing"
    BY <1>9, <1>16 DEF Start, ThreadPc
  <2>3. St(d) = "queued"
    BY <1>3, <2>2, GraphIs DEF MovesTo, Legal
  <2>4. Clean(d)' => claims'[KeyOf(d)] = d
    BY <1>1, <1>4, <1>5, <1>6, <2>1, <2>3 DEF Claimed
  <2> QED
    BY <1>7, <2>2, <2>4
<1>17. ASSUME NEW pc \in ThreadPc, pc \in {"analyze", "done", "failed"}, thread'[t].pc = pc,
              St(d)' = St(d), UNCHANGED claims, thread[t].pc \in {"count", "analyze"}
       PROVE  Claimed(t)'
  <2>1. Clean(d)' => St(d) = "processing" /\ claims[KeyOf(d)] = d
    BY <1>1, <1>4, <1>5, <1>17 DEF Claimed
  <2> QED
    BY <1>7, <1>17, <2>1
<1>18. CASE Count(t)
  <2>1. Counts(d)
    BY <1>1, <1>18 DEF Count, Counts
  <2>2. St(d)' = St(d)
    BY <2>1, RowAgesOrCounts
  <2> QED
    BY <1>8, <1>17, <1>18, <2>2 DEF Count, OnlyEvents, ThreadPc
<1>19. CASE Conclude(t)
  BY <1>8, <1>17, <1>19 DEF Conclude, AnalysisReturns, AnalysisFails, ThreadPc, St
<1>20. CASE MarkDone(t) \/ MarkFailed(t)
  <2>1. {"free_ack", "free_nack"} \subseteq ThreadPc
    BY DEF ThreadPc
  <2> QED
    BY <1>7, <1>9, <1>20, <2>1 DEF MarkDone, MarkFailed
<1>21. ~LateCall(t)
  BY <1>4 DEF LateCall, ThreadsOK
<1> QED
  BY <1>10, <1>11, <1>12, <1>13, <1>14, <1>15, <1>16, <1>18, <1>19, <1>20, <1>21
  DEF ThreadStep, Plan, DriveEnd, Free, AnalysisHeldBack

\* Whoever else takes a step works on no event that a worker's own thread works on.
Elsewhere(a) == \/ a = NoDelivery
                \/ /\ a \in Delivery
                   /\ \/ St(a) = "absent"
                      \/ InSweep(a)
                      \/ \E w \in Worker : main[w].slot[1] = a /\ main[w].pc \in Burying

LEMMA OthersWorkElsewhere ==
    ASSUME CareInv,
           \/ IngressStep \/ IngressCrash \/ \E d \in Delivery : Age(d)
           \/ \E s \in Slot : PoisonGuard(s) \/ \E w \in Worker : Lease(w, s)
           \/ \E w \in Worker : MainStep(w) \/ WorkerCrash(w) \/ Timeout(w) \/ AttemptTimeout(w)
           \/ SweeperDoes \/ UNCHANGED vars
    PROVE  \E a : Beside(a) /\ Takes(a) /\ Elsewhere(a)
<1> USE DEF CareInv, ShapeInv, Types, db, outcomes, past
<1>1. ASSUME UNCHANGED claims PROVE \A a : Takes(a)
  BY <1>1 DEF Takes
<1>2. ASSUME UNCHANGED events, UNCHANGED claims PROVE \E a : Beside(a) /\ Takes(a) /\ Elsewhere(a)
  <2>1. Beside(NoDelivery) /\ Takes(NoDelivery) /\ Elsewhere(NoDelivery)
    BY <1>1, <1>2, EventsStay DEF Elsewhere
  <2> QED
    BY <2>1
<1>3. CASE IngressStep \/ IngressCrash
  <2>1. ASSUME NEW d \in Hook, NEW k \in Key, Receive(d, k) PROVE \E a : Beside(a) /\ Takes(a) /\ Elsewhere(a)
    <3>1. Records(d, k) /\ d \in Delivery /\ St(d) = "absent" /\ UNCHANGED claims
      BY <2>1 DEF Delivery, Records, Receive
    <3>2. Beside(d) /\ Takes(d) /\ Elsewhere(d)
      BY <1>1, <3>1, RowRecords DEF Elsewhere
    <3> QED
      BY <3>2
  <2> QED
    BY <1>2, <1>3, <2>1 DEF IngressStep, Schedule, IngressCrash
<1>4. ASSUME NEW d \in Delivery, Age(d) PROVE \E a : Beside(a) /\ Takes(a) /\ Elsewhere(a)
  <2>1. Ages(d) /\ UNCHANGED claims
    BY <1>4 DEF Ages, Age, OnlyEvents
  <2>2. Beside(NoDelivery) /\ Takes(NoDelivery) /\ Elsewhere(NoDelivery)
    BY <1>1, <2>1, RowAgesOrCounts DEF Elsewhere
  <2> QED
    BY <2>2
<1>5. ASSUME NEW w \in Worker, MainStep(w) PROVE \E a : Beside(a) /\ Takes(a) /\ Elsewhere(a)
  <2> DEFINE d == main[w].slot[1]
  <2>1. CASE Unclaim(w)
    <3>1. main[w].pc \in Burying /\ d \in Delivery
      BY <2>1, Slots DEF Unclaim, Burying, HandsInv, WellHeld, Leasing
    <3>2. PICK c \in Delivery : c = main[w].slot[1]
      BY <3>1
    <3>3. KeyOf(c) \in Key /\ claims \in [Key -> Delivery \cup {NoDelivery}]
      <4>1. InWork(c)
        BY <3>2 DEF InWork
      <4> QED
        BY <4>1, BusyIsKnown DEF Busy, TablesOK
    <3>4. Takes(c)
      BY <2>1, <3>2, <3>3 DEF Unclaim, Unclaimed, Takes
    <3>5. Beside(c) /\ Elsewhere(c)
      BY <2>1, <3>1, <3>2, EventsStay DEF Unclaim, Elsewhere
    <3> QED
      BY <3>4, <3>5
  <2>2. CASE ~Unclaim(w)
    <3>1. UNCHANGED claims
      BY <1>5, <2>2 DEF MainStep, Ack, Defer, Nack, Bury, BuryDead, Notify
    <3>2. CASE UNCHANGED events
      BY <1>2, <3>1, <3>2
    <3>3. ASSUME NEW to, MovesTo(d, to), main[w].pc \in {"bury", "dead"} PROVE \E a : Beside(a) /\ Takes(a) /\ Elsewhere(a)
      <4>1. d \in Delivery /\ main[w].pc \in Burying
        BY <3>3 DEF MovesTo, Burying
      <4>2. PICK c \in Delivery : c = main[w].slot[1]
        BY <4>1
      <4>3. Beside(c)
        BY <3>3, <4>2, RowMoves
      <4>4. Takes(c) /\ Elsewhere(c)
        BY <1>1, <3>1, <4>1, <4>2 DEF Elsewhere
      <4> QED
        BY <4>3, <4>4
    <3> QED
      BY <1>5, <3>2, <3>3, MainStepDoes DEF MainDoes
  <2> QED
    BY <2>1, <2>2
<1>6. CASE SweeperDoes
  <2>1. ASSUME NEW k, Records(sweep'.d, k) PROVE \E a : Beside(a) /\ Takes(a) /\ Elsewhere(a)
    <3>1. PICK d : d = sweep'.d
      OBVIOUS
    <3>2. Records(d, k) /\ d \in Delivery /\ St(d) = "absent"
      BY <2>1, <3>1 DEF Records
    <3>3. Beside(d) /\ Takes(d) /\ Elsewhere(d)
      BY <1>1, <1>6, <3>2, RowRecords DEF SweeperDoes, Elsewhere
    <3> QED
      BY <3>3
  <2>2. ASSUME NEW to, MovesTo(sweep.d, to), sweep.pc \in Holding PROVE \E a : Beside(a) /\ Takes(a) /\ Elsewhere(a)
    <3>1. PICK d \in Delivery : d = sweep.d
      BY <2>2 DEF MovesTo
    <3>2. Beside(d)
      BY <2>2, <3>1, RowMoves
    <3>3. Takes(d) /\ Elsewhere(d)
      BY <1>1, <1>6, <2>2, <3>1 DEF SweeperDoes, Elsewhere, InSweep
    <3> QED
      BY <3>2, <3>3
  <2> QED
    BY <1>2, <1>6, <2>1, <2>2 DEF SweeperDoes, Reads, Books, Puts, Goes
<1>7. CASE (\E s \in Slot : PoisonGuard(s) \/ \E w \in Worker : Lease(w, s)) \/ UNCHANGED vars
  BY <1>2, <1>7 DEF PoisonGuard, Lease, vars
<1>8. CASE \E w \in Worker : WorkerCrash(w) \/ Timeout(w) \/ AttemptTimeout(w)
  BY <1>2, <1>8 DEF WorkerCrash, Timeout, AttemptTimeout
<1> QED
  BY <1>3, <1>4, <1>5, <1>6, <1>7, <1>8

LEMMA ElsewhereIsNotMine ==
    ASSUME CareInv, OrphanInv, NEW t \in Threads, t[2] = "own", thread[t].pc # "off", Clean(thread[t].d),
           NEW a, Elsewhere(a)
    PROVE  thread[t].d # a
<1>1. thread[t].d \in Delivery /\ InThread(thread[t].d)
  BY DEF CareInv, ShapeInv, AwaitedInv, Awaited, InThread
<1>2. thread[t].d # NoDelivery /\ St(thread[t].d) # "absent"
  BY <1>1, Slots, BusyIsKnown DEF CareInv, Busy
<1> QED
  BY <1>2, OnlyMine DEF Elsewhere, Burying

\* What else may become of a worker's own thread.
LEMMA OthersAndMyThread ==
    ASSUME ShapeInv, NEW t \in Threads, t[2] = "own",
           \/ IngressStep \/ IngressCrash \/ \E d \in Delivery : Age(d)
           \/ \E s \in Slot : PoisonGuard(s) \/ \E w \in Worker : Lease(w, s)
           \/ \E w \in Worker : MainStep(w) \/ WorkerCrash(w) \/ Timeout(w) \/ AttemptTimeout(w)
           \/ SweeperDoes \/ UNCHANGED vars
    PROVE  \/ thread'[t] = thread[t]
           \/ thread'[t].pc \in {"off", "check"}
           \/ thread'[t].pc = "failed" /\ abandoned' /\ thread'[t].d \in failures'
<1> USE DEF ShapeInv, Types, db, outcomes, past
<1>1. CASE IngressStep \/ IngressCrash \/ \E d \in Delivery : Age(d)
  BY <1>1 DEF IngressStep, Receive, Schedule, IngressCrash, Age
<1>2. ASSUME NEW s \in Slot, NEW w \in Worker, Lease(w, s)
      PROVE  thread'[t] = thread[t] \/ thread'[t].pc = "check"
  <2> DEFINE fresh == [Off EXCEPT !.pc = "check", !.d = s[1]]
  <2>1. fresh.pc = "check" /\ thread' = [thread EXCEPT ![Own(w)] = fresh]
    BY <1>2 DEF Lease, Off
  <2> HIDE DEF fresh
  <2> QED
    BY <2>1 DEF ThreadsOK
<1>3. ASSUME NEW w \in Worker, MainStep(w) \/ WorkerCrash(w)
      PROVE  thread'[t] = thread[t] \/ thread'[t].pc = "off"
  <2>1. UNCHANGED thread \/ Stop(w)
    BY <1>3 DEF MainStep, Ack, Defer, Nack, Bury, BuryDead, Unclaim, Notify, WorkerCrash
  <2> QED
    BY <2>1, StopHands DEF Off
<1>4. ASSUME NEW w \in Worker, Timeout(w) \/ AttemptTimeout(w)
      PROVE  \/ thread'[t] = thread[t] \/ thread'[t].pc = "off"
             \/ thread'[t].pc = "failed" /\ abandoned' /\ thread'[t].d \in failures'
  <2>1. Own(w) \in Threads /\ Orphan(w) \in Threads /\ t # Orphan(w)
    BY DEF Own, Orphan, Threads
  <2> QED
    BY <1>4, <2>1 DEF Timeout, AttemptTimeout, ThreadsOK, ThreadRec, Off
<1> QED
  BY <1>1, <1>2, <1>3, <1>4 DEF PoisonGuard, SweeperDoes, vars

LEMMA StepKeepsClaims ==
    ASSUME CareInv, OrphanInv, ClaimInv, [Next]_vars, Settled, ShapeInv', failures \subseteq failures',
           abandoned => abandoned'
    PROVE  ClaimInv'
<1> SUFFICES ASSUME NEW t \in Threads, t[2] = "own" PROVE Claimed(t)'
  BY DEF ClaimInv
<1>1. ASSUME NEW u \in Threads, ThreadStep(u) PROVE Claimed(t)'
  <2>1. CASE u = t
    BY <1>1, <2>1, OwnClaim
  <2>2. CASE u # t
    <3>1. PICK a : a = thread[u].d
      OBVIOUS
    <3>2. Takes(a) /\ thread'[t] = thread[t] /\ thread[u].pc # "off"
      BY <1>1, <2>2, <3>1, ThreadTakes, ThreadStepDoes DEF ThreadDoes, CareInv
    <3>3. Beside(a)
      BY <1>1, <3>1, ThreadStepDoes, EventsStay, RowMoves, RowAgesOrCounts DEF ThreadDoes, CareInv, ShapeInv, Types
    <3>4. thread[t].pc # "off" /\ Clean(thread[t].d) => thread[t].d # a
      BY <2>2, <3>1, <3>2, OnlyMine
    <3> QED
      BY <3>2, <3>3, <3>4, ClaimStays DEF ClaimInv, Claimed
  <2> QED
    BY <2>1, <2>2
<1>2. CASE \/ IngressStep \/ IngressCrash \/ \E d \in Delivery : Age(d)
           \/ \E s \in Slot : PoisonGuard(s) \/ \E w \in Worker : Lease(w, s)
           \/ \E w \in Worker : MainStep(w) \/ WorkerCrash(w) \/ Timeout(w) \/ AttemptTimeout(w)
           \/ SweeperDoes \/ UNCHANGED vars
  <2>1. PICK a : Beside(a) /\ Takes(a) /\ Elsewhere(a)
    BY <1>2, OthersWorkElsewhere
  <2>2. CASE thread'[t] = thread[t] /\ thread[t].pc # "off"
    BY <2>1, <2>2, ElsewhereIsNotMine, ClaimStays DEF ClaimInv
  <2>3. CASE thread'[t].pc \in {"off", "check"}
    BY <2>3 DEF Claimed
  <2>4. CASE thread'[t].pc = "failed" /\ abandoned' /\ thread'[t].d \in failures'
    BY <2>4 DEF Claimed, Clean
  <2> QED
    BY <1>2, <2>2, <2>3, <2>4, OthersAndMyThread DEF CareInv
<1> QED
  BY <1>1, <1>2, SweepStepDoes DEF Next, CareInv

-----------------------------------------------------------------------------
\* Custody and claims together, an inductive invariant.
FlowInv == CareInv /\ OrphanInv /\ ClaimInv

LEMMA FlowInit == Init => FlowInv
<1> SUFFICES ASSUME Init PROVE FlowInv
  OBVIOUS
<1>1. \A t \in Threads : thread[t].pc = "off"
  BY DEF Init, Off
<1> QED
  BY <1>1, CareInit DEF FlowInv, OrphanInv, ClaimInv, Claimed

LEMMA StepKeepsFlow == ASSUME overtaken' = 0 PROVE FlowInv /\ [Next]_vars => FlowInv'
<1> SUFFICES ASSUME FlowInv, [Next]_vars PROVE FlowInv'
  OBVIOUS
<1>1. CareInv' /\ Settled
  BY StepKeepsCare DEF FlowInv
<1>2. OrphanInv' /\ failures \subseteq failures' /\ (abandoned => abandoned')
  BY StepKeepsOrphans, HistoryGrows DEF FlowInv, CareInv
<1>3. ClaimInv'
  BY <1>1, <1>2, StepKeepsClaims DEF FlowInv, CareInv
<1> QED
  BY <1>1, <1>2, <1>3 DEF FlowInv

CalmFlow == ShapeInv /\ ReadInv /\ (overtaken = 0 => FlowInv)

LEMMA CalmFlowHolds == (Init => CalmFlow) /\ (CalmFlow /\ [Next]_vars => CalmFlow')
<1>1. Init => CalmFlow
  BY ShapeInit, FlowInit DEF CalmFlow
<1>2. CalmFlow /\ [Next]_vars => CalmFlow'
  BY StepKeepsShape, StepKeepsFlow, HistoryGrows DEF CalmFlow
<1> QED
  BY <1>1, <1>2

(***************************************************************************)
(* К-4, СТ-16: no two workers and no two deliveries have a business key    *)
(* analysed twice at the same time (state.py:255-299), before a pass takes *)
(* up a row with a message outstanding or an analysis is abandoned.        *)
(***************************************************************************)
THEOREM KeysAreAnalysedOnce == Spec => []OneAnalysisPerKey
<1>1. FlowInv /\ ~abandoned => NeverAnalysedTwice
  <2> SUFFICES ASSUME FlowInv, ~abandoned, NEW t \in Threads, NEW u \in Threads, t # u,
                      {thread[t].pc, thread[u].pc} \subseteq {"analyze", "late"},
                      KeyOf(thread[t].d) = KeyOf(thread[u].d)
               PROVE  FALSE
    BY DEF NeverAnalysedTwice
  <2>1. /\ t[2] = "own" /\ u[2] = "own" /\ thread[t].pc # "late" /\ thread[u].pc # "late"
        /\ thread[t].pc # "off" /\ thread[u].pc # "off"
    <3>1. t[2] \in {"own", "orphan"} /\ u[2] \in {"own", "orphan"}
      BY DEF Threads
    <3>2. t[2] = "own" /\ u[2] = "own"
      BY <3>1 DEF FlowInv, OrphanInv
    <3>3. \A x \in Threads : x[2] = "own" => thread[x].pc # "late"
      BY DEF FlowInv, ClaimInv, Claimed
    <3> QED
      BY <3>2, <3>3
  <2>2. claims[KeyOf(thread[t].d)] = thread[t].d /\ claims[KeyOf(thread[u].d)] = thread[u].d
    BY <2>1 DEF FlowInv, ClaimInv, Claimed, Clean
  <2> QED
    BY <2>1, <2>2, OnlyMine DEF FlowInv, Clean
<1>2. CalmFlow => OneAnalysisPerKey
  BY <1>1 DEF CalmFlow, OneAnalysisPerKey
<1> QED
  BY <1>2, CalmFlowHolds, PTL DEF Spec

-----------------------------------------------------------------------------
(***************************************************************************)
(* False alarms.  Between already_done and its own DONE a thread of a      *)
(* webhook event knows that the event is not DONE, and so does the main    *)
(* thread that has been told of a failure.                                 *)
(***************************************************************************)
Alarming == Burying \cup {"nack"}
Settling == {"off", "check", "drive", "driven", "free_ack"}
Alarmed(w) == main[w].pc \in Alarming /\ main[w].slot[1] \in Hook => St(main[w].slot[1]) # "done"
Undone(t) == thread[t].pc \notin Settling /\ thread[t].d \in Hook => St(thread[t].d) # "done"
AlarmInv == (\A w \in Worker : Alarmed(w)) /\ \A t \in Threads : Undone(t)

LEMMA OwnAlarm ==
    ASSUME ~abandoned, FlowInv, AlarmInv, NEW t \in Threads, ThreadStep(t)
    PROVE  Undone(t)' /\ Alarmed(t[1])'
<1> USE DEF FlowInv, CareInv, ShapeInv, Types
<1>0. ThreadDoes(t)
  BY ThreadStepDoes
<1>1. t[2] = "own" /\ t[1] \in Worker
  BY <1>0 DEF ThreadDoes, OrphanInv, Threads
<1>2. PICK d \in Delivery : d = thread[t].d
  BY <1>0 DEF ThreadDoes, AwaitedInv, Awaited
<1>3. PICK w \in Worker : w = t[1]
  BY <1>1
<1>4. main[w].pc = "join" /\ main[w].slot[1] = d
  BY <1>0, <1>1, <1>2, <1>3 DEF ThreadDoes, AwaitedInv, Awaited
<1>5. /\ thread'[t].pc = "off" \/ thread'[t].d = d
      /\ main'[w].slot = main[w].slot /\ main'[w].pc \in {"join", "ack", "nack", "defer"}
  BY <1>0, <1>2, <1>4 DEF ThreadDoes, Off, MainsOK, MainRec
<1>6. ASSUME St(d)' # "done" PROVE Undone(t)' /\ Alarmed(t[1])'
  <2>1. Undone(t)'
    BY <1>5, <1>6 DEF Undone, Settling, St
  <2>2. main'[w].slot[1] = d
    BY <1>4, <1>5
  <2>3. Alarmed(w)'
    BY <1>6, <2>2 DEF Alarmed, St
  <2> QED
    BY <1>3, <2>1, <2>3
<1>7. ASSUME thread'[t].pc \in Settling, main'[w].pc # "nack" PROVE Undone(t)' /\ Alarmed(t[1])'
  BY <1>3, <1>5, <1>7 DEF Undone, Alarmed, Alarming, Burying
<1>8. ASSUME NEW pc \in ThreadPc, Proceed(t, pc), pc \in Settling PROVE Undone(t)' /\ Alarmed(t[1])'
  <2>1. thread'[t].pc = pc /\ main'[w].pc = "join"
    BY <1>4, <1>8 DEF Proceed, ThreadsOK, ThreadRec
  <2> QED
    BY <1>7, <1>8, <2>1
<1>9. ASSUME NEW pc \in {"ack", "defer"}, Return(t, pc) PROVE Undone(t)' /\ Alarmed(t[1])'
  <2>1. thread'[t].pc = "off" /\ main'[w].pc = pc
    BY <1>1, <1>3, <1>9 DEF Return, Goto, ThreadsOK, MainsOK, MainRec, Off
  <2> QED
    BY <1>7, <1>9, <2>1 DEF Settling
<1>10. ASSUME St(d) # "done", UNCHANGED events \/ Counts(d) \/ \E to \in Working \ {"done"} : MovesTo(d, to)
       PROVE  Undone(t)' /\ Alarmed(t[1])'
  <2>1. St(d)' # "done"
    BY <1>10, RowMoves, RowAgesOrCounts DEF St
  <2> QED
    BY <1>6, <2>1
<1>11. d \in Hook /\ thread[t].pc \notin Settling => St(d) # "done"
  BY <1>2 DEF AlarmInv, Undone
<1>12. CASE d \notin Hook
  <2>1. main'[w].slot[1] = d
    BY <1>4, <1>5
  <2> QED
    BY <1>3, <1>5, <1>12, <2>1 DEF Undone, Alarmed, Settling
<1>13. CASE d \in Hook
  <2>1. CASE Check(t)
    <3>1. CASE AlreadyDone(KeyOf(d))
      <4>1. d \notin Recon
        BY <1>13, PipelineAssumption
      <4> QED
        BY <1>2, <1>8, <2>1, <3>1, <4>1 DEF Check, ThreadPc, Settling
    <3>2. CASE ~AlreadyDone(KeyOf(d))
      <4>1. St(d) # "done"
        BY <3>2 DEF AlreadyDone
      <4> QED
        BY <1>10, <2>1, <4>1 DEF Check, Pure, db
    <3> QED
      BY <3>1, <3>2
  <2>2. CASE Drive(t)
    <3>1. CASE St(d) \in Terminal
      BY <1>2, <1>9, <2>2, <3>1 DEF Drive
    <3>2. CASE St(d) \notin Terminal
      BY <1>10, <2>2, <3>2 DEF Drive, Pure, db, Terminal
    <3> QED
      BY <3>1, <3>2
  <2>3. CASE DriveEnd(t) \/ AnalysisHeldBack(t) \/ Free(t, "free_ack", "ack")
    BY <1>9, <2>3 DEF DriveEnd, AnalysisHeldBack, Free
  <2>4. ASSUME NEW to, NEW pc, Transition(t, to, pc)
        PROVE  UNCHANGED events \/ (MovesTo(d, to) /\ Proceed(t, pc))
    BY <1>2, <2>4 DEF Transition, Raise, MovesTo
  <2>5. CASE DriveTo(t, "to_done", "done", "driven") \/ MarkDone(t)
    <3>1. thread[t].pc \notin Settling
      BY <2>5 DEF DriveTo, MarkDone, Settling
    <3>2. UNCHANGED events \/ Proceed(t, "driven") \/ Proceed(t, "free_ack")
      BY <2>4, <2>5 DEF DriveTo, MarkDone
    <3> QED
      BY <1>8, <1>10, <1>11, <1>13, <3>1, <3>2 DEF ThreadPc, Settling
  <2>6. ASSUME thread[t].pc \notin Settling, UNCHANGED events PROVE Undone(t)' /\ Alarmed(t[1])'
    BY <1>10, <1>11, <1>13, <2>6
  <2>7. CASE \/ DriveTo(t, "to_queued", "queued", "to_processing")
             \/ DriveTo(t, "to_processing", "processing", "to_done")
             \/ Ensure(t) \/ Start(t) \/ MarkFailed(t)
    <3>1. thread[t].pc \notin Settling
      BY <2>7 DEF DriveTo, Ensure, Start, MarkFailed, Settling
    <3>2. UNCHANGED events \/ \E to \in Working \ {"done"} : MovesTo(d, to)
      BY <2>4, <2>7 DEF DriveTo, Ensure, Start, MarkFailed, Working
    <3> QED
      BY <1>10, <1>11, <1>13, <3>1, <3>2
  <2>8. CASE Count(t)
    BY <1>2, <1>10, <1>11, <1>13, <2>8 DEF Count, Counts, Settling
  <2>9. CASE Claim(t) \/ Steal(t) \/ Conclude(t) \/ Free(t, "free_nack", "nack") \/ LateCall(t)
    BY <2>6, <2>9 DEF Claim, Steal, Conclude, AnalysisReturns, AnalysisFails, Free, LateCall, Pure, Settling, db
  <2> QED
    BY <2>1, <2>2, <2>3, <2>5, <2>7, <2>8, <2>9 DEF ThreadStep, Plan
<1> QED
  BY <1>12, <1>13

LEMMA StepKeepsAlarms ==
    ASSUME ~abandoned', FlowInv, AlarmInv, [Next]_vars
    PROVE  AlarmInv'
<1>a. ~abandoned
  BY HistoryGrows DEF FlowInv, CareInv
<1> USE DEF FlowInv, CareInv, ShapeInv, Types
<1>0. \A t \in Threads : thread[t].pc # "off" => t[2] = "own" /\ thread[t].d \in Delivery
  BY <1>a DEF OrphanInv, Threads, AwaitedInv, Awaited
<1>1. \A w \in Worker : main[w].pc \in Alarming => main[w].slot[1] \in Delivery
  BY Slots DEF HandsInv, WellHeld, Alarming, Burying, Leasing
<1>2. ASSUME NEW t \in Threads, ThreadStep(t) PROVE AlarmInv'
  <2>1. /\ ThreadDoes(t) /\ thread[t].pc # "off"
        /\ \A u \in Threads \ {t} : thread'[u] = thread[u]
        /\ \A w \in Worker \ {t[1]} : main'[w] = main[w]
    BY <1>2, ThreadStepDoes DEF ThreadDoes, MainsOK
  <2>2. PICK a \in Delivery : a = thread[t].d
    BY <1>0, <2>1
  <2>3. Beside(a)
    BY <2>1, <2>2, EventsStay, RowMoves, RowAgesOrCounts DEF ThreadDoes
  <2>4. ASSUME NEW u \in Threads \ {t} PROVE Undone(u)'
    <3>1. CASE thread[u].pc = "off"
      BY <2>1, <3>1 DEF Undone, Settling
    <3>2. CASE thread[u].pc # "off"
      <4>1. thread[u].d # a
        BY <1>0, <2>1, <2>2, <3>2, OnlyMine, <1>a DEF Clean
      <4>2. PICK e \in Delivery : e = thread[u].d
        BY <1>0, <3>2
      <4>3. St(e)' = St(e) /\ thread'[u].d = e /\ thread'[u].pc = thread[u].pc
        BY <2>1, <2>3, <4>1, <4>2 DEF Beside
      <4> QED
        BY <4>2, <4>3 DEF AlarmInv, Undone, St
    <3> QED
      BY <3>1, <3>2
  <2>5. ASSUME NEW w \in Worker \ {t[1]} PROVE Alarmed(w)'
    <3>1. CASE main[w].pc \notin Alarming
      BY <2>1, <3>1 DEF Alarmed
    <3>2. CASE main[w].pc \in Alarming
      <4>1. main[w].slot[1] # a
        BY <1>0, <2>1, <2>2, OnlyMine, <1>a DEF Clean
      <4>2. PICK e \in Delivery : e = main[w].slot[1]
        BY <1>1, <3>2
      <4>3. St(e)' = St(e) /\ main'[w].slot[1] = e
        BY <2>1, <2>3, <4>1, <4>2 DEF Beside
      <4> QED
        BY <3>2, <4>2, <4>3 DEF AlarmInv, Alarmed, St
    <3> QED
      BY <3>1, <3>2
  <2> QED
    BY <1>2, <2>4, <2>5, OwnAlarm, <1>a DEF AlarmInv
<1>3. CASE \/ IngressStep \/ IngressCrash \/ \E d \in Delivery : Age(d)
           \/ \E s \in Slot : PoisonGuard(s) \/ \E w \in Worker : Lease(w, s)
           \/ \E w \in Worker : MainStep(w) \/ WorkerCrash(w) \/ Timeout(w) \/ AttemptTimeout(w)
           \/ SweeperDoes \/ UNCHANGED vars
  <2>1. ASSUME NEW e \in Delivery, St(e)' = "done" PROVE St(e) = "done"
    <3>1. PICK a : Beside(a) /\ Elsewhere(a)
      BY <1>3, OthersWorkElsewhere
    <3>2. ASSUME NEW t \in Threads, thread[t].pc \in Publishing, thread[t].d = e PROVE e # a
      <4>1. t[2] = "own" /\ thread[t].pc # "off"
        BY <1>0, <3>2 DEF Publishing
      <4> QED
        BY <3>1, <3>2, <4>1, ElsewhereIsNotMine, <1>a DEF Clean
    <3>3. Publishes
      BY <1>3, OthersPublishNothing
    <3> QED
      BY <2>1, <3>1, <3>2, <3>3 DEF Publishes, Beside
  <2>2. ASSUME NEW t \in Threads PROVE Undone(t)'
    <3>1. CASE t[2] = "own" /\ thread'[t] # thread[t]
      <4>1. thread'[t].pc \in {"off", "check"}
        BY <1>3, <3>1, OthersAndMyThread
      <4> QED
        BY <4>1 DEF Undone, Settling
    <3>2. CASE thread'[t] = thread[t] /\ thread[t].pc # "off"
      <4>1. PICK e \in Delivery : e = thread[t].d
        BY <1>0, <3>2
      <4> QED
        BY <2>1, <3>2, <4>1 DEF AlarmInv, Undone, St
    <3>3. t[2] = "orphan" => thread'[t].pc = "off"
      BY StepKeepsOrphans DEF OrphanInv
    <3>4. thread[t].pc = "off" /\ thread'[t] = thread[t] => Undone(t)'
      BY DEF Undone, Settling
    <3>5. t[2] \in {"own", "orphan"}
      BY DEF Threads
    <3> QED
      BY <3>1, <3>2, <3>3, <3>4, <3>5 DEF Undone, Settling
  <2>3. ASSUME NEW w \in Worker, main'[w].pc \in Alarming
        PROVE  main[w].pc \in Alarming /\ main'[w].slot = main[w].slot
    <3> USE DEF Alarming, Burying
    <3>1. CASE UNCHANGED main
      BY <2>3, <3>1
    <3>2. ASSUME NEW s \in Slot, NEW v \in Worker, Lease(v, s)
          PROVE  main[w].pc \in Alarming /\ main'[w].slot = main[w].slot
      BY <2>3, <3>2 DEF Lease, MainsOK
    <3>3. ASSUME NEW v \in Worker, MainStep(v)
          PROVE  main[w].pc \in Alarming /\ main'[w].slot = main[w].slot
      BY <2>3, <3>3 DEF MainStep, Ack, Defer, Nack, Bury, BuryDead, Unclaim, Notify, Goto, Rest, Stop, MainsOK, MainRec
    <3>4. ASSUME NEW v \in Worker, WorkerCrash(v)
          PROVE  main[w].pc \in Alarming /\ main'[w].slot = main[w].slot
      BY <2>3, <3>4, StopHands DEF WorkerCrash
    <3> QED
      BY <1>3, <3>1, <3>2, <3>3, <3>4
      DEF IngressStep, Receive, Schedule, IngressCrash, Age, PoisonGuard, Timeout, AttemptTimeout, SweeperDoes, vars
  <2>4. ASSUME NEW w \in Worker, main'[w].pc \in Alarming PROVE Alarmed(w)'
    <3>1. PICK e \in Delivery : e = main[w].slot[1]
      BY <1>1, <2>3, <2>4
    <3>2. main'[w].slot[1] = e /\ main[w].pc \in Alarming
      BY <2>3, <2>4, <3>1
    <3> QED
      BY <2>1, <3>1, <3>2 DEF AlarmInv, Alarmed, St
  <2> QED
    BY <2>2, <2>4 DEF AlarmInv, Alarmed
<1> QED
  BY <1>2, <1>3, SweepStepDoes DEF Next

CalmAlarm == CalmFlow /\ (overtaken = 0 /\ ~abandoned => AlarmInv)

(***************************************************************************)
(* No failure comment is posted for a webhook event that is DONE, however  *)
(* late its message is delivered again (supervisor.py:25-27), before a     *)
(* pass takes up a row with a message outstanding or an analysis is        *)
(* abandoned.                                                              *)
(***************************************************************************)
THEOREM AlarmsAreTrue == Spec => []NoFalseAlarm
<1>1. Init => CalmAlarm
  <2>1. Init => AlarmInv
    BY DEF Init, AlarmInv, Alarmed, Undone, Alarming, Burying, Settling, Off
  <2> QED
    BY <2>1, CalmFlowHolds DEF CalmAlarm
<1>2. CalmAlarm /\ [Next]_vars => CalmAlarm'
  <2> SUFFICES ASSUME CalmAlarm, [Next]_vars PROVE CalmAlarm'
    OBVIOUS
  <2>1. CalmFlow'
    BY CalmFlowHolds DEF CalmAlarm
  <2>2. ASSUME overtaken' = 0, ~abandoned' PROVE AlarmInv'
    <3>1. overtaken = 0 /\ ~abandoned
      BY <2>2, HistoryGrows DEF CalmAlarm, CalmFlow
    <3> QED
      BY <2>2, <3>1, StepKeepsAlarms DEF CalmAlarm, CalmFlow
  <2> QED
    BY <2>1, <2>2 DEF CalmAlarm
<1>3. CalmAlarm => NoFalseAlarm
  BY DEF CalmAlarm, AlarmInv, Alarmed, Alarming, Burying, NoFalseAlarm
<1> QED
  BY <1>1, <1>2, <1>3, PTL DEF Spec

-----------------------------------------------------------------------------
(***************************************************************************)
(* Backpressure is not failure.  A thread that frees its claim to ack has  *)
(* seen DONE, one that frees it to nack has seen a failure.                *)
(***************************************************************************)
Ended(t) == /\ thread[t].pc \in {"driven", "free_ack"} => St(thread[t].d) = "done"
            /\ thread[t].pc \in {"failed", "free_nack"} => thread[t].d \in failures
EndsInv == \A t \in Threads : Ended(t)

LEMMA OthersAndOrphans ==
    ASSUME ShapeInv, NEW t \in Threads, t[2] = "orphan",
           \/ IngressStep \/ IngressCrash \/ \E d \in Delivery : Age(d)
           \/ \E s \in Slot : PoisonGuard(s) \/ \E w \in Worker : Lease(w, s)
           \/ \E w \in Worker : MainStep(w) \/ WorkerCrash(w) \/ Timeout(w) \/ AttemptTimeout(w)
           \/ SweeperDoes \/ UNCHANGED vars
    PROVE  thread'[t] = thread[t] \/ thread'[t].pc \in {"off", "analyze", "late"}
<1> USE DEF ShapeInv, Types, db, outcomes, past
<1>0. \A w \in Worker : Own(w) \in Threads /\ Own(w) # t
  BY DEF Own, Threads
<1>1. CASE IngressStep \/ IngressCrash \/ \E d \in Delivery : Age(d)
  BY <1>1 DEF IngressStep, Receive, Schedule, IngressCrash, Age
<1>2. ASSUME NEW s \in Slot, NEW w \in Worker, Lease(w, s) PROVE thread'[t] = thread[t]
  BY <1>0, <1>2 DEF Lease, ThreadsOK
<1>3. ASSUME NEW w \in Worker, MainStep(w) \/ WorkerCrash(w)
      PROVE  thread'[t] = thread[t] \/ thread'[t].pc = "off"
  <2>1. UNCHANGED thread \/ Stop(w)
    BY <1>3 DEF MainStep, Ack, Defer, Nack, Bury, BuryDead, Unclaim, Notify, WorkerCrash
  <2> QED
    BY <2>1, StopHands DEF Off
<1>4. ASSUME NEW w \in Worker, Timeout(w) \/ AttemptTimeout(w)
      PROVE  thread'[t] = thread[t] \/ thread'[t].pc \in {"analyze", "late"}
  BY <1>0, <1>4 DEF Timeout, AttemptTimeout, ThreadsOK, ThreadRec
<1> QED
  BY <1>1, <1>2, <1>3, <1>4 DEF PoisonGuard, SweeperDoes, vars

LEMMA EndStays ==
    ASSUME ShapeInv, NEW t \in Threads, Ended(t), thread'[t] = thread[t], Settled, failures \subseteq failures'
    PROVE  Ended(t)'
<1>1. CASE thread[t].pc = "off"
  BY <1>1 DEF Ended
<1>2. CASE thread[t].pc # "off"
  <2>1. PICK d \in Delivery : d = thread[t].d
    BY <1>2 DEF ShapeInv, AwaitedInv, Awaited
  <2>2. thread'[t].d = d /\ thread'[t].pc = thread[t].pc
    BY <2>1
  <2>3. St(d) = "done" => St(d)' = "done"
    BY DEF Settled, Terminal
  <2> QED
    BY <2>1, <2>2, <2>3 DEF Ended, St
<1> QED
  BY <1>1, <1>2

LEMMA OwnEnd ==
    ASSUME FlowInv, EndsInv, NEW t \in Threads, ThreadStep(t)
    PROVE  Ended(t)'
<1> USE DEF FlowInv, CareInv, ShapeInv, Types
<1>0. ThreadDoes(t)
  BY ThreadStepDoes
<1>1. PICK d \in Delivery : d = thread[t].d
  BY <1>0 DEF ThreadDoes, AwaitedInv, Awaited
<1>2. (thread'[t].pc = "off" \/ thread'[t].d = d) /\ Off.pc = "off"
  BY <1>0, <1>1 DEF ThreadDoes, Off
<1>3. ASSUME NEW pc \in ThreadPc, Proceed(t, pc) PROVE thread'[t].pc = pc
  BY <1>3 DEF Proceed, ThreadsOK, ThreadRec
<1>4. ASSUME NEW pc, Return(t, pc) PROVE thread'[t].pc = "off"
  BY <1>2, <1>4 DEF Return, ThreadsOK
<1>5. ASSUME NEW pc \in ThreadPc, NEW to, Transition(t, to, pc)
      PROVE  thread'[t].pc = "off" \/ (thread'[t].pc = pc /\ St(d)' = to)
  <2>1. CASE Raise(t)
    BY <1>4, <2>1 DEF Raise
  <2>2. CASE ~Raise(t)
    <3>1. MovesTo(d, to) /\ Proceed(t, pc)
      BY <1>1, <1>5, <2>2 DEF Transition, MovesTo
    <3>2. St(d)' = to
      BY <3>1, RowMoves
    <3> QED
      BY <1>3, <3>1, <3>2
  <2> QED
    BY <2>1, <2>2
<1> DEFINE Fine(pc) == /\ pc \in {"driven", "free_ack"} => St(d)' = "done"
                       /\ pc \in {"failed", "free_nack"} => d \in failures'
<1>6. ASSUME NEW pc, thread'[t].pc = pc, Fine(pc) PROVE Ended(t)'
  BY <1>2, <1>6 DEF Ended, St
<1>7. thread'[t].pc = "off" => Ended(t)'
  BY DEF Ended
<1>8. CASE Check(t) \/ Drive(t)
  <2>1. {"drive", "claim", "to_queued"} \subseteq ThreadPc
    BY DEF ThreadPc
  <2> QED
    BY <1>3, <1>4, <1>6, <1>7, <1>8, <2>1 DEF Check, Drive
<1>9. CASE \/ DriveTo(t, "to_queued", "queued", "to_processing")
           \/ DriveTo(t, "to_processing", "processing", "to_done")
  <2>1. {"to_processing", "to_done"} \subseteq ThreadPc
    BY DEF ThreadPc
  <2> QED
    BY <1>3, <1>5, <1>6, <1>7, <1>9, <2>1 DEF DriveTo
<1>10. CASE DriveTo(t, "to_done", "done", "driven")
  <2>1. "driven" \in ThreadPc
    BY DEF ThreadPc
  <2>2. CASE St(d) = "done" /\ Proceed(t, "driven") /\ UNCHANGED events
    <3>1. St(d)' = "done"
      BY <2>2 DEF St
    <3> QED
      BY <1>3, <1>6, <2>1, <2>2, <3>1
  <2>3. CASE Transition(t, "done", "driven")
    BY <1>5, <1>6, <1>7, <2>1, <2>3
  <2> QED
    BY <1>1, <1>10, <2>2, <2>3 DEF DriveTo
<1>11. CASE DriveEnd(t) \/ AnalysisHeldBack(t) \/ Free(t, "free_ack", "ack") \/ Free(t, "free_nack", "nack")
  BY <1>4, <1>7, <1>11 DEF DriveEnd, AnalysisHeldBack, Free
<1>12. CASE Claim(t)
  <2>1. CASE Proceed(t, "ensure")
    BY <1>3, <1>6, <2>1 DEF ThreadPc
  <2>2. ASSUME NEW h, thread' = [thread EXCEPT ![t].pc = "steal", ![t].holder = h] PROVE Ended(t)'
    <3>1. thread'[t].pc = "steal"
      BY <2>2 DEF ThreadsOK, ThreadRec
    <3> QED
      BY <1>6, <3>1
  <2> QED
    BY <1>4, <1>7, <1>12, <2>1, <2>2 DEF Claim
<1>13. CASE Steal(t)
  <2>1. thread'[t].pc \in {"ensure", "claim"}
    BY <1>13 DEF Steal, ThreadsOK, ThreadRec
  <2> QED
    BY <1>6, <2>1
<1>14. CASE Ensure(t) \/ Start(t) \/ Count(t)
  <2>1. {"count", "start", "analyze"} \subseteq ThreadPc
    BY DEF ThreadPc
  <2> QED
    BY <1>3, <1>5, <1>6, <1>7, <1>14, <2>1 DEF Ensure, Start, Count
<1>15. CASE Conclude(t)
  <2>1. {"done", "failed"} \subseteq ThreadPc
    BY DEF ThreadPc
  <2> QED
    BY <1>1, <1>3, <1>6, <1>15, <2>1 DEF Conclude, AnalysisReturns, AnalysisFails
<1>16. CASE LateCall(t)
  BY <1>2, <1>7, <1>16 DEF LateCall, ThreadsOK
<1>17. CASE MarkDone(t)
  BY <1>5, <1>6, <1>7, <1>17 DEF MarkDone, ThreadPc
<1>18. CASE MarkFailed(t)
  <2>1. d \in failures'
    BY <1>1, <1>18 DEF MarkFailed, OnlyEvents, EndsInv, Ended, past
  <2> QED
    BY <1>5, <1>6, <1>7, <1>18, <2>1 DEF MarkFailed, ThreadPc
<1> QED
  BY <1>8, <1>9, <1>10, <1>11, <1>12, <1>13, <1>14, <1>15, <1>16, <1>17, <1>18 DEF ThreadStep, Plan

LEMMA StepKeepsEnds ==
    ASSUME FlowInv, EndsInv, [Next]_vars, Settled, failures \subseteq failures'
    PROVE  EndsInv'
<1> SUFFICES ASSUME NEW t \in Threads PROVE Ended(t)'
  BY DEF EndsInv
<1> USE DEF FlowInv, CareInv
<1>1. ASSUME NEW u \in Threads, ThreadStep(u) PROVE Ended(t)'
  <2>1. CASE u = t
    BY <1>1, <2>1, OwnEnd
  <2>2. CASE u # t
    BY <1>1, <2>2, ThreadStepDoes, EndStays DEF ThreadDoes, EndsInv
  <2> QED
    BY <2>1, <2>2
<1>2. CASE \/ IngressStep \/ IngressCrash \/ \E d \in Delivery : Age(d)
           \/ \E s \in Slot : PoisonGuard(s) \/ \E w \in Worker : Lease(w, s)
           \/ \E w \in Worker : MainStep(w) \/ WorkerCrash(w) \/ Timeout(w) \/ AttemptTimeout(w)
           \/ SweeperDoes \/ UNCHANGED vars
  <2>1. \/ thread'[t] = thread[t]
        \/ thread'[t].pc \in {"off", "check", "analyze", "late"}
        \/ thread'[t].pc = "failed" /\ thread'[t].d \in failures'
    <3>1. t[2] \in {"own", "orphan"}
      BY DEF Threads
    <3> QED
      BY <1>2, <3>1, OthersAndMyThread, OthersAndOrphans
  <2> QED
    BY <2>1, EndStays DEF EndsInv, Ended
<1> QED
  BY <1>1, <1>2, SweepStepDoes DEF Next

(***************************************************************************)
(* An event none of whose attempts failed has used no attempt, or is held  *)
(* back with its claim and its message, or is DONE; its messages have been *)
(* received once more than they were given back, and nobody buries it.     *)
(***************************************************************************)
Excused(d) == events[d].attempts = 0 \/ St(d) = "done"
HeldBack(d) == St(d) = "processing" /\ claims[KeyOf(d)] = d /\ InQueue(d)
Received(s) == /\ queue[s].state = "ready" => queue[s].receives = 0
               /\ queue[s].state = "leased" => queue[s].receives = 1
Unfailed(d) ==
    /\ St(d) # "dead_letter" /\ (Excused(d) \/ HeldBack(d))
    /\ \A s \in Slot : s[1] = d => Received(s)
    /\ \A w \in Worker : main[w].slot[1] = d => /\ main[w].pc \notin Burying
                                                /\ main[w].pc = "ack" => Excused(d)
    /\ \A r \in sweep.todo : r.d = d => ~r.over
    /\ sweep.d = d => sweep.pc \notin {"fail_dead", "dead"}
FateInv == FlowInv /\ EndsInv /\ \A d \in Delivery : d \notin failures => Unfailed(d)

LEMMA AttemptsStay ==
    ASSUME EventsOK
    PROVE  /\ UNCHANGED events => \A e \in Delivery : events'[e].attempts = events[e].attempts
           /\ \A d, to : MovesTo(d, to) => \A e \in Delivery : events'[e].attempts = events[e].attempts
           /\ \A d : Ages(d) => \A e \in Delivery : events'[e].attempts = events[e].attempts
           /\ \A d : Counts(d) => \A e \in Delivery \ {d} : events'[e].attempts = events[e].attempts
           /\ \A d, k : Records(d, k) => /\ events'[d].attempts = 0
                                         /\ \A e \in Delivery \ {d} : events'[e].attempts = events[e].attempts
BY DEF EventsOK, Event, MovesTo, Moved, Ages, Counts, Records, Recorded

\* What keeps an event that nobody works on in this step.
LEMMA RowIsKept ==
    ASSUME NEW d \in Delivery, events'[d].attempts = events[d].attempts, St(d)' = St(d), KeyOf(d)' = KeyOf(d)
    PROVE  /\ Excused(d) => Excused(d)'
           /\ HeldBack(d) /\ claims'[KeyOf(d)] = d /\ InQueue(d)' => HeldBack(d)'
           /\ St(d) # "dead_letter" => St(d)' # "dead_letter"
BY DEF Excused, HeldBack, St, KeyOf

LEMMA QueueIsKept ==
    ASSUME NEW d \in Delivery, \A s \in Slot : s[1] = d => Received(s),
           \A s \in Slot : s[1] = d => queue'[s] = queue[s]
    PROVE  (InQueue(d) => InQueue(d)') /\ \A s \in Slot : s[1] = d => Received(s)'
BY DEF InQueue, Received

LEMMA EnqueueReceived ==
    ASSUME QueueOK, NEW d \in Delivery, NEW e \in Delivery, Enqueue(e), \A s \in Slot : s[1] = d => Received(s)
    PROVE  (InQueue(d) => InQueue(d)') /\ \A s \in Slot : s[1] = d => Received(s)'
<1>1. PICK c \in (1..MaxCopies) \ Copies(e) :
        queue' = [queue EXCEPT ![<<e, c>>] = [state |-> "ready", receives |-> 0]]
  BY DEF Enqueue
<1>2. /\ <<e, c>> \in Slot /\ queue'[<<e, c>>] = [state |-> "ready", receives |-> 0]
      /\ \A s \in Slot : s # <<e, c>> => queue'[s] = queue[s]
      /\ queue[<<e, c>>].state = "none"
  BY <1>1 DEF QueueOK, Slot, Copies
<1>3. \A s \in Slot : queue[s].state # "none" => queue'[s].state # "none"
  BY <1>2
<1>4. InQueue(d) => InQueue(d)'
  BY <1>3 DEF InQueue
<1>5. ASSUME NEW s \in Slot, s[1] = d PROVE Received(s)'
  <2>1. CASE s = <<e, c>>
    <3>1. queue'[s].state = "ready" /\ queue'[s].receives = 0
      BY <1>2, <2>1
    <3> QED
      BY <3>1 DEF Received
  <2>2. CASE s # <<e, c>>
    BY <1>2, <1>5, <2>2 DEF Received
  <2> QED
    BY <2>1, <2>2
<1> QED
  BY <1>4, <1>5

LEMMA IngressUnfailed ==
    ASSUME FateInv, NEW d \in Delivery, d \notin failures,
           IngressStep \/ IngressCrash \/ \E e \in Delivery : Age(e)
    PROVE  Unfailed(d)'
<1> USE DEF FateInv, FlowInv, CareInv, ShapeInv, Types, db, outcomes, past
<1>0. UNCHANGED <<claims, main, sweep>> /\ Unfailed(d)
  BY DEF IngressStep, Receive, Schedule, IngressCrash, Age, OnlyEvents
<1>1. St(d)' # "dead_letter" /\ (Excused(d) => Excused(d)') /\ (HeldBack(d) /\ InQueue(d)' => HeldBack(d)')
  <2>1. ASSUME NEW e \in Hook, NEW k \in Key, Receive(e, k), e = d
        PROVE  St(d)' # "dead_letter" /\ Excused(d)' /\ ~HeldBack(d)
    <3>1. Records(d, k)
      BY <2>1 DEF Receive, Records
    <3>2. St(d)' = "received" /\ St(d) = "absent" /\ events'[d].attempts = 0
      BY <3>1, RowRecords, AttemptsStay DEF Records
    <3> QED
      BY <3>2 DEF Excused, HeldBack
  <2>2. ASSUME NEW e \in Hook, NEW k \in Key, Receive(e, k), e # d
        PROVE  St(d)' = St(d) /\ KeyOf(d)' = KeyOf(d) /\ events'[d].attempts = events[d].attempts
    BY <2>2 DEF Receive, Recorded, EventsOK, St, KeyOf
  <2>3. ASSUME NEW e \in Delivery, Age(e)
        PROVE  St(d)' = St(d) /\ KeyOf(d)' = KeyOf(d) /\ events'[d].attempts = events[d].attempts
    BY <2>3 DEF Age, EventsOK, Event, St, KeyOf
  <2>4. CASE UNCHANGED events
    BY <1>0, <2>4, RowIsKept DEF St, KeyOf, HeldBack, Unfailed
  <2> QED
    BY <1>0, <2>1, <2>2, <2>3, <2>4, RowIsKept
    DEF IngressStep, Schedule, IngressCrash, HeldBack, Unfailed
<1>2. (InQueue(d) => InQueue(d)') /\ \A s \in Slot : s[1] = d => Received(s)'
  <2>1. CASE UNCHANGED queue
    BY <1>0, <2>1, QueueIsKept DEF Unfailed
  <2>2. ASSUME NEW e \in Hook, Enqueue(e) PROVE (InQueue(d) => InQueue(d)') /\ \A s \in Slot : s[1] = d => Received(s)'
    BY <1>0, <2>2, EnqueueReceived DEF Unfailed, Delivery
  <2> QED
    BY <2>1, <2>2 DEF IngressStep, Receive, Schedule, IngressCrash, Age, OnlyEvents
<1>3. Excused(d)' \/ HeldBack(d)'
  BY <1>0, <1>1, <1>2 DEF Unfailed, HeldBack
<1>4. \A w \in Worker : main'[w].slot[1] = d => /\ main'[w].pc \notin Burying
                                                /\ main'[w].pc = "ack" => Excused(d)'
  BY <1>0, <1>1 DEF Unfailed
<1> QED
  BY <1>0, <1>1, <1>2, <1>3, <1>4 DEF Unfailed

LEMMA LeaseUnfailed ==
    ASSUME FateInv, NEW d \in Delivery, d \notin failures,
           NEW s \in Slot, PoisonGuard(s) \/ \E w \in Worker : Lease(w, s)
    PROVE  Unfailed(d)'
<1> USE DEF FateInv, FlowInv, CareInv, ShapeInv, Types
<1>0. UNCHANGED <<events, claims, sweep>> /\ Unfailed(d)
  BY DEF PoisonGuard, Lease
<1>1. St(d)' # "dead_letter" /\ (Excused(d) => Excused(d)') /\ (HeldBack(d) /\ InQueue(d)' => HeldBack(d)')
  BY <1>0, RowIsKept DEF St, KeyOf, HeldBack, Unfailed
<1>2. CASE PoisonGuard(s)
  <2>1. s[1] # d
    BY <1>0, <1>2, PipelineAssumption DEF PoisonGuard, Unfailed, Received
  <2>2. \A r \in Slot : r[1] = d => queue'[r] = queue[r]
    BY <1>2, <2>1 DEF PoisonGuard, QueueOK
  <2>3. (InQueue(d) => InQueue(d)') /\ \A r \in Slot : r[1] = d => Received(r)'
    BY <1>0, <2>2, QueueIsKept DEF Unfailed
  <2>4. UNCHANGED main
    BY <1>2 DEF PoisonGuard
  <2> QED
    BY <1>0, <1>1, <2>3, <2>4 DEF Unfailed, HeldBack
<1>3. ASSUME NEW w \in Worker, Lease(w, s) PROVE Unfailed(d)'
  <2>1. /\ queue'[s].state = "leased" /\ queue'[s].receives = queue[s].receives + 1
        /\ queue[s].state = "ready"
        /\ \A r \in Slot : r # s => queue'[r] = queue[r]
    BY <1>3 DEF Lease, QueueOK
  <2>2. InQueue(d) => InQueue(d)'
    <3>1. \A r \in Slot : queue[r].state # "none" => queue'[r].state # "none"
      BY <2>1
    <3> QED
      BY <3>1 DEF InQueue
  <2>3. ASSUME NEW r \in Slot, r[1] = d PROVE Received(r)'
    BY <1>0, <2>1, <2>3 DEF Unfailed, Received
  <2>4. /\ main'[w].pc = "join" /\ \A v \in Worker : v # w => main'[v] = main[v]
    BY <1>3 DEF Lease, MainsOK
  <2>5. \A v \in Worker : main'[v].slot[1] = d => /\ main'[v].pc \notin Burying
                                                  /\ main'[v].pc = "ack" => Excused(d)'
    BY <1>0, <1>1, <2>4 DEF Unfailed, Burying
  <2> QED
    BY <1>0, <1>1, <2>2, <2>3, <2>5 DEF Unfailed, HeldBack
<1> QED
  BY <1>2, <1>3

\* The claim of a PROCESSING event goes only with whoever works on that event.
LEMMA ClaimIsKept ==
    ASSUME ShapeInv, NEW d \in Delivery, HeldBack(d), NEW a, Takes(a), d # a
    PROVE  claims'[KeyOf(d)] = d
<1>1. KeyOf(d) \in Key /\ d # NoDelivery /\ St(d) \notin Terminal
  BY Slots DEF ShapeInv, Types, EventsOK, HeldBack, Terminal
<1> QED
  BY <1>1 DEF Takes, HeldBack

LEMMA NobodyBuries ==
    ASSUME NEW d \in Delivery, Unfailed(d), NEW w \in Worker, main[w].slot[1] = d
    PROVE  main[w].pc \notin {"bury", "dead", "unclaim", "notify"} /\ (main[w].pc = "ack" => Excused(d))
BY DEF Unfailed, Burying

LEMMA MainUnfailed ==
    ASSUME FateInv, NEW d \in Delivery, d \notin failures', d \notin failures, Kept, NEW w \in Worker,
           MainStep(w) \/ WorkerCrash(w) \/ Timeout(w) \/ AttemptTimeout(w)
    PROVE  Unfailed(d)'
<1> USE DEF FateInv, FlowInv, CareInv, ShapeInv, Types, db, outcomes, past
<1>0. /\ Unfailed(d) /\ MainDoes(w) /\ UNCHANGED sweep
      /\ \A v \in Worker : v # w => main'[v] = main[v]
  BY MainStepDoes, LapseDoes DEF MainDoes
<1>90. main[w].slot[1] = d => main[w].pc \notin {"bury", "dead", "unclaim", "notify"}
  BY <1>0, NobodyBuries
<1>91. main[w].slot[1] = d /\ main[w].pc = "ack" => Excused(d)
  BY <1>0, NobodyBuries
<1>1. /\ St(d)' # "dead_letter" /\ (Excused(d) => Excused(d)')
      /\ HeldBack(d) => St(d)' = St(d) /\ KeyOf(d)' = KeyOf(d)
  <2>1. CASE UNCHANGED events
    BY <1>0, <2>1 DEF Unfailed, Excused, St, KeyOf
  <2>2. ASSUME NEW to, MovesTo(main[w].slot[1], to), main[w].pc \in {"bury", "dead"}
        PROVE  /\ St(d)' = St(d) /\ events'[d].attempts = events[d].attempts
               /\ St(d) # "absent" => KeyOf(d)' = KeyOf(d)
    <3>1. main[w].slot[1] # d
      BY <1>90, <2>2
    <3>2. PICK e : e = main[w].slot[1]
      OBVIOUS
    <3> QED
      BY <2>2, <3>1, <3>2, RowMoves, AttemptsStay DEF Beside
  <2> QED
    BY <1>0, <2>1, <2>2 DEF MainDoes, Unfailed, Excused, HeldBack
<1>2. CASE main[w].slot[1] = d
  <2>1. CASE Timeout(w) \/ AttemptTimeout(w)
    <3>1. UNCHANGED <<queue, claims>>
      BY <2>1 DEF Timeout, AttemptTimeout
    <3>2. (InQueue(d) => InQueue(d)') /\ \A s \in Slot : s[1] = d => Received(s)'
      BY <1>0, <3>1, QueueIsKept DEF Unfailed
    <3>3. main'[w].pc = main[w].pc \/ main'[w].pc = "nack"
      BY <2>1 DEF Timeout, AttemptTimeout, Goto, MainsOK, MainRec
    <3>4. \A v \in Worker : main'[v].slot[1] = d => /\ main'[v].pc \notin Burying
                                                    /\ main'[v].pc = "ack" => Excused(d)'
      BY <1>0, <1>1, <1>2, <3>3 DEF Unfailed, Burying
    <3> QED
      BY <1>0, <1>1, <3>1, <3>2, <3>4 DEF Unfailed, HeldBack
  <2>2. ~WorkerCrash(w) /\ ~Nack(w)
    BY <1>2 DEF WorkerCrash, Nack
  <2>3. CASE Ack(w) \/ Defer(w)
    <3> DEFINE s == main[w].slot
    <3>1. /\ s \in Slot /\ queue[s].state = "leased" /\ UNCHANGED <<claims, events>>
          /\ main'[w].pc = "idle" /\ main'[w].slot = NoSlot
      BY <2>3 DEF Ack, Defer, Rest, HandsInv, WellHeld, Burying, MainsOK, MainRec
    <3>2. queue[s].receives = 1
      BY <1>0, <1>2, <3>1 DEF Unfailed, Received
    <3>3. \A r \in Slot : r # s => queue'[r] = queue[r]
      BY <2>3 DEF Ack, Defer, QueueOK
    <3>4. \/ queue'[s].state = "none" /\ Excused(d)
          \/ queue'[s].state = "ready" /\ queue'[s].receives = 0 /\ queue[s].state # "none"
      <4>1. CASE Ack(w)
        <5>1. queue'[s] = NoMessage /\ Excused(d)
          BY <1>91, <1>2, <3>1, <4>1 DEF Ack, QueueOK
        <5> QED
          BY <5>1 DEF NoMessage
      <4>2. CASE Defer(w)
        <5>1. queue'[s] = [state |-> "ready", receives |-> GivenBack(queue[s].receives)]
          BY <3>1, <4>2 DEF Defer, QueueOK
        <5> QED
          BY <3>1, <3>2, <5>1 DEF GivenBack
      <4> QED
        BY <2>3, <4>1, <4>2
    <3>5. \A r \in Slot : r[1] = d => Received(r)'
      BY <1>0, <3>3, <3>4 DEF Unfailed, Received
    <3>6. InQueue(d) /\ ~Excused(d) => InQueue(d)'
      <4>1. ~Excused(d) => \A r \in Slot : queue[r].state # "none" => queue'[r].state # "none"
        BY <3>3, <3>4
      <4> QED
        BY <4>1 DEF InQueue
    <3>7. Excused(d)' \/ HeldBack(d)'
      BY <1>0, <1>1, <3>1, <3>6 DEF Unfailed, HeldBack
    <3>8. \A v \in Worker : main'[v].slot[1] = d => /\ main'[v].pc \notin Burying
                                                    /\ main'[v].pc = "ack" => Excused(d)'
      BY <1>0, <1>1, <3>1 DEF Unfailed, Burying
    <3> QED
      BY <1>0, <1>1, <3>5, <3>7, <3>8 DEF Unfailed
  <2>4. ~(Bury(w) \/ BuryDead(w) \/ Unclaim(w) \/ Notify(w))
    BY <1>90, <1>2 DEF Bury, BuryDead, Unclaim, Notify
  <2> QED
    BY <2>1, <2>2, <2>3, <2>4 DEF MainStep
<1>3. CASE main[w].slot[1] # d
  <2>1. \A s \in Slot : s[1] = d => queue'[s] = queue[s]
    <3>1. UNCHANGED queue \/ \E m : queue' = [queue EXCEPT ![main[w].slot] = m]
      BY DEF MainStep, Ack, Defer, Nack, Bury, BuryDead, Unclaim, Notify, WorkerCrash, Timeout, AttemptTimeout, Stop
    <3> QED
      BY <1>3, <3>1 DEF QueueOK
  <2>2. (InQueue(d) => InQueue(d)') /\ \A s \in Slot : s[1] = d => Received(s)'
    BY <1>0, <2>1, QueueIsKept DEF Unfailed
  <2>3. HeldBack(d) => claims'[KeyOf(d)] = d
    <3>1. CASE UNCHANGED claims
      BY <3>1 DEF HeldBack
    <3>2. CASE Unclaim(w)
      BY <1>3, <3>2 DEF Unclaim, Unclaimed, HeldBack, TablesOK, EventsOK
    <3> QED
      BY <3>1, <3>2 DEF MainStep, Ack, Defer, Nack, Bury, BuryDead, Notify, WorkerCrash, Timeout, AttemptTimeout
  <2>4. main'[w].slot[1] # d
    BY <1>0, <1>3, Slots DEF MainDoes
  <2>5. \A v \in Worker : main'[v].slot[1] = d => /\ main'[v].pc \notin Burying
                                                  /\ main'[v].pc = "ack" => Excused(d)'
    BY <1>0, <1>1, <2>4 DEF Unfailed
  <2> QED
    BY <1>0, <1>1, <2>2, <2>3, <2>5 DEF Unfailed, HeldBack
<1> QED
  BY <1>2, <1>3

\* Whoever works on d without a failure leaves it excused or held back.
LEMMA WorkOutcome ==
    ASSUME FateInv, NEW t \in Threads, ThreadStep(t), NEW d \in Delivery, d = thread[t].d,
           d \notin failures, d \notin failures', ThreadDoes(t)
    PROVE  /\ St(d)' # "dead_letter" /\ (Excused(d)' \/ HeldBack(d)')
           /\ thread[t].pc = "count" \/ (Excused(d) => Excused(d)')
           /\ UNCHANGED main \/ main'[t[1]].pc # "ack" \/ Excused(d)'
<1> USE DEF FateInv, FlowInv, CareInv, ShapeInv, Types
<1> DEFINE Fine == /\ St(d)' # "dead_letter" /\ (Excused(d)' \/ HeldBack(d)')
                   /\ thread[t].pc = "count" \/ (Excused(d) => Excused(d)')
                   /\ UNCHANGED main \/ main'[t[1]].pc # "ack" \/ Excused(d)'
<1>1. /\ St(d) # "dead_letter" /\ (Excused(d) \/ HeldBack(d))
      /\ UNCHANGED queue /\ Ended(t)
      /\ KeyOf(d) \in Key /\ claims \in [Key -> Delivery \cup {NoDelivery}]
      /\ t[1] \in Worker
  <2>1. InThread(d)
    BY DEF InThread
  <2> QED
    BY <2>1, BusyIsKnown DEF Unfailed, ThreadDoes, EndsInv, Busy, TablesOK, Threads
<1>2. ASSUME UNCHANGED <<events, claims>>, UNCHANGED main \/ main'[t[1]].pc # "ack" \/ Excused(d)
      PROVE  Fine
  BY <1>1, <1>2 DEF Excused, HeldBack, St, KeyOf, InQueue
<1>3. ASSUME NEW to \in {"queued", "processing", "done"}, MovesTo(d, to), UNCHANGED <<claims, main>>
      PROVE  Fine
  <2>1. St(d)' = to /\ events'[d].attempts = events[d].attempts
    BY <1>3, RowMoves, AttemptsStay
  <2>5. St(d) \in State /\ to \in Allowed[St(d)]
    BY <1>3 DEF MovesTo, Legal, EventsOK, Event, St
  <2>2. St(d) = "processing" => to = "done"
    BY <1>3, <2>5, GraphIs
  <2>3. St(d) # "done"
    BY <2>5, GraphIs
  <2>4. Excused(d)'
    BY <1>1, <1>3, <2>1, <2>2, <2>3 DEF Excused, HeldBack, St
  <2> QED
    BY <1>3, <2>1, <2>4
<1>4. ASSUME NEW to \in {"queued", "processing", "done"}, NEW pc, Transition(t, to, pc), UNCHANGED claims
      PROVE  Fine
  <2>1. CASE MovesTo(d, to) /\ UNCHANGED main
    BY <1>3, <1>4, <2>1
  <2>2. CASE Raise(t)
    <3>1. UNCHANGED main \/ main'[t[1]].pc # "ack"
      BY <1>1, <2>2 DEF Raise, Return, Goto, MainsOK, MainRec
    <3> QED
      BY <1>2, <1>4, <2>2, <3>1 DEF Raise
  <2> QED
    BY <1>4, <2>1, <2>2 DEF Transition, MovesTo, Proceed
<1>5. ASSUME NEW pc \in {"ack", "nack", "defer"}, Return(t, pc), UNCHANGED <<events, claims>>, pc = "ack" => Excused(d)
      PROVE  Fine
  <2>1. UNCHANGED main \/ main'[t[1]].pc = pc
    BY <1>1, <1>5 DEF Return, Goto, MainsOK, MainRec
  <2> QED
    BY <1>2, <1>5, <2>1
<1>6. CASE Check(t) \/ Conclude(t)
  BY <1>2, <1>6 DEF Check, Conclude, AnalysisReturns, AnalysisFails, Proceed, Pure, db
<1>7. CASE Drive(t)
  <2>1. CASE St(d) \in Terminal
    <3>1. Excused(d) /\ Return(t, "ack") /\ UNCHANGED <<events, claims>>
      BY <1>1, <1>7, <2>1 DEF Drive, Pure, db, Terminal, Excused
    <3> QED
      BY <1>5, <3>1
  <2>2. CASE St(d) \notin Terminal
    BY <1>2, <1>7, <2>2 DEF Drive, Proceed, Pure, db
  <2> QED
    BY <2>1, <2>2
<1>8. CASE \/ DriveTo(t, "to_queued", "queued", "to_processing")
           \/ DriveTo(t, "to_processing", "processing", "to_done")
           \/ DriveTo(t, "to_done", "done", "driven")
  BY <1>2, <1>4, <1>8 DEF DriveTo, Proceed, OnlyEvents
<1>9. CASE DriveEnd(t)
  <2>1. Excused(d) /\ Return(t, "ack") /\ UNCHANGED <<events, claims>>
    BY <1>1, <1>9 DEF DriveEnd, Ended, Excused, Pure, db
  <2> QED
    BY <1>5, <2>1
<1>10. CASE Claim(t)
  <2>1. CASE claims' = [claims EXCEPT ![KeyOf(d)] = d] /\ Proceed(t, "ensure")
    <3>1. UNCHANGED <<events, main>> /\ claims'[KeyOf(d)] = d
      BY <1>1, <1>10, <2>1 DEF Claim, Proceed
    <3> QED
      BY <1>1, <3>1 DEF Excused, HeldBack, St, KeyOf, InQueue
  <2>2. CASE UNCHANGED <<claims, main>>
    BY <1>2, <1>10, <2>2 DEF Claim
  <2>3. CASE claims[KeyOf(d)] # d /\ Return(t, "ack") /\ UNCHANGED <<events, claims>>
    <3>1. Excused(d)
      BY <1>1, <2>3 DEF HeldBack
    <3> QED
      BY <1>5, <2>3, <3>1
  <2> QED
    BY <1>10, <2>1, <2>2, <2>3 DEF Claim
<1>11. CASE Steal(t)
  <2>1. /\ UNCHANGED <<events, main>>
        /\ claims' = [claims EXCEPT ![KeyOf(d)] = d] \/ claims' = claims
    BY <1>11 DEF Steal
  <2>2. claims[KeyOf(d)] = d => claims'[KeyOf(d)] = d
    BY <1>1, <2>1
  <2> QED
    BY <1>1, <2>1, <2>2 DEF Excused, HeldBack, St, KeyOf, InQueue
<1>12. CASE Ensure(t) \/ Start(t) \/ MarkDone(t)
  BY <1>2, <1>4, <1>12 DEF Ensure, Start, MarkDone, Proceed, OnlyEvents
<1>13. CASE Count(t)
  <2>1. t[2] = "own" /\ thread[t].pc = "count" /\ UNCHANGED <<claims, main>> /\ Counts(d)
    BY <1>13 DEF Count, Counts, OnlyEvents, Proceed, AwaitedInv, Awaited, Late, Threads
  <2>2. St(d) = "processing" /\ claims[KeyOf(d)] = d
    BY <2>1 DEF ClaimInv, Claimed, Clean
  <2>3. St(d)' = St(d) /\ KeyOf(d)' = KeyOf(d)
    BY <2>1, <2>2, RowAgesOrCounts DEF Beside
  <2>4. InQueue(d)'
    <3>1. /\ t[1] \in Worker /\ main[t[1]].pc = "join" /\ main[t[1]].slot[1] = d
      BY <2>1 DEF AwaitedInv, Awaited, Threads
    <3>2. main[t[1]].slot \in Slot /\ queue[main[t[1]].slot].state = "leased"
      BY <3>1 DEF HandsInv, WellHeld, Burying
    <3> QED
      BY <1>1, <3>1, <3>2 DEF InQueue
  <2> QED
    BY <2>1, <2>2, <2>3, <2>4 DEF HeldBack
<1>14. CASE AnalysisHeldBack(t)
  BY <1>5, <1>14 DEF AnalysisHeldBack, Pure, db
<1>15. CASE LateCall(t)
  BY <1>2, <1>15 DEF LateCall, Pure, db
<1>16. ~MarkFailed(t) /\ ~Free(t, "free_nack", "nack")
  BY <1>1 DEF MarkFailed, Free, Ended, OnlyEvents
<1>17. ASSUME Free(t, "free_ack", "ack") PROVE Fine
  <2>1. St(d) = "done" /\ UNCHANGED events
    BY <1>1, <1>17 DEF Free, Ended
  <2> QED
    BY <2>1 DEF Excused, St
<1> QED
  BY <1>6, <1>7, <1>8, <1>9, <1>10, <1>11, <1>12, <1>13, <1>14, <1>15, <1>16, <1>17 DEF ThreadStep, Plan

LEMMA ThreadUnfailed ==
    ASSUME FateInv, NEW d \in Delivery, d \notin failures', d \notin failures, Settled,
           NEW t \in Threads, ThreadStep(t)
    PROVE  Unfailed(d)'
<1> USE DEF FateInv, FlowInv, CareInv, ShapeInv, Types
<1>0. /\ Unfailed(d) /\ ThreadDoes(t) /\ UNCHANGED <<queue, sweep>> /\ t[1] \in Worker
      /\ main' = main \/ (t[2] = "own" /\ \E pc \in {"ack", "nack", "defer"} : main' = [main EXCEPT ![t[1]].pc = pc])
      /\ thread[t].pc # "off"
  BY ThreadStepDoes DEF ThreadDoes, Threads
<1>1. PICK a \in Delivery : a = thread[t].d
  BY <1>0 DEF AwaitedInv, Awaited
<1>2. /\ \A v \in Worker : v # t[1] => main'[v] = main[v]
      /\ main'[t[1]].slot = main[t[1]].slot
      /\ main'[t[1]].pc \notin Burying \/ main' = main
  BY <1>0 DEF MainsOK, MainRec, Burying
<1>3. /\ InQueue(d) => InQueue(d)'
      /\ \A s \in Slot : s[1] = d => Received(s)'
  BY <1>0, QueueIsKept DEF Unfailed
<1>4. t[2] = "own" => main[t[1]].pc = "join" /\ main[t[1]].slot[1] = a
  BY <1>0, <1>1 DEF AwaitedInv, Awaited
<1>5. CASE a = d
  <2>1. /\ St(d)' # "dead_letter" /\ (Excused(d)' \/ HeldBack(d)')
        /\ thread[t].pc = "count" \/ (Excused(d) => Excused(d)')
        /\ UNCHANGED main \/ main'[t[1]].pc # "ack" \/ Excused(d)'
    BY <1>0, <1>1, <1>5, WorkOutcome
  <2>2. ASSUME NEW v \in Worker, main'[v].slot[1] = d
        PROVE  main'[v].pc \notin Burying /\ (main'[v].pc = "ack" => Excused(d)')
    <3>1. CASE main'[v] = main[v]
      <4>1. main[v].pc \notin Burying /\ (main[v].pc = "ack" => Excused(d))
        BY <1>0, <2>2, <3>1 DEF Unfailed
      <4>2. thread[t].pc = "count" => main[v].pc = "join"
        <5>1. thread[t].pc = "count" => t[2] = "own"
          BY DEF AwaitedInv, Awaited, Late, Threads
        <5>2. t[2] = "own" => t[1] = v
          BY <1>0, <1>4, <1>5, <2>2, <3>1 DEF Custody, OneWorker
        <5> QED
          BY <1>4, <5>1, <5>2
      <4> QED
        BY <2>1, <3>1, <4>1, <4>2
    <3>2. CASE main'[v] # main[v]
      <4>1. v = t[1] /\ main' # main
        BY <1>2, <3>2
      <4> QED
        BY <1>2, <2>1, <4>1
    <3> QED
      BY <3>1, <3>2
  <2> QED
    BY <1>0, <1>3, <2>1, <2>2 DEF Unfailed
<1>6. CASE a # d
  <2>1. St(d)' = St(d) /\ events'[d].attempts = events[d].attempts
    <3>1. CASE UNCHANGED events
      BY <3>1 DEF St
    <3>2. ASSUME NEW to, MovesTo(a, to) PROVE St(d)' = St(d) /\ events'[d].attempts = events[d].attempts
      BY <1>6, <3>2, RowMoves, AttemptsStay DEF Beside
    <3>3. CASE Counts(a)
      BY <1>6, <3>3, RowAgesOrCounts, AttemptsStay DEF Beside
    <3> QED
      BY <1>0, <1>1, <3>1, <3>2, <3>3 DEF ThreadDoes
  <2>2. HeldBack(d) => HeldBack(d)'
    <3>1. HeldBack(d) => claims'[KeyOf(d)] = d
      BY <1>1, <1>6, ThreadTakes, ClaimIsKept
    <3>2. HeldBack(d) => KeyOf(d)' = KeyOf(d)
      BY DEF HeldBack, Settled
    <3> QED
      BY <1>3, <2>1, <3>1, <3>2, RowIsKept DEF HeldBack
  <2>3. Excused(d) => Excused(d)'
    BY <2>1 DEF Excused, St
  <2>4. ASSUME NEW v \in Worker, main'[v].slot[1] = d
        PROVE  main'[v].pc \notin Burying /\ (main'[v].pc = "ack" => Excused(d)')
    <3>1. main'[v] = main[v]
      <4>1. v = t[1] /\ main' # main => main[v].slot[1] = a /\ main'[v].slot = main[v].slot
        BY <1>0, <1>2, <1>4
      <4> QED
        BY <1>2, <1>6, <2>4, <4>1
    <3> QED
      BY <1>0, <2>3, <2>4, <3>1 DEF Unfailed
  <2> QED
    BY <1>0, <1>3, <2>1, <2>2, <2>3, <2>4 DEF Unfailed
<1> QED
  BY <1>5, <1>6

\* How the sweeper comes to have a row in hand, and what it then does to it.
LEMMA GoesOn ==
    ASSUME Goes
    PROVE  /\ sweep'.pc \in {"fail_dead", "dead"} =>
                \/ sweep'.d = sweep.d /\ sweep.pc \in {"fail_dead", "dead"}
                \/ \E r \in sweep.todo : sweep'.d = r.d /\ r.over
           /\ \/ UNCHANGED events
              \/ sweep.pc \in Holding /\ \E to : /\ MovesTo(sweep.d, to)
                                                 /\ to = "dead_letter" => sweep.pc = "dead"
BY DEF Goes, Holding

\* A row that the sweeper has read in good time is one with no message: no attempt is used.
LEMMA SweepUnfailed ==
    ASSUME overtaken' = 0, FateInv, NEW d \in Delivery, d \notin failures, SweeperDoes, Kept
    PROVE  Unfailed(d)'
<1> USE DEF FateInv, FlowInv, CareInv, ShapeInv, Types
<1>0. /\ Unfailed(d) /\ UNCHANGED <<claims, main>>
      /\ Reads \/ Books \/ Puts \/ Goes
  BY DEF SweeperDoes
<1>1. ASSUME St(d)' # "dead_letter", Excused(d) => Excused(d)', HeldBack(d) => HeldBack(d)',
             \A s \in Slot : s[1] = d => Received(s)',
             \A r \in sweep'.todo : r.d = d => ~r.over,
             sweep'.d = d => sweep'.pc \notin {"fail_dead", "dead"}
      PROVE  Unfailed(d)'
  BY <1>0, <1>1 DEF Unfailed
<1>2. ASSUME St(d)' = St(d), events'[d].attempts = events[d].attempts, InQueue(d) => InQueue(d)'
      PROVE  /\ St(d)' # "dead_letter" /\ (Excused(d) => Excused(d)')
             /\ HeldBack(d) => HeldBack(d)'
  <2>1. HeldBack(d) => KeyOf(d)' = KeyOf(d)
    BY DEF HeldBack, Kept
  <2> QED
    BY <1>0, <1>2, <2>1 DEF Unfailed, Excused, HeldBack, St, KeyOf
<1>3. CASE Reads
  <2>1. /\ UNCHANGED <<events, queue>> /\ sweep'.todo = StaleRows /\ sweep'.pc = "rows"
        /\ \A r \in StaleRows : ~Waiting(r.d)
    BY <1>3 DEF Reads
  <2>2. ASSUME NEW r \in StaleRows, r.d = d PROVE ~r.over
    <3>1. r.over = (events[d].attempts >= MaxAttempts) /\ Stale(d) /\ ~Waiting(d)
      BY <2>1, <2>2, StaleRowIs
    <3>2. ~InQueue(d)
      BY <3>1 DEF Waiting, Copies, InQueue, Slot
    <3>3. St(d) # "done"
      BY <3>1 DEF Stale, Active, Terminal
    <3>4. events[d].attempts = 0
      BY <1>0, <3>2, <3>3 DEF Unfailed, Excused, HeldBack
    <3>5. ~(events[d].attempts >= MaxAttempts)
      BY <3>4, PipelineAssumption
    <3> QED
      BY <3>1, <3>5, Zenon
  <2>3. St(d)' = St(d) /\ events'[d].attempts = events[d].attempts /\ (InQueue(d) => InQueue(d)')
    BY <2>1 DEF St, InQueue
  <2>4. \A s \in Slot : s[1] = d => Received(s)'
    BY <1>0, <2>1, QueueIsKept DEF Unfailed
  <2> QED
    BY <1>1, <1>2, <2>1, <2>2, <2>3, <2>4
<1>4. CASE Books
  <2>1. /\ UNCHANGED queue /\ Records(sweep'.d, sweep.key)
        /\ sweep'.pc = "put_recon" /\ sweep'.todo = sweep.todo
    BY <1>4 DEF Books
  <2>2. (InQueue(d) => InQueue(d)') /\ \A s \in Slot : s[1] = d => Received(s)'
    BY <1>0, <2>1, QueueIsKept DEF Unfailed
  <2>3. \A r \in sweep'.todo : r.d = d => ~r.over
    BY <1>0, <2>1 DEF Unfailed
  <2>4. CASE sweep'.d = d
    <3>1. St(d)' = "received" /\ events'[d].attempts = 0 /\ St(d) = "absent"
      BY <2>1, <2>4, RowRecords, AttemptsStay DEF Records
    <3>2. Excused(d)' /\ ~HeldBack(d)
      BY <3>1 DEF Excused, HeldBack
    <3> QED
      BY <1>1, <2>1, <2>2, <2>3, <3>1, <3>2
  <2>5. CASE sweep'.d # d
    <3>1. St(d)' = St(d) /\ events'[d].attempts = events[d].attempts
      BY <2>1, <2>5, RowRecords, AttemptsStay DEF Beside
    <3> QED
      BY <1>1, <1>2, <2>1, <2>2, <2>3, <2>5, <3>1
  <2> QED
    BY <2>4, <2>5
<1>5. CASE Puts
  <2>1. /\ UNCHANGED events /\ sweep.pc \in Holding /\ Enqueue(sweep.d)
        /\ sweep'.pc \notin Holding /\ sweep'.todo = sweep.todo
    BY <1>5 DEF Puts
  <2>2. sweep.d \in Delivery
    BY <2>1 DEF RecordedInv
  <2>3. (InQueue(d) => InQueue(d)') /\ \A s \in Slot : s[1] = d => Received(s)'
    BY <1>0, <2>1, <2>2, EnqueueReceived DEF Unfailed
  <2>4. St(d)' = St(d) /\ events'[d].attempts = events[d].attempts
    BY <2>1 DEF St
  <2>5. \A r \in sweep'.todo : r.d = d => ~r.over
    BY <1>0, <2>1 DEF Unfailed
  <2>6. sweep'.pc \notin {"fail_dead", "dead"}
    BY <2>1 DEF Holding
  <2> QED
    BY <1>1, <1>2, <2>3, <2>4, <2>5, <2>6
<1>6. CASE Goes
  <2>1. UNCHANGED queue /\ sweep'.todo \subseteq sweep.todo
    BY <1>6 DEF Goes
  <2>2. (InQueue(d) => InQueue(d)') /\ \A s \in Slot : s[1] = d => Received(s)'
    BY <1>0, <2>1, QueueIsKept DEF Unfailed
  <2>3. \A r \in sweep'.todo : r.d = d => ~r.over
    BY <1>0, <2>1 DEF Unfailed
  <2>4. sweep'.d = d => sweep'.pc \notin {"fail_dead", "dead"}
    BY <1>0, <1>6, GoesOn DEF Unfailed
  <2>5. CASE UNCHANGED events
    <3>1. St(d)' = St(d) /\ events'[d].attempts = events[d].attempts
      BY <2>5 DEF St
    <3> QED
      BY <1>1, <1>2, <2>2, <2>3, <2>4, <3>1
  <2>6. ASSUME NEW to, sweep.pc \in Holding, MovesTo(sweep.d, to), to = "dead_letter" => sweep.pc = "dead"
        PROVE  Unfailed(d)'
    <3>1. CASE sweep.d # d
      <4>1. PICK e : e = sweep.d
        OBVIOUS
      <4>2. St(d)' = St(d) /\ events'[d].attempts = events[d].attempts
        BY <2>6, <3>1, <4>1, RowMoves, AttemptsStay DEF Beside
      <4> QED
        BY <1>1, <1>2, <2>2, <2>3, <2>4, <4>2
    <3>2. CASE sweep.d = d
      <4>1. St(d)' = to /\ events'[d].attempts = events[d].attempts
        BY <2>6, <3>2, RowMoves, AttemptsStay
      <4>2. to # "dead_letter"
        BY <1>0, <2>6, <3>2 DEF Unfailed
      <4>3. ~InQueue(d)
        BY <2>6, <3>2 DEF Custody, OnePlace, Loose, InSweep
      <4>4. St(d) # "done"
        BY <2>6, <3>2, GraphIs DEF MovesTo, Legal, EventsOK, Event, St
      <4>5. events[d].attempts = 0 /\ ~HeldBack(d)
        BY <1>0, <4>3, <4>4 DEF Unfailed, Excused, HeldBack
      <4> QED
        BY <1>1, <2>2, <2>3, <2>4, <4>1, <4>2, <4>5 DEF Excused
    <3> QED
      BY <3>1, <3>2
  <2> QED
    BY <1>6, <2>5, <2>6, GoesOn
<1> QED
  BY <1>0, <1>3, <1>4, <1>5, <1>6

LEMMA StepKeepsFate == ASSUME overtaken' = 0 PROVE FateInv /\ [Next]_vars => FateInv'
<1> SUFFICES ASSUME FateInv, [Next]_vars PROVE FateInv'
  OBVIOUS
<1>1. FlowInv' /\ Settled /\ ShapeInv /\ ReadInv
  BY StepKeepsFlow, StepKeepsCare DEF FateInv, FlowInv, CareInv
<1>2. Kept /\ failures \subseteq failures' /\ EndsInv'
  <2>1. failures \subseteq failures'
    BY <1>1, StepKeepsOrphans DEF FateInv, FlowInv
  <2> QED
    BY <1>1, <2>1, StepKeepsShape, StepKeepsEnds DEF FateInv
<1> SUFFICES ASSUME NEW d \in Delivery, d \notin failures' PROVE Unfailed(d)'
  BY <1>1, <1>2 DEF FateInv
<1>3. d \notin failures
  BY <1>2
<1>4. CASE SweeperDoes
  BY <1>2, <1>3, <1>4, SweepUnfailed
<1>5. CASE UNCHANGED vars
  <2>1. SweeperDoes
    BY <1>1, <1>5 DEF vars, db, outcomes, past, SweeperDoes, Goes, ShapeInv, Types, TablesOK, SweepOK
  <2> QED
    BY <1>4, <2>1
<1> QED
  BY <1>1, <1>2, <1>3, <1>4, <1>5, IngressUnfailed, LeaseUnfailed, MainUnfailed, ThreadUnfailed, SweepStepDoes
  DEF Next

CalmFate == ShapeInv /\ ReadInv /\ (overtaken = 0 => FateInv)

(***************************************************************************)
(* Backpressure is not failure (ARCHITECTURE.md:213): an event none of     *)
(* whose attempts failed, timed out or crashed is never dead-lettered,     *)
(* however often it is held back and whatever analyses are abandoned,      *)
(* before a pass takes up a row with a message outstanding.                *)
(***************************************************************************)
THEOREM DeadHaveFailed == Spec => []DeadOnlyAfterFailure
<1>1. Init => FateInv
  <2> SUFFICES ASSUME Init PROVE FateInv
    OBVIOUS
  <2>1. FlowInv /\ EndsInv
    BY FlowInit DEF Init, EndsInv, Ended, Off
  <2>2. ASSUME NEW d \in Delivery PROVE Unfailed(d)
    <3>1. /\ St(d) = "absent" /\ Excused(d) /\ sweep.todo = {} /\ sweep.pc = "idle"
          /\ \A w \in Worker : main[w].pc = "idle"
          /\ \A s \in Slot : queue[s].state = "none"
      BY DEF Init, St, Excused, NoMessage
    <3> QED
      BY <3>1 DEF Unfailed, Burying, Received
  <2> QED
    BY <2>1, <2>2 DEF FateInv
<1>2. CalmFate /\ [Next]_vars => CalmFate'
  BY StepKeepsShape, StepKeepsFate, HistoryGrows DEF CalmFate
<1>3. CalmFate => DeadOnlyAfterFailure
  BY DEF CalmFate, FateInv, Unfailed, DeadOnlyAfterFailure
<1>4. Init => CalmFate
  BY <1>1, ShapeInit DEF CalmFate
<1> QED
  BY <1>2, <1>3, <1>4, PTL DEF Spec
=============================================================================
