-------------------------- MODULE MapReduceProofs --------------------------
(***************************************************************************)
(* Proofs about MapReduce, for any number of workers, deliveries and       *)
(* chunks, any number of attempts, and any bounds on mishaps and refused   *)
(* calls, with leases that are outlived or not.                            *)
(***************************************************************************)
EXTENDS MapReduce, TLAPS

\* TypeOK without the published review.
StateOK ==
    /\ job \in {"absent", "open", "reducing"}
    /\ findings \in [Chunk -> Status]
    /\ queue \in [Msg -> Row]
    /\ work \in [Worker -> Work]
    /\ sent \in [Msg -> Nat] /\ blank \subseteq Chunk
    /\ mishaps \in Nat /\ faults \in Nat /\ refused \in Nat

\* A message is leased exactly when it has a holder, who has counted a receive.
LeaseInv ==
    \A m \in Msg : /\ queue[m].state = "leased" <=> queue[m].holder # NoWorker
                   /\ queue[m].state = "leased" => queue[m].receives \in 1..MaxAttempts

\* What a worker does fits the message it has leased.
Fits(pc, m) ==
    /\ pc \in {"plan", "create", "fan"} => m \in Review
    /\ pc \in {"review", "record", "record_empty", "record_failed", "progress", "barrier", "cas", "start"} => m \in Chunk
    /\ pc \in {"collect", "publish"} => m = Reduce
    /\ pc = "ack" => m \in Msg
WorkInv == \A w \in Worker : Fits(work[w].pc, work[w].msg)

MapInv == StateOK /\ LeaseInv /\ WorkInv

-----------------------------------------------------------------------------
\* A step gives work to one worker only.
LEMMA GotoKeeps ==
    ASSUME MapInv, NEW w \in Worker, NEW pc \in Pc, Goto(w, pc), Fits(pc, work[w].msg)
    PROVE  work' \in [Worker -> Work] /\ WorkInv'
<1>1. work' = [work EXCEPT ![w] = [work[w] EXCEPT !.pc = pc]]
  BY DEF Goto
<1>2. work[w] \in Work /\ [work[w] EXCEPT !.pc = pc] \in Work
  BY DEF MapInv, StateOK, Work
<1>3. work'[w].pc = pc /\ work'[w].msg = work[w].msg /\ \A v \in Worker \ {w} : work'[v] = work[v]
  BY <1>1, <1>2 DEF MapInv, StateOK, Work
<1> QED
  BY <1>1, <1>2, <1>3 DEF MapInv, StateOK, WorkInv

LEMMA RestKeeps ==
    ASSUME MapInv, NEW w \in Worker, Rest(w)
    PROVE  work' \in [Worker -> Work] /\ WorkInv'
<1>1. Idle \in Work /\ Idle.pc = "idle"
  BY MapReduceAssumption DEF Idle, Work, Pc, Nothing, Status
<1> QED
  BY <1>1 DEF Rest, MapInv, StateOK, WorkInv, Fits

LEMMA NackKeeps ==
    ASSUME MapInv, NEW w \in Worker, Nack(w), work[w].pc # "idle"
    PROVE  /\ queue' \in [Msg -> Row] /\ work' \in [Worker -> Work]
           /\ LeaseInv' /\ WorkInv'
<1> DEFINE m == work[w].msg
<1>1. m \in Msg
  BY MapReduceAssumption DEF MapInv, StateOK, WorkInv, Fits, Msg, Work, Pc
<1>2. CASE Owns(w) /\ queue[m].receives >= MaxAttempts
  <2>1. queue' = [queue EXCEPT ![m] = NoRow] /\ NoRow \in Row
    BY <1>2, MapReduceAssumption DEF Nack, MapInv, StateOK, Row, NoRow
  <2>2. Rest(w) \/ (m \in Chunk /\ Goto(w, "record_failed"))
    <3>1. IF AfterDeadLetter(m) = "idle" THEN Rest(w) ELSE Goto(w, AfterDeadLetter(m))
      BY <1>1, <1>2, MapReduceAssumption DEF Nack, MapInv, StateOK, Row
    <3>2. CASE m \in Chunk
      <4>1. AfterDeadLetter(m) = "record_failed"
        BY <3>2 DEF AfterDeadLetter
      <4> QED
        BY <3>1, <3>2, <4>1
    <3>3. CASE m \notin Chunk
      <4>1. AfterDeadLetter(m) = "idle"
        BY <3>3 DEF AfterDeadLetter
      <4> QED
        BY <3>1, <4>1
    <3> QED
      BY <3>2, <3>3
  <2>3. work' \in [Worker -> Work] /\ WorkInv'
    BY <2>2, RestKeeps, GotoKeeps DEF Fits, Pc
  <2> QED
    BY <2>1, <2>3, <1>1 DEF MapInv, StateOK, LeaseInv, Row, NoRow
<1>3. CASE Owns(w) /\ queue[m].receives < MaxAttempts
  <2>1. /\ queue' = [queue EXCEPT ![m].state = "ready", ![m].holder = NoWorker]
        /\ Rest(w)
    BY <1>1, <1>3, MapReduceAssumption DEF Nack, MapInv, StateOK, Row
  <2> QED
    BY <1>1, <2>1, RestKeeps DEF MapInv, StateOK, LeaseInv, Row
<1>4. CASE ~Owns(w)
  <2>1. queue' = queue /\ Rest(w)
    BY <1>4 DEF Nack
  <2> QED
    BY <2>1, RestKeeps DEF MapInv, StateOK, LeaseInv
<1> QED
  BY <1>1, <1>2, <1>3, <1>4, MapReduceAssumption DEF MapInv, StateOK, Row

LEMMA MapInvInit == Init => MapInv
<1> USE DEF output, trouble
<1> SUFFICES ASSUME Init PROVE MapInv
  OBVIOUS
<1>1. Idle \in Work /\ Ready \in Row /\ NoRow \in Row
  BY MapReduceAssumption DEF Idle, Work, Pc, Nothing, Status, Ready, NoRow, Row
<1> QED
  BY <1>1 DEF Init, MapInv, StateOK, LeaseInv, WorkInv, Fits, Nothing, Status, Ready, NoRow, Idle

LEMMA MapInvStep == MapInv /\ [Next]_vars => MapInv'
<1> USE DEF output, trouble
<1> SUFFICES ASSUME MapInv, [Next]_vars PROVE MapInv'
  OBVIOUS
<1> USE MapReduceAssumption
<1>t. Idle \in Work /\ Ready \in Row /\ NoRow \in Row
  BY DEF Idle, Work, Pc, Nothing, Status, Ready, NoRow, Row
<1>1. CASE UNCHANGED vars
  BY <1>1 DEF vars, store, MapInv, StateOK, LeaseInv, WorkInv
<1>2. ASSUME NEW m \in Msg, NEW w \in Worker, Lease(w, m) PROVE MapInv'
  <2>1. /\ queue' = [queue EXCEPT ![m] = [state |-> "leased", receives |-> queue[m].receives + 1,
                                          holder |-> w]]
        /\ work' = [work EXCEPT ![w].pc = Entry(m), ![w].msg = m]
        /\ Entry(m) \in {"plan", "review", "collect"}
        /\ queue[m].receives \in Nat /\ queue[m].receives < MaxAttempts
    BY <1>2 DEF Lease, MapInv, StateOK, Row, Entry
  <2>2. /\ Entry(m) = "plan" => m \in Review
        /\ Entry(m) = "review" => m \in Chunk
        /\ Entry(m) = "collect" => m = Reduce
    BY DEF Entry, Msg
  <2>3. queue' \in [Msg -> Row] /\ LeaseInv'
    BY <2>1 DEF MapInv, StateOK, Row, LeaseInv
  <2>4. work' \in [Worker -> Work] /\ WorkInv'
    <3>1. [work[w] EXCEPT !.pc = Entry(m), !.msg = m] \in Work
      BY <2>1 DEF MapInv, StateOK, Work, Pc
    <3>2. /\ work'[w].pc = Entry(m) /\ work'[w].msg = m
          /\ work'[w] \in Work
          /\ \A v \in Worker \ {w} : work'[v] = work[v]
      BY <2>1, <3>1 DEF MapInv, StateOK, Work
    <3> QED
      BY <2>1, <2>2, <3>2 DEF MapInv, StateOK, WorkInv, Fits
  <2> QED
    BY <1>2, <2>3, <2>4 DEF Lease, Steady, store, MapInv, StateOK
<1>3. ASSUME NEW m \in Msg, PoisonGuard(m) PROVE MapInv'
  BY <1>3, <1>t DEF PoisonGuard, Steady, store, MapInv, StateOK, LeaseInv, WorkInv, Row, NoRow
<1>4. ASSUME NEW w \in Worker, Ack(w) PROVE MapInv'
  <2>1. queue' \in [Msg -> Row] /\ LeaseInv'
    BY <1>4, <1>t DEF Ack, Settled, MapInv, StateOK, LeaseInv, WorkInv, Row, NoRow
  <2>2. Rest(w) \/ (work[w].msg \in Chunk /\ Goto(w, "progress"))
    <3>1. CASE work[w].msg \in Chunk
      <4>1. AfterAck(w) = "progress"
        BY <3>1 DEF AfterAck
      <4> QED
        BY <1>4, <3>1, <4>1 DEF Ack
    <3>2. CASE work[w].msg \notin Chunk
      <4>1. AfterAck(w) = "idle"
        BY <3>2 DEF AfterAck
      <4> QED
        BY <1>4, <4>1 DEF Ack
    <3> QED
      BY <3>1, <3>2
  <2>3. work' \in [Worker -> Work] /\ WorkInv'
    BY <2>2, RestKeeps, GotoKeeps DEF Pc, Fits
  <2> QED
    BY <1>4, <2>1, <2>3 DEF Ack, Steady, store, MapInv, StateOK
<1>5. ASSUME NEW w \in Worker, PlanAck(w) \/ CreateJob(w) PROVE MapInv'
  <2>1. work[w].msg \in Review /\ work[w] \in Work
    BY <1>5 DEF PlanAck, CreateJob, MapInv, StateOK, WorkInv, Fits
  <2>2. CASE \/ Goto(w, "create") \/ Goto(w, "ack")
    BY <1>5, <2>1, <2>2, GotoKeeps
    DEF PlanAck, CreateJob, Steady, store, MapInv, StateOK, LeaseInv, Fits, Pc, Msg
  <2>3. CASE work' = [work EXCEPT ![w].pc = "fan", ![w].todo = Chunk]
    <3>1. [work[w] EXCEPT !.pc = "fan", !.todo = Chunk] \in Work
      BY <2>1 DEF Work, Pc
    <3>2. /\ work'[w].pc = "fan" /\ work'[w].msg = work[w].msg
          /\ work' \in [Worker -> Work]
          /\ \A v \in Worker \ {w} : work'[v] = work[v]
      BY <2>1, <2>3, <3>1 DEF MapInv, StateOK, Work
    <3>3. WorkInv'
      BY <2>1, <3>2 DEF MapInv, WorkInv, Fits
    <3> QED
      BY <1>5, <3>2, <3>3 DEF PlanAck, CreateJob, Steady, store, MapInv, StateOK, LeaseInv
  <2> QED
    BY <1>5, <2>2, <2>3 DEF PlanAck, CreateJob
<1>6. ASSUME NEW w \in Worker, FanOut(w) PROVE MapInv'
  <2>1. PICK c \in work[w].todo :
          /\ Send(c)
          /\ work' = [work EXCEPT ![w].todo = @ \ {c},
                                  ![w].pc = IF work[w].todo = {c} THEN "ack" ELSE "fan"]
    BY <1>6 DEF FanOut
  <2>2. c \in Msg /\ work[w].pc = "fan"
    BY <1>6, <2>1 DEF FanOut, MapInv, StateOK, Work, Msg
  <2>3. work' \in [Worker -> Work] /\ WorkInv'
    <3> DEFINE pc == IF work[w].todo = {c} THEN "ack" ELSE "fan"
    <3>1. [work[w] EXCEPT !.todo = @ \ {c}, !.pc = pc] \in Work
      BY DEF MapInv, StateOK, Work, Pc
    <3>2. /\ work'[w].pc \in {"ack", "fan"} /\ work'[w].msg = work[w].msg
          /\ work' \in [Worker -> Work]
          /\ \A v \in Worker \ {w} : work'[v] = work[v]
      BY <2>1, <3>1 DEF MapInv, StateOK, Work
    <3> QED
      BY <2>2, <3>2 DEF MapInv, WorkInv, Fits, Msg
  <2>4. queue' \in [Msg -> Row] /\ LeaseInv' /\ sent' \in [Msg -> Nat]
    BY <1>t, <2>1, <2>2 DEF Send, MapInv, StateOK, LeaseInv, Ready
  <2> QED
    BY <1>6, <2>3, <2>4 DEF FanOut, Steady, store, MapInv, StateOK
<1>7. ASSUME NEW w \in Worker, PlanFails(w) \/ FanOutFails(w) \/ PublishFails(w) \/ ReviewFails(w)
      PROVE MapInv'
  <2>1. Nack(w) /\ work[w].pc # "idle"
    BY <1>7 DEF PlanFails, FanOutFails, PublishFails, ReviewFails
  <2>2. /\ queue' \in [Msg -> Row] /\ work' \in [Worker -> Work]
        /\ LeaseInv' /\ WorkInv'
    BY <2>1, NackKeeps
  <2> QED
    BY <1>7, <2>2 DEF PlanFails, FanOutFails, PublishFails, ReviewFails, Steady, store, MapInv, StateOK
<1>8. ASSUME NEW w \in Worker, \/ Reviewed(w) \/ Progress(w) \/ Barrier(w) \/ TryStartReduce(w)
                               \/ Publish(w)
      PROVE MapInv'
  <2>1. \/ Rest(w)
        \/ \E pc \in {"record", "record_empty", "barrier", "cas", "start"} : work[w].msg \in Chunk /\ Goto(w, pc)
        \/ work[w].msg = Reduce /\ Goto(w, "ack")
    BY <1>8 DEF Reviewed, Progress, Barrier, TryStartReduce, Publish, MapInv, WorkInv, Fits
  <2>2. work' \in [Worker -> Work] /\ WorkInv'
    BY <2>1, RestKeeps, GotoKeeps DEF Fits, Pc, Msg
  <2> QED
    BY <1>8, <2>2 DEF Reviewed, Progress, Barrier, TryStartReduce, Publish, Steady, store, MapInv,
                      StateOK, LeaseInv
<1>9. ASSUME NEW w \in Worker, HeldBack(w) PROVE MapInv'
  <2>1. queue' \in [Msg -> Row] /\ LeaseInv'
    <3> DEFINE m == work[w].msg
    <3>1. m \in Msg
      BY <1>9 DEF HeldBack, MapInv, WorkInv, Fits, Msg
    <3>2. CASE Owns(w)
      <4>1. queue[m].receives - 1 \in Nat
        BY <3>1, <3>2 DEF Owns, MapInv, StateOK, LeaseInv, Row
      <4>2. queue' = [queue EXCEPT ![m] = [state |-> "ready", receives |-> queue[m].receives - 1,
                                           holder |-> NoWorker]]
        BY <1>9, <3>1, <3>2 DEF HeldBack, GivenBack, MapInv, StateOK, Row
      <4> QED
        BY <3>1, <4>1, <4>2 DEF MapInv, StateOK, LeaseInv, Row
    <3>3. CASE ~Owns(w)
      BY <1>9, <3>3 DEF HeldBack, MapInv, StateOK, LeaseInv
    <3> QED
      BY <3>2, <3>3
  <2>2. work' \in [Worker -> Work] /\ WorkInv'
    BY <1>9, RestKeeps DEF HeldBack
  <2> QED
    BY <1>9, <2>1, <2>2 DEF HeldBack, Steady, store, MapInv, StateOK
<1>10. ASSUME NEW w \in Worker, \/ Record(w, "record", "ok", "ack")
                                \/ Record(w, "record_empty", "empty", "ack")
                                \/ Record(w, "record_failed", "failed", "progress")
       PROVE MapInv'
  <2>1. work' \in [Worker -> Work] /\ WorkInv'
    <3>1. \E pc \in {"ack", "progress"} : work[w].msg \in Chunk /\ Goto(w, pc)
      BY <1>10 DEF Record, MapInv, WorkInv, Fits
    <3> QED
      BY <3>1, GotoKeeps DEF Fits, Pc, Msg
  <2>2. findings' \in [Chunk -> Status] /\ blank' \subseteq Chunk
    <3>1. work[w].msg \in Chunk
      BY <1>10 DEF Record, MapInv, WorkInv, Fits
    <3> QED
      BY <1>10, <3>1 DEF Record, MapInv, StateOK, Status
  <2> QED
    BY <1>10, <2>1, <2>2 DEF Record, Steady, MapInv, StateOK, LeaseInv
<1>11. ASSUME NEW w \in Worker, StartReduce(w) PROVE MapInv'
  <2>1. queue' \in [Msg -> Row] /\ LeaseInv' /\ sent' \in [Msg -> Nat]
    BY <1>11, <1>t DEF StartReduce, Send, MapInv, StateOK, LeaseInv, Ready, Msg
  <2>2. work' \in [Worker -> Work] /\ WorkInv'
    BY <1>11, RestKeeps DEF StartReduce
  <2> QED
    BY <1>11, <2>1, <2>2 DEF StartReduce, Steady, store, MapInv, StateOK
<1>12. ASSUME NEW w \in Worker, Collect(w) PROVE MapInv'
  <2>1. work' \in [Worker -> Work] /\ WorkInv'
    <3>1. [work[w] EXCEPT !.pc = "publish", !.seen = findings] \in Work
      BY DEF MapInv, StateOK, Work, Pc
    <3>2. /\ work'[w].pc = "publish" /\ work'[w].msg = work[w].msg
          /\ work' \in [Worker -> Work]
          /\ \A v \in Worker \ {w} : work'[v] = work[v]
      BY <1>12, <3>1 DEF Collect, MapInv, StateOK, Work
    <3> QED
      BY <1>12, <3>2 DEF Collect, MapInv, WorkInv, Fits
  <2> QED
    BY <1>12, <2>1 DEF Collect, Steady, store, MapInv, StateOK, LeaseInv
<1>13. ASSUME NEW w \in Worker, WorkerCrash(w) \/ Lapse(w) PROVE MapInv'
  <2>1. queue' \in [Msg -> Row] /\ LeaseInv'
    <3>1. queue' = Released(w)
      BY <1>13 DEF WorkerCrash, Lapse
    <3>2. work[w].msg \in Msg \cup {NoMsg}
      BY DEF MapInv, StateOK, Work
    <3>3. CASE Owns(w)
      BY <3>1, <3>2, <3>3 DEF Released, Owns, MapInv, StateOK, LeaseInv, Row
    <3>4. CASE ~Owns(w)
      BY <3>1, <3>4 DEF Released, MapInv, StateOK, LeaseInv
    <3> QED
      BY <3>3, <3>4
  <2>2. work' \in [Worker -> Work] /\ WorkInv' /\ mishaps' \in Nat
    <3>1. CASE WorkerCrash(w)
      BY <3>1, RestKeeps DEF WorkerCrash, MapInv, StateOK
    <3>2. CASE Lapse(w)
      BY <3>2 DEF Lapse, MapInv, StateOK, WorkInv
    <3> QED
      BY <1>13, <3>1, <3>2
  <2> QED
    BY <1>13, <2>1, <2>2 DEF WorkerCrash, Lapse, store, MapInv, StateOK
<1> QED
  BY <1>1, <1>2, <1>3, <1>4, <1>5, <1>6, <1>7, <1>8, <1>9, <1>10, <1>11, <1>12, <1>13
  DEF Next, Steps, Conclude

-----------------------------------------------------------------------------
(***************************************************************************)
(* What a step of worker w means for the job, for the history of messages  *)
(* and for who is in the fan-out or about to start the reduce.             *)
(***************************************************************************)
Alone(w) == \A v \in Worker \ {w} : work'[v] = work[v]
Founded(w) ==
    /\ job = "absent" /\ job' = "open" /\ sent' = sent
    /\ work'[w].pc = "fan"
FannedOut(w) ==
    /\ work[w].pc = "fan" /\ job' = job
    /\ work'[w].pc \in {"fan", "ack"}
    /\ \E c \in work[w].todo : /\ work'[w].todo = work[w].todo \ {c}
                               /\ sent' = [sent EXCEPT ![c] = @ + 1]
Won(w) ==
    /\ job = "open" /\ job' = "reducing" /\ sent' = sent
    /\ work'[w].pc = "start"
Started(w) ==
    /\ work[w].pc = "start" /\ job' = job
    /\ work'[w].pc = "idle"
    /\ sent' = [sent EXCEPT ![Reduce] = @ + 1]
Other(w) ==
    /\ sent' = sent
    /\ work'[w].pc \notin {"fan", "start"}
    /\ job' = job \/ job' = "reducing"
Still == UNCHANGED <<job, work, sent>>

LEMMA NackIsOther ==
    ASSUME MapInv, NEW w \in Worker, Nack(w)
    PROVE  Alone(w) /\ work'[w].pc \in {"idle", "record_failed"}
<1>1. Rest(w) => Alone(w) /\ work'[w].pc = "idle"
  BY DEF Rest, Idle, Alone, MapInv, StateOK
<1>2. Goto(w, "record_failed") => Alone(w) /\ work'[w].pc = "record_failed"
  BY DEF Goto, Alone, MapInv, StateOK, Work
<1>3. Rest(w) \/ Goto(w, "record_failed")
  <2>1. CASE AfterDeadLetter(work[w].msg) = "idle"
    BY <2>1 DEF Nack
  <2>2. CASE AfterDeadLetter(work[w].msg) = "record_failed"
    BY <2>2 DEF Nack
  <2> QED
    BY <2>1, <2>2 DEF AfterDeadLetter
<1> QED
  BY <1>1, <1>2, <1>3

LEMMA Effects ==
    ASSUME MapInv, [Next]_vars
    PROVE  \/ Still
           \/ \E w \in Worker :
                Alone(w) /\ (Founded(w) \/ FannedOut(w) \/ Won(w) \/ Started(w) \/ Other(w))
<1> USE DEF output, trouble
<1> DEFINE Does(w) == Alone(w) /\ (Founded(w) \/ FannedOut(w) \/ Won(w) \/ Started(w) \/ Other(w))
<1>g. ASSUME NEW w \in Worker, NEW pc, Goto(w, pc) PROVE Alone(w) /\ work'[w].pc = pc
  BY <1>g DEF Goto, Alone, MapInv, StateOK, Work
<1>r. ASSUME NEW w \in Worker, Rest(w) PROVE Alone(w) /\ work'[w].pc = "idle"
  BY <1>r DEF Rest, Idle, Alone, MapInv, StateOK
<1>1. CASE UNCHANGED vars
  BY <1>1 DEF vars, store, Still
<1>2. ASSUME NEW m \in Msg, NEW w \in Worker, Lease(w, m) PROVE Does(w)
  <2>1. Entry(m) \in {"plan", "review", "collect"}
    BY DEF Entry
  <2>2. Alone(w) /\ work'[w].pc = Entry(m)
    BY <1>2 DEF Lease, Alone, MapInv, StateOK, Work
  <2> QED
    BY <1>2, <2>1, <2>2 DEF Lease, Other, store
<1>3. ASSUME NEW m \in Msg, PoisonGuard(m) PROVE Still
  BY <1>3 DEF PoisonGuard, Still, store
<1>4. ASSUME NEW w \in Worker, Ack(w) PROVE Does(w)
  <2>1. Rest(w) \/ Goto(w, "progress")
    <3>1. CASE AfterAck(w) = "idle"
      BY <1>4, <3>1 DEF Ack
    <3>2. CASE AfterAck(w) = "progress"
      BY <1>4, <3>2 DEF Ack
    <3> QED
      BY <3>1, <3>2 DEF AfterAck
  <2>2. Alone(w) /\ work'[w].pc \in {"idle", "progress"}
    BY <2>1, <1>g, <1>r
  <2> QED
    BY <1>4, <2>2 DEF Ack, Other, store
<1>5. ASSUME NEW w \in Worker, CreateJob(w) PROVE Does(w)
  <2>1. CASE IsNew /\ job' = "open" /\ work' = [work EXCEPT ![w].pc = "fan", ![w].todo = Chunk]
    <3>1. Alone(w) /\ work'[w].pc = "fan"
      BY <2>1 DEF Alone, MapInv, StateOK, Work
    <3> QED
      BY <1>5, <2>1, <3>1 DEF CreateJob, IsNew, Founded
  <2>2. CASE Goto(w, "ack") /\ UNCHANGED job
    BY <1>5, <2>2, <1>g DEF CreateJob, Other
  <2> QED
    BY <1>5, <2>1, <2>2 DEF CreateJob
<1>6. ASSUME NEW w \in Worker, FanOut(w) PROVE Does(w)
  <2>1. PICK c \in work[w].todo :
          /\ Send(c)
          /\ work' = [work EXCEPT ![w].todo = @ \ {c},
                                  ![w].pc = IF work[w].todo = {c} THEN "ack" ELSE "fan"]
    BY <1>6 DEF FanOut
  <2>2. /\ Alone(w) /\ work'[w].pc \in {"fan", "ack"}
        /\ work'[w].todo = work[w].todo \ {c}
    BY <2>1 DEF Alone, MapInv, StateOK, Work
  <2> QED
    BY <1>6, <2>1, <2>2 DEF FanOut, Send, FannedOut, store
<1>7. ASSUME NEW w \in Worker, PlanFails(w) \/ FanOutFails(w) \/ PublishFails(w) \/ ReviewFails(w)
      PROVE Does(w)
  <2>1. Nack(w) /\ UNCHANGED <<job, sent>>
    BY <1>7 DEF PlanFails, FanOutFails, PublishFails, ReviewFails, store
  <2> QED
    BY <2>1, NackIsOther DEF Other
<1>8. ASSUME NEW w \in Worker, TryStartReduce(w) PROVE Does(w)
  BY <1>8, <1>g, <1>r DEF TryStartReduce, CanStart, Won, Other
<1>9. ASSUME NEW w \in Worker, StartReduce(w) PROVE Does(w)
  BY <1>9, <1>r DEF StartReduce, Send, Started, store
<1>10. ASSUME NEW w \in Worker, PlanAck(w) \/ Reviewed(w) \/ Progress(w) \/ Barrier(w) \/ Publish(w)
       PROVE Does(w)
  <2>1. Rest(w) \/ \E pc \in {"create", "record", "record_empty", "barrier", "cas", "ack"} : Goto(w, pc)
    BY <1>10 DEF PlanAck, Reviewed, Progress, Barrier, Publish
  <2>2. Alone(w) /\ work'[w].pc \in {"idle", "create", "record", "record_empty", "barrier", "cas", "ack"}
    BY <2>1, <1>g, <1>r
  <2> QED
    BY <1>10, <2>2 DEF PlanAck, Reviewed, Progress, Barrier, Publish, Other, store
<1>11. ASSUME NEW w \in Worker, \/ Record(w, "record", "ok", "ack")
                                \/ Record(w, "record_empty", "empty", "ack")
                                \/ Record(w, "record_failed", "failed", "progress")
       PROVE Does(w)
  BY <1>11, <1>g DEF Record, Other
<1>12. ASSUME NEW w \in Worker, Collect(w) PROVE Does(w)
  <2>1. Alone(w) /\ work'[w].pc = "publish"
    BY <1>12 DEF Collect, Alone, MapInv, StateOK, Work
  <2> QED
    BY <1>12, <2>1 DEF Collect, Other, store
<1>13. ASSUME NEW w \in Worker, HeldBack(w) \/ WorkerCrash(w) PROVE Does(w)
  BY <1>13, <1>r DEF HeldBack, WorkerCrash, Other, store
<1>14. ASSUME NEW w \in Worker, Lapse(w) PROVE Still
  BY <1>14 DEF Lapse, Still, store
<1> QED
  BY <1>1, <1>2, <1>3, <1>4, <1>5, <1>6, <1>7, <1>8, <1>9, <1>10, <1>11, <1>12, <1>13, <1>14
  DEF Next, Steps, Conclude

-----------------------------------------------------------------------------
(***************************************************************************)
(* The reduce is sent by a worker that has won the compare-and-set, there  *)
(* is one such worker at a time, and none before the job is "reducing".    *)
(***************************************************************************)
ReduceInv ==
    /\ job # "reducing" => sent[Reduce] = 0 /\ \A w \in Worker : work[w].pc # "start"
    /\ \A w \in Worker : work[w].pc = "start" =>
         sent[Reduce] = 0 /\ \A v \in Worker : work[v].pc = "start" => v = w
    /\ sent[Reduce] <= 1

LEMMA ReduceInvInit == Init => ReduceInv
BY MapReduceAssumption DEF Init, ReduceInv, Idle, Msg

LEMMA ReduceInvStep == MapInv /\ ReduceInv /\ [Next]_vars => ReduceInv'
<1> SUFFICES ASSUME MapInv, ReduceInv, [Next]_vars PROVE ReduceInv'
  OBVIOUS
<1>1. CASE Still
  BY <1>1 DEF Still, ReduceInv
<1>2. ASSUME NEW w \in Worker, Alone(w), Founded(w) PROVE ReduceInv'
  BY <1>2 DEF Alone, Founded, ReduceInv
<1>3. ASSUME NEW w \in Worker, Alone(w), FannedOut(w) PROVE ReduceInv'
  <2>1. work[w].todo \subseteq Chunk
    BY DEF MapInv, StateOK, Work
  <2>2. sent'[Reduce] = sent[Reduce]
    BY <1>3, <2>1, MapReduceAssumption DEF FannedOut, MapInv, StateOK, Msg
  <2> QED
    BY <1>3, <2>2 DEF Alone, FannedOut, ReduceInv
<1>4. ASSUME NEW w \in Worker, Alone(w), Won(w) PROVE ReduceInv'
  BY <1>4 DEF Alone, Won, ReduceInv
<1>5. ASSUME NEW w \in Worker, Alone(w), Started(w) PROVE ReduceInv'
  <2>1. sent'[Reduce] = 1 /\ job' = "reducing"
    BY <1>5 DEF Started, ReduceInv, MapInv, StateOK, Msg
  <2>2. \A v \in Worker : work'[v].pc # "start"
    BY <1>5 DEF Alone, Started, ReduceInv
  <2> QED
    BY <2>1, <2>2 DEF ReduceInv
<1>6. ASSUME NEW w \in Worker, Alone(w), Other(w) PROVE ReduceInv'
  BY <1>6 DEF Alone, Other, ReduceInv
<1> QED
  BY <1>1, <1>2, <1>3, <1>4, <1>5, <1>6, Effects

(***************************************************************************)
(* The fan-in starts at most one reduce, however many workers see the last *)
(* report, die or outlive their leases (mapreduce.py:54-59).               *)
(***************************************************************************)
THEOREM ReduceIsUnique == Spec => []ReduceOnce
<1>1. Init => MapInv /\ ReduceInv
  BY MapInvInit, ReduceInvInit
<1>2. MapInv /\ ReduceInv /\ [Next]_vars => (MapInv /\ ReduceInv)'
  BY MapInvStep, ReduceInvStep
<1>3. ReduceInv => ReduceOnce
  BY DEF ReduceInv, ReduceOnce
<1> QED
  BY <1>1, <1>2, <1>3, PTL DEF Spec

-----------------------------------------------------------------------------
(***************************************************************************)
(* There is one worker in the fan-out at a time, none before the job is    *)
(* created, and what it has still to send was never sent.                  *)
(***************************************************************************)
FanInv ==
    /\ job = "absent" => /\ \A c \in Chunk : sent[c] = 0
                         /\ \A w \in Worker : work[w].pc # "fan"
    /\ \A w \in Worker : work[w].pc = "fan" =>
         /\ \A c \in work[w].todo : sent[c] = 0
         /\ \A v \in Worker : work[v].pc = "fan" => v = w
    /\ \A c \in Chunk : sent[c] <= 1

LEMMA FanInvInit == Init => FanInv
BY MapReduceAssumption DEF Init, FanInv, Idle, Msg

LEMMA FanInvStep == MapInv /\ FanInv /\ [Next]_vars => FanInv'
<1> SUFFICES ASSUME MapInv, FanInv, [Next]_vars PROVE FanInv'
  OBVIOUS
<1>t. MapInv' /\ \A v \in Worker : work[v].todo \subseteq Chunk /\ work'[v].todo \subseteq Chunk
  BY MapInvStep DEF MapInv, StateOK, Work
<1>1. CASE Still
  BY <1>1 DEF Still, FanInv
<1>2. ASSUME NEW w \in Worker, Alone(w), Founded(w) PROVE FanInv'
  BY <1>2, <1>t DEF Alone, Founded, FanInv
<1>3. ASSUME NEW w \in Worker, Alone(w), FannedOut(w) PROVE FanInv'
  <2>1. PICK c \in work[w].todo : /\ work'[w].todo = work[w].todo \ {c}
                                  /\ sent' = [sent EXCEPT ![c] = @ + 1]
    BY <1>3 DEF FannedOut
  <2>2. c \in Chunk /\ sent[c] = 0 /\ c \in Msg
    BY <1>3, <1>t DEF FannedOut, FanInv, Msg
  <2>3. \A d \in Chunk : sent'[d] = IF d = c THEN 1 ELSE sent[d]
    BY <2>1, <2>2 DEF MapInv, StateOK, Msg
  <2>4. \A v \in Worker : work'[v].pc = "fan" => v = w
    BY <1>3 DEF Alone, FannedOut, FanInv
  <2>5. job' # "absent"
    BY <1>3 DEF FannedOut, FanInv
  <2>6. \A d \in work'[w].todo : sent'[d] = 0
    BY <1>3, <1>t, <2>1, <2>3 DEF FannedOut, FanInv
  <2>7. \A d \in Chunk : sent'[d] <= 1
    BY <2>3 DEF FanInv
  <2> QED
    BY <2>4, <2>5, <2>6, <2>7 DEF FanInv
<1>4. ASSUME NEW w \in Worker, Alone(w), Won(w) PROVE FanInv'
  BY <1>4, <1>t DEF Alone, Won, FanInv
<1>5. ASSUME NEW w \in Worker, Alone(w), Started(w) PROVE FanInv'
  <2>1. \A c \in Chunk : sent'[c] = sent[c]
    BY <1>5, MapReduceAssumption DEF Started, MapInv, StateOK, Msg
  <2> QED
    BY <1>5, <1>t, <2>1 DEF Alone, Started, FanInv
<1>6. ASSUME NEW w \in Worker, Alone(w), Other(w) PROVE FanInv'
  BY <1>6, <1>t DEF Alone, Other, FanInv
<1> QED
  BY <1>1, <1>2, <1>3, <1>4, <1>5, <1>6, Effects

(***************************************************************************)
(* However many deliveries of the event are planned, at whatever time, no  *)
(* chunk is enqueued twice (mapreduce_worker.py:53-55).                    *)
(***************************************************************************)
THEOREM FanOutIsUnique == Spec => []FanOutOnce
<1>1. Init => MapInv /\ FanInv
  BY MapInvInit, FanInvInit
<1>2. MapInv /\ FanInv /\ [Next]_vars => (MapInv /\ FanInv)'
  BY MapInvStep, FanInvStep
<1>3. FanInv => FanOutOnce
  BY DEF FanInv, FanOutOnce
<1> QED
  BY <1>1, <1>2, <1>3, PTL DEF Spec

-----------------------------------------------------------------------------
(***************************************************************************)
(* A worker that has seen the barrier, or holds the reduce, knows that     *)
(* every chunk has reported, and so does the message of the reduce; what a *)
(* worker has collected to publish leaves no chunk out, and the ones that  *)
(* are neither shown nor listed are those that were empty.                 *)
(***************************************************************************)
Late == {"cas", "start", "collect", "publish"}
Found(w, status) == {c \in Chunk : work[w].seen[c] = status}
Collected(w) == [posted |-> TRUE, reviewed |-> Found(w, "ok"), missed |-> Found(w, "failed")]

ReportInv ==
    /\ \A w \in Worker : work[w].pc \in Late => Reported = Chunk
    /\ \A w \in Worker : work[w].pc = "publish" => \A c \in Chunk : work[w].seen[c] # "none"
    /\ queue[Reduce].state # "none" => Reported = Chunk
    /\ \A c \in Chunk : findings[c] = "empty" => c \in blank
    /\ \A w \in Worker : work[w].pc = "publish" => Found(w, "empty") \subseteq blank
    /\ ReviewAccountsForAll

\* What a step of worker w adds to that.
ReportsBy(w) ==
    /\ \A c \in Chunk : /\ findings[c] # "none" => findings'[c] # "none"
                        /\ findings'[c] = "empty" => findings[c] = "empty" \/ c \in blank'
    /\ blank \subseteq blank'
    /\ queue'[Reduce].state # "none" => queue[Reduce].state # "none" \/ work[w].pc = "start"
    /\ work'[w].pc \in Late => work[w].pc \in Late \/ Reported = Chunk \/ queue[Reduce].state # "none"
    /\ work'[w].pc = "publish" => work'[w].seen = findings /\ work[w].pc = "collect"
    /\ review' = review \/ (work[w].pc = "publish" /\ review' = Collected(w))

\* A message that is given up, released or dropped is not put into the queue.
LEMMA OnlyOwnersTouchRows ==
    ASSUME MapInv, NEW w \in Worker, Nack(w) \/ HeldBack(w) \/ Ack(w) \/ queue' = Released(w)
    PROVE  queue'[Reduce].state # "none" => queue[Reduce].state # "none"
<1> USE MapReduceAssumption
<1>1. Reduce \in Msg /\ queue[Reduce] \in Row /\ NoRow.state = "none"
  BY DEF Msg, MapInv, StateOK, NoRow
<1>2. CASE ~Owns(w)
  <2>1. queue' = queue
    BY <1>2 DEF Nack, HeldBack, Ack, Settled, Released
  <2> QED
    BY <2>1
<1>3. CASE Owns(w)
  <2> DEFINE m == work[w].msg
  <2>1. m \in Msg /\ queue[m].state # "none"
    BY <1>3 DEF Owns, MapInv, StateOK, LeaseInv, Work, Row
  <2>2. \/ queue' = [queue EXCEPT ![m] = NoRow]
        \/ queue' = [queue EXCEPT ![m].state = "ready", ![m].holder = NoWorker]
        \/ queue' = [queue EXCEPT ![m].state = "ready", ![m].holder = NoWorker,
                                  ![m].receives = GivenBack(@)]
    BY <1>3 DEF Nack, HeldBack, Ack, Settled, Released
  <2> QED
    BY <1>1, <2>1, <2>2 DEF MapInv, StateOK, Row
<1> QED
  BY <1>2, <1>3

LEMMA ReportEffects ==
    ASSUME MapInv, [Next]_vars
    PROVE  \/ /\ UNCHANGED <<findings, work, review, blank>>
              /\ queue'[Reduce].state # "none" => queue[Reduce].state # "none"
           \/ \E w \in Worker : Alone(w) /\ ReportsBy(w)
<1> USE DEF output, trouble
<1> DEFINE Quietly == /\ UNCHANGED <<findings, work, review, blank>>
                      /\ queue'[Reduce].state # "none" => queue[Reduce].state # "none"
           Does(w) == Alone(w) /\ ReportsBy(w)
<1> USE MapReduceAssumption
<1>g. ASSUME NEW w \in Worker, NEW pc, Goto(w, pc) PROVE Alone(w) /\ work'[w].pc = pc
  BY <1>g DEF Goto, Alone, MapInv, StateOK, Work
<1>r. ASSUME NEW w \in Worker, Rest(w) PROVE Alone(w) /\ work'[w].pc = "idle"
  BY <1>r DEF Rest, Idle, Alone, MapInv, StateOK
<1>1. CASE UNCHANGED vars
  BY <1>1 DEF vars, store
<1>2. ASSUME NEW m \in Msg, NEW w \in Worker, Lease(w, m) PROVE Does(w)
  <2>1. Alone(w) /\ work'[w].pc = Entry(m)
    BY <1>2 DEF Lease, Alone, MapInv, StateOK, Work
  <2>2. queue'[Reduce].state # "none" => queue[Reduce].state # "none"
    BY <1>2 DEF Lease, MapInv, StateOK, Row, Msg
  <2>3. CASE m = Reduce
    BY <1>2, <2>1, <2>2, <2>3 DEF Lease, Entry, ReportsBy, store
  <2>4. CASE m # Reduce
    <3>1. Entry(m) \in {"plan", "review"}
      BY <2>4 DEF Entry, Msg
    <3> QED
      BY <1>2, <2>1, <2>2, <3>1 DEF Lease, ReportsBy, Late, store
  <2> QED
    BY <2>3, <2>4
<1>3. ASSUME NEW m \in Msg, PoisonGuard(m) PROVE Quietly
  BY <1>3 DEF PoisonGuard, store, MapInv, StateOK, Row, NoRow, Msg
<1>4. ASSUME NEW w \in Worker, Ack(w) PROVE Does(w)
  <2>1. Rest(w) \/ Goto(w, "progress")
    <3>1. CASE AfterAck(w) = "idle"
      BY <1>4, <3>1 DEF Ack
    <3>2. CASE AfterAck(w) = "progress"
      BY <1>4, <3>2 DEF Ack
    <3> QED
      BY <3>1, <3>2 DEF AfterAck
  <2>2. Alone(w) /\ work'[w].pc \in {"idle", "progress"}
    BY <2>1, <1>g, <1>r
  <2> QED
    BY <1>4, <2>2, OnlyOwnersTouchRows DEF Ack, ReportsBy, Late, store
<1>5. ASSUME NEW w \in Worker, CreateJob(w) PROVE Does(w)
  <2>1. Alone(w) /\ work'[w].pc \in {"fan", "ack"}
    BY <1>5, <1>g DEF CreateJob, Alone, MapInv, StateOK, Work
  <2> QED
    BY <1>5, <2>1 DEF CreateJob, ReportsBy, Late
<1>6. ASSUME NEW w \in Worker, FanOut(w) PROVE Does(w)
  <2>1. PICK c \in work[w].todo :
          /\ Send(c)
          /\ work' = [work EXCEPT ![w].todo = @ \ {c},
                                  ![w].pc = IF work[w].todo = {c} THEN "ack" ELSE "fan"]
    BY <1>6 DEF FanOut
  <2>2. Alone(w) /\ work'[w].pc \in {"fan", "ack"}
    BY <2>1 DEF Alone, MapInv, StateOK, Work
  <2>3. queue'[Reduce] = queue[Reduce]
    BY <2>1 DEF Send, MapInv, StateOK, Work, Msg
  <2> QED
    BY <1>6, <2>2, <2>3 DEF FanOut, ReportsBy, Late, store
<1>7. ASSUME NEW w \in Worker, PlanFails(w) \/ FanOutFails(w) \/ PublishFails(w) \/ ReviewFails(w)
      PROVE Does(w)
  <2>1. Nack(w) /\ UNCHANGED <<findings, review, blank>>
    BY <1>7 DEF PlanFails, FanOutFails, PublishFails, ReviewFails, store
  <2> QED
    BY <2>1, NackIsOther, OnlyOwnersTouchRows DEF ReportsBy, Late
<1>8. ASSUME NEW w \in Worker, Barrier(w) \/ TryStartReduce(w) PROVE Does(w)
  BY <1>8, <1>g, <1>r DEF Barrier, AllReported, TryStartReduce, ReportsBy, Late, store
<1>9. ASSUME NEW w \in Worker, StartReduce(w) PROVE Does(w)
  BY <1>9, <1>r DEF StartReduce, ReportsBy, Late, store
<1>10. ASSUME NEW w \in Worker, PlanAck(w) \/ Reviewed(w) \/ Progress(w) PROVE Does(w)
  <2>1. \E pc \in {"create", "record", "record_empty", "barrier"} : Goto(w, pc)
    BY <1>10 DEF PlanAck, Reviewed, Progress
  <2>2. Alone(w) /\ work'[w].pc \in {"create", "record", "record_empty", "barrier"}
    BY <2>1, <1>g
  <2> QED
    BY <1>10, <2>2 DEF PlanAck, Reviewed, Progress, ReportsBy, Late, store
<1>11. ASSUME NEW w \in Worker, \/ Record(w, "record", "ok", "ack")
                                \/ Record(w, "record_empty", "empty", "ack")
                                \/ Record(w, "record_failed", "failed", "progress")
       PROVE Does(w)
  <2>1. Alone(w) /\ work'[w].pc \in {"ack", "progress"}
    BY <1>11, <1>g DEF Record
  <2>2. /\ \A c \in Chunk : /\ findings[c] # "none" => findings'[c] # "none"
                            /\ findings'[c] = "empty" => findings[c] = "empty" \/ c \in blank'
        /\ blank \subseteq blank'
    BY <1>11 DEF Record, MapInv, StateOK
  <2> QED
    BY <1>11, <2>1, <2>2 DEF Record, ReportsBy, Late
<1>12. ASSUME NEW w \in Worker, Collect(w) PROVE Does(w)
  <2>1. Alone(w) /\ work'[w].pc = "publish" /\ work'[w].seen = findings
    BY <1>12 DEF Collect, Alone, MapInv, StateOK, Work
  <2> QED
    BY <1>12, <2>1 DEF Collect, ReportsBy, Late, store
<1>13. ASSUME NEW w \in Worker, Publish(w) PROVE Does(w)
  BY <1>13, <1>g DEF Publish, Collected, Found, ReportsBy, Late, store
<1>14. ASSUME NEW w \in Worker, HeldBack(w) \/ WorkerCrash(w) PROVE Does(w)
  BY <1>14, <1>r, OnlyOwnersTouchRows DEF HeldBack, WorkerCrash, ReportsBy, Late, store
<1>15. ASSUME NEW w \in Worker, Lapse(w) PROVE Quietly
  BY <1>15, OnlyOwnersTouchRows DEF Lapse, store
<1> QED
  BY <1>1, <1>2, <1>3, <1>4, <1>5, <1>6, <1>7, <1>8, <1>9, <1>10, <1>11, <1>12, <1>13, <1>14, <1>15
  DEF Next, Steps, Conclude

LEMMA ReportInvInit == Init => ReportInv
BY MapReduceAssumption DEF Init, ReportInv, ReviewAccountsForAll, NoReview, Nothing, Idle, NoRow, Late, Msg

LEMMA ReportInvStep == MapInv /\ ReportInv /\ [Next]_vars => ReportInv'
<1> SUFFICES ASSUME MapInv, ReportInv, [Next]_vars PROVE ReportInv'
  OBVIOUS
<1>1. CASE /\ UNCHANGED <<findings, work, review, blank>>
           /\ queue'[Reduce].state # "none" => queue[Reduce].state # "none"
  BY <1>1 DEF ReportInv, Reported, Found, ReviewAccountsForAll
<1>2. ASSUME NEW w \in Worker, Alone(w), ReportsBy(w) PROVE ReportInv'
  <2>1. Reported = Chunk => Reported' = Chunk
    BY <1>2 DEF ReportsBy, Reported
  <2>2. work[w].pc \in Late \/ Reported = Chunk \/ queue[Reduce].state # "none" => Reported = Chunk
    BY DEF ReportInv
  <2>3. \A v \in Worker : work'[v].pc \in Late => Reported' = Chunk
    BY <1>2, <2>1, <2>2 DEF Alone, ReportsBy, ReportInv
  <2>4. \A v \in Worker : work'[v].pc = "publish" => \A c \in Chunk : work'[v].seen[c] # "none"
    <3>1. CASE work'[w].pc = "publish"
      BY <1>2, <2>2, <3>1 DEF Alone, ReportsBy, ReportInv, Late, Reported
    <3>2. CASE work'[w].pc # "publish"
      BY <1>2, <3>2 DEF Alone, ReportInv
    <3> QED
      BY <3>1, <3>2
  <2>5. queue'[Reduce].state # "none" => Reported' = Chunk
    BY <1>2, <2>1, <2>2 DEF ReportsBy, Late
  <2>6. \A c \in Chunk : findings'[c] = "empty" => c \in blank'
    BY <1>2 DEF ReportsBy, ReportInv
  <2>7. \A v \in Worker : work'[v].pc = "publish" => Found(v, "empty")' \subseteq blank'
    <3>1. CASE work'[w].pc = "publish"
      BY <1>2, <3>1 DEF Alone, ReportsBy, ReportInv, Found
    <3>2. CASE work'[w].pc # "publish"
      BY <1>2, <3>2 DEF Alone, ReportsBy, ReportInv, Found
    <3> QED
      BY <3>1, <3>2
  <2>8. ReviewAccountsForAll'
    <3>1. CASE review' = review
      BY <1>2, <3>1 DEF ReportsBy, ReportInv, ReviewAccountsForAll
    <3>2. CASE work[w].pc = "publish" /\ review' = Collected(w)
      <4>1. Found(w, "none") = {} /\ Found(w, "empty") \subseteq blank'
        BY <1>2, <3>2 DEF ReportInv, ReportsBy, Found
      <4>2. \A c \in Chunk : work[w].seen[c] \in Status
        BY DEF MapInv, StateOK, Work
      <4>3. Chunk \subseteq Found(w, "ok") \cup Found(w, "failed") \cup blank'
        BY <4>1, <4>2 DEF Found, Status
      <4> QED
        BY <3>2, <4>3 DEF Collected, ReviewAccountsForAll
    <3> QED
      BY <1>2, <3>1, <3>2 DEF ReportsBy
  <2> QED
    BY <2>3, <2>4, <2>5, <2>6, <2>7, <2>8 DEF ReportInv
<1> QED
  BY <1>1, <1>2, ReportEffects

(***************************************************************************)
(* A published review accounts for every chunk of the plan, as reviewed or *)
(* as failed, after whatever mishaps, redeliveries and late reports, but   *)
(* for chunks the model has answered with nothing (reduce.py:3-5, 30-31).  *)
(***************************************************************************)
THEOREM ReviewIsComplete == Spec => []ReviewAccountsForAll
<1>1. Init => MapInv /\ ReportInv
  BY MapInvInit, ReportInvInit
<1>2. MapInv /\ ReportInv /\ [Next]_vars => (MapInv /\ ReportInv)'
  BY MapInvStep, ReportInvStep
<1>3. ReportInv => ReviewAccountsForAll
  BY DEF ReportInv, ReviewAccountsForAll
<1> QED
  BY <1>1, <1>2, <1>3, PTL DEF Spec

(***************************************************************************)
(* Tables, messages and workers are well typed: above all, a receive that  *)
(* defer() gives back was counted before (queue.py:184).                   *)
(***************************************************************************)
THEOREM TypeCorrect == Spec => []TypeOK
<1> DEFINE ReviewOK == review \in [posted : BOOLEAN, reviewed : SUBSET Chunk, missed : SUBSET Chunk]
<1>1. Init => MapInv /\ ReviewOK
  BY MapInvInit DEF Init, NoReview
<1>2. MapInv /\ ReviewOK /\ [Next]_vars => (MapInv /\ ReviewOK)'
  <2> SUFFICES ASSUME MapInv, ReviewOK, [Next]_vars PROVE ReviewOK'
    BY MapInvStep
  <2>1. CASE review' = review
    BY <2>1
  <2>2. ASSUME NEW w \in Worker, review' = Collected(w) PROVE ReviewOK'
    BY <2>2 DEF Collected, Found
  <2> QED
    BY <2>1, <2>2, ReportEffects DEF ReportsBy
<1>3. MapInv /\ ReviewOK => TypeOK
  BY DEF MapInv, StateOK, TypeOK
<1> QED
  BY <1>1, <1>2, <1>3, PTL DEF Spec

-----------------------------------------------------------------------------
(***************************************************************************)
(* While nobody has died or outlived a lease: a chunk that waits has a     *)
(* receive left, so the poison-guard cannot take it; the worker about to   *)
(* ack a chunk has recorded it; and one that gave it up will.              *)
(***************************************************************************)
Tracked(c) == \/ queue[c].state # "none"
              \/ c \in Reported
              \/ \E w \in Worker : work[w].msg = c /\ work[w].pc = "record_failed"
TrackInv ==
  mishaps = 0 =>
    /\ \A c \in Chunk : queue[c].state = "ready" => queue[c].receives < MaxAttempts
    /\ \A w \in Worker : work[w].pc = "ack" /\ work[w].msg \in Chunk => work[w].msg \in Reported
    /\ \A c \in Chunk : sent[c] > 0 => Tracked(c)

LEMMA TrackInvInit == Init => TrackInv
BY MapReduceAssumption DEF Init, TrackInv, Idle, NoRow, Msg

\* Steps that leave the messages alone.
LEMMA TrackFrame ==
    ASSUME MapInv, TrackInv, NEW w \in Worker, Alone(w), UNCHANGED <<queue, sent>>, mishaps' = 0 => mishaps = 0,
           work[w].pc # "record_failed" \/ work[w].msg \in Reported',
           work'[w].pc # "ack" \/ work'[w].msg \notin Chunk \/ work'[w].msg \in Reported',
           \A c \in Reported : c \in Reported'
    PROVE  TrackInv'
BY DEF Alone, TrackInv, Tracked

\* The worker of another message gives it up, or the one of a chunk that has a receive left.
LEMMA TrackNack ==
    ASSUME MapInv, TrackInv, NEW w \in Worker, Nack(w), work[w].pc # "idle", work[w].pc # "record_failed",
           UNCHANGED <<findings, sent>>, mishaps' = 0 => mishaps = 0
    PROVE  TrackInv'
<1> USE MapReduceAssumption
<1> DEFINE m == work[w].msg
<1> SUFFICES ASSUME mishaps = 0 PROVE TrackInv'
  BY DEF TrackInv
<1>1. m \in Msg
  BY DEF MapInv, StateOK, WorkInv, Fits, Msg, Work, Pc
<1>2. Alone(w) /\ work'[w].pc \in {"idle", "record_failed"}
  BY NackIsOther
<1>3. \A v \in Worker : work'[v].pc = "ack" => v # w /\ work'[v] = work[v]
  BY <1>2 DEF Alone
<1>4. Reported' = Reported
  BY DEF Reported
<1>5. CASE ~Owns(w) \/ (Owns(w) /\ queue[m].receives < MaxAttempts)
  <2>1. \A c \in Chunk : /\ queue'[c].state = "ready" => queue'[c].receives < MaxAttempts
                         /\ queue[c].state # "none" => queue'[c].state # "none"
    <3>1. \/ queue' = queue
          \/ /\ queue' = [queue EXCEPT ![m].state = "ready", ![m].holder = NoWorker]
             /\ queue[m].receives < MaxAttempts
      BY <1>1, <1>5 DEF Nack, MapInv, StateOK, Row
    <3> QED
      BY <1>1, <3>1 DEF TrackInv, MapInv, StateOK, Row, Msg
  <2>2. \A c \in Chunk : Tracked(c) => Tracked(c)'
    BY <1>2, <1>4, <2>1 DEF Alone, Tracked
  <2> QED
    BY <1>3, <1>4, <2>1, <2>2 DEF TrackInv
<1>6. CASE Owns(w) /\ queue[m].receives >= MaxAttempts
  <2>1. /\ queue' = [queue EXCEPT ![m] = NoRow]
        /\ IF AfterDeadLetter(m) = "idle" THEN Rest(w) ELSE Goto(w, AfterDeadLetter(m))
    BY <1>1, <1>6 DEF Nack, MapInv, StateOK, Row
  <2>2. \A c \in Chunk \ {m} : queue'[c] = queue[c]
    BY <2>1 DEF MapInv, StateOK, Msg
  <2>3. queue'[m].state = "none"
    BY <1>1, <2>1 DEF MapInv, StateOK, NoRow
  <2>4. m \in Chunk => work'[w].msg = m /\ work'[w].pc = "record_failed"
    <3> SUFFICES ASSUME m \in Chunk PROVE work'[w].msg = m /\ work'[w].pc = "record_failed"
      OBVIOUS
    <3>1. AfterDeadLetter(m) = "record_failed"
      BY DEF AfterDeadLetter
    <3>2. Goto(w, "record_failed")
      BY <2>1, <3>1
    <3> QED
      BY <3>2 DEF Goto, MapInv, StateOK, Work
  <2>5. \A c \in Chunk : Tracked(c) => Tracked(c)'
    <3>1. ASSUME NEW c \in Chunk, c = m PROVE Tracked(c)'
      BY <2>4, <3>1 DEF Tracked
    <3>2. ASSUME NEW c \in Chunk, c # m, Tracked(c) PROVE Tracked(c)'
      BY <1>2, <1>4, <2>2, <3>2 DEF Alone, Tracked
    <3> QED
      BY <3>1, <3>2
  <2>6. \A c \in Chunk : queue'[c].state = "ready" => queue'[c].receives < MaxAttempts
    BY <2>2, <2>3 DEF TrackInv
  <2> QED
    BY <1>3, <1>4, <2>5, <2>6 DEF TrackInv
<1> QED
  BY <1>1, <1>5, <1>6 DEF MapInv, StateOK, Row

LEMMA TrackInvStep == MapInv /\ TrackInv /\ [Next]_vars => TrackInv'
<1> USE DEF output, trouble
<1> SUFFICES ASSUME MapInv, TrackInv, [Next]_vars PROVE TrackInv'
  OBVIOUS
<1> USE MapReduceAssumption
<1>g. ASSUME NEW w \in Worker, NEW pc, Goto(w, pc)
      PROVE  Alone(w) /\ work'[w].pc = pc /\ work'[w].msg = work[w].msg
  BY <1>g DEF Goto, Alone, MapInv, StateOK, Work
<1>r. ASSUME NEW w \in Worker, Rest(w) PROVE Alone(w) /\ work'[w].pc = "idle"
  BY <1>r DEF Rest, Idle, Alone, MapInv, StateOK
<1>1. CASE UNCHANGED vars
  BY <1>1 DEF vars, store, TrackInv, Tracked, Reported
<1>2. ASSUME NEW m \in Msg, NEW w \in Worker, Lease(w, m) PROVE TrackInv'
  <2>1. /\ queue'[m].state = "leased" /\ \A n \in Msg \ {m} : queue'[n] = queue[n]
        /\ \A v \in Worker \ {w} : work'[v] = work[v]
        /\ work[w].pc = "idle" /\ work'[w].pc = Entry(m)
        /\ UNCHANGED <<findings, sent, mishaps>>
    BY <1>2 DEF Lease, Steady, store, MapInv, StateOK, Work, Row
  <2>2. Entry(m) # "ack"
    BY DEF Entry
  <2>3. \A c \in Chunk : Tracked(c) => Tracked(c)'
    BY <2>1 DEF Tracked, Reported, Msg
  <2> QED
    BY <2>1, <2>2, <2>3 DEF TrackInv, Reported, Msg
<1>3. ASSUME NEW m \in Msg, PoisonGuard(m) PROVE TrackInv'
  <2> SUFFICES ASSUME mishaps = 0 PROVE TrackInv'
    BY <1>3 DEF PoisonGuard, Steady, TrackInv
  <2>1. m \notin Chunk
    BY <1>3 DEF PoisonGuard, TrackInv, MapInv, StateOK, Row
  <2>2. \A c \in Chunk : queue'[c] = queue[c]
    BY <1>3, <2>1 DEF PoisonGuard, MapInv, StateOK, Msg
  <2> QED
    BY <1>3, <2>2 DEF PoisonGuard, Steady, store, TrackInv, Tracked, Reported
<1>4. ASSUME NEW w \in Worker, Ack(w) PROVE TrackInv'
  <2> SUFFICES ASSUME mishaps = 0 PROVE TrackInv'
    BY <1>4 DEF Ack, Steady, TrackInv
  <2>1. Rest(w) \/ Goto(w, "progress")
    <3>1. CASE AfterAck(w) = "idle"
      BY <1>4, <3>1 DEF Ack
    <3>2. CASE AfterAck(w) = "progress"
      BY <1>4, <3>2 DEF Ack
    <3> QED
      BY <3>1, <3>2 DEF AfterAck
  <2>2. Alone(w) /\ work'[w].pc \in {"idle", "progress"}
    BY <2>1, <1>g, <1>r
  <2>3. work[w].pc = "ack" /\ UNCHANGED <<findings, sent>>
    BY <1>4 DEF Ack, store
  <2>4. \A c \in Chunk : c # work[w].msg => queue'[c] = queue[c]
    BY <1>4 DEF Ack, Settled, MapInv, StateOK, Msg
  <2>5. \A c \in Chunk : queue'[c] = queue[c] \/ queue'[c].state = "none"
    BY <1>4 DEF Ack, Settled, NoRow, MapInv, StateOK, Msg
  <2>6. \A c \in Chunk : Tracked(c) => Tracked(c)'
    BY <2>2, <2>3, <2>4 DEF Alone, Tracked, TrackInv, Reported
  <2> QED
    BY <2>2, <2>3, <2>5, <2>6 DEF Alone, TrackInv, Reported
<1>5. ASSUME NEW w \in Worker, CreateJob(w) PROVE TrackInv'
  <2>1. Alone(w) /\ work'[w].pc \in {"fan", "ack"} /\ work'[w].msg = work[w].msg
    BY <1>5, <1>g DEF CreateJob, Alone, MapInv, StateOK, Work
  <2>2. work[w].pc = "create" /\ work[w].msg \notin Chunk
    BY <1>5 DEF CreateJob, MapInv, WorkInv, Fits
  <2> QED
    BY <1>5, <2>1, <2>2, TrackFrame DEF CreateJob, Steady, Reported
<1>6. ASSUME NEW w \in Worker, FanOut(w) PROVE TrackInv'
  <2>1. PICK c \in work[w].todo :
          /\ Send(c)
          /\ work' = [work EXCEPT ![w].todo = @ \ {c},
                                  ![w].pc = IF work[w].todo = {c} THEN "ack" ELSE "fan"]
    BY <1>6 DEF FanOut
  <2>2. /\ Alone(w) /\ work'[w].pc \in {"fan", "ack"}
        /\ work[w].pc = "fan" /\ work'[w].msg = work[w].msg /\ work[w].msg \notin Chunk
        /\ UNCHANGED <<findings, mishaps>>
    BY <1>6, <2>1 DEF FanOut, Steady, store, Alone, MapInv, StateOK, Work, WorkInv, Fits
  <2>3. /\ c \in Chunk /\ queue'[c].state = "ready" /\ queue'[c].receives = 0
        /\ \A d \in Chunk \ {c} : queue'[d] = queue[d] /\ sent'[d] = sent[d]
    BY <2>1 DEF Send, Ready, MapInv, StateOK, Work, Msg
  <2>4. \A d \in Chunk : Tracked(d) => Tracked(d)'
    BY <2>2, <2>3 DEF Alone, Tracked, Reported
  <2>5. Tracked(c)'
    BY <2>3 DEF Tracked
  <2> QED
    BY <2>2, <2>3, <2>4, <2>5 DEF Alone, TrackInv, Reported
<1>7. ASSUME NEW w \in Worker, PlanFails(w) \/ FanOutFails(w) \/ PublishFails(w) \/ ReviewFails(w)
      PROVE TrackInv'
  <2>1. /\ Nack(w) /\ UNCHANGED <<findings, sent>> /\ (mishaps' = 0 => mishaps = 0)
        /\ work[w].pc # "idle" /\ work[w].pc # "record_failed"
    BY <1>7 DEF PlanFails, FanOutFails, PublishFails, ReviewFails, Steady, store, MapInv, StateOK
  <2> QED
    BY <2>1, TrackNack
<1>8. ASSUME NEW w \in Worker, \/ PlanAck(w) \/ Reviewed(w) \/ Progress(w) \/ Barrier(w)
                               \/ TryStartReduce(w) \/ Publish(w)
      PROVE TrackInv'
  <2>1. \/ Rest(w)
        \/ \E pc \in {"create", "record", "record_empty", "barrier", "cas", "start"} : Goto(w, pc)
        \/ (Goto(w, "ack") /\ work[w].pc = "publish")
    BY <1>8 DEF PlanAck, Reviewed, Progress, Barrier, TryStartReduce, Publish
  <2>2. /\ Alone(w)
        /\ \/ work'[w].pc \in {"idle", "create", "record", "record_empty", "barrier", "cas", "start"}
           \/ work'[w].pc = "ack" /\ work'[w].msg = work[w].msg /\ work[w].pc = "publish"
    BY <2>1, <1>g, <1>r
  <2>3. work[w].pc = "publish" => work[w].msg \notin Chunk
    BY DEF MapInv, WorkInv, Fits
  <2>4. /\ UNCHANGED <<queue, sent, findings, mishaps>> /\ work[w].pc # "record_failed"
    BY <1>8 DEF PlanAck, Reviewed, Progress, Barrier, TryStartReduce, Publish, Steady, store
  <2> QED
    BY <2>2, <2>3, <2>4, TrackFrame DEF Reported
<1>9. ASSUME NEW w \in Worker, StartReduce(w) PROVE TrackInv'
  <2>1. \A c \in Chunk : queue'[c] = queue[c] /\ sent'[c] = sent[c]
    BY <1>9 DEF StartReduce, Send, MapInv, StateOK, Msg
  <2>2. Alone(w) /\ work'[w].pc = "idle" /\ work[w].pc = "start" /\ UNCHANGED <<findings, mishaps>>
    BY <1>9, <1>r DEF StartReduce, Steady, store
  <2>3. \A c \in Chunk : Tracked(c) => Tracked(c)'
    BY <2>1, <2>2 DEF Alone, Tracked, Reported
  <2> QED
    BY <2>1, <2>2, <2>3 DEF Alone, TrackInv, Reported
<1>10. ASSUME NEW w \in Worker, \/ Record(w, "record", "ok", "ack")
                                \/ Record(w, "record_empty", "empty", "ack")
                                \/ Record(w, "record_failed", "failed", "progress")
       PROVE TrackInv'
  <2>1. Alone(w) /\ work'[w].msg = work[w].msg
    BY <1>10, <1>g DEF Record
  <2>2. work[w].msg \in Chunk
    BY <1>10 DEF Record, MapInv, WorkInv, Fits
  <2>3. work[w].msg \in Reported' /\ \A c \in Reported : c \in Reported'
    BY <1>10, <2>2 DEF Record, Reported, MapInv, StateOK
  <2> QED
    BY <1>10, <2>1, <2>3, TrackFrame DEF Record, Steady
<1>11. ASSUME NEW w \in Worker, Collect(w) PROVE TrackInv'
  <2>1. Alone(w) /\ work'[w].pc = "publish"
    BY <1>11 DEF Collect, Alone, MapInv, StateOK, Work
  <2> QED
    BY <1>11, <2>1, TrackFrame DEF Collect, Steady, store, Reported
<1>12. ASSUME NEW w \in Worker, HeldBack(w) PROVE TrackInv'
  <2> DEFINE m == work[w].msg
  <2> SUFFICES ASSUME mishaps = 0 PROVE TrackInv'
    BY <1>12 DEF HeldBack, Steady, TrackInv
  <2>1. m \in Chunk
    BY <1>12 DEF HeldBack, MapInv, WorkInv, Fits
  <2>2. Alone(w) /\ work'[w].pc = "idle" /\ work[w].pc = "review" /\ UNCHANGED <<findings, sent>>
    BY <1>12, <1>r DEF HeldBack, store
  <2>3. \A c \in Chunk : /\ queue'[c].state = "ready" => queue'[c].receives < MaxAttempts
                         /\ queue[c].state # "none" => queue'[c].state # "none"
    <3>1. CASE Owns(w)
      <4>1. queue[m].receives \in 1..MaxAttempts
        BY <2>1, <3>1 DEF Owns, MapInv, StateOK, LeaseInv, Row, Msg
      <4>2. queue' = [queue EXCEPT ![m] = [state |-> "ready", receives |-> queue[m].receives - 1,
                                           holder |-> NoWorker]]
        BY <1>12, <2>1, <3>1 DEF HeldBack, GivenBack, MapInv, StateOK, Row, Msg
      <4> QED
        BY <2>1, <4>1, <4>2 DEF TrackInv, MapInv, StateOK, Msg
    <3>2. CASE ~Owns(w)
      BY <1>12, <3>2 DEF HeldBack, TrackInv
    <3> QED
      BY <3>1, <3>2
  <2>4. \A c \in Chunk : Tracked(c) => Tracked(c)'
    BY <2>2, <2>3 DEF Alone, Tracked, Reported
  <2> QED
    BY <2>2, <2>3, <2>4 DEF Alone, TrackInv, Reported
<1>13. ASSUME NEW w \in Worker, WorkerCrash(w) \/ Lapse(w) PROVE TrackInv'
  <2>1. mishaps' # 0
    BY <1>13 DEF WorkerCrash, Lapse, MapInv, StateOK
  <2> QED
    BY <2>1 DEF TrackInv
<1> QED
  BY <1>1, <1>2, <1>3, <1>4, <1>5, <1>6, <1>7, <1>8, <1>9, <1>10, <1>11, <1>12, <1>13
  DEF Next, Steps, Conclude

(***************************************************************************)
(* As long as no worker dies or outlives its lease, no chunk is forgotten: *)
(* the poison-guard never takes one, an ack follows the record, and a nack *)
(* that dead-letters is followed by one (mapreduce_worker.py:9-10, 88-103).*)
(***************************************************************************)
THEOREM ChunksAreTracked == Spec => []ChunkTracked
<1>1. Init => MapInv /\ TrackInv
  BY MapInvInit, TrackInvInit
<1>2. MapInv /\ TrackInv /\ [Next]_vars => (MapInv /\ TrackInv)'
  BY MapInvStep, TrackInvStep
<1>3. TrackInv => ChunkTracked
  BY DEF TrackInv, Tracked, ChunkTracked
<1> QED
  BY <1>1, <1>2, <1>3, PTL DEF Spec
=============================================================================
