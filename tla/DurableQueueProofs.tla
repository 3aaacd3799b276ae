------------------------- MODULE DurableQueueProofs -------------------------
(***************************************************************************)
(* Proofs about reliability/queue.py for any number of replicas, messages  *)
(* and partitions and any timeouts.                                        *)
(***************************************************************************)
EXTENDS DurableQueue, TLAPS

\* NoLease and Idle are values of their types.
LEMMA Constants == /\ NoLease \in Lease
                   /\ Idle \in Op
                   /\ \A p \in Proc : p # NoProc
BY QueueAssumption DEF NoLease, Lease, Idle, Op

\* Type correctness is preserved by every step of queue.py.
LEMMA TypeStep == TypeOK /\ [Next]_vars => TypeOK'
<1> SUFFICES ASSUME TypeOK, [Next]_vars PROVE TypeOK'
  OBVIOUS
<1> USE QueueAssumption, Constants DEF TypeOK, Live, Id
<1>1. ASSUME NEW q \in Partition, Enqueue(q) PROVE TypeOK'
  BY <1>1 DEF Enqueue, Row
<1>2. ASSUME NEW p \in Proc, LeaseStart(p) PROVE TypeOK'
  BY <1>2 DEF LeaseStart, store, Op, Idle, LeaseSteps
<1>3. ASSUME NEW p \in Proc, LeasePick(p) PROVE TypeOK'
  <2>1. CASE op' = [op EXCEPT ![p] = Idle]
    BY <1>3, <2>1 DEF LeasePick, store
  <2>2. CASE \E i \in Candidate(op[p].now) :
               op' = [op EXCEPT ![p].step = "read", ![p].id = i]
    <3>1. PICK i \in Candidate(op[p].now) :
                 op' = [op EXCEPT ![p].step = "read", ![p].id = i]
      BY <2>2
    <3>2. i \in Nat
      BY <3>1 DEF Candidate, Heads
    <3>3. op' \in [Proc -> Op]
      BY <3>1, <3>2 DEF Op, LeaseSteps
    <3> QED BY <1>3, <3>3 DEF LeasePick, store
  <2> QED BY <1>3, <2>1, <2>2 DEF LeasePick
<1>4. ASSUME NEW p \in Proc, LeaseRead(p) PROVE TypeOK'
  <2>1. op' \in [Proc -> Op]
    <3>1. CASE op[p].id \notin Live
      BY <1>4, <3>1 DEF LeaseRead, Op, LeaseSteps
    <3>2. CASE op[p].id \in Live
      <4>1. messages[op[p].id].attempts \in Nat
        BY <3>2 DEF Row
      <4> QED BY <1>4, <3>2, <4>1 DEF LeaseRead, Op, LeaseSteps
    <3> QED BY <3>1, <3>2
  <2> QED BY <1>4, <2>1 DEF LeaseRead, store
<1>5. ASSUME NEW p \in Proc, LeaseClaim(p) PROVE TypeOK'
  <2>1. CASE Eligible(op[p].id, op[p].now)
    <3>1. lastToken' \in Nat /\ op[p].now + Visibility \in Nat /\ op[p].id \in Live
      BY <1>5, <2>1 DEF LeaseClaim, StillFree, Eligible, Op
    <3>2. Live' = Live /\ messages' \in [Live -> Row]
      BY <1>5, <2>1, <3>1 DEF LeaseClaim, StillFree, Row
    <3>3. hold' \in [Proc -> Lease]
      BY <1>5, <2>1, <3>1 DEF LeaseClaim, StillFree, Lease
    <3>4. lastServed' \in [Partition -> Nat]
      BY <1>5, <2>1, <3>1 DEF LeaseClaim, StillFree, Row, Op
    <3> QED BY <1>5, <2>1, <3>1, <3>2, <3>3, <3>4 DEF LeaseClaim, StillFree
  <2>2. CASE ~Eligible(op[p].id, op[p].now)
    <3>1. op' \in [Proc -> Op]
      BY <1>5, <2>2 DEF LeaseClaim, StillFree, Op, LeaseSteps
    <3> QED BY <1>5, <2>2, <3>1 DEF LeaseClaim, StillFree
  <2> QED BY <2>1, <2>2
<1>6. ASSUME NEW p \in Proc, LeaseBury(p) PROVE TypeOK'
  BY <1>6 DEF LeaseBury, StillFree, Eligible, Without, Buried, Op, LeaseSteps
<1>7. ASSUME NEW p \in Proc, Ack(p) PROVE TypeOK'
  BY <1>7 DEF Ack, Without, Owns
<1>8. ASSUME NEW p \in Proc, NEW step \in SettleSteps, SettleRead(p, step) PROVE TypeOK'
  BY <1>8 DEF SettleRead, store, Owns, Op, Row, SettleSteps
<1>9. ASSUME NEW p \in Proc, NackWrite(p) PROVE TypeOK'
  <2>1. CASE op[p].attempts >= MaxAttempts
    BY <1>9, <2>1 DEF NackWrite, Without, Buried, Op
  <2>2. CASE op[p].attempts < MaxAttempts
    <3>1. Live' = Live /\ messages' \in [Live -> Row]
      BY <1>9, <2>2 DEF NackWrite, Released, Op, Row
    <3> QED BY <1>9, <2>2, <3>1 DEF NackWrite, Op
  <2> QED BY <1>9, <2>1, <2>2 DEF NackWrite
<1>10. ASSUME NEW p \in Proc, DeferWrite(p) PROVE TypeOK'
  <2> DEFINE id == op[p].id
             back == GivenBack(messages[id].attempts)
  <2>1. Live' = Live /\ messages' \in [Live -> Row]
    <3>1. CASE id \notin Live
      BY <1>10, <3>1 DEF DeferWrite, Released
    <3>2. CASE id \in Live
      <4>1. back \in Nat /\ op[p].now + DeferDelay \in Nat
        BY <3>2 DEF Op, Row, GivenBack
      <4> HIDE DEF back
      <4>2. messages' = [messages EXCEPT ![id].attempts = back,
                                         ![id].availableAt = op[p].now + DeferDelay,
                                         ![id].leasedUntil = 0, ![id].token = 0]
        BY <1>10, <3>2 DEF DeferWrite, Released, back
      <4> QED BY <3>2, <4>1, <4>2 DEF Row
    <3> QED BY <3>1, <3>2
  <2> QED BY <1>10, <2>1 DEF DeferWrite
<1>11. ASSUME NEW p \in Proc, Exit(p) PROVE TypeOK'
  BY <1>11 DEF Exit, store
<1>12. ASSUME Tick PROVE TypeOK'
  BY <1>12 DEF Tick, store
<1>13. ASSUME UNCHANGED vars PROVE TypeOK'
  BY <1>13 DEF vars, store
<1> QED
  BY <1>1, <1>2, <1>3, <1>4, <1>5, <1>6, <1>7, <1>8, <1>9, <1>10, <1>11, <1>12, <1>13
  DEF Next, Call, Crash, WriteRefused

\* The tables, the clock and the leases always have their declared types.
THEOREM TypeCorrect == Spec => []TypeOK
<1>1. Init => TypeOK
  BY QueueAssumption, Constants DEF Init, TypeOK, Live, Id
<1> QED BY <1>1, TypeStep, PTL DEF Spec

-----------------------------------------------------------------------------
(***************************************************************************)
(* The inductive invariant behind exclusive delivery.  CallInv ties the    *)
(* two-step calls to the lease they settle.  LeaseInv says that a lease in *)
(* a worker's hands is the one in the table and has not run out: the WHERE *)
(* clause of the conditional UPDATE then protects it, because every clock  *)
(* value a lease() call compares with lies in the past.                    *)
(***************************************************************************)
CallInv ==
    \A p \in Proc :
      /\ op[p].step \in LeaseSteps => hold[p] = NoLease
      /\ op[p].step \in SettleSteps => hold[p] # NoLease /\ op[p].id = hold[p].id
      /\ op[p] # Idle => op[p].now <= now

LeaseInv ==
    \A p \in Proc :
      /\ op[p] # Idle => now < op[p].now + Visibility
      /\ hold[p] # NoLease => /\ Owns(p)
                              /\ messages[hold[p].id].leasedUntil = hold[p].until
                              /\ now < hold[p].until

QueueInv == TypeOK /\ CallInv /\ LeaseInv /\ ExclusiveLease

\* The two-step calls keep hold of the lease they settle, and read the clock first.
LEMMA CallStep == TypeOK /\ CallInv /\ [Next]_vars => CallInv'
<1> SUFFICES ASSUME TypeOK, CallInv, [Next]_vars, NEW r \in Proc
             PROVE  /\ op'[r].step \in LeaseSteps => hold'[r] = NoLease
                    /\ op'[r].step \in SettleSteps =>
                         hold'[r] # NoLease /\ op'[r].id = hold'[r].id
                    /\ op'[r] # Idle => op'[r].now <= now'
  BY DEF CallInv
<1> USE DEF TypeOK, CallInv, Idle, LeaseSteps, SettleSteps, Op
<1>1. ASSUME NEW q \in Partition, Enqueue(q) PROVE UNCHANGED <<op, hold, now>>
  BY <1>1 DEF Enqueue
<1>2. CASE \E p \in Proc : LeaseStart(p)
  BY <1>2 DEF LeaseStart
<1>3. CASE \E p \in Proc : LeasePick(p)
  BY <1>3 DEF LeasePick
<1>4. CASE \E p \in Proc : LeaseRead(p)
  BY <1>4 DEF LeaseRead
<1>5. CASE \E p \in Proc : LeaseClaim(p)
  BY <1>5 DEF LeaseClaim, StillFree
<1>6. CASE \E p \in Proc : LeaseBury(p)
  BY <1>6 DEF LeaseBury, StillFree
<1>7. CASE \E p \in Proc : Ack(p)
  BY <1>7 DEF Ack
<1>8. CASE \E p \in Proc, step \in SettleSteps : SettleRead(p, step)
  BY <1>8 DEF SettleRead
<1>9. CASE \E p \in Proc : NackWrite(p)
  BY <1>9 DEF NackWrite
<1>10. CASE \E p \in Proc : DeferWrite(p)
  BY <1>10 DEF DeferWrite
<1>11. CASE \E p \in Proc : Exit(p)
  BY <1>11 DEF Exit
<1>12. CASE Tick
  BY <1>12 DEF Tick
<1>13. CASE UNCHANGED vars
  BY <1>13 DEF vars
<1> QED
  BY <1>1, <1>2, <1>3, <1>4, <1>5, <1>6, <1>7, <1>8, <1>9, <1>10, <1>11, <1>12, <1>13
  DEF Next, Call, Crash, WriteRefused

(***************************************************************************)
(* A step that takes no lease, lets no time pass and leaves alone the rows *)
(* of the leases that survive it preserves the invariant.                  *)
(***************************************************************************)
LEMMA Frame ==
    ASSUME QueueInv, LeaseInv, now' = now,
           \A r \in Proc : hold'[r] # NoLease =>
             /\ hold'[r] = hold[r]
             /\ hold[r].id \in Live'
             /\ messages'[hold[r].id] = messages[hold[r].id],
           \A r \in Proc : op'[r] # Idle =>
             op'[r].now = now \/ (op[r] # Idle /\ op'[r].now = op[r].now)
    PROVE  LeaseInv' /\ (ExclusiveLease => ExclusiveLease')
<1>1. LeaseInv'
  <2> SUFFICES ASSUME NEW r \in Proc
               PROVE  /\ op'[r] # Idle => now' < op'[r].now + Visibility
                      /\ hold'[r] # NoLease =>
                           /\ Owns(r)'
                           /\ messages'[hold'[r].id].leasedUntil = hold'[r].until
                           /\ now' < hold'[r].until
    BY DEF LeaseInv
  <2>1. op'[r] # Idle => now' < op'[r].now + Visibility
    BY QueueAssumption DEF LeaseInv, QueueInv, TypeOK
  <2>2. hold'[r] # NoLease => Owns(r)'
    BY DEF LeaseInv, Owns
  <2>3. hold'[r] # NoLease => /\ messages'[hold'[r].id].leasedUntil = hold'[r].until
                              /\ now' < hold'[r].until
    BY DEF LeaseInv
  <2> QED BY <2>1, <2>2, <2>3
<1>2. ExclusiveLease => ExclusiveLease'
  <2>1. \A r \in Proc : hold'[r] # NoLease => hold'[r] = hold[r] /\ hold[r].id # 0
    BY DEF QueueInv, LeaseInv, TypeOK, Owns
  <2> QED BY <2>1 DEF ExclusiveLease, NoLease
<1> QED BY <1>1, <1>2

(***************************************************************************)
(* A worker's lease is left alone by every step of another process: the    *)
(* row a lease() call may take or bury has expired, and a settling call    *)
(* names the message of its own lease.                                     *)
(***************************************************************************)
LEMMA LeaseStep == ~Pauses /\ QueueInv /\ [Next]_vars => LeaseInv' /\ ExclusiveLease'
<1> SUFFICES ASSUME ~Pauses, QueueInv, [Next]_vars
             PROVE  LeaseInv' /\ ExclusiveLease'
  OBVIOUS
<1> DEFINE KeepHold == \A r \in Proc : hold'[r] # NoLease =>
                         /\ hold'[r] = hold[r]
                         /\ hold[r].id \in Live'
                         /\ messages'[hold[r].id] = messages[hold[r].id]
           KeepOp == \A r \in Proc : op'[r] # Idle =>
                       op'[r].now = now \/ (op[r] # Idle /\ op'[r].now = op[r].now)
<1>0. LeaseInv /\ ExclusiveLease /\ CallInv /\ TypeOK
  BY DEF QueueInv
<1>a. ASSUME NEW r \in Proc, hold[r] # NoLease
      PROVE  hold[r].id \in Live /\ now < messages[hold[r].id].leasedUntil
  BY <1>0, <1>a DEF LeaseInv, Owns
<1>b. ASSUME NEW p \in Proc, op[p].step = "claim", NEW r \in Proc, hold[r] # NoLease,
             Eligible(op[p].id, op[p].now)
      PROVE  hold[r].id # op[p].id
  <2>1. op[p].now <= now
    BY <1>0, <1>b DEF CallInv, Idle
  <2>2. messages[op[p].id].leasedUntil <= op[p].now /\ op[p].id \in Live
    BY <1>b DEF Eligible
  <2> QED BY <1>0, <1>a, <1>b, <2>1, <2>2 DEF TypeOK, Row, Op
<1>1. ASSUME NEW q \in Partition, Enqueue(q) PROVE LeaseInv' /\ ExclusiveLease'
  <2>1. KeepHold
    BY <1>0, <1>1, <1>a DEF Enqueue, TypeOK, Live
  <2> QED BY <1>0, <1>1, <2>1, Frame DEF Enqueue
<1>2. ASSUME NEW p \in Proc, LeaseStart(p) PROVE LeaseInv' /\ ExclusiveLease'
  <2>1. KeepHold /\ KeepOp
    BY <1>0, <1>2, <1>a DEF LeaseStart, store, Idle, TypeOK, Op, Live
  <2> QED BY <1>0, <1>2, <2>1, Frame DEF LeaseStart
<1>3. ASSUME NEW p \in Proc, LeasePick(p) \/ LeaseRead(p)
      PROVE  LeaseInv' /\ ExclusiveLease'
  <2>1. KeepHold
    BY <1>0, <1>3, <1>a DEF LeasePick, LeaseRead, store, Live
  <2>2. KeepOp
    BY <1>0, <1>3 DEF LeasePick, LeaseRead, Idle, TypeOK, Op
  <2> QED BY <1>0, <1>3, <2>1, <2>2, Frame DEF LeasePick, LeaseRead
<1>4. ASSUME NEW p \in Proc, LeaseClaim(p), ~Eligible(op[p].id, op[p].now)
      PROVE  LeaseInv' /\ ExclusiveLease'
  <2>1. KeepHold
    BY <1>0, <1>4, <1>a DEF LeaseClaim, StillFree, Live
  <2>2. KeepOp
    BY <1>0, <1>4 DEF LeaseClaim, StillFree, Idle, TypeOK, Op
  <2> QED BY <1>0, <1>4, <2>1, <2>2, Frame DEF LeaseClaim, StillFree
<1>5. ASSUME NEW p \in Proc, LeaseClaim(p), Eligible(op[p].id, op[p].now)
      PROVE  LeaseInv' /\ ExclusiveLease'
  <2> DEFINE id == op[p].id
             until == op[p].now + Visibility
  <2>1. op[p].step = "claim" /\ op[p] # Idle /\ id \in Live
    BY <1>5 DEF LeaseClaim, StillFree, Eligible, Idle
  <2>2. now < until
    BY <1>0, <2>1 DEF LeaseInv
  <2>3. /\ Live' = Live
        /\ messages'[id].token = lastToken' /\ messages'[id].leasedUntil = until
        /\ \A i \in Live : i # id => messages'[i] = messages[i]
    <3>1. /\ lastToken' = lastToken + 1
          /\ messages' = [messages EXCEPT ![id].attempts = @ + 1,
                                          ![id].leasedUntil = until,
                                          ![id].token = lastToken']
      BY <1>5 DEF LeaseClaim, StillFree
    <3>2. messages \in [Live -> Row]
      BY <1>0 DEF TypeOK
    <3> QED BY <2>1, <3>1, <3>2 DEF Row, Live
  <2>4. /\ hold'[p] = [id |-> id, token |-> lastToken', until |-> until]
        /\ \A r \in Proc : r # p => hold'[r] = hold[r]
    BY <1>0, <1>5 DEF LeaseClaim, StillFree, TypeOK
  <2>5. \A r \in Proc : hold[r] # NoLease => hold[r].id # id
    BY <1>b, <1>5, <2>1
  <2>6. now' = now /\ \A r \in Proc : op'[r] # Idle => op'[r] = op[r]
    BY <1>0, <1>5 DEF LeaseClaim, StillFree, TypeOK
  <2>7. ASSUME NEW r \in Proc, hold'[r] # NoLease
        PROVE  /\ Owns(r)'
               /\ messages'[hold'[r].id].leasedUntil = hold'[r].until
               /\ now' < hold'[r].until
    <3>1. CASE r = p
      BY <2>1, <2>2, <2>3, <2>4, <2>6, <2>7, <3>1 DEF Owns
    <3>2. CASE r # p
      BY <1>0, <2>3, <2>4, <2>5, <2>6, <2>7, <3>2 DEF Owns, LeaseInv
    <3> QED BY <3>1, <3>2
  <2>8. LeaseInv'
    BY <1>0, <2>6, <2>7 DEF LeaseInv
  <2>9. ExclusiveLease'
    <3> SUFFICES ASSUME NEW r \in Proc, NEW s \in Proc, r # s, hold'[r] # NoLease,
                        hold'[r].id = hold'[s].id
                 PROVE  FALSE
      BY DEF ExclusiveLease
    <3>1. hold'[r].id # 0
      BY <1>0, <2>3, <2>7 DEF TypeOK, Owns
    <3>2. hold'[s] # NoLease
      BY <3>1 DEF NoLease
    <3> QED BY <1>0, <2>4, <2>5, <3>2 DEF ExclusiveLease
  <2> QED BY <2>8, <2>9
<1>6. ASSUME NEW p \in Proc, LeaseBury(p) PROVE LeaseInv' /\ ExclusiveLease'
  <2>1. KeepOp
    BY <1>0, <1>6 DEF LeaseBury, StillFree, Idle, TypeOK, Op
  <2>2. KeepHold
    <3>1. CASE Eligible(op[p].id, op[p].now)
      BY <1>6, <1>a, <1>b, <3>1 DEF LeaseBury, StillFree, Without, Live
    <3>2. CASE ~Eligible(op[p].id, op[p].now)
      BY <1>6, <1>a, <3>2 DEF LeaseBury, StillFree, Live
    <3> QED BY <3>1, <3>2
  <2> QED BY <1>0, <1>6, <2>1, <2>2, Frame DEF LeaseBury, StillFree
<1>c. ASSUME NEW p \in Proc, hold[p] # NoLease, NEW r \in Proc, r # p, hold[r] # NoLease
      PROVE  hold[r].id # hold[p].id
  BY <1>0, <1>c DEF ExclusiveLease
<1>7. ASSUME NEW p \in Proc, Ack(p) PROVE LeaseInv' /\ ExclusiveLease'
  <2>1. KeepHold
    BY <1>0, <1>7, <1>a, <1>c DEF Ack, Without, TypeOK, Live
  <2> QED BY <1>0, <1>7, <2>1, Frame DEF Ack
<1>8. ASSUME NEW p \in Proc, NEW step \in SettleSteps, SettleRead(p, step)
      PROVE  LeaseInv' /\ ExclusiveLease'
  <2>1. KeepHold /\ KeepOp
    BY <1>0, <1>8, <1>a DEF SettleRead, store, TypeOK, Live
  <2> QED BY <1>0, <1>8, <2>1, Frame DEF SettleRead
<1>9. ASSUME NEW p \in Proc, NackWrite(p) \/ DeferWrite(p)
      PROVE  LeaseInv' /\ ExclusiveLease'
  <2>1. hold[p] # NoLease /\ op[p].id = hold[p].id
    BY <1>0, <1>9 DEF NackWrite, DeferWrite, CallInv, SettleSteps
  <2>2. \A i \in Live : i # op[p].id => i \in Live' /\ messages'[i] = messages[i]
    BY <1>9 DEF NackWrite, DeferWrite, Without, Released, Live
  <2>3. KeepHold /\ KeepOp
    BY <1>0, <1>9, <1>a, <1>c, <2>1, <2>2 DEF NackWrite, DeferWrite, TypeOK
  <2> QED BY <1>0, <1>9, <2>3, Frame DEF NackWrite, DeferWrite
<1>11. ASSUME NEW p \in Proc, Exit(p) PROVE LeaseInv' /\ ExclusiveLease'
  <2>1. KeepHold /\ KeepOp
    BY <1>0, <1>11, <1>a DEF Exit, store, TypeOK, Live
  <2> QED BY <1>0, <1>11, <2>1, Frame DEF Exit
<1>12. ASSUME Tick PROVE LeaseInv' /\ ExclusiveLease'
  BY <1>0, <1>12 DEF Tick, store, InTime, LeaseInv, ExclusiveLease, Owns, Live
<1>13. ASSUME UNCHANGED vars PROVE LeaseInv' /\ ExclusiveLease'
  BY <1>0, <1>13 DEF vars, store, LeaseInv, ExclusiveLease, Owns, Live
<1> QED
  BY <1>1, <1>2, <1>3, <1>4, <1>5, <1>6, <1>7, <1>8, <1>9, <1>11, <1>12, <1>13
  DEF Next, Call, Crash, WriteRefused

\* Without stalls the invariant holds in every reachable state.
LEMMA QueueInvariant == ASSUME ~Pauses PROVE Spec => []QueueInv
<1>1. Init => QueueInv
  BY QueueAssumption, Constants
  DEF Init, QueueInv, TypeOK, CallInv, LeaseInv, ExclusiveLease, Live, Id, Idle,
      LeaseSteps, SettleSteps
<1>2. QueueInv /\ [Next]_vars => QueueInv'
  BY TypeStep, CallStep, LeaseStep DEF QueueInv
<1> QED BY <1>1, <1>2, PTL DEF Spec

(***************************************************************************)
(* However many replicas share queue.db, and wherever they crash, no two   *)
(* of them work on the same message (queue.py:119-133).                    *)
(***************************************************************************)
THEOREM LeasesAreExclusive == ASSUME ~Pauses PROVE Spec => []ExclusiveLease
<1>1. QueueInv => ExclusiveLease
  BY DEF QueueInv
<1> QED BY <1>1, QueueInvariant, PTL

(***************************************************************************)
(* A lease in force ends by its holder's own ack, nack or defer and by     *)
(* nothing else (queue.py:11-13).                                          *)
(***************************************************************************)
THEOREM LeasesAreRespected == ASSUME ~Pauses PROVE Spec => LeaseRespected
<1> DEFINE Kept == \A i \in Live :
         messages[i].token # 0 /\ now < messages[i].leasedUntil /\ Disturbed(i)
           => \E p \in Proc : /\ hold[p].id = i
                              /\ hold[p].token = messages[i].token
                              /\ hold'[p] = NoLease
<1>1. ASSUME QueueInv, [Next]_vars, NEW i \in Live, Disturbed(i),
             messages[i].token # 0, now < messages[i].leasedUntil
      PROVE  \E p \in Proc : /\ hold[p].id = i
                             /\ hold[p].token = messages[i].token
                             /\ hold'[p] = NoLease
  <2> USE <1>1 DEF QueueInv
  <2>1. CASE \E q \in Partition : Enqueue(q)
    BY <2>1 DEF Enqueue, Disturbed, TypeOK, Live
  <2>2. CASE \E p \in Proc : LeaseClaim(p) \/ LeaseBury(p)
    <3>1. PICK p \in Proc : LeaseClaim(p) \/ LeaseBury(p)
      BY <2>2
    <3>2. op[p].step = "claim" /\ op[p].now <= now
      BY <3>1 DEF LeaseClaim, StillFree, LeaseBury, CallInv, Idle
    <3>3. i = op[p].id => ~Eligible(op[p].id, op[p].now)
      BY <3>2 DEF Eligible, TypeOK, Row, Op
    <3>4. i \in Live' /\ messages'[i] = messages[i]
      BY <3>1, <3>3 DEF LeaseClaim, StillFree, LeaseBury, Without, Live, TypeOK
    <3> QED BY <3>4 DEF Disturbed
  <2>3. CASE \E p \in Proc : Ack(p)
    <3>1. PICK p \in Proc : Ack(p)
      BY <2>3
    <3>2. Owns(p) /\ i = hold[p].id
      BY <3>1 DEF Ack, Without, Disturbed, Live
    <3> QED BY <3>1, <3>2 DEF Ack, Owns, TypeOK
  <2>4. CASE \E p \in Proc : NackWrite(p) \/ DeferWrite(p)
    <3>1. PICK p \in Proc : NackWrite(p) \/ DeferWrite(p)
      BY <2>4
    <3>2. hold[p] # NoLease /\ op[p].id = hold[p].id
      BY <3>1 DEF NackWrite, DeferWrite, CallInv, SettleSteps
    <3>3. i = hold[p].id
      BY <3>1, <3>2 DEF NackWrite, DeferWrite, Without, Released, Disturbed, Live
    <3>4. hold[p].token = messages[i].token
      BY <3>2, <3>3 DEF LeaseInv, Owns
    <3> QED BY <3>1, <3>3, <3>4 DEF NackWrite, DeferWrite, TypeOK
  <2>5. CASE messages' = messages
    BY <2>5 DEF Disturbed, Live
  <2>6. \/ \E q \in Partition : Enqueue(q)
        \/ \E p \in Proc : LeaseClaim(p) \/ LeaseBury(p)
        \/ \E p \in Proc : Ack(p)
        \/ \E p \in Proc : NackWrite(p) \/ DeferWrite(p)
        \/ messages' = messages
    BY DEF Next, Call, LeaseStart, LeasePick, LeaseRead, SettleRead, Crash, WriteRefused,
           Exit, Tick, vars, store
  <2> QED BY <2>1, <2>2, <2>3, <2>4, <2>5, <2>6
<1>2. QueueInv /\ [Next]_vars => [Kept]_vars
  BY <1>1
<1> QED BY <1>2, QueueInvariant, PTL DEF Spec, LeaseRespected

-----------------------------------------------------------------------------
(***************************************************************************)
(* At-least-once delivery, with stalls too: wherever a process stops, an   *)
(* enqueued message is pending, acknowledged or in dead_letters            *)
(* (queue.py:103-118, 141-145, 160-165).                                   *)
(***************************************************************************)
THEOREM NothingIsLost == Spec => []NothingLost
<1>1. Init => NothingLost
  BY DEF Init, NothingLost
<1>2. TypeOK /\ NothingLost /\ [Next]_vars => NothingLost'
  <2> SUFFICES ASSUME TypeOK, NothingLost, [Next]_vars
               PROVE  NothingLost'
    OBVIOUS
  <2> USE DEF NothingLost
  <2>1. CASE \E q \in Partition : Enqueue(q)
    BY <2>1 DEF Enqueue, Live, TypeOK
  <2>2. CASE \E p \in Proc : LeaseClaim(p)
    BY <2>2 DEF LeaseClaim, Live
  <2>3. CASE \E p \in Proc : LeaseBury(p)
    BY <2>3 DEF LeaseBury, Without, Buried, Live
  <2>4. CASE \E p \in Proc : Ack(p)
    BY <2>4 DEF Ack, Without, Live
  <2>5. CASE \E p \in Proc : NackWrite(p)
    BY <2>5 DEF NackWrite, Without, Buried, Released, Live
  <2>6. CASE \E p \in Proc : DeferWrite(p)
    BY <2>6 DEF DeferWrite, Released, Live
  <2>7. CASE UNCHANGED <<messages, deadLetters, lastId, acked>>
    BY <2>7 DEF Live
  <2> QED
    BY <2>1, <2>2, <2>3, <2>4, <2>5, <2>6, <2>7
    DEF Next, Call, LeaseStart, LeasePick, LeaseRead, SettleRead, Crash, WriteRefused,
        Exit, Tick, vars, store
<1> QED BY <1>1, <1>2, TypeCorrect, PTL DEF Spec

-----------------------------------------------------------------------------
(***************************************************************************)
(* Every token is new, so two processes never carry the same one.          *)
(***************************************************************************)
TokenInv ==
    /\ \A p \in Proc : hold[p] # NoLease => hold[p].token \in 1..lastToken
    /\ \A p, q \in Proc : hold[p] # NoLease /\ hold[q] # NoLease /\ p # q
                            => hold[p].token # hold[q].token

\* A grant of lease() carries a token nobody has had; every other step keeps the tokens.
LEMMA TokenStep == TypeOK /\ TokenInv /\ [Next]_vars => TokenInv'
<1> SUFFICES ASSUME TypeOK, TokenInv, [Next]_vars
             PROVE  TokenInv'
  OBVIOUS
<1>1. ASSUME lastToken' = lastToken, \A r \in Proc : hold'[r] \in {hold[r], NoLease}
      PROVE  TokenInv'
  BY <1>1 DEF TokenInv
<1>2. ASSUME NEW p \in Proc, LeaseClaim(p) PROVE TokenInv'
  <2>1. CASE ~StillFree(p)
    BY <1>1, <1>2, <2>1 DEF LeaseClaim
  <2>2. CASE StillFree(p)
    <3>1. /\ lastToken' = lastToken + 1
          /\ hold'[p].token = lastToken'
          /\ \A r \in Proc : r # p => hold'[r] = hold[r]
      BY <1>2, <2>2 DEF LeaseClaim, TypeOK
    <3>2. lastToken \in Nat
      BY DEF TypeOK
    <3> QED BY <3>1, <3>2 DEF TokenInv
  <2> QED BY <2>1, <2>2
<1>3. ASSUME NEW p \in Proc,
             \/ Ack(p) \/ \E step \in SettleSteps : SettleRead(p, step)
             \/ NackWrite(p) \/ DeferWrite(p) \/ Exit(p)
      PROVE  TokenInv'
  BY <1>1, <1>3 DEF Ack, SettleRead, NackWrite, DeferWrite, Exit, store, TypeOK
<1>4. CASE UNCHANGED <<lastToken, hold>>
  BY <1>1, <1>4
<1> QED
  BY <1>2, <1>3, <1>4
  DEF Next, Call, Enqueue, LeaseStart, LeasePick, LeaseRead, LeaseBury, Crash,
      WriteRefused, Tick, vars, store

(***************************************************************************)
(* Fencing: whatever stalls and crashes, ack() accepts the token of at     *)
(* most one of the processes that believe they hold a message              *)
(* (queue.py:11-13, 141-145).                                              *)
(***************************************************************************)
THEOREM OneTokenIsCurrent == Spec => []OneCurrentHolder
<1>1. Init => TokenInv
  BY DEF Init, TokenInv
<1>2. TokenInv => OneCurrentHolder
  BY DEF TokenInv, OneCurrentHolder, Owns
<1> QED BY <1>1, <1>2, TokenStep, TypeCorrect, PTL DEF Spec

-----------------------------------------------------------------------------
(***************************************************************************)
(* Each enqueued message has exactly one fate.  A nack buries a row by its *)
(* id alone, so this needs the lease to be its holder's until the write.   *)
(***************************************************************************)
FateInv == OneFate /\ deadLetters \subseteq 1..lastId /\ acked \subseteq 1..lastId

\* A message leaves the queue once, by one transaction, for one of the two places.
LEMMA FateStep == QueueInv /\ FateInv /\ [Next]_vars => FateInv'
<1> SUFFICES ASSUME QueueInv, FateInv, [Next]_vars
             PROVE  FateInv'
  OBVIOUS
<1>0. TypeOK /\ CallInv /\ LeaseInv
  BY DEF QueueInv
<1> USE DEF FateInv, OneFate
<1>1. CASE \E q \in Partition : Enqueue(q)
  BY <1>0, <1>1 DEF Enqueue, Live, TypeOK
<1>2. CASE \E p \in Proc : LeaseClaim(p)
  BY <1>2 DEF LeaseClaim, Live
<1>3. ASSUME NEW p \in Proc, LeaseBury(p) PROVE FateInv'
  <2>1. CASE StillFree(p)
    <3>1. op[p].id \in Live /\ Live \subseteq 1..lastId
      BY <1>0, <2>1 DEF StillFree, Eligible, TypeOK
    <3> QED BY <1>3, <2>1, <3>1 DEF LeaseBury, Without, Buried, Live
  <2>2. CASE ~StillFree(p)
    BY <1>3, <2>2 DEF LeaseBury, Live
  <2> QED BY <2>1, <2>2
<1>4. ASSUME NEW p \in Proc, Ack(p) PROVE FateInv'
  <2>1. CASE Owns(p)
    <3>1. hold[p].id \in Live /\ Live \subseteq 1..lastId
      BY <1>0, <2>1 DEF Owns, TypeOK
    <3> QED BY <1>4, <2>1, <3>1 DEF Ack, Without, Live
  <2>2. CASE ~Owns(p)
    BY <1>4, <2>2 DEF Ack, Live
  <2> QED BY <2>1, <2>2
<1>5. ASSUME NEW p \in Proc, NackWrite(p) PROVE FateInv'
  <2>1. op[p].id \in Live /\ Live \subseteq 1..lastId
    BY <1>0, <1>5 DEF NackWrite, CallInv, LeaseInv, Owns, SettleSteps, TypeOK
  <2> QED BY <1>5, <2>1 DEF NackWrite, Without, Buried, Released, Live
<1>6. CASE \E p \in Proc : DeferWrite(p)
  BY <1>6 DEF DeferWrite, Released, Live
<1>7. CASE UNCHANGED <<messages, deadLetters, lastId, acked>>
  BY <1>7 DEF Live
<1> QED
  BY <1>1, <1>2, <1>3, <1>4, <1>5, <1>6, <1>7
  DEF Next, Call, LeaseStart, LeasePick, LeaseRead, SettleRead, Crash, WriteRefused,
      Exit, Tick, vars, store

(***************************************************************************)
(* A message is pending, acknowledged by its holder or in dead_letters,    *)
(* and in one of these only, however the replicas crash (СТ-6, СТ-9).      *)
(***************************************************************************)
THEOREM EveryMessageHasOneFate == ASSUME ~Pauses PROVE Spec => []OneFate
<1>1. Init => FateInv
  BY DEF Init, FateInv, OneFate
<1>2. FateInv => OneFate
  BY DEF FateInv
<1> QED BY <1>1, <1>2, FateStep, QueueInvariant, PTL DEF Spec

-----------------------------------------------------------------------------
(***************************************************************************)
(* What the attempts column knows: a row without a token has a receive     *)
(* left, and a receive read by a lease() call is still the row's when the  *)
(* call's WHERE clause can match an expired lease.                         *)
(***************************************************************************)
ReceiveLeft == \A i \in Live : messages[i].token = 0 => messages[i].attempts < MaxAttempts
ReadInv ==
    \A p \in Proc :
      /\ op[p].step \in SettleSteps => op[p].attempts = messages[op[p].id].attempts
      /\ /\ op[p].step = "claim"
         /\ op[p].id \in Live
         /\ messages[op[p].id].token # 0
         /\ messages[op[p].id].leasedUntil <= op[p].now
         => messages[op[p].id].attempts <= op[p].attempts
AttemptsInv == AttemptsBounded /\ ReceiveLeft /\ ReadInv

(***************************************************************************)
(* A step that changes no row but those it releases, and no call but those *)
(* it ends or starts, preserves the invariant.                             *)
(***************************************************************************)
LEMMA AttemptsFrame ==
    ASSUME TypeOK', AttemptsInv,
           \A i \in Live' :
             \/ i \in Live /\ messages'[i] = messages[i]
             \/ messages'[i].token = 0 /\ messages'[i].attempts < MaxAttempts,
           \A r \in Proc : op'[r].step \in SettleSteps \cup {"claim"} => op'[r] = op[r],
           \A r \in Proc : op'[r].step \in SettleSteps =>
             op[r].id \in Live' /\ messages'[op[r].id] = messages[op[r].id]
    PROVE  AttemptsInv'
<1>1. \A i \in Live' : messages'[i].attempts <= MaxAttempts
  BY QueueAssumption DEF AttemptsInv, AttemptsBounded, TypeOK, Row
<1>2. ReceiveLeft'
  BY DEF AttemptsInv, ReceiveLeft
<1>3. ReadInv'
  BY DEF AttemptsInv, ReadInv
<1> QED BY <1>1, <1>2, <1>3 DEF AttemptsInv, AttemptsBounded

\* The threshold is compared with a receive that is still the row's.
LEMMA AttemptsStep == QueueInv /\ QueueInv' /\ AttemptsInv /\ [Next]_vars => AttemptsInv'
<1> SUFFICES ASSUME QueueInv, QueueInv', AttemptsInv, [Next]_vars
             PROVE  AttemptsInv'
  OBVIOUS
<1> DEFINE KeepRows == \A i \in Live' :
             \/ i \in Live /\ messages'[i] = messages[i]
             \/ messages'[i].token = 0 /\ messages'[i].attempts < MaxAttempts
           KeepOps == \A r \in Proc :
             op'[r].step \in SettleSteps \cup {"claim"} => op'[r] = op[r]
           KeepSettled == \A r \in Proc : op'[r].step \in SettleSteps =>
             op[r].id \in Live' /\ messages'[op[r].id] = messages[op[r].id]
<1>0. TypeOK /\ TypeOK' /\ CallInv /\ LeaseInv /\ LeaseInv' /\ ExclusiveLease
  BY DEF QueueInv
<1>f. KeepRows /\ KeepOps /\ KeepSettled => AttemptsInv'
  BY <1>0, AttemptsFrame
<1>a. ASSUME NEW r \in Proc, op[r].step \in SettleSteps
      PROVE  /\ hold[r] # NoLease /\ op[r].id = hold[r].id
             /\ op[r].id \in Live
             /\ now < messages[op[r].id].leasedUntil
  BY <1>0, <1>a DEF CallInv, LeaseInv, Owns
<1>b. ASSUME NEW p \in Proc, op[p].step = "claim", StillFree(p),
             NEW r \in Proc, op[r].step \in SettleSteps
      PROVE  op[r].id # op[p].id
  <2>1. op[p].now <= now /\ messages[op[p].id].leasedUntil <= op[p].now /\ op[p].id \in Live
    BY <1>0, <1>b DEF CallInv, Idle, StillFree, Eligible
  <2> QED BY <1>0, <1>a, <1>b, <2>1 DEF TypeOK, Row, Op
<1>1. ASSUME NEW q \in Partition, Enqueue(q) PROVE AttemptsInv'
  <2>1. KeepRows
    BY <1>0, <1>1, QueueAssumption DEF Enqueue, TypeOK, Live
  <2>2. KeepOps /\ KeepSettled
    BY <1>0, <1>1, <1>a DEF Enqueue, TypeOK, Live
  <2> QED BY <1>f, <2>1, <2>2
<1>2. ASSUME messages' = messages, KeepOps PROVE AttemptsInv'
  <2>1. KeepRows /\ KeepSettled
    BY <1>2, <1>a DEF Live, SettleSteps
  <2> QED BY <1>f, <1>2, <2>1
<1>3. ASSUME NEW p \in Proc,
             LeaseStart(p) \/ LeasePick(p) \/ (LeaseClaim(p) /\ ~StillFree(p)) \/ Exit(p)
      PROVE  AttemptsInv'
  <2>1. messages' = messages
    BY <1>3 DEF LeaseStart, LeasePick, LeaseClaim, Exit, store
  <2>2. \A r \in Proc : r # p => op'[r] = op[r]
    BY <1>0, <1>3 DEF LeaseStart, LeasePick, LeaseClaim, Exit, TypeOK
  <2>3. op'[p].step \notin SettleSteps \cup {"claim"}
    <3>1. CASE LeasePick(p)
      BY <1>0, <3>1 DEF LeasePick, TypeOK, Op, Idle, SettleSteps
    <3>2. CASE LeaseStart(p)
      BY <1>0, <3>2 DEF LeaseStart, TypeOK, Op, Idle, SettleSteps
    <3>3. CASE LeaseClaim(p) /\ ~StillFree(p)
      BY <1>0, <3>3 DEF LeaseClaim, TypeOK, Op, SettleSteps
    <3>4. CASE Exit(p)
      BY <1>0, <3>4 DEF Exit, TypeOK, Idle, SettleSteps
    <3> QED BY <1>3, <3>1, <3>2, <3>3, <3>4
  <2>4. KeepOps
    BY <2>2, <2>3
  <2> QED BY <1>2, <2>1, <2>4
<1>4. ASSUME NEW p \in Proc, LeaseRead(p) PROVE AttemptsInv'
  <2>1. messages' = messages
    BY <1>4 DEF LeaseRead, store
  <2>2. \A r \in Proc : r # p => op'[r] = op[r]
    BY <1>0, <1>4 DEF LeaseRead, TypeOK
  <2>3. \/ op'[p].step = "pick"
        \/ op'[p].step = "claim" /\ op'[p].id = op[p].id
           /\ op'[p].attempts = messages[op[p].id].attempts
    BY <1>0, <1>4 DEF LeaseRead, TypeOK, Op
  <2>4. ReadInv'
    <3> SUFFICES ASSUME NEW r \in Proc
                 PROVE  /\ op'[r].step \in SettleSteps =>
                             op'[r].attempts = messages'[op'[r].id].attempts
                        /\ /\ op'[r].step = "claim"
                           /\ op'[r].id \in Live'
                           /\ messages'[op'[r].id].token # 0
                           /\ messages'[op'[r].id].leasedUntil <= op'[r].now
                           => messages'[op'[r].id].attempts <= op'[r].attempts
      BY DEF ReadInv
    <3>1. CASE r # p
      BY <2>1, <2>2, <3>1 DEF AttemptsInv, ReadInv, Live
    <3>2. CASE r = p
      <4>1. op'[p].id \in Live' => messages[op'[p].id].attempts \in Nat
        BY <1>0, <2>1 DEF TypeOK, Row, Live
      <4> QED BY <2>1, <2>3, <3>2, <4>1 DEF SettleSteps
    <3> QED BY <3>1, <3>2
  <2> QED BY <2>1, <2>4 DEF AttemptsInv, AttemptsBounded, ReceiveLeft, Live
<1>5. ASSUME NEW p \in Proc, LeaseClaim(p), StillFree(p) PROVE AttemptsInv'
  <2> DEFINE id == op[p].id
             until == op[p].now + Visibility
  <2>1. op[p].step = "claim" /\ op[p].attempts < MaxAttempts /\ id \in Live
        /\ messages[id].leasedUntil <= op[p].now
    BY <1>5 DEF LeaseClaim, StillFree, Eligible
  <2>2. /\ messages[id] \in Row /\ op[p] \in Op /\ lastToken \in Nat
        /\ \A r \in Proc : op[r] \in Op /\ op[r].now \in Nat
    BY <1>0, <2>1 DEF TypeOK, Op
  <2>3. /\ Live' = Live
        /\ messages'[id].token = lastToken + 1 /\ messages'[id].leasedUntil = until
        /\ messages'[id].attempts = messages[id].attempts + 1
        /\ \A i \in Live : i # id => messages'[i] = messages[i]
    <3>1. messages' = [messages EXCEPT ![id].attempts = @ + 1,
                                       ![id].leasedUntil = until,
                                       ![id].token = lastToken + 1]
      BY <1>5 DEF LeaseClaim
    <3>2. messages \in [Live -> Row]
      BY <1>0 DEF TypeOK
    <3> QED BY <2>1, <3>1, <3>2 DEF Row, Live
  <2>4. messages[id].attempts < MaxAttempts
    <3>1. CASE messages[id].token = 0
      BY <2>1, <3>1 DEF AttemptsInv, ReceiveLeft
    <3>2. CASE messages[id].token # 0
      <4>1. messages[id].attempts <= op[p].attempts
        BY <2>1, <3>2 DEF AttemptsInv, ReadInv
      <4> QED BY <2>1, <2>2, <4>1, QueueAssumption DEF Row, Op
    <3> QED BY <3>1, <3>2
  <2>5. AttemptsBounded' /\ ReceiveLeft'
    BY <2>2, <2>3, <2>4, QueueAssumption
    DEF AttemptsInv, AttemptsBounded, ReceiveLeft, Row
  <2>6. \A r \in Proc : op'[r] = Idle \/ op'[r] = op[r]
    BY <1>0, <1>5 DEF LeaseClaim, TypeOK
  <2>7. op[p].now <= now /\ now < until /\ now \in Nat
    BY <1>0, <2>1 DEF CallInv, LeaseInv, Idle, TypeOK
  <2>8. ReadInv'
    <3> SUFFICES ASSUME NEW r \in Proc, op'[r] # Idle
                 PROVE  /\ op[r].step \in SettleSteps =>
                             op[r].attempts = messages'[op[r].id].attempts
                        /\ /\ op[r].step = "claim"
                           /\ op[r].id \in Live
                           /\ messages'[op[r].id].token # 0
                           /\ messages'[op[r].id].leasedUntil <= op[r].now
                           => messages'[op[r].id].attempts <= op[r].attempts
      BY <2>3, <2>6 DEF ReadInv, Idle, SettleSteps
    <3>1. op[r].step \in SettleSteps => op[r].attempts = messages'[op[r].id].attempts
      BY <1>5, <1>a, <1>b, <2>1, <2>3 DEF AttemptsInv, ReadInv
    <3>2. op[r] # Idle /\ op[r].now <= now
      BY <1>0, <2>6 DEF CallInv
    <3>3. op[r].id = id => ~(messages'[op[r].id].leasedUntil <= op[r].now)
      BY <2>2, <2>3, <2>7, <3>2, QueueAssumption DEF Op
    <3> QED BY <2>3, <3>1, <3>3 DEF AttemptsInv, ReadInv
  <2> QED BY <2>5, <2>8 DEF AttemptsInv
<1>6. ASSUME NEW p \in Proc, LeaseBury(p) PROVE AttemptsInv'
  <2>1. KeepOps
    BY <1>0, <1>6 DEF LeaseBury, TypeOK, Op, SettleSteps
  <2>2. CASE StillFree(p)
    <3>1. KeepRows
      BY <1>6, <2>2 DEF LeaseBury, Without, Live
    <3>2. KeepSettled
      BY <1>6, <1>a, <1>b, <2>1, <2>2 DEF LeaseBury, Without, Live, SettleSteps
    <3> QED BY <1>f, <2>1, <3>1, <3>2
  <2>3. CASE ~StillFree(p)
    BY <1>2, <1>6, <2>1, <2>3 DEF LeaseBury
  <2> QED BY <2>2, <2>3
<1>c. ASSUME NEW p \in Proc, hold[p] # NoLease, NEW r \in Proc, r # p,
             op[r].step \in SettleSteps
      PROVE  op[r].id # hold[p].id
  BY <1>0, <1>a, <1>c DEF ExclusiveLease
<1>7. ASSUME NEW p \in Proc, Ack(p) PROVE AttemptsInv'
  <2>1. KeepRows /\ KeepOps
    BY <1>7 DEF Ack, Without, Live
  <2>2. KeepSettled
    BY <1>7, <1>a, <1>c DEF Ack, Without, Live, Idle, SettleSteps
  <2> QED BY <1>f, <2>1, <2>2
<1>8. ASSUME NEW p \in Proc, NEW step \in SettleSteps, SettleRead(p, step)
      PROVE  AttemptsInv'
  <2>1. messages' = messages
    BY <1>8 DEF SettleRead, store
  <2>2. \A r \in Proc : \/ op'[r] = op[r]
                        \/ /\ op'[r].step \in SettleSteps
                           /\ op'[r].attempts = messages[op'[r].id].attempts
    BY <1>0, <1>8 DEF SettleRead, TypeOK
  <2>3. ReadInv'
    BY <2>1, <2>2 DEF AttemptsInv, ReadInv, Live, SettleSteps
  <2> QED BY <2>1, <2>3 DEF AttemptsInv, AttemptsBounded, ReceiveLeft, Live
<1>9. ASSUME NEW p \in Proc, NackWrite(p) \/ DeferWrite(p) PROVE AttemptsInv'
  <2>1. /\ op[p].step \in SettleSteps /\ hold[p] # NoLease
        /\ op[p].id = hold[p].id /\ op[p].id \in Live
        /\ messages[op[p].id] \in Row
    BY <1>0, <1>9, <1>a DEF NackWrite, DeferWrite, SettleSteps, TypeOK
  <2>2. \A i \in Live' : i \in Live /\ (i # op[p].id => messages'[i] = messages[i])
    BY <1>9 DEF NackWrite, DeferWrite, Without, Released, Live
  <2>3. op[p].id \in Live' => /\ messages'[op[p].id].token = 0
                              /\ messages'[op[p].id].attempts < MaxAttempts
    <3>1. CASE NackWrite(p)
      <4>1. op[p].attempts = messages[op[p].id].attempts
        BY <2>1 DEF AttemptsInv, ReadInv
      <4>2. CASE op[p].attempts < MaxAttempts
        <5> DEFINE at == op[p].now + Backoff
        <5>1. messages' = Released(op[p].id, messages[op[p].id].attempts, at)
          BY <2>1, <3>1, <4>1, <4>2, QueueAssumption DEF NackWrite, Row
        <5> HIDE DEF at
        <5> QED BY <1>0, <2>1, <4>1, <4>2, <5>1 DEF Released, Live, Row, TypeOK
      <4>3. CASE op[p].attempts >= MaxAttempts
        BY <2>1, <3>1, <4>1, <4>3, QueueAssumption DEF NackWrite, Without, Live, Row
      <4> QED BY <2>1, <4>1, <4>2, <4>3, QueueAssumption DEF Row
    <3>2. CASE DeferWrite(p)
      <4> DEFINE back == GivenBack(messages[op[p].id].attempts)
      <4>1. back < MaxAttempts
        BY <2>1, QueueAssumption DEF GivenBack, Row, AttemptsInv, AttemptsBounded
      <4> HIDE DEF back
      <4>2. messages' = [messages EXCEPT ![op[p].id].attempts = back,
                           ![op[p].id].availableAt = op[p].now + DeferDelay,
                           ![op[p].id].leasedUntil = 0, ![op[p].id].token = 0]
        BY <2>1, <3>2 DEF DeferWrite, Released, back
      <4> QED BY <1>0, <2>1, <4>1, <4>2 DEF Row, TypeOK
    <3> QED BY <1>9, <3>1, <3>2
  <2>4. KeepRows
    BY <2>2, <2>3
  <2>5. KeepOps
    BY <1>0, <1>9 DEF NackWrite, DeferWrite, TypeOK, Idle, SettleSteps
  <2>6. \A i \in Live : i # op[p].id => i \in Live'
    BY <1>9 DEF NackWrite, DeferWrite, Without, Released, Live
  <2>7. op'[p] = Idle
    BY <1>0, <1>9 DEF NackWrite, DeferWrite, TypeOK
  <2>8. KeepSettled
    BY <1>a, <1>c, <2>1, <2>2, <2>5, <2>6, <2>7 DEF SettleSteps, Idle
  <2> QED BY <1>f, <2>4, <2>5, <2>8
<1>10. ASSUME Tick PROVE AttemptsInv'
  BY <1>2, <1>10 DEF Tick, store
<1>11. ASSUME UNCHANGED vars PROVE AttemptsInv'
  BY <1>2, <1>11 DEF vars, store
<1> QED
  BY <1>1, <1>3, <1>4, <1>5, <1>6, <1>7, <1>8, <1>9, <1>10, <1>11
  DEF Next, Call, Crash, WriteRefused

(***************************************************************************)
(* No message is received more than MaxAttempts times, however many        *)
(* replicas read the counter of a row that another one holds (СТ-9,        *)
(* queue.py:103-133).                                                      *)
(***************************************************************************)
THEOREM ReceivesAreBounded == ASSUME ~Pauses PROVE Spec => []AttemptsBounded
<1>1. Init => AttemptsInv
  BY DEF Init, AttemptsInv, AttemptsBounded, ReceiveLeft, ReadInv, Idle, SettleSteps, Live
<1>2. AttemptsInv => AttemptsBounded
  BY DEF AttemptsInv
<1> QED BY <1>1, <1>2, AttemptsStep, QueueInvariant, PTL DEF Spec

-----------------------------------------------------------------------------
(***************************************************************************)
(* Refinement.  Where a message is follows from the three tables, because  *)
(* it has one fate; what a worker works on is the id of its lease.         *)
(***************************************************************************)
LEMMA WhereIs == ASSUME FateInv, TypeOK, NEW i \in Id
                 PROVE  /\ i \in Live => Whereabouts(i) = "pending"
                        /\ i \notin Live /\ i \in deadLetters /\ i \notin acked
                             => Whereabouts(i) = "dead"
                        /\ i \in acked => Whereabouts(i) = "acked"
                        /\ i > lastId => Whereabouts(i) = "absent"
<1>1. i \in acked => i \in 1..lastId /\ i \notin Live
  BY DEF FateInv, OneFate
<1>2. i > lastId => i \notin Live /\ i \notin acked /\ i \notin deadLetters
  BY DEF FateInv, TypeOK, Id
<1> QED BY <1>1, <1>2 DEF Whereabouts

\* Every step of the tables is a step of the abstract queue, or none.
LEMMA AbstractStep ==
    QueueInv /\ QueueInv' /\ FateInv /\ FateInv' /\ [Next]_vars
      => [Abstract!Next]_(Abstract!wvars)
<1> SUFFICES ASSUME QueueInv, QueueInv', FateInv, FateInv', [Next]_vars
             PROVE  [Abstract!Next]_(Abstract!wvars)
  OBVIOUS
<1> DEFINE status == [i \in Id |-> Whereabouts(i)]
           task == [p \in Proc |-> hold[p].id]
<1>0. /\ TypeOK /\ TypeOK' /\ CallInv /\ LeaseInv /\ ExclusiveLease
      /\ Live \subseteq Id /\ Live \subseteq 1..lastId
  BY QueueAssumption DEF QueueInv, TypeOK, Id
<1>s. ASSUME NEW k \in Id, NEW fate,
             \A i \in Id : i # k => (i \in Live <=> i \in Live')
                                 /\ (i \in deadLetters <=> i \in deadLetters')
                                 /\ (i \in acked <=> i \in acked'),
             Whereabouts(k)' = fate
      PROVE  status' = [status EXCEPT ![k] = fate]
  <2>1. \A i \in Id : i # k => Whereabouts(i)' = Whereabouts(i)
    BY <1>s DEF Whereabouts
  <2> QED BY <1>s, <2>1
<1>u. ASSUME Live' = Live, deadLetters' = deadLetters, acked' = acked
      PROVE  status' = status
  BY <1>u DEF Whereabouts
<1>t. \A p \in Proc : task[p] # 0 <=> hold[p] # NoLease
  BY <1>0 DEF LeaseInv, Owns, NoLease
<1>e. ASSUME NEW p \in Proc, hold' = [hold EXCEPT ![p] = NoLease]
      PROVE  task' = [task EXCEPT ![p] = 0]
  BY <1>0, <1>e DEF TypeOK, NoLease
<1>1. ASSUME NEW q \in Partition, Enqueue(q) PROVE Abstract!Next
  <2>0. lastId + 1 \in Id
    BY <1>0, <1>1, QueueAssumption DEF Enqueue, TypeOK, Id
  <2>1. PICK k \in Id : k = lastId + 1
    BY <2>0
  <2>a. k > lastId /\ Live' = Live \cup {k}
    BY <1>0, <1>1, <2>1 DEF Enqueue, TypeOK, Live
  <2>2. status[k] = "absent"
    BY <1>0, <2>a, WhereIs
  <2>3. Whereabouts(k)' = "pending"
    BY <2>a DEF Whereabouts
  <2>4. status' = [status EXCEPT ![k] = "pending"] /\ task' = task
    <3>1. deadLetters' = deadLetters /\ acked' = acked /\ hold' = hold
      BY <1>1 DEF Enqueue
    <3> QED BY <1>s, <2>a, <2>3, <3>1
  <2>5. Abstract!Put(k)
    BY <2>2, <2>4 DEF Abstract!Put
  <2> QED BY <2>5 DEF Abstract!Next
<1>2. ASSUME UNCHANGED <<messages, deadLetters, acked, hold>>
      PROVE  UNCHANGED Abstract!wvars
  BY <1>2, <1>u DEF Live, Abstract!wvars
<1>i. ASSUME NEW p \in Proc, hold[p] # NoLease PROVE hold[p].id \in Id
  BY <1>0, <1>i DEF LeaseInv, Owns
<1>g. ASSUME NEW p \in Proc, hold[p] # NoLease, hold' = [hold EXCEPT ![p] = NoLease],
             NEW k \in Id, k = hold[p].id,
             NEW fate \in {"acked", "dead", "pending"}, Whereabouts(k)' = fate,
             \A i \in Id : i # k =>
               /\ i \in Live <=> i \in Live'
               /\ i \in deadLetters <=> i \in deadLetters'
               /\ i \in acked <=> i \in acked'
      PROVE  Abstract!Next
  <2>2. status' = [status EXCEPT ![k] = fate]
    BY <1>g, <1>s
  <2>3. Abstract!Settle(p, fate)
    BY <1>e, <1>g, <1>t, <2>2 DEF Abstract!Settle
  <2> QED BY <1>g, <2>3 DEF Abstract!Next
<1>b. ASSUME NEW p \in Proc, op[p].step = "claim", StillFree(p)
      PROVE  /\ op[p].id \in Id /\ op[p].id \in Live
             /\ status[op[p].id] = "pending"
             /\ \A r \in Proc : task[r] # op[p].id
  <2>1. op[p].now <= now /\ messages[op[p].id].leasedUntil <= op[p].now /\ op[p].id \in Live
    BY <1>0, <1>b DEF CallInv, Idle, StillFree, Eligible
  <2>2. ASSUME NEW r \in Proc PROVE hold[r].id # op[p].id
    <3>1. hold[r] # NoLease => now < messages[hold[r].id].leasedUntil
      BY <1>0 DEF LeaseInv
    <3>2. hold[r] = NoLease => hold[r].id = 0
      BY DEF NoLease
    <3> QED BY <1>0, <1>b, <2>1, <3>1, <3>2 DEF TypeOK, Row, Op
  <2>3. Whereabouts(op[p].id) = "pending"
    BY <2>1 DEF Whereabouts
  <2> QED BY <1>0, <2>1, <2>2, <2>3
<1>3. ASSUME NEW p \in Proc, LeaseClaim(p) PROVE [Abstract!Next]_(Abstract!wvars)
  <2>1. CASE ~StillFree(p)
    BY <1>2, <1>3, <2>1 DEF LeaseClaim
  <2>2. CASE StillFree(p)
    <3>0. PICK k \in Id : k = op[p].id
      BY <1>b, <1>3, <2>2 DEF LeaseClaim
    <3>1. /\ op[p].step = "claim" /\ hold[p] = NoLease
          /\ hold' = [hold EXCEPT ![p] = [id |-> k, token |-> lastToken',
                                          until |-> op[p].now + Visibility]]
      BY <1>0, <1>3, <2>2, <3>0 DEF LeaseClaim, CallInv, LeaseSteps
    <3>2. task' = [task EXCEPT ![p] = k]
      BY <1>0, <3>1 DEF TypeOK
    <3>3. status' = status
      BY <1>0, <1>3, <2>2, <1>u DEF LeaseClaim, Live, TypeOK
    <3>4. status[k] = "pending" /\ \A r \in Proc : task[r] # k
      BY <1>b, <2>2, <3>0, <3>1
    <3>5. task[p] = 0
      BY <3>1 DEF NoLease
    <3>6. Abstract!Take(p, k)
      BY <3>2, <3>3, <3>4, <3>5 DEF Abstract!Take, Abstract!Free
    <3> QED BY <3>6 DEF Abstract!Next
  <2> QED BY <2>1, <2>2
<1>4. ASSUME NEW p \in Proc, LeaseBury(p) PROVE [Abstract!Next]_(Abstract!wvars)
  <2>1. CASE ~StillFree(p)
    BY <1>2, <1>4, <2>1 DEF LeaseBury
  <2>2. CASE StillFree(p)
    <3>0. PICK k \in Id : k = op[p].id
      BY <1>b, <1>4, <2>2 DEF LeaseBury
    <3>1. op[p].step = "claim" /\ hold' = hold /\ acked' = acked
      BY <1>4 DEF LeaseBury
    <3>2. Live' = Live \ {k} /\ deadLetters' = deadLetters \cup {k}
      BY <1>4, <2>2, <3>0 DEF LeaseBury, Without, Buried, Live
    <3>3. k \in Live /\ k \notin acked
      BY <1>0, <1>b, <2>2, <3>0, <3>1 DEF FateInv, OneFate
    <3>4. Whereabouts(k)' = "dead"
      BY <3>1, <3>2, <3>3 DEF Whereabouts
    <3>5. status' = [status EXCEPT ![k] = "dead"]
      BY <1>s, <3>1, <3>2, <3>3, <3>4
    <3>6. Abstract!Bury(k)
      BY <1>b, <2>2, <3>0, <3>1, <3>5 DEF Abstract!Bury, Abstract!Free
    <3> QED BY <3>6 DEF Abstract!Next
  <2> QED BY <2>1, <2>2
<1>5. ASSUME NEW p \in Proc, Ack(p) PROVE Abstract!Next
  <2>1. Owns(p) /\ hold[p] # NoLease /\ hold' = [hold EXCEPT ![p] = NoLease]
    BY <1>0, <1>5 DEF Ack, LeaseInv
  <2>0. PICK k \in Id : k = hold[p].id
    BY <1>i, <2>1
  <2>2. Live' = Live \ {k} /\ acked' = acked \cup {k} /\ deadLetters' = deadLetters
    BY <1>5, <2>0, <2>1 DEF Ack, Without, Live
  <2>3. Whereabouts(k)' = "acked"
    BY <2>2 DEF Whereabouts
  <2> QED BY <1>g, <2>0, <2>1, <2>2, <2>3
<1>6. ASSUME NEW p \in Proc, NEW step \in SettleSteps, SettleRead(p, step)
      PROVE  UNCHANGED Abstract!wvars
  BY <1>0, <1>2, <1>6 DEF SettleRead, LeaseInv, store
<1>7. ASSUME NEW p \in Proc, NackWrite(p) \/ DeferWrite(p) PROVE Abstract!Next
  <2>a. hold[p] # NoLease /\ op[p].id = hold[p].id
    BY <1>0, <1>7 DEF NackWrite, DeferWrite, CallInv, SettleSteps
  <2>0. PICK k \in Id : k = hold[p].id
    BY <1>i, <2>a
  <2>1. /\ op[p].id = k /\ hold[p] # NoLease /\ k \in Live /\ k \notin acked
        /\ hold' = [hold EXCEPT ![p] = NoLease] /\ acked' = acked
    BY <1>0, <1>7, <2>0, <2>a DEF NackWrite, DeferWrite, LeaseInv, Owns, FateInv, OneFate
  <2>2. \/ Live' = Live \ {k} /\ deadLetters' = deadLetters \cup {k}
        \/ Live' = Live /\ deadLetters' = deadLetters
    BY <1>7, <2>1 DEF NackWrite, DeferWrite, Without, Buried, Released, Live
  <2>3. \E fate \in {"dead", "pending"} : Whereabouts(k)' = fate
    BY <2>1, <2>2 DEF Whereabouts
  <2> QED BY <1>g, <2>0, <2>1, <2>2, <2>3
<1>8. ASSUME NEW p \in Proc, Exit(p) PROVE [Abstract!Next]_(Abstract!wvars)
  <2>1. UNCHANGED <<messages, deadLetters, acked>> /\ hold' = [hold EXCEPT ![p] = NoLease]
    BY <1>8 DEF Exit, store
  <2>2. CASE hold[p] = NoLease
    <3>1. hold' = hold
      BY <1>0, <2>1, <2>2 DEF TypeOK
    <3> QED BY <1>2, <2>1, <3>1
  <2>3. CASE hold[p] # NoLease
    <3>0. PICK k \in Id : k = hold[p].id
      BY <1>i, <2>3
    <3>1. Live' = Live /\ k \in Live
      BY <1>0, <2>1, <2>3, <3>0 DEF LeaseInv, Owns, Live
    <3>2. Whereabouts(k)' = "pending"
      BY <3>1 DEF Whereabouts
    <3> QED BY <1>g, <2>1, <2>3, <3>0, <3>1, <3>2
  <2> QED BY <2>2, <2>3
<1>9. CASE UNCHANGED <<messages, deadLetters, acked, hold>>
  BY <1>2, <1>9
<1> QED
  BY <1>1, <1>3, <1>4, <1>5, <1>6, <1>7, <1>8, <1>9
  DEF Next, Call, LeaseStart, LeasePick, LeaseRead, Crash, WriteRefused, Tick, vars, store

(***************************************************************************)
(* The SQL statements of queue.py, interleaved between any number of       *)
(* replicas that crash anywhere, implement the abstract work queue: one    *)
(* worker per message, none handed out after its end, none lost.           *)
(***************************************************************************)
THEOREM QueueImplementsWorkQueue == ASSUME ~Pauses PROVE Spec => ImplementsWorkQueue
<1>1. Init => Abstract!Init
  BY DEF Init, Abstract!Init, Whereabouts, Live, NoLease
<1>2. Init => FateInv
  BY DEF Init, FateInv, OneFate
<1> QED
  BY <1>1, <1>2, FateStep, AbstractStep, QueueInvariant, PTL
  DEF Spec, ImplementsWorkQueue, Abstract!Spec
=============================================================================
