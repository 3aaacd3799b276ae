---------------------------- MODULE DurableQueue ----------------------------
(***************************************************************************)
(* The durable queue of reliability/queue.py, at the granularity at which  *)
(* its callers interleave: one action per SQL transaction.  Each process   *)
(* owns a connection to the same queue.db; threading.Lock makes the calls  *)
(* of ONE process sequential and gives nothing across processes.  SQLite   *)
(* (WAL) lets a SELECT run at any time and serialises writers, so a        *)
(* conditional UPDATE or DELETE is atomic while a SELECT followed by a     *)
(* write is two steps.                                                     *)
(***************************************************************************)
EXTENDS Naturals, FiniteSets

CONSTANTS Proc,         \* processes that lease messages (worker replicas)
          NoProc,       \* nobody holds the write lock
          Partition,    \* fairness partitions: the repositories
          MaxAttempts,  \* receives after which a message is dead-lettered
          Visibility,   \* visibility timeout of a lease
          Backoff,      \* delay of a nacked message
          DeferDelay,   \* delay of a deferred message
          Pauses,       \* may a process stall past its own lease?
          MaxMsgs,      \* bound: messages ever enqueued
          MaxTime       \* bound: last instant of the clock

ASSUME QueueAssumption ==
    /\ NoProc \notin Proc
    /\ MaxAttempts \in Nat \ {0}
    /\ Visibility \in Nat \ {0}
    /\ Backoff \in Nat
    /\ DeferDelay \in Nat
    /\ Pauses \in BOOLEAN
    /\ MaxMsgs \in Nat
    /\ MaxTime \in Nat

VARIABLES
    messages,     \* table messages: id -> row; 0 stands for SQL NULL
    deadLetters,  \* ids in table dead_letters
    lastServed,   \* table partition_service
    lastId,       \* AUTOINCREMENT of messages.id
    lastToken,    \* uuid4 tokens issued so far: each one is new
    now,          \* time.time()
    writer,       \* the process whose write transaction is open between steps
    op,           \* the queue call each process is in
    hold,         \* the Lease each process is working on
    acked         \* history: ids whose ack returned True

store == <<messages, deadLetters, lastServed, lastId, lastToken>>
vars == <<store, now, writer, op, hold, acked>>

Id == 1..MaxMsgs
Row == [partition : Partition, attempts : Nat, availableAt : Nat,
        leasedUntil : Nat, token : Nat]
Lease == [id : Nat, token : Nat, until : Nat]
NoLease == [id |-> 0, token |-> 0, until |-> 0]
LeaseSteps == {"pick", "read", "claim"}
SettleSteps == {"nack", "defer"}
Op == [step : {"idle"} \cup LeaseSteps \cup SettleSteps,
       id : Nat, attempts : Nat, now : Nat]
Idle == [step |-> "idle", id |-> 0, attempts |-> 0, now |-> 0]

Live == DOMAIN messages
BuriedNowhere(id) == deadLetters   \* mutant: the INSERT is forgotten
Buried(id) == deadLetters \cup {id}   \* INSERT OR IGNORE INTO dead_letters
Without(id) == [i \in Live \ {id} |-> messages[i]]

(***************************************************************************)
(* WHERE (leased_until IS NULL OR leased_until <= now) AND available_at <= *)
(* now; a NULL leased_until is 0, which is never later than now.           *)
(***************************************************************************)
Eligible(id, t) == /\ id \in Live
                   /\ messages[id].leasedUntil <= t
                   /\ messages[id].availableAt <= t

\* Mutant: the UPDATE names the row by its id alone.
StillThere(p) == op[p].id \in Live
\* The WHERE clause of the write that lease() makes after its two SELECTs.
StillFree(p) == Eligible(op[p].id, op[p].now)

\* MIN(id) of each partition that has an eligible message.
Heads(t) == {i \in Live : /\ Eligible(i, t)
                          /\ \A j \in Live :
                               Eligible(j, t) /\ messages[j].partition = messages[i].partition
                                 => i <= j}

\* ORDER BY COALESCE(last_served, 0), mid LIMIT 1.
ServedBefore(i, j) ==
    LET a == lastServed[messages[i].partition]
        b == lastServed[messages[j].partition]
    IN  a < b \/ (a = b /\ i <= j)
Candidate(t) == {i \in Heads(t) : \A j \in Heads(t) : ServedBefore(i, j)}

\* Mutant: no fencing, a message that is still there is taken for one's own.
OwnsById(p) == /\ hold[p] # NoLease
               /\ hold[p].id \in Live
\* The token check of ack(), nack() and defer().
Owns(p) == /\ hold[p] # NoLease
           /\ hold[p].id \in Live
           /\ messages[hold[p].id].token = hold[p].token

\* A write waits for the lock; its own open transaction does not stop it.
CanWrite(p) == writer \in {NoProc, p}

-----------------------------------------------------------------------------
Init == /\ messages = [i \in {} |-> 0]
        /\ deadLetters = {}
        /\ lastServed = [q \in Partition |-> 0]
        /\ lastId = 0
        /\ lastToken = 0
        /\ now = 0
        /\ writer = NoProc
        /\ op = [p \in Proc |-> Idle]
        /\ hold = [p \in Proc |-> NoLease]
        /\ acked = {}

\* enqueue(payload, partition), called by ingress and the sweeper.
Enqueue(q) ==
    /\ lastId < MaxMsgs
    /\ writer = NoProc
    /\ lastId' = lastId + 1
    /\ messages' = [i \in Live \cup {lastId'} |->
                      IF i = lastId'
                      THEN [partition |-> q, attempts |-> 0, availableAt |-> now,
                            leasedUntil |-> 0, token |-> 0]
                      ELSE messages[i]]
    /\ UNCHANGED <<deadLetters, lastServed, lastToken, now, writer, op, hold, acked>>

\* lease(): read the clock once; every retry of the loop uses that instant.
LeaseStart(p) ==
    /\ op[p] = Idle
    /\ hold[p] = NoLease
    /\ op' = [op EXCEPT ![p] = [Idle EXCEPT !.step = "pick", !.now = now]]
    /\ UNCHANGED <<store, now, writer, hold, acked>>

\* The first SELECT; no candidate is `return None`.
LeasePick(p) ==
    /\ op[p].step = "pick"
    /\ \/ /\ Candidate(op[p].now) = {}
          /\ op' = [op EXCEPT ![p] = Idle]
       \/ \E i \in Candidate(op[p].now) :
            op' = [op EXCEPT ![p].step = "read", ![p].id = i]
    /\ UNCHANGED <<store, now, writer, hold, acked>>

\* SELECT * WHERE id=?; a row that has gone meanwhile is `continue`.
LeaseRead(p) ==
    /\ op[p].step = "read"
    /\ \/ /\ op[p].id \notin Live
          /\ op' = [op EXCEPT ![p].step = "pick"]
       \/ /\ op[p].id \in Live
          /\ op' = [op EXCEPT ![p].step = "claim",
                              ![p].attempts = messages[op[p].id].attempts]
    /\ UNCHANGED <<store, now, writer, hold, acked>>

(***************************************************************************)
(* The conditional UPDATE: rowcount 1 hands the message out, rowcount 0 is *)
(* a commit and `continue`.                                                *)
(***************************************************************************)
LeaseClaim(p) ==
    LET id == op[p].id  until == op[p].now + Visibility IN
    /\ op[p].step = "claim"
    /\ op[p].attempts < MaxAttempts
    /\ CanWrite(p)
    /\ writer' = NoProc
    /\ \/ /\ StillFree(p)
          /\ lastToken' = lastToken + 1
          /\ messages' = [messages EXCEPT ![id].attempts = @ + 1,
                                          ![id].leasedUntil = until,
                                          ![id].token = lastToken']
          /\ lastServed' = [lastServed EXCEPT ![messages[id].partition] = op[p].now]
          /\ hold' = [hold EXCEPT ![p] = [id |-> id, token |-> lastToken', until |-> until]]
          /\ op' = [op EXCEPT ![p] = Idle]
       \/ /\ ~StillFree(p)
          /\ op' = [op EXCEPT ![p].step = "pick"]
          /\ UNCHANGED <<messages, lastServed, lastToken, hold>>
    /\ UNCHANGED <<deadLetters, lastId, now, acked>>

(***************************************************************************)
(* The poison-guard: a conditional DELETE.  With rowcount 0 the loop       *)
(* continues WITHOUT a commit, so the transaction that the DELETE opened   *)
(* stays open in this connection and holds the write lock of queue.db.     *)
(***************************************************************************)
LeaseBury(p) ==
    LET id == op[p].id IN
    /\ op[p].step = "claim"
    /\ op[p].attempts >= MaxAttempts
    /\ CanWrite(p)
    /\ op' = [op EXCEPT ![p].step = "pick"]
    /\ \/ /\ StillFree(p)
          /\ messages' = Without(id)
          /\ deadLetters' = Buried(id)
          /\ writer' = NoProc
       \/ /\ ~StillFree(p)
          /\ writer' = p
          /\ UNCHANGED <<messages, deadLetters>>
    /\ UNCHANGED <<lastServed, lastId, lastToken, now, hold, acked>>

\* ack(): one conditional DELETE.  The caller is done with its lease either way.
Ack(p) ==
    LET id == hold[p].id IN
    /\ op[p] = Idle
    /\ hold[p] # NoLease
    /\ CanWrite(p)
    /\ writer' = NoProc
    /\ hold' = [hold EXCEPT ![p] = NoLease]
    /\ \/ /\ Owns(p)
          /\ messages' = Without(id)
          /\ acked' = acked \cup {id}
       \/ /\ ~Owns(p)
          /\ UNCHANGED <<messages, acked>>
    /\ UNCHANGED <<deadLetters, lastServed, lastId, lastToken, now, op>>

(***************************************************************************)
(* nack() and defer() begin with a SELECT and a comparison of the token:   *)
(* "missing" and "stale" end the call there, otherwise the row read is     *)
(* written back by the next step.                                          *)
(***************************************************************************)
SettleRead(p, step) ==
    LET id == hold[p].id IN
    /\ op[p] = Idle
    /\ hold[p] # NoLease
    /\ \/ /\ Owns(p)
          /\ op' = [op EXCEPT ![p] = [step |-> step, id |-> id, now |-> now,
                                      attempts |-> messages[id].attempts]]
          /\ UNCHANGED hold
       \/ /\ ~Owns(p)
          /\ hold' = [hold EXCEPT ![p] = NoLease]
          /\ UNCHANGED op
    /\ UNCHANGED <<store, now, writer, acked>>

\* UPDATE ... SET leased_until=NULL, lease_token=NULL, available_at=? WHERE id=?
Released(id, attempts, at) ==
    IF id \in Live
    THEN [messages EXCEPT ![id].attempts = attempts, ![id].availableAt = at,
                          ![id].leasedUntil = 0, ![id].token = 0]
    ELSE messages

\* The write of nack(): it names the row by id alone.
NackWrite(p) ==
    LET id == op[p].id IN
    /\ op[p].step = "nack"
    /\ CanWrite(p)
    /\ \/ /\ op[p].attempts >= MaxAttempts
          /\ deadLetters' = Buried(id)
          /\ messages' = Without(id)
       \/ /\ op[p].attempts < MaxAttempts
          /\ messages' = Released(id, messages[id].attempts, op[p].now + Backoff)
          /\ UNCHANGED deadLetters
    /\ writer' = NoProc
    /\ op' = [op EXCEPT ![p] = Idle]
    /\ hold' = [hold EXCEPT ![p] = NoLease]
    /\ UNCHANGED <<lastServed, lastId, lastToken, now, acked>>

\* The write of defer(): attempts=MAX(0, attempts-1).
GivenBackTwice(n) == n - 2   \* mutant: the receive is returned twice
GivenBack(n) == IF n = 0 THEN 0 ELSE n - 1
DeferWrite(p) ==
    LET id == op[p].id IN
    /\ op[p].step = "defer"
    /\ CanWrite(p)
    /\ messages' = Released(id, GivenBack(messages[id].attempts), op[p].now + DeferDelay)
    /\ writer' = NoProc
    /\ op' = [op EXCEPT ![p] = Idle]
    /\ hold' = [hold EXCEPT ![p] = NoLease]
    /\ UNCHANGED <<deadLetters, lastServed, lastId, lastToken, now, acked>>

\* The process ends: its lease stays in the table, its open transaction rolls back.
Exit(p) ==
    /\ op' = [op EXCEPT ![p] = Idle]
    /\ hold' = [hold EXCEPT ![p] = NoLease]
    /\ writer' = IF writer = p THEN NoProc ELSE writer
    /\ UNCHANGED <<store, now, acked>>

Crash(p) == (op[p] # Idle \/ hold[p] # NoLease \/ writer = p) /\ Exit(p)

(***************************************************************************)
(* busy_timeout runs out on a write while another connection holds the     *)
(* lock: sqlite3.OperationalError, which leaves run_forever.               *)
(***************************************************************************)
WriteRefused(p) ==
    /\ ~CanWrite(p)
    /\ \/ op[p].step \in {"claim"} \cup SettleSteps
       \/ op[p] = Idle /\ hold[p] # NoLease
    /\ Exit(p)

(***************************************************************************)
(* Time.  resolve_timeouts() insists on TASK < VISIBILITY, so a process    *)
(* that is not stalled settles its lease before it expires; a lease() call *)
(* itself is far shorter than the visibility timeout.                      *)
(***************************************************************************)
InTime(p) == /\ hold[p] # NoLease => now' < hold[p].until
             /\ op[p] # Idle => now' < op[p].now + Visibility

Tick == /\ now < MaxTime
        /\ now' = now + 1
        /\ Pauses \/ \A p \in Proc : InTime(p)
        /\ UNCHANGED <<store, writer, op, hold, acked>>

Call(p) == \/ LeaseStart(p) \/ LeasePick(p) \/ LeaseRead(p)
           \/ LeaseClaim(p) \/ LeaseBury(p)
           \/ Ack(p)
           \/ \E step \in SettleSteps : SettleRead(p, step)
           \/ NackWrite(p) \/ DeferWrite(p)
           \/ Crash(p) \/ WriteRefused(p)

Next == \/ \E q \in Partition : Enqueue(q)
        \/ \E p \in Proc : Call(p)
        \/ Tick

Spec == Init /\ [][Next]_vars

-----------------------------------------------------------------------------
\* The tables, the clock, the write lock and the calls in progress are well typed;
\* every row was numbered by AUTOINCREMENT (queue.py:45-68).
TypeOK == /\ Live \subseteq 1..lastId
          /\ messages \in [Live -> Row]
          /\ deadLetters \subseteq Nat
          /\ lastServed \in [Partition -> Nat]
          /\ lastId \in Nat /\ lastId <= MaxMsgs
          /\ lastToken \in Nat
          /\ now \in Nat
          /\ writer \in Proc \cup {NoProc}
          /\ op \in [Proc -> Op]
          /\ hold \in [Proc -> Lease]
          /\ acked \subseteq Nat

(***************************************************************************)
(* Two replicas never work on one message at the same time: the lease is   *)
(* exclusive as long as nobody outlives it (lease(), queue.py:119-133).    *)
(***************************************************************************)
ExclusiveLease ==
    \A p, q \in Proc : p # q /\ hold[p] # NoLease => hold[p].id # hold[q].id

(***************************************************************************)
(* At-least-once delivery: a message is pending, acknowledged by its       *)
(* holder, or kept in dead_letters, and it is in exactly one of the three, *)
(* whatever the order of crashes, nacks and the poison-guard (СТ-6, СТ-9). *)
(***************************************************************************)
OneFate ==
    \A i \in 1..lastId :
      \/ i \in Live /\ i \notin deadLetters /\ i \notin acked
      \/ i \notin Live /\ i \in deadLetters /\ i \notin acked
      \/ i \notin Live /\ i \notin deadLetters /\ i \in acked

\* A stalled process may bury a message that another one acknowledges, but
\* even then no message disappears without an ack or a dead letter.
NothingLost == \A i \in 1..lastId : i \in Live \cup deadLetters \cup acked

(***************************************************************************)
(* A message is never handed out again once MaxAttempts receives count     *)
(* against it: a receive read by one replica and granted to another does   *)
(* not slip past the threshold (СТ-9, queue.py:103-118).                   *)
(***************************************************************************)
AttemptsBounded == \A i \in Live : messages[i].attempts <= MaxAttempts

(***************************************************************************)
(* Fencing: however many workers still believe they hold a message, ack    *)
(* would accept the token of at most one of them (queue.py:11-13).         *)
(***************************************************************************)
OneCurrentHolder ==
    \A p, q \in Proc : Owns(p) /\ Owns(q) /\ hold[p].id = hold[q].id => p = q

(***************************************************************************)
(* A lease that has not expired is ended only by the worker that holds it: *)
(* its ack, nack or defer.  Nobody else changes the row or its token, also *)
(* when the holder has crashed (queue.py:11-13).                           *)
(***************************************************************************)
Disturbed(i) == \/ i \notin Live'
                \/ messages'[i].token # messages[i].token
LeaseRespected ==
    [][\A i \in Live :
         messages[i].token # 0 /\ now < messages[i].leasedUntil /\ Disturbed(i)
           => \E p \in Proc : /\ hold[p].id = i
                              /\ hold[p].token = messages[i].token
                              /\ hold'[p] = NoLease]_vars

(***************************************************************************)
(* Refinement: what a worker is working on, and where each message is.     *)
(***************************************************************************)
Whereabouts(i) == IF i \in Live THEN "pending"
                  ELSE IF i \in acked THEN "acked"
                  ELSE IF i \in deadLetters THEN "dead" ELSE "absent"

Abstract == INSTANCE WorkQueue
              WITH Worker <- Proc, Message <- Id,
                   status <- [i \in Id |-> Whereabouts(i)],
                   task <- [p \in Proc |-> hold[p].id]

\* Tokens, visibility timeouts, the poison-guard and every interleaving of the
\* SQL statements of queue.py implement the exclusive at-least-once queue.
ImplementsWorkQueue == Abstract!Spec
=============================================================================
