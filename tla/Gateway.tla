------------------------------- MODULE Gateway -------------------------------
(***************************************************************************)
(* The LLM gateway of one worker process (reliability/gateway.py): a pool  *)
(* of providers tried in order, a circuit breaker for each and a token     *)
(* bucket for all.  run() is called by the worker's one analysing thread,  *)
(* so calls follow each other; time passes between them and while a        *)
(* provider is working, never longer than the attempt timeout.             *)
(*                                                                         *)
(* OPEN turns into HALF_OPEN and the bucket fills up lazily, when they are *)
(* looked at; the clock is the one that both read.                         *)
(***************************************************************************)
EXTENDS Naturals, Sequences

CONSTANTS Providers,       \* how many providers the pool has
          Threshold,       \* failure_threshold of a breaker
          ResetTimeout,    \* reset_timeout of a breaker
          Rate, Capacity,  \* of the token bucket, per instant
          AttemptTimeout,  \* longest time a provider is given
          MaxTime          \* bound: last instant of the clock

ASSUME GatewayAssumption ==
    /\ Providers \in Nat \ {0}
    /\ Threshold \in Nat \ {0}
    /\ ResetTimeout \in Nat \ {0}
    /\ Rate \in Nat /\ Capacity \in Nat
    /\ AttemptTimeout \in Nat
    /\ MaxTime \in Nat

VARIABLES
    breaker,   \* CircuitBreaker of each provider
    bucket,    \* TokenBucket
    now,       \* time.monotonic()
    call,      \* the run() in progress
    verdict,   \* how the last run() ended
    spent,     \* history: calls to providers begun at each instant
    outage     \* history: the failed calls to each provider since its last success

vars == <<breaker, bucket, now, call, verdict, spent, outage>>

Provider == 1..Providers
Instant == 0..MaxTime
Breaker == [state : {"closed", "open", "half_open"}, failures : Nat, openedAt : Instant]
Pc == {"idle", "allow", "acquire", "invoke"}
Call == [pc : Pc, provider : 1..(Providers + 1), failed : SUBSET Provider, since : Instant]
Verdict == {"none", "ok", "rate_limited", "circuit_open", "unavailable"}
NoCall == [pc |-> "idle", provider |-> 1, failed |-> {}, since |-> 0]

Init == /\ breaker = [p \in Provider |-> [state |-> "closed", failures |-> 0, openedAt |-> 0]]
        /\ bucket = [tokens |-> Capacity, last |-> 0]
        /\ now = 0
        /\ call = NoCall
        /\ verdict = "none"
        /\ spent = [t \in Instant |-> 0]
        /\ outage = [p \in Provider |-> <<>>]

End(v) == call' = NoCall /\ verdict' = v
NextProvider == [call EXCEPT !.pc = "allow", !.provider = @ + 1]

\* The state property: a breaker that has cooled down is seen HALF_OPEN.
CooledDown(b) == now - b.openedAt >= ResetTimeout
Seen(b) == IF b.state = "open" /\ CooledDown(b) THEN [b EXCEPT !.state = "half_open"] ELSE b

Run == /\ call.pc = "idle"
       /\ call' = [NoCall EXCEPT !.pc = "allow"]
       /\ verdict' = "none"
       /\ UNCHANGED <<breaker, bucket, now, spent, outage>>

\* breaker.allow(): an open circuit is passed over without a call.
Allow ==
    LET p == call.provider IN
    /\ call.pc = "allow" /\ p \in Provider
    /\ breaker' = [breaker EXCEPT ![p] = Seen(@)]
    /\ call' = IF breaker'[p].state = "open" THEN NextProvider ELSE [call EXCEPT !.pc = "acquire"]
    /\ UNCHANGED <<bucket, now, verdict, spent, outage>>

\* limiter.try_acquire(): no token ends run() with RateLimited.
Uncapped(a, b) == b   \* mutant: an idle worker hoards tokens
Least(a, b) == IF a < b THEN a ELSE b
\* Mutant: the refill does not remember when it was made.
RefilledAgain == [tokens |-> Least(Capacity, bucket.tokens + (now - bucket.last) * Rate),
                  last |-> bucket.last]
Refilled == [tokens |-> Least(Capacity, bucket.tokens + (now - bucket.last) * Rate),
             last |-> now]
Acquire ==
    /\ call.pc = "acquire"
    /\ \/ /\ Refilled.tokens >= 1
          /\ bucket' = [Refilled EXCEPT !.tokens = @ - 1]
          /\ call' = [call EXCEPT !.pc = "invoke", !.since = now]
          /\ spent' = [spent EXCEPT ![now] = @ + 1]
          /\ UNCHANGED verdict
       \/ /\ Refilled.tokens < 1
          /\ bucket' = Refilled
          /\ End("rate_limited")
          /\ UNCHANGED spent
    /\ UNCHANGED <<breaker, now, outage>>

\* record_success()
ClosedWarm(b) == [b EXCEPT !.state = "closed"]   \* mutant: the count survives a success
Closed(b) == [b EXCEPT !.state = "closed", !.failures = 0]
Succeed ==
    LET p == call.provider IN
    /\ call.pc = "invoke"
    /\ breaker' = [breaker EXCEPT ![p] = Closed(@)]
    /\ outage' = [outage EXCEPT ![p] = <<>>]
    /\ End("ok")
    /\ UNCHANGED <<bucket, now, spent>>

\* record_failure(): a failed probe opens the circuit at once, otherwise the
\* threshold does.
Reopened(b) == [b EXCEPT !.state = "open"]   \* mutant: the cooling-down is not restarted
Opened(b) == [b EXCEPT !.state = "open", !.openedAt = now]
Counted(b) == [b EXCEPT !.failures = @ + 1]
Failed(b) == IF b.state = "half_open" THEN Opened(b)
             ELSE IF b.failures + 1 >= Threshold THEN Opened(Counted(b)) ELSE Counted(b)
Fail ==
    LET p == call.provider IN
    /\ call.pc = "invoke"
    /\ breaker' = [breaker EXCEPT ![p] = Failed(Seen(@))]
    /\ outage' = [outage EXCEPT ![p] = Append(@, [from |-> call.since, to |-> now])]
    /\ call' = [NextProvider EXCEPT !.failed = @ \cup {p}]
    /\ UNCHANGED <<bucket, now, verdict, spent>>

\* The pool is exhausted: an outage if nobody was called, else a failure.
PoolVerdictOpen == "circuit_open"   \* mutant: an exhausted pool is always an outage
PoolVerdict == IF call.failed = {} THEN "circuit_open" ELSE "unavailable"
Exhausted ==
    /\ call.pc = "allow" /\ call.provider \notin Provider
    /\ End(PoolVerdict)
    /\ UNCHANGED <<breaker, bucket, now, spent, outage>>

Tick == /\ now < MaxTime
        /\ \/ call.pc = "idle"
           \/ call.pc = "invoke" /\ now < call.since + AttemptTimeout
        /\ now' = now + 1
        /\ UNCHANGED <<breaker, bucket, call, verdict, spent, outage>>

Next == Run \/ Allow \/ Acquire \/ Succeed \/ Fail \/ Exhausted \/ Tick

Spec == Init /\ [][Next]_vars

-----------------------------------------------------------------------------
\* Breakers, bucket and the call in progress are well typed; tokens stay between zero
\* and the capacity however long a worker idles (gateway.py:118-128).
TypeOK ==
    /\ breaker \in [Provider -> Breaker]
    /\ bucket \in [tokens : 0..Capacity, last : Instant]
    /\ now \in Instant
    /\ call \in Call
    /\ verdict \in Verdict
    /\ spent \in [Instant -> Nat]
    /\ \A p \in Provider : outage[p] \in Seq([from : Instant, to : Instant])

(***************************************************************************)
(* СТ-20: between any two instants the worker makes no more calls than one *)
(* full bucket and what flows into it, however run() spaces its calls out  *)
(* and although the bucket is only refilled when it is looked at.          *)
(***************************************************************************)
Running(f) == LET sum[t \in Instant] == f[t] + (IF t = 0 THEN 0 ELSE sum[t - 1]) IN sum
UpTo(f, t) == IF t = 0 THEN 0 ELSE Running(f)[t - 1]
Calls(a, b) == UpTo(spent, b + 1) - UpTo(spent, a)
RateBounded ==
    \A a, b \in Instant : a <= b => Calls(a, b) <= Capacity + Rate * (b - a)

(***************************************************************************)
(* СТ-22: a provider that keeps failing costs Threshold calls and then one *)
(* probe per ResetTimeout, counted from the end of the one before.         *)
(***************************************************************************)
OutageIsCheap ==
    \A p \in Provider : \A i \in 1..Len(outage[p]) :
      i > Threshold => outage[p][i].from >= outage[p][i - 1].to + ResetTimeout

(***************************************************************************)
(* A circuit is shut to callers only after Threshold failures in a row:    *)
(* the successes in between, also those of a probe, start the count anew.  *)
(***************************************************************************)
OpenIsJustified ==
    \A p \in Provider :
      breaker[p].state # "closed" <=> Len(outage[p]) >= Threshold

(***************************************************************************)
(* GatewayCircuitOpen, which the worker defers for as long as it takes, is *)
(* raised only while every circuit of the pool is open: no failure of a    *)
(* provider that was called hides behind it (gateway.py:45-50).            *)
(***************************************************************************)
OutageMeansAllOpen ==
    [][verdict' = "circuit_open" => \A p \in Provider : breaker[p].state = "open"]_vars
=============================================================================
