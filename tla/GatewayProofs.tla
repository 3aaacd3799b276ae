---------------------------- MODULE GatewayProofs ----------------------------
(***************************************************************************)
(* Proofs about Gateway, for any number of providers and instants, any     *)
(* threshold, cool-down, bucket and attempt timeout.                       *)
(***************************************************************************)
EXTENDS Gateway, WellFoundedInduction, TLAPS

Failure == [from : Instant, to : Instant]

Bucket == [tokens : 0..Capacity, last : Instant]

StateOK ==
    /\ breaker \in [Provider -> Breaker]
    /\ bucket \in Bucket /\ bucket.last <= now
    /\ now \in Instant
    /\ call \in Call /\ call.since <= now
    /\ verdict \in Verdict
    /\ spent \in [Instant -> Nat]
    /\ outage \in [Provider -> Seq(Failure)]

\* The breaker and the failures it stands for.  A closed one has counted them all; one
\* that is not closed was opened by the last, and lets a probe through only when it has
\* cooled down since.
Ended(p) == outage[p][Len(outage[p])].to
CircuitInv ==
    \A p \in Provider :
      /\ breaker[p].state = "closed" =>
           /\ breaker[p].failures = Len(outage[p])
           /\ Len(outage[p]) < Threshold
      /\ breaker[p].state # "closed" =>
           /\ Len(outage[p]) >= Threshold
           /\ breaker[p].openedAt = Ended(p)
      /\ breaker[p].state = "half_open" => now >= breaker[p].openedAt + ResetTimeout

\* The call: nobody calls through an open circuit, a probe began after the cool-down,
\* and a call that has not failed anywhere has passed over open circuits only.
CallInv ==
    /\ call.pc # "idle" => verdict = "none"
    /\ call.pc \in {"acquire", "invoke"} =>
         call.provider \in Provider /\ breaker[call.provider].state # "open"
    /\ call.pc = "invoke" /\ breaker[call.provider].state = "half_open" =>
         call.since >= breaker[call.provider].openedAt + ResetTimeout
    /\ call.failed = {} => \A p \in Provider : p < call.provider => breaker[p].state = "open"
    /\ verdict = "circuit_open" => \A p \in Provider : breaker[p].state = "open"

GatewayInv == StateOK /\ CircuitInv /\ CallInv

-----------------------------------------------------------------------------
\* The bucket never holds more than it can, nor less than nothing.
LEMMA RefillBounds == StateOK => Refilled \in Bucket /\ Refilled.last = now
<1> SUFFICES ASSUME StateOK PROVE Refilled \in Bucket /\ Refilled.last = now
  OBVIOUS
<1>1. now - bucket.last \in Nat /\ bucket.tokens \in 0..Capacity /\ now \in Nat
  BY GatewayAssumption DEF StateOK, Instant, Bucket
<1> DEFINE flow == (now - bucket.last) * Rate
<1>2. flow \in Nat
  BY <1>1, GatewayAssumption
<1>3. Least(Capacity, bucket.tokens + flow) \in 0..Capacity
  <2> HIDE DEF flow
  <2> QED
    BY <1>1, <1>2, GatewayAssumption DEF Least
<1> QED
  BY <1>1, <1>3 DEF Refilled, Bucket, StateOK

\* A new failure is the last one, and the others stay where they were.
LEMMA OneMoreFailure ==
    ASSUME NEW s \in Seq(Failure), NEW f \in Failure
    PROVE  /\ Append(s, f) \in Seq(Failure)
           /\ Len(Append(s, f)) = Len(s) + 1
           /\ Append(s, f)[Len(s) + 1] = f
           /\ \A i \in 1..Len(s) : Append(s, f)[i] = s[i]
OBVIOUS

\* The calls in progress that the actions make.
LEMMA CallsOK ==
    ASSUME StateOK
    PROVE  /\ NoCall \in Call /\ NoCall.since <= now
           /\ [NoCall EXCEPT !.pc = "allow"] \in Call
           /\ [call EXCEPT !.pc = "acquire"] \in Call
           /\ [call EXCEPT !.pc = "invoke", !.since = now] \in Call
           /\ call.provider \in Provider =>
                /\ NextProvider \in Call /\ NextProvider.since = call.since
                /\ [NextProvider EXCEPT !.failed = @ \cup {call.provider}] \in Call
<1>1. NoCall \in Call /\ NoCall.since = 0 /\ now \in Nat
  BY GatewayAssumption DEF NoCall, Call, Pc, Instant, Provider, StateOK
<1>2. \A pc \in Pc : [call EXCEPT !.pc = pc] \in Call /\ [NoCall EXCEPT !.pc = pc] \in Call
  BY <1>1 DEF Call, StateOK
<1>3. [call EXCEPT !.pc = "invoke", !.since = now] \in Call
  BY DEF Call, StateOK, Pc
<1>4. ASSUME call.provider \in Provider
      PROVE  NextProvider \in Call /\ NextProvider.since = call.since
  <2>1. call.provider + 1 \in 1..(Providers + 1)
    BY <1>4, GatewayAssumption DEF Provider
  <2> QED
    BY <2>1 DEF NextProvider, Call, Pc, StateOK
<1>5. ASSUME call.provider \in Provider
      PROVE  [NextProvider EXCEPT !.failed = @ \cup {call.provider}] \in Call
  BY <1>4, <1>5 DEF Call
<1> QED
  BY <1>1, <1>2, <1>3, <1>4, <1>5 DEF Pc

\* Whatever is recorded of a call, a breaker stays one.
LEMMA BreakersOK ==
    ASSUME StateOK, NEW b \in Breaker
    PROVE  Seen(b) \in Breaker /\ Closed(b) \in Breaker /\ Failed(b) \in Breaker
<1>1. now \in Instant
  BY DEF StateOK
<1>2. Seen(b) \in Breaker /\ Closed(b) \in Breaker
  BY DEF Seen, Closed, Breaker
<1>3. Counted(b) \in Breaker
  BY DEF Counted, Breaker
<1>4. Opened(b) \in Breaker /\ Opened(Counted(b)) \in Breaker
  BY <1>1, <1>3 DEF Opened, Breaker
<1> QED
  BY <1>2, <1>3, <1>4 DEF Failed

LEMMA GatewayInvInit == Init => GatewayInv
<1> SUFFICES ASSUME Init PROVE GatewayInv
  OBVIOUS
<1> USE GatewayAssumption DEF Init, Instant
<1>1. StateOK
  <2>1. breaker \in [Provider -> Breaker] /\ outage \in [Provider -> Seq(Failure)]
    BY DEF Breaker
  <2>2. NoCall \in Call /\ NoCall.since = 0
    BY DEF NoCall, Call, Pc, Provider
  <2> QED
    BY <2>1, <2>2 DEF StateOK, Bucket, Verdict
<1>2. CircuitInv
  BY DEF CircuitInv
<1>3. CallInv
  BY DEF CallInv, NoCall, Provider
<1> QED
  BY <1>1, <1>2, <1>3 DEF GatewayInv

-----------------------------------------------------------------------------
LEMMA StateOKStep == StateOK /\ CallInv /\ [Next]_vars => StateOK'
<1> SUFFICES ASSUME StateOK, CallInv, [Next]_vars PROVE StateOK'
  OBVIOUS
<1>a. /\ call.provider \in Nat /\ now \in Nat
      /\ call.pc = "invoke" => call.provider \in Provider
      /\ call.since \in Nat /\ bucket.last \in Nat
  BY GatewayAssumption DEF StateOK, Call, CallInv, Instant, Bucket
<1>1. CASE Run
  BY <1>1, <1>a, CallsOK DEF Run, StateOK, Verdict, NoCall
<1>2. CASE Allow
  <2>1. breaker' \in [Provider -> Breaker]
    BY <1>2, BreakersOK DEF Allow, StateOK
  <2>2. call' \in Call /\ call'.since = call.since
    BY <1>2, CallsOK DEF Allow, StateOK, Call
  <2> QED
    BY <1>2, <2>1, <2>2 DEF Allow, StateOK
<1>3. CASE Acquire
  <2>1. Refilled \in Bucket /\ Refilled.last = now
    BY RefillBounds
  <2>2. bucket' \in Bucket /\ bucket'.last = now
    BY <1>3, <2>1, GatewayAssumption DEF Acquire, Bucket
  <2>3. spent' \in [Instant -> Nat]
    BY <1>3 DEF Acquire, StateOK
  <2>4. call' \in Call /\ call'.since <= now
    <3>1. CASE call' = NoCall
      BY <3>1, CallsOK
    <3>2. CASE call' = [call EXCEPT !.pc = "invoke", !.since = now]
      BY <3>2, <1>a, CallsOK DEF StateOK, Call
    <3> QED
      BY <1>3, <3>1, <3>2 DEF Acquire, End
  <2>5. verdict' \in Verdict
    BY <1>3 DEF Acquire, End, Verdict, StateOK
  <2> QED
    BY <1>3, <1>a, <2>2, <2>3, <2>4, <2>5 DEF Acquire, StateOK
<1>4. CASE Succeed
  <2>1. breaker' \in [Provider -> Breaker]
    BY <1>4, BreakersOK DEF Succeed, StateOK
  <2>2. outage' \in [Provider -> Seq(Failure)]
    <3>1. <<>> \in Seq(Failure)
      OBVIOUS
    <3> QED
      BY <1>4, <3>1 DEF Succeed, StateOK
  <2> QED
    BY <1>4, <2>1, <2>2, CallsOK DEF Succeed, End, StateOK, Verdict
<1>5. CASE Fail
  <2>1. breaker' \in [Provider -> Breaker]
    <3>1. breaker[call.provider] \in Breaker
      BY <1>5, <1>a DEF Fail, StateOK
    <3>2. Failed(Seen(breaker[call.provider])) \in Breaker
      BY <3>1, BreakersOK
    <3> QED
      BY <1>5, <3>2 DEF Fail, StateOK
  <2>2. [from |-> call.since, to |-> now] \in Failure
    BY DEF StateOK, Call, Failure
  <2>3. outage' \in [Provider -> Seq(Failure)]
    BY <1>5, <1>a, <2>2, OneMoreFailure DEF Fail, StateOK
  <2>4. call' \in Call /\ call'.since = call.since
    BY <1>5, <1>a, CallsOK DEF Fail, Call
  <2> QED
    BY <1>5, <2>1, <2>3, <2>4 DEF Fail, StateOK
<1>6. CASE Exhausted
  BY <1>6, CallsOK DEF Exhausted, End, PoolVerdict, StateOK, Verdict
<1>7. CASE Tick
  BY <1>7, <1>a, GatewayAssumption DEF Tick, StateOK, Instant
<1>8. CASE UNCHANGED vars
  BY <1>8 DEF vars, StateOK
<1> QED
  BY <1>1, <1>2, <1>3, <1>4, <1>5, <1>6, <1>7, <1>8 DEF Next

-----------------------------------------------------------------------------
\* Breakers change in Allow, by cooling down; in Succeed and in Fail.
LEMMA CircuitInvStep == GatewayInv /\ [Next]_vars => CircuitInv'
<1> SUFFICES ASSUME StateOK, CircuitInv, CallInv, [Next]_vars PROVE CircuitInv'
  BY DEF GatewayInv
<1> DEFINE q == call.provider
<1>t. /\ now \in Nat
      /\ \A p \in Provider : /\ breaker[p] \in Breaker /\ outage[p] \in Seq(Failure)
                             /\ Len(outage[p]) \in Nat /\ breaker[p].openedAt \in Nat
  BY GatewayAssumption DEF StateOK, Instant, Breaker
<1>1. CASE UNCHANGED <<breaker, outage, now>>
  BY <1>1 DEF CircuitInv, Ended
<1>2. CASE Allow
  <2>1. ASSUME NEW p \in Provider
        PROVE  breaker'[p] = breaker[p] \/ breaker'[p] = Seen(breaker[p])
    BY <1>2 DEF Allow, StateOK
  <2>2. ASSUME NEW p \in Provider, breaker'[p] # breaker[p]
        PROVE  /\ breaker[p].state = "open" /\ breaker'[p].state = "half_open"
               /\ now - breaker[p].openedAt >= ResetTimeout
               /\ breaker'[p].openedAt = breaker[p].openedAt
    BY <2>1, <2>2, <1>t DEF Seen, CooledDown, Breaker
  <2>3. outage' = outage /\ now' = now
    BY <1>2 DEF Allow
  <2> QED
    BY <2>2, <2>3, <1>t, GatewayAssumption DEF CircuitInv, Ended
<1>3. CASE Succeed
  <2>1. q \in Provider
    BY <1>3 DEF Succeed, CallInv
  <2>2. breaker'[q].state = "closed" /\ breaker'[q].failures = 0 /\ outage'[q] = <<>>
    BY <1>3, <1>t, <2>1 DEF Succeed, Closed, StateOK, Breaker
  <2>3. \A p \in Provider \ {q} : breaker'[p] = breaker[p] /\ outage'[p] = outage[p]
    BY <1>3 DEF Succeed, StateOK
  <2>4. now' = now /\ Len(<<>>) = 0
    BY <1>3 DEF Succeed
  <2> QED
    BY <2>1, <2>2, <2>3, <2>4, GatewayAssumption DEF CircuitInv, Ended
<1>4. CASE Fail
  <2>1. q \in Provider /\ breaker[q].state # "open"
    BY <1>4 DEF Fail, CallInv
  <2>2. breaker'[q] = Failed(breaker[q])
    BY <1>4, <2>1 DEF Fail, Seen, StateOK
  <2> DEFINE f == [from |-> call.since, to |-> now]
  <2>3. /\ outage'[q] \in Seq(Failure) /\ Len(outage'[q]) = Len(outage[q]) + 1
        /\ outage'[q][Len(outage[q]) + 1].to = now
    <3>1. f \in Failure
      BY DEF StateOK, Call, Failure
    <3>2. outage'[q] = Append(outage[q], f)
      BY <1>4, <2>1 DEF Fail, StateOK
    <3> QED
      BY <3>1, <3>2, <1>t, <2>1, OneMoreFailure
  <2>4. \A p \in Provider \ {q} : breaker'[p] = breaker[p] /\ outage'[p] = outage[p]
    BY <1>4 DEF Fail, StateOK
  <2>5. now' = now
    BY <1>4 DEF Fail
  <2>6. \/ /\ breaker'[q].state = "open" /\ breaker'[q].openedAt = now
           /\ Len(outage[q]) + 1 >= Threshold
        \/ /\ breaker'[q].state = "closed"
           /\ breaker'[q].failures = Len(outage[q]) + 1
           /\ Len(outage[q]) + 1 < Threshold
    <3>1. CASE breaker[q].state = "half_open"
      BY <3>1, <2>1, <2>2, <1>t, GatewayAssumption DEF Failed, Opened, CircuitInv, Breaker
    <3>2. CASE breaker[q].state = "closed"
      <4>1. breaker[q].failures = Len(outage[q])
        BY <3>2, <2>1 DEF CircuitInv
      <4> QED
        BY <3>2, <4>1, <2>1, <2>2, <1>t, GatewayAssumption DEF Failed, Opened, Counted, Breaker
    <3> QED
      BY <3>1, <3>2, <2>1, <1>t DEF Breaker
  <2> HIDE DEF q, f
  <2> QED
    BY <2>1, <2>3, <2>4, <2>5, <2>6, <1>t, GatewayAssumption DEF CircuitInv, Ended
<1>5. CASE Tick
  BY <1>5, <1>t, GatewayAssumption DEF Tick, CircuitInv, Ended
<1> QED
  BY <1>1, <1>2, <1>3, <1>4, <1>5 DEF Next, Run, Acquire, Exhausted, vars

LEMMA CallInvStep == GatewayInv /\ [Next]_vars => CallInv'
<1> SUFFICES ASSUME StateOK, CircuitInv, CallInv, [Next]_vars PROVE CallInv'
  BY DEF GatewayInv
<1> DEFINE q == call.provider
<1>t. /\ now \in Nat /\ call.since \in Nat /\ q \in Nat /\ call.pc \in Pc /\ Provider \subseteq Nat
      /\ call \in Call
      /\ \A p \in Provider : breaker[p] \in Breaker /\ breaker[p].openedAt \in Nat
  BY GatewayAssumption DEF StateOK, Instant, Breaker, Call, Provider
<1>n. NoCall.pc = "idle" /\ NoCall.provider = 1 /\ \A p \in Provider : ~(p < NoCall.provider)
  BY DEF NoCall, Provider
<1>1. CASE Run
  BY <1>1, <1>n DEF Run, CallInv, NoCall
<1>2. CASE Allow
  <2>1. /\ q \in Provider /\ UNCHANGED <<verdict, now>> /\ verdict = "none"
        /\ breaker'[q] = Seen(breaker[q])
        /\ \A p \in Provider \ {q} : breaker'[p] = breaker[p]
    BY <1>2 DEF Allow, StateOK, CallInv
  <2>2. CASE breaker'[q].state = "open"
    <3>1. call'.pc = "allow" /\ call'.provider = q + 1 /\ call'.failed = call.failed
      BY <1>2, <2>2, <1>t DEF Allow, NextProvider, Call
    <3> QED
      BY <2>1, <2>2, <3>1, <1>t DEF CallInv
  <2>3. CASE breaker'[q].state # "open"
    <3>1. call'.pc = "acquire" /\ call'.provider = q /\ call'.failed = call.failed
      BY <1>2, <2>3, <1>t DEF Allow, Call
    <3> QED
      BY <2>1, <2>3, <3>1, <1>t DEF CallInv
  <2> QED
    BY <2>2, <2>3
<1>3. CASE Acquire
  <2>1. UNCHANGED <<breaker, now>> /\ call.pc = "acquire" /\ q \in Provider
    BY <1>3 DEF Acquire, CallInv
  <2>2. CASE verdict' = verdict /\ call' = [call EXCEPT !.pc = "invoke", !.since = now]
    <3>1. call'.pc = "invoke" /\ call'.provider = q /\ call'.since = now /\ call'.failed = call.failed
      BY <2>2, <1>t DEF Call
    <3> QED
      BY <2>1, <2>2, <3>1, <1>t DEF CallInv, CircuitInv
  <2>3. CASE call' = NoCall /\ verdict' = "rate_limited"
    BY <2>3, <1>n DEF CallInv
  <2> QED
    BY <1>3, <2>2, <2>3 DEF Acquire, End
<1>4. CASE Succeed
  BY <1>4, <1>n DEF Succeed, End, CallInv
<1>5. CASE Fail
  <2>1. call'.pc = "allow" /\ call'.failed # {} /\ verdict' = verdict /\ verdict = "none"
    BY <1>5, <1>t DEF Fail, NextProvider, CallInv, Call
  <2> QED
    BY <2>1 DEF CallInv
<1>6. CASE Exhausted
  <2>1. call' = NoCall /\ breaker' = breaker /\ verdict' = PoolVerdict
    BY <1>6 DEF Exhausted, End
  <2>2. call.failed = {} => \A p \in Provider : breaker[p].state = "open"
    <3>1. q \notin Provider
      BY <1>6 DEF Exhausted
    <3>2. \A p \in Provider : p < q
      BY <3>1, <1>t, GatewayAssumption DEF Provider, Call
    <3> QED
      BY <3>2 DEF CallInv
  <2> QED
    BY <2>1, <2>2, <1>n DEF CallInv, PoolVerdict
<1>7. CASE Tick
  BY <1>7 DEF Tick, CallInv
<1>8. CASE UNCHANGED vars
  BY <1>8 DEF vars, CallInv
<1> QED
  BY <1>1, <1>2, <1>3, <1>4, <1>5, <1>6, <1>7, <1>8 DEF Next

LEMMA GatewayInvariant == Spec => []GatewayInv
<1>1. GatewayInv /\ [Next]_vars => GatewayInv'
  BY StateOKStep, CircuitInvStep, CallInvStep DEF GatewayInv
<1> QED
  BY <1>1, GatewayInvInit, PTL DEF Spec

-----------------------------------------------------------------------------
(***************************************************************************)
(* Breakers, bucket, call and history keep their types: the bucket neither *)
(* overflows however long a worker idles, nor goes below zero              *)
(* (gateway.py:118-130).                                                   *)
(***************************************************************************)
THEOREM TypeCorrect == Spec => []TypeOK
<1>1. GatewayInv => TypeOK
  BY DEF GatewayInv, StateOK, TypeOK, Failure, Bucket
<1> QED
  BY <1>1, GatewayInvariant, PTL

(***************************************************************************)
(* A circuit is shut exactly after Threshold failures in a row, probes and *)
(* lazy cooling included (gateway.py:80-103).                              *)
(***************************************************************************)
THEOREM CircuitsAreHonest == Spec => []OpenIsJustified
<1>1. GatewayInv => OpenIsJustified
  <2> SUFFICES ASSUME GatewayInv, NEW p \in Provider
               PROVE  breaker[p].state # "closed" <=> Len(outage[p]) >= Threshold
    BY DEF OpenIsJustified
  <2>1. Len(outage[p]) \in Nat
    BY DEF GatewayInv, StateOK
  <2> QED
    BY <2>1, GatewayAssumption DEF GatewayInv, CircuitInv
<1> QED
  BY <1>1, GatewayInvariant, PTL

(***************************************************************************)
(* GatewayCircuitOpen, on which the worker defers without counting a       *)
(* failure, means that every circuit is open (gateway.py:45-50, 165-199).  *)
(***************************************************************************)
THEOREM OutagesAreReal == Spec => OutageMeansAllOpen
<1>1. GatewayInv /\ [Next]_vars =>
        [verdict' = "circuit_open" => \A p \in Provider : breaker[p].state = "open"]_vars
  <2> SUFFICES ASSUME GatewayInv, Next, verdict' = "circuit_open", NEW p \in Provider
               PROVE  breaker[p].state = "open"
    BY DEF vars
  <2>1. GatewayInv'
    BY StateOKStep, CircuitInvStep, CallInvStep DEF GatewayInv
  <2>2. breaker'[p].state = "open" /\ call'.pc = "idle"
    BY <2>1 DEF GatewayInv, CallInv
  <2>3. CASE UNCHANGED breaker
    BY <2>2, <2>3
  <2>4. CASE Allow \/ Fail \/ Succeed
    BY <2>4, <2>2 DEF Allow, Fail, Succeed, End, GatewayInv, CallInv
  <2> QED
    BY <2>3, <2>4 DEF Next, Run, Acquire, Exhausted, Tick
<1> QED
  BY <1>1, GatewayInvariant, PTL DEF Spec, OutageMeansAllOpen

(***************************************************************************)
(* A provider that keeps failing costs Threshold calls and then a probe    *)
(* per ResetTimeout, whatever other providers, empty buckets and slow      *)
(* probes do in between (gateway.py:64-103).                               *)
(***************************************************************************)
THEOREM OutagesAreCheap == Spec => []OutageIsCheap
<1>1. Init => OutageIsCheap
  BY GatewayAssumption DEF Init, OutageIsCheap
<1>2. GatewayInv /\ OutageIsCheap /\ [Next]_vars => OutageIsCheap'
  <2> SUFFICES ASSUME GatewayInv, OutageIsCheap, [Next]_vars,
                      NEW p \in Provider, NEW i \in 1..Len(outage'[p]), i > Threshold
               PROVE  outage'[p][i].from >= outage'[p][i - 1].to + ResetTimeout
    BY DEF OutageIsCheap
  <2> DEFINE q == call.provider
             s == outage[p]
  <2>1. s \in Seq(Failure) /\ Len(s) \in Nat
    BY DEF GatewayInv, StateOK
  <2>2. CASE outage' = outage
    BY <2>2 DEF OutageIsCheap
  <2>3. CASE Succeed
    <3>1. outage'[p] = s \/ outage'[p] = <<>>
      BY <2>3 DEF Succeed, GatewayInv, StateOK
    <3>2. outage'[p] = s
      BY <3>1, GatewayAssumption
    <3> QED
      BY <3>2 DEF OutageIsCheap
  <2>4. CASE Fail
    <3> DEFINE f == [from |-> call.since, to |-> now]
    <3>1. f \in Failure
      BY DEF GatewayInv, StateOK, Call, Failure
    <3>2. CASE p # q
      BY <2>4, <3>2 DEF Fail, GatewayInv, StateOK, OutageIsCheap
    <3>3. CASE p = q
      <4>1. outage'[p] = Append(s, f)
        BY <2>4, <3>3 DEF Fail, GatewayInv, StateOK
      <4>2. /\ Len(outage'[p]) = Len(s) + 1
            /\ outage'[p][Len(s) + 1] = f
            /\ \A j \in 1..Len(s) : outage'[p][j] = s[j]
        <5> HIDE DEF s, f
        <5> QED
          BY <4>1, <2>1, <3>1, OneMoreFailure
      <4>3. CASE i \in 1..Len(s)
        <5>1. i - 1 \in 1..Len(s)
          BY <4>3, <2>1, GatewayAssumption
        <5> QED
          BY <4>2, <4>3, <5>1 DEF OutageIsCheap
      <4>4. CASE i = Len(s) + 1
        <5>1. i - 1 = Len(s) /\ Len(s) \in 1..Len(s) /\ Len(s) >= Threshold
          BY <4>4, <2>1, GatewayAssumption
        <5>2. breaker[p].state = "half_open" /\ breaker[p].openedAt = s[Len(s)].to
          <6>1. breaker[p].state \in {"closed", "open", "half_open"}
            BY DEF GatewayInv, StateOK, Breaker
          <6>2. breaker[p].state # "open"
            BY <2>4, <3>3 DEF Fail, GatewayInv, CallInv
          <6>3. breaker[p].state # "closed"
            BY <5>1, <2>1, GatewayAssumption DEF GatewayInv, CircuitInv
          <6> QED
            BY <6>1, <6>2, <6>3 DEF GatewayInv, CircuitInv, Ended
        <5>3. call.since >= breaker[p].openedAt + ResetTimeout
          BY <2>4, <3>3, <5>2 DEF Fail, GatewayInv, CallInv
        <5> QED
          BY <4>2, <4>4, <5>1, <5>2, <5>3
      <4> QED
        BY <4>2, <4>3, <4>4, <2>1
    <3> QED
      BY <3>2, <3>3
  <2> QED
    BY <2>2, <2>3, <2>4 DEF Next, Run, Allow, Acquire, Exhausted, Tick, vars
<1> QED
  BY <1>1, <1>2, GatewayInvariant, PTL DEF Spec

-----------------------------------------------------------------------------
(***************************************************************************)
(* Calls add up.  A sum over time is a recursive function; what it is, and *)
(* that it depends on the past only, is shown by induction over instants:  *)
(* a set of instants with 0 and with the successor of each member has      *)
(* them all, or else there would be a least one that it misses.            *)
(***************************************************************************)
LEMMA LeastElement ==
    ASSUME NEW S \in SUBSET Nat, S # {}
    PROVE  \E m \in S : \A n \in S : m <= n
<1>1. \E m \in S : \A n \in S : <<n, m>> \notin OpToRel(<, Nat)
  BY NatLessThanWellFounded, WFMin
<1>2. \A m, n \in Nat : <<n, m>> \notin OpToRel(<, Nat) => m <= n
  BY DEF OpToRel
<1> QED
  BY <1>1, <1>2

\* A set of naturals with 0 and the successor of each member below a bound has them all.
LEMMA CountingUp ==
    ASSUME NEW bound \in Nat, NEW S, 0 \in S,
           \A n \in 0..bound : n \in S /\ n + 1 <= bound => n + 1 \in S
    PROVE  0..bound \subseteq S
<1> DEFINE Missed == {n \in 0..bound : n \notin S}
<1> SUFFICES ASSUME Missed # {} PROVE FALSE
  OBVIOUS
<1>0. Missed \in SUBSET Nat
  OBVIOUS
<1>1. PICK m \in Missed : \A n \in Missed : m <= n
  <2> HIDE DEF Missed
  <2> QED
    BY <1>0, LeastElement
<1>2. m # 0 /\ m - 1 \in 0..bound /\ m - 1 \notin Missed
  BY <1>1
<1> QED
  BY <1>1, <1>2

\* The recursive function exists, so it is what its definition says.
LEMMA RunningTotal ==
    ASSUME NEW f \in [Instant -> Nat]
    PROVE  /\ Running(f) \in [Instant -> Nat]
           /\ \A t \in Instant : Running(f)[t] = f[t] + UpTo(f, t)
<1> DEFINE Sums(g, n) == \A t \in 0..n : g[t] = f[t] + (IF t = 0 THEN 0 ELSE g[t - 1])
           Summed == {n \in Instant : \E g \in [0..n -> Nat] : Sums(g, n)}
<1>1. 0 \in Summed
  <2> DEFINE g == [t \in 0..0 |-> f[0]]
  <2>1. g \in [0..0 -> Nat] /\ Sums(g, 0)
    BY GatewayAssumption DEF Instant
  <2> HIDE DEF g, Sums
  <2> QED
    BY <2>1, GatewayAssumption DEF Instant
<1>2. ASSUME NEW n \in 0..MaxTime, n \in Summed, n + 1 <= MaxTime
      PROVE  n + 1 \in Summed
  <2>1. PICK g \in [0..n -> Nat] : Sums(g, n)
    BY <1>2
  <2> DEFINE h == [t \in 0..(n + 1) |-> IF t = n + 1 THEN f[n + 1] + g[n] ELSE g[t]]
  <2>2. h \in [0..(n + 1) -> Nat]
    BY <1>2, GatewayAssumption DEF Instant
  <2>3. Sums(h, n + 1)
    BY <2>1
  <2> HIDE DEF h, Sums
  <2>4. \E k \in [0..(n + 1) -> Nat] : Sums(k, n + 1)
    BY <2>2, <2>3
  <2>5. n + 1 \in Instant
    BY <1>2, GatewayAssumption DEF Instant
  <2> QED
    BY <2>4, <2>5
<1>3. PICK g \in [Instant -> Nat] : Sums(g, MaxTime)
  <2>1. 0..MaxTime \subseteq Summed
    <3> HIDE DEF Summed
    <3> QED
      BY <1>1, <1>2, CountingUp, GatewayAssumption
  <2>2. MaxTime \in Summed
    BY <2>1, GatewayAssumption
  <2> QED
    BY <2>2 DEF Instant
<1>4. g = [t \in Instant |-> f[t] + (IF t = 0 THEN 0 ELSE g[t - 1])]
  BY <1>3 DEF Instant
<1>5. Running(f) = [t \in Instant |-> f[t] + (IF t = 0 THEN 0 ELSE Running(f)[t - 1])]
  BY <1>4 DEF Running
<1>6. \A t \in Instant : Running(f)[t] = f[t] + UpTo(f, t)
  BY <1>5 DEF UpTo
<1> DEFINE Typed == {t \in Instant : Running(f)[t] \in Nat}
<1>7. 0..MaxTime \subseteq Typed
  <2>1. ASSUME NEW t \in 0..MaxTime, Running(f)[t] \in Nat, t + 1 <= MaxTime
        PROVE  Running(f)[t + 1] \in Nat
    BY <2>1, <1>6, GatewayAssumption DEF Instant, UpTo
  <2>2. Running(f)[0] \in Nat
    BY <1>6, GatewayAssumption DEF Instant, UpTo
  <2>3. /\ 0 \in Typed
        /\ \A n \in 0..MaxTime : n \in Typed /\ n + 1 <= MaxTime => n + 1 \in Typed
    BY <2>1, <2>2, GatewayAssumption DEF Instant
  <2> HIDE DEF Typed
  <2> QED
    BY <2>3, CountingUp, GatewayAssumption
<1> QED
  BY <1>5, <1>6, <1>7, GatewayAssumption DEF Instant

\* A total grows by what is begun at each instant, and depends on the past only.
LEMMA TotalsGrow ==
    ASSUME NEW f \in [Instant -> Nat]
    PROVE  /\ UpTo(f, 0) = 0
           /\ \A t \in 0..(MaxTime + 1) : UpTo(f, t) \in Nat
           /\ \A t \in Instant : UpTo(f, t + 1) = UpTo(f, t) + f[t]
<1>1. /\ Running(f) \in [Instant -> Nat]
      /\ \A t \in Instant : Running(f)[t] = f[t] + UpTo(f, t)
  BY RunningTotal
<1>2. ASSUME NEW t \in 0..(MaxTime + 1)
      PROVE  UpTo(f, t) \in Nat
  <2>1. t = 0 \/ t - 1 \in Instant
    BY GatewayAssumption DEF Instant
  <2> QED
    BY <1>1, <2>1 DEF UpTo
<1>3. ASSUME NEW t \in Instant
      PROVE  UpTo(f, t + 1) = UpTo(f, t) + f[t]
  <2>1. t \in Nat /\ t + 1 # 0 /\ (t + 1) - 1 = t /\ t \in 0..(MaxTime + 1)
    BY GatewayAssumption DEF Instant
  <2>2. UpTo(f, t + 1) = Running(f)[t]
    BY <2>1 DEF UpTo
  <2> QED
    BY <1>1, <1>2, <2>1, <2>2
<1> QED
  BY <1>2, <1>3 DEF UpTo

LEMMA TotalsRememberThePast ==
    ASSUME NEW f \in [Instant -> Nat], NEW g \in [Instant -> Nat], NEW b \in 0..(MaxTime + 1),
           \A t \in Instant : t < b => f[t] = g[t]
    PROVE  \A t \in 0..b : UpTo(f, t) = UpTo(g, t)
<1> DEFINE Same == {t \in 0..b : UpTo(f, t) = UpTo(g, t)}
<1>1. 0 \in Same
  BY TotalsGrow, GatewayAssumption
<1>2. ASSUME NEW t \in 0..b, t \in Same, t + 1 <= b
      PROVE  t + 1 \in Same
  <2>1. t \in Instant /\ t < b
    BY <1>2, GatewayAssumption DEF Instant
  <2> QED
    BY <1>2, <2>1, TotalsGrow
<1>3. 0..b \subseteq Same
  <2> HIDE DEF Same
  <2> QED
    BY <1>1, <1>2, CountingUp, GatewayAssumption
<1> QED
  BY <1>3

\* Nothing is added while nothing is begun.
LEMMA TotalsRest ==
    ASSUME NEW f \in [Instant -> Nat], NEW a \in 0..(MaxTime + 1),
           \A t \in Instant : t >= a => f[t] = 0
    PROVE  \A t \in 0..(MaxTime + 1) : t >= a => UpTo(f, t) = UpTo(f, a)
<1> DEFINE Still == {t \in 0..(MaxTime + 1) : t >= a => UpTo(f, t) = UpTo(f, a)}
<1>1. 0 \in Still
  BY GatewayAssumption
<1>2. ASSUME NEW t \in 0..(MaxTime + 1), t \in Still, t + 1 <= MaxTime + 1
      PROVE  t + 1 \in Still
  <2>1. t \in Instant /\ t + 1 \in 0..(MaxTime + 1)
    BY <1>2, GatewayAssumption DEF Instant
  <2>2. UpTo(f, t + 1) = UpTo(f, t) + f[t] /\ UpTo(f, t) \in Nat
    BY <2>1, TotalsGrow
  <2> QED
    BY <1>2, <2>1, <2>2, GatewayAssumption
<1>3. 0..(MaxTime + 1) \subseteq Still
  <2> HIDE DEF Still
  <2> QED
    BY <1>1, <1>2, CountingUp, GatewayAssumption
<1> QED
  BY <1>3

-----------------------------------------------------------------------------
\* The bucket and the calls behind it.  Nothing is begun after the last refill, and
\* since any instant before it what is left and what was begun came out of one full
\* bucket and the flow: that is why a refill may be put off until someone looks.
Settled(k, f) == \A t \in Instant : t > k.last => f[t] = 0
Funded(k, f) ==
    \A a \in 0..k.last :
      k.tokens + UpTo(f, k.last + 1) - UpTo(f, a) <= Capacity + Rate * (k.last - a)
RateInv == Settled(bucket, spent) /\ Funded(bucket, spent) /\ RateBounded

\* What flows in over two intervals, one after the other.
LEMMA Flow ==
    ASSUME NEW a \in Nat, NEW b \in Nat, NEW c \in Nat, a <= b, b <= c
    PROVE  /\ Rate * (b - a) \in Nat /\ Rate * (c - b) \in Nat
           /\ Rate * (c - a) = Rate * (b - a) + Rate * (c - b)
           /\ Rate * (b - a) <= Rate * (c - a)
<1>1. \A x, y \in Nat : Rate * x \in Nat /\ Rate * (x + y) = Rate * x + Rate * y
  BY GatewayAssumption
<1>2. b - a \in Nat /\ c - b \in Nat /\ c - a = (b - a) + (c - b)
  OBVIOUS
<1>3. Rate * (b - a) \in Nat /\ Rate * (c - b) \in Nat
  BY <1>1, <1>2
<1>4. Rate * (c - a) = Rate * (b - a) + Rate * (c - b)
  BY <1>1, <1>2
<1> QED
  BY <1>3, <1>4

\* A refill keeps the account: it forgoes what the full bucket cannot take.
LEMMA RefillIsFunded ==
    ASSUME StateOK, RateInv
    PROVE  Settled(Refilled, spent) /\ Funded(Refilled, spent)
<1> DEFINE last == bucket.last
<1>1. /\ last \in Nat /\ now \in Nat /\ last <= now /\ now <= MaxTime /\ last \in Instant
      /\ bucket.tokens \in Nat /\ spent \in [Instant -> Nat]
  BY GatewayAssumption DEF StateOK, Bucket, Instant
<1>2. Refilled \in Bucket /\ Refilled.last = now
  BY RefillBounds
<1>3. Refilled.tokens <= Capacity /\ Refilled.tokens <= bucket.tokens + Rate * (now - last)
  <2> DEFINE flow == (now - last) * Rate
  <2>1. flow = Rate * (now - last) /\ flow \in Nat
    BY <1>1, GatewayAssumption
  <2>2. Refilled.tokens = Least(Capacity, bucket.tokens + flow)
    BY DEF Refilled
  <2> HIDE DEF flow
  <2> QED
    BY <2>1, <2>2, <1>1, GatewayAssumption DEF Least
<1>4. \A t \in Instant : t > last => spent[t] = 0
  BY DEF RateInv, Settled
<1>5. Settled(Refilled, spent)
  BY <1>1, <1>2, <1>4, GatewayAssumption DEF Settled, Instant
<1>6. \A t \in (last + 1)..(MaxTime + 1) : UpTo(spent, t) = UpTo(spent, last + 1)
  <2>1. last + 1 \in 0..(MaxTime + 1) /\ \A t \in Instant : t >= last + 1 => spent[t] = 0
    BY <1>1, <1>4, GatewayAssumption DEF Instant
  <2> QED
    BY <1>1, <2>1, TotalsRest, GatewayAssumption
<1>7. ASSUME NEW a \in 0..now
      PROVE  Refilled.tokens + UpTo(spent, now + 1) - UpTo(spent, a) <= Capacity + Rate * (now - a)
  <2>1. /\ UpTo(spent, a) \in Nat /\ UpTo(spent, last + 1) \in Nat
        /\ UpTo(spent, now + 1) = UpTo(spent, last + 1)
    BY <1>1, <1>6, <1>7, TotalsGrow, GatewayAssumption
  <2>2. Refilled.tokens \in Nat /\ Capacity \in Nat
    BY <1>2, GatewayAssumption DEF Bucket
  <2>3. CASE a <= last
    <3>1. bucket.tokens + UpTo(spent, last + 1) - UpTo(spent, a) <= Capacity + Rate * (last - a)
      BY <2>3, <1>1, <1>7 DEF RateInv, Funded
    <3>2. /\ Rate * (now - a) = Rate * (last - a) + Rate * (now - last)
          /\ Rate * (last - a) \in Nat /\ Rate * (now - last) \in Nat
      <4>1. a \in Nat /\ last \in Nat /\ now \in Nat /\ a <= last /\ last <= now
        BY <2>3, <1>1, <1>7
      <4> HIDE DEF last
      <4> QED
        BY <4>1, Flow, GatewayAssumption
    <3> QED
      BY <1>1, <1>3, <2>1, <2>2, <3>1, <3>2
  <2>4. CASE a > last
    <3>1. UpTo(spent, a) = UpTo(spent, last + 1)
      <4>1. a \in (last + 1)..(MaxTime + 1)
        BY <2>4, <1>1, <1>7, GatewayAssumption
      <4> QED
        BY <4>1, <1>6
    <3>2. Rate * (now - a) \in Nat
      BY <1>1, <1>7, Flow
    <3> QED
      BY <1>3, <2>1, <2>2, <3>1, <3>2
  <2> QED
    BY <2>3, <2>4, <1>1, <1>7
<1> QED
  BY <1>2, <1>5, <1>7 DEF Funded

\* What the account says of the instant of the last refill bounds every interval that
\* ends then or later.
LEMMA FundedIsBounded ==
    ASSUME NEW k \in Bucket, NEW f \in [Instant -> Nat], Settled(k, f), Funded(k, f),
           NEW a \in Instant, NEW b \in Instant, a <= b, k.last <= b
    PROVE  UpTo(f, b + 1) - UpTo(f, a) <= Capacity + Rate * (b - a)
<1>1. /\ a \in Nat /\ b \in Nat /\ k.last \in Nat /\ k.last <= MaxTime /\ b <= MaxTime
      /\ k.tokens \in Nat /\ Capacity \in Nat
  BY GatewayAssumption DEF Instant, Bucket
<1>2. \A t \in (k.last + 1)..(MaxTime + 1) : UpTo(f, t) = UpTo(f, k.last + 1)
  <2>1. k.last + 1 \in 0..(MaxTime + 1) /\ \A t \in Instant : t >= k.last + 1 => f[t] = 0
    BY <1>1, GatewayAssumption DEF Instant, Settled
  <2> QED
    BY <1>1, <2>1, TotalsRest, GatewayAssumption
<1>3. b + 1 \in (k.last + 1)..(MaxTime + 1)
  BY <1>1, GatewayAssumption
<1>4. UpTo(f, b + 1) = UpTo(f, k.last + 1) /\ UpTo(f, a) \in Nat /\ UpTo(f, b + 1) \in Nat
  BY <1>1, <1>2, <1>3, TotalsGrow, GatewayAssumption
<1>5. CASE a <= k.last
  <2>1. k.tokens + UpTo(f, k.last + 1) - UpTo(f, a) <= Capacity + Rate * (k.last - a)
    BY <1>5, <1>1 DEF Funded
  <2> DEFINE last == k.last
  <2>2. Rate * (last - a) \in Nat /\ Rate * (b - a) \in Nat /\ Rate * (last - a) <= Rate * (b - a)
    <3>1. last \in Nat /\ a <= last /\ last <= b
      BY <1>1, <1>5
    <3> HIDE DEF last
    <3> QED
      BY <3>1, <1>1, Flow, GatewayAssumption
  <2> QED
    BY <1>1, <1>4, <2>1, <2>2
<1>6. CASE a > k.last
  <2>1. UpTo(f, a) = UpTo(f, k.last + 1)
    <3>1. a \in (k.last + 1)..(MaxTime + 1)
      BY <1>6, <1>1, GatewayAssumption
    <3> QED
      BY <3>1, <1>2
  <2>2. Rate * (b - a) \in Nat
    BY <1>1, Flow
  <2> QED
    BY <1>1, <1>4, <2>1, <2>2
<1> QED
  BY <1>1, <1>5, <1>6

LEMMA RateInvInit == Init => RateInv
<1> SUFFICES ASSUME Init PROVE RateInv
  OBVIOUS
<1>1. /\ bucket \in Bucket /\ bucket.last = 0 /\ bucket.tokens = Capacity
      /\ spent \in [Instant -> Nat] /\ \A t \in Instant : spent[t] = 0
  BY GatewayAssumption DEF Init, Bucket, Instant
<1>2. Settled(bucket, spent)
  BY <1>1 DEF Settled
<1>3. UpTo(spent, 0) = 0 /\ UpTo(spent, 1) = 0
  <2>1. 0 \in Instant /\ 0 + 1 = 1
    BY GatewayAssumption DEF Instant
  <2>2. UpTo(spent, 0) = 0 /\ UpTo(spent, 0 + 1) = UpTo(spent, 0) + spent[0]
    BY <1>1, <2>1, TotalsGrow
  <2> QED
    BY <1>1, <2>1, <2>2
<1>4. Funded(bucket, spent)
  <2>1. Rate * (0 - 0) = 0
    BY GatewayAssumption
  <2> QED
    BY <1>1, <1>3, <2>1, GatewayAssumption DEF Funded
<1>5. RateBounded
  <2>1. ASSUME NEW a \in Instant, NEW b \in Instant, a <= b
        PROVE  UpTo(spent, b + 1) - UpTo(spent, a) <= Capacity + Rate * (b - a)
    <3>1. bucket.last <= b
      BY <1>1, GatewayAssumption DEF Instant
    <3> QED
      BY <1>1, <1>2, <1>4, <2>1, <3>1, FundedIsBounded
  <2> QED
    BY <2>1 DEF RateBounded, Calls
<1> QED
  BY <1>2, <1>4, <1>5 DEF RateInv

\* Only Acquire touches the bucket and the history of the calls.
LEMMA RateInvStep == StateOK /\ StateOK' /\ RateInv /\ [Next]_vars => RateInv'
<1> SUFFICES ASSUME StateOK, StateOK', RateInv, [Next]_vars PROVE RateInv'
  OBVIOUS
<1>1. CASE UNCHANGED <<bucket, spent>>
  BY <1>1 DEF RateInv, Settled, Funded, RateBounded, Calls
<1>2. CASE Acquire
  <2>1. Settled(Refilled, spent) /\ Funded(Refilled, spent) /\ Refilled \in Bucket /\ Refilled.last = now
    BY RefillIsFunded, RefillBounds
  <2>2. /\ now \in Nat /\ now \in Instant /\ now <= MaxTime
        /\ spent \in [Instant -> Nat] /\ spent' \in [Instant -> Nat]
        /\ bucket' \in Bucket
    BY GatewayAssumption DEF StateOK, Instant
  <2>3. \A t \in Instant : t # now => spent'[t] = spent[t]
    BY <1>2, <2>2 DEF Acquire
  <2>4. \A t \in 0..now : UpTo(spent', t) = UpTo(spent, t)
    <3>1. /\ now \in 0..(MaxTime + 1)
          /\ \A t \in Instant : t < now => spent'[t] = spent[t]
      BY <2>2, <2>3, GatewayAssumption DEF Instant
    <3> QED
      BY <2>2, <3>1, TotalsRememberThePast
  <2>5. /\ bucket'.last = now
        /\ \/ bucket'.tokens = Refilled.tokens - 1 /\ spent'[now] = spent[now] + 1
           \/ bucket'.tokens = Refilled.tokens /\ spent'[now] = spent[now]
    BY <1>2, <2>1, <2>2 DEF Acquire, Bucket
  <2>6. Settled(bucket', spent')
    BY <2>1, <2>2, <2>3, <2>5, GatewayAssumption DEF Settled, Instant
  <2>7. bucket'.tokens + UpTo(spent', now + 1) = Refilled.tokens + UpTo(spent, now + 1)
    <3>1. /\ UpTo(spent', now + 1) = UpTo(spent', now) + spent'[now]
          /\ UpTo(spent, now + 1) = UpTo(spent, now) + spent[now]
          /\ UpTo(spent', now) = UpTo(spent, now) /\ UpTo(spent, now) \in Nat
      BY <2>2, <2>4, TotalsGrow, GatewayAssumption
    <3>2. spent[now] \in Nat /\ Refilled.tokens \in Nat
      BY <2>1, <2>2, GatewayAssumption DEF Bucket
    <3> QED
      BY <2>5, <3>1, <3>2
  <2>8. Funded(bucket', spent')
    <3>1. ASSUME NEW a \in 0..now
          PROVE  bucket'.tokens + UpTo(spent', now + 1) - UpTo(spent', a) <= Capacity + Rate * (now - a)
      <4>1. Refilled.tokens + UpTo(spent, now + 1) - UpTo(spent, a) <= Capacity + Rate * (now - a)
        BY <2>1, <3>1 DEF Funded
      <4>2. UpTo(spent', a) = UpTo(spent, a)
        BY <2>4, <3>1
      <4>3. UpTo(spent', a) \in Nat /\ UpTo(spent', now + 1) \in Nat /\ UpTo(spent, now + 1) \in Nat
        BY <2>2, <3>1, TotalsGrow, GatewayAssumption
      <4>4. Refilled.tokens \in Nat /\ bucket'.tokens \in Nat
        BY <2>1, <2>2, GatewayAssumption DEF Bucket
      <4>5. Rate * (now - a) \in Nat /\ Capacity \in Nat
        BY <2>2, <3>1, Flow, GatewayAssumption
      <4> QED
        BY <2>7, <4>1, <4>2, <4>3, <4>4, <4>5
    <3> QED
      BY <3>1, <2>5 DEF Funded
  <2>9. RateBounded'
    <3>1. ASSUME NEW a \in Instant, NEW b \in Instant, a <= b
          PROVE  UpTo(spent', b + 1) - UpTo(spent', a) <= Capacity + Rate * (b - a)
      <4>1. CASE b < now
        <5>1. UpTo(spent, b + 1) - UpTo(spent, a) <= Capacity + Rate * (b - a)
          BY <3>1 DEF RateInv, RateBounded, Calls
        <5>2. b + 1 \in 0..now /\ a \in 0..now
          BY <2>2, <3>1, <4>1, GatewayAssumption DEF Instant
        <5> QED
          BY <2>4, <5>1, <5>2
      <4>2. CASE now <= b
        BY <2>2, <2>5, <2>6, <2>8, <3>1, <4>2, FundedIsBounded
      <4> QED
        BY <2>2, <3>1, <4>1, <4>2, GatewayAssumption DEF Instant
    <3> QED
      BY <3>1 DEF RateBounded, Calls
  <2> QED
    BY <2>6, <2>8, <2>9 DEF RateInv
<1> QED
  BY <1>1, <1>2 DEF Next, Run, Allow, Succeed, Fail, Exhausted, Tick, vars

LEMMA RateInvariant == Spec => []RateInv
<1>1. GatewayInv /\ GatewayInv' /\ RateInv /\ [Next]_vars => RateInv'
  BY RateInvStep DEF GatewayInv
<1> QED
  BY <1>1, RateInvInit, GatewayInvariant, PTL DEF Spec

(***************************************************************************)
(* СТ-20: over any interval the worker makes no more calls than one full   *)
(* bucket and what flows in, although a refill is made only when somebody  *)
(* looks and an idle worker's bucket overflows (gateway.py:106-130).       *)
(***************************************************************************)
THEOREM RateIsBounded == Spec => []RateBounded
<1>1. RateInv => RateBounded
  BY DEF RateInv
<1> QED
  BY <1>1, RateInvariant, PTL
=============================================================================
