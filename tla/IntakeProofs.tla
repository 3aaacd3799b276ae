---------------------------- MODULE IntakeProofs ----------------------------
(***************************************************************************)
(* Proofs about Intake, for any number of webhooks, reconcile events and   *)
(* heads, any number of cycles and crashes, with and without the verify    *)
(* port.                                                                   *)
(***************************************************************************)
EXTENDS Intake, FiniteSetTheorems, TLAPS

PullRequest == [head : Head, open : BOOLEAN, draft : BOOLEAN, stopped : BOOLEAN]
Webhook == [head : {0} \cup Head, sent : BOOLEAN, stopped : BOOLEAN]
EventRow == [state : {"absent", "recorded", "queued", "done", "dead"}, head : {0} \cup Head]
Pass == [pc : {"idle", "list", "key", "record", "put", "escalate"},
         head : {0} \cup Head, d : Recon \cup {NoDelivery}]

GitHubOK == pr \in PullRequest /\ changes \in 0..MaxChanges /\ wire \in [Hook -> Webhook]
RowsOK == /\ events \in [Delivery -> EventRow]
          /\ \A d \in Delivery : events[d].head = 0 <=> events[d].state = "absent"
\* What ingress or the sweeper has in hand was recorded.
HandOK == hand # NoDelivery => hand \in Hook /\ St(hand) = "recorded"
SweepOK == /\ sweep \in Pass
           /\ sweep.pc \in {"key", "record", "put", "escalate"} => sweep.head \in Head
           /\ sweep.pc = "put" => sweep.d \in Recon /\ St(sweep.d) = "recorded"
OthersOK == /\ holding \in BOOLEAN /\ activity \in BOOLEAN
            /\ cycles \in [Head -> 0..MaxCycles + 1]
            /\ answered \subseteq Head /\ lost \in Nat /\ crashes \in 0..MaxCrashes
StateOK == GitHubOK /\ RowsOK /\ HandOK /\ SweepOK /\ OthersOK

\* Events started for a head, and the one about to be.
Started(h) == {d \in Recon : events[d].head = h}
Starting(h) == sweep.pc = "record" /\ sweep.head = h
Committed(h) == Cardinality(Started(h)) + (IF Starting(h) THEN 1 ELSE 0)

\* Every loss of the bot's comments buys another round of MaxCycles events.  Beside the
\* rounds that are over, the counter covers what was started, until it is cleared for a
\* head that is completed; and as long as such a head stays so, Bump does not come to it.
Budget == MaxCycles * Restarts
Covered(h) == IF cycles[h] < MaxCycles THEN cycles[h] ELSE MaxCycles
CountOK(h) == /\ IsFiniteSet(Started(h))
              /\ \/ Committed(h) <= Budget + Covered(h)
                 \/ Completed(h) /\ ~Starting(h) /\ Committed(h) <= Budget + MaxCycles
CountInv == \A h \in Head : CountOK(h)

IntakeInv == StateOK /\ CountInv

-----------------------------------------------------------------------------
\* Everything but Reconcile keeps the heads of the rows of the sweeper, and with them
\* what was started.
HeadsKept == \A d \in Recon : events'[d].head = events[d].head

\* What was completed stays so, as long as the bot's comments do.
LEMMA CompletedStays ==
    ASSUME NEW h \in Head, Completed(h),
           \A d \in Delivery : St(d) = "done" => events'[d] = events[d],
           Verify /\ activity => activity'
    PROVE  Completed(h)'
BY DEF Completed, AlreadyDone, Of, St

LEMMA BudgetIs ==
    ASSUME lost \in Nat
    PROVE  /\ Budget \in Nat
           /\ lost' = lost => Budget' = Budget
           /\ lost' = lost + 1 => Budget' = Budget + (IF Verify THEN MaxCycles ELSE 0)
<1>1. MaxCycles \in Nat /\ Restarts \in Nat
  BY IntakeAssumption DEF Restarts
<1>2. lost' = lost => Restarts' = Restarts
  BY DEF Restarts
<1>3. lost' = lost + 1 => Restarts' = Restarts + (IF Verify THEN 1 ELSE 0)
  BY DEF Restarts
<1>4. MaxCycles * (Restarts + 1) = MaxCycles * Restarts + MaxCycles
  BY <1>1
<1> QED
  BY <1>1, <1>2, <1>3, <1>4 DEF Budget

\* A step that neither counts nor starts an event for the head, nor takes the comments away.
LEMMA CountFrame ==
    ASSUME StateOK, NEW h \in Head, CountOK(h),
           Started(h)' = Started(h), cycles'[h] = cycles[h], Starting(h)' => Starting(h),
           \A d \in Delivery : St(d) = "done" => events'[d] = events[d],
           activity => activity', lost' = lost
    PROVE  CountOK(h)'
<1>1. Cardinality(Started(h)) \in Nat
  BY FS_CardinalityType DEF CountOK
<1>2. Committed(h)' <= Committed(h) /\ Committed(h) \in Nat /\ Committed(h)' \in Nat
  BY <1>1 DEF Committed
<1>3. Completed(h) => Completed(h)'
  BY CompletedStays
<1>4. Covered(h) \in Nat /\ MaxCycles \in Nat /\ Covered(h)' = Covered(h)
  BY IntakeAssumption DEF StateOK, OthersOK, Covered
<1>5. Budget \in Nat /\ Budget' = Budget
  BY BudgetIs DEF StateOK, OthersOK
<1> HIDE DEF Starting, Committed, Started, Completed, Covered, Budget
<1> QED
  BY <1>2, <1>3, <1>4, <1>5 DEF CountOK

\* Without its comments a head may have to be reconciled again, for which it now has a
\* round more.
LEMMA ForgetKeeps ==
    ASSUME StateOK, NEW h \in Head, CountOK(h), Forget
    PROVE  CountOK(h)'
<1>1. Started(h)' = Started(h) /\ Starting(h)' = Starting(h) /\ Covered(h)' = Covered(h)
  BY DEF Forget, Started, Starting, Covered
<1>2. Committed(h)' = Committed(h) /\ Committed(h) \in Nat
  BY <1>1, FS_CardinalityType DEF Committed, CountOK
<1>3. Covered(h) \in Nat /\ MaxCycles \in Nat
  BY IntakeAssumption DEF StateOK, OthersOK, Covered
<1>4. Budget \in Nat /\ Budget' = Budget + (IF Verify THEN MaxCycles ELSE 0)
  BY BudgetIs DEF Forget, StateOK, OthersOK
<1>5. ~Verify /\ Completed(h) => Completed(h)'
  BY CompletedStays DEF Forget
<1> HIDE DEF Starting, Committed, Started, Completed, Covered, Budget
<1>6. CASE Verify
  BY <1>1, <1>2, <1>3, <1>4, <1>6 DEF CountOK
<1>7. CASE ~Verify
  BY <1>1, <1>2, <1>3, <1>4, <1>5, <1>7 DEF CountOK
<1> QED
  BY <1>6, <1>7

-----------------------------------------------------------------------------
LEMMA IntakeInvInit == Init => IntakeInv
<1> SUFFICES ASSUME Init PROVE IntakeInv
  OBVIOUS
<1> USE IntakeAssumption DEF Init, Head, Delivery
<1>1. StateOK
  <2>1. GitHubOK
    <3>1. 1 \in Head /\ Unsent \in Webhook /\ 0 \in 0..MaxChanges
      BY DEF Unsent, Webhook
    <3>2. pr \in PullRequest
      BY <3>1 DEF PullRequest
    <3> QED
      BY <3>1, <3>2 DEF GitHubOK
  <2>2. events \in [Delivery -> EventRow] /\ \A d \in Delivery : events[d].head = 0 /\ events[d].state = "absent"
    BY DEF NoEvent, EventRow
  <2>3. sweep \in Pass /\ sweep.pc = "idle"
    BY DEF Idle, Pass
  <2>4. cycles \in [Head -> 0..MaxCycles + 1] /\ crashes \in 0..MaxCrashes
    <3>1. 0 \in 0..MaxCycles + 1 /\ 0 \in 0..MaxCrashes
      OBVIOUS
    <3> QED
      BY <3>1
  <2> QED
    BY <2>1, <2>2, <2>3, <2>4 DEF StateOK, RowsOK, HandOK, SweepOK, OthersOK
<1>2. CountInv
  <2> SUFFICES ASSUME NEW h \in Head PROVE /\ IsFiniteSet(Started(h)) /\ Committed(h) = 0
    BY <1>1, BudgetIs DEF CountInv, CountOK, Covered, OthersOK, StateOK
  <2>1. Started(h) = {}
    BY DEF Started, NoEvent
  <2>2. ~Starting(h)
    BY DEF Starting, Idle
  <2> QED
    BY <2>1, <2>2, FS_EmptySet DEF Committed
<1> QED
  BY <1>1, <1>2 DEF IntakeInv

\* What happens to the rows: some that are not finished move on, or one is recorded.
MovesOn(ds, state) ==
    /\ RowsOK'
    /\ HeadsKept
    /\ \A d \in Delivery \ ds : events'[d] = events[d]
    /\ \A d \in ds : events'[d].state = state
    /\ \A d \in Delivery : St(d) = "done" => events'[d] = events[d]

LEMMA MovesKeep ==
    ASSUME RowsOK, NEW ds \in SUBSET Delivery, NEW state \in {"recorded", "queued", "done", "dead"},
           \A d \in ds : St(d) \in {"recorded", "queued"}, events' = Moved(ds, state)
    PROVE  MovesOn(ds, state)
BY DEF RowsOK, EventRow, Moved, St, MovesOn, HeadsKept, Delivery

LEMMA RecordKeeps ==
    ASSUME RowsOK, NEW e \in Delivery, St(e) = "absent", NEW h \in Head, events' = Recorded(e, h)
    PROVE  /\ RowsOK'
           /\ events'[e].state = "recorded" /\ events'[e].head = h
           /\ \A d \in Delivery \ {e} : events'[d] = events[d]
BY DEF RowsOK, EventRow, Recorded, St, Head

\* The passes of the sweeper that the actions make.
LEMMA PassesOK ==
    ASSUME SweepOK
    PROVE  /\ Idle \in Pass /\ Idle.pc = "idle"
           /\ [Idle EXCEPT !.pc = "list"] \in Pass
           /\ \A pc \in {"record", "escalate"} : [sweep EXCEPT !.pc = pc] \in Pass
           /\ \A h \in Head : [sweep EXCEPT !.pc = "key", !.head = h] \in Pass
           /\ \A d \in Recon : [sweep EXCEPT !.pc = "put", !.d = d] \in Pass
BY DEF SweepOK, Idle, Pass

-----------------------------------------------------------------------------
\* Beside the types: only Reconcile starts an event, done is done, and only Forget takes
\* back what the bot has said.
Settles == /\ HeadsKept \/ Reconcile
           /\ \A d \in Delivery : St(d) = "done" => events'[d] = events[d]
           /\ ((activity => activity') /\ lost' = lost) \/ Forget

LEMMA StateStep == StateOK /\ [Next]_vars => StateOK' /\ Settles
<1> SUFFICES ASSUME StateOK, [Next]_vars PROVE StateOK' /\ Settles
  OBVIOUS
<1> USE IntakeAssumption DEF past
<1>k. UNCHANGED events => RowsOK' /\ HeadsKept
  BY DEF StateOK, RowsOK, HeadsKept
<1>c. crashes + 1 \in Nat /\ (crashes < MaxCrashes => crashes + 1 \in 0..MaxCrashes)
  BY DEF StateOK, OthersOK
<1>1. CASE Author
  <2>1. GitHubOK'
    <3>1. ASSUME NEW p \in PullRequest, Change(p), UNCHANGED wire PROVE GitHubOK'
      BY <3>1 DEF Change, StateOK, GitHubOK
    <3>2. ASSUME NEW p \in PullRequest, NEW h \in {0} \cup Head, Change(p), Send(h) PROVE GitHubOK'
      <4>1. NewHook \in Hook
        BY <3>2 DEF NewHook, Send
      <4>2. wire' \in [Hook -> Webhook]
        BY <3>2, <4>1 DEF Send, Webhook, StateOK, GitHubOK, PullRequest
      <4> QED
        BY <3>2, <4>2 DEF Change, StateOK, GitHubOK
    <3>3. /\ pr.head < MaxHead => [pr EXCEPT !.head = @ + 1] \in PullRequest /\ pr.head + 1 \in Head
          /\ \A b \in BOOLEAN : /\ [pr EXCEPT !.open = b] \in PullRequest
                                /\ [pr EXCEPT !.draft = b] \in PullRequest
                                /\ [pr EXCEPT !.stopped = b] \in PullRequest
          /\ pr \in PullRequest /\ pr.head \in Head /\ pr.stopped \in BOOLEAN
      BY DEF StateOK, GitHubOK, PullRequest, Head
    <3>4. CASE Push
      BY <3>2, <3>3, <3>4 DEF Push
    <3>5. CASE Open \/ Ready \/ Ask
      BY <3>2, <3>3, <3>5 DEF Open, Ready, Ask
    <3>6. CASE Close \/ Redraft
      BY <3>1, <3>3, <3>6 DEF Close, Redraft
    <3>7. CASE Label
      <4>1. [pr EXCEPT !.stopped = ~@] = [pr EXCEPT !.stopped = ~pr.stopped]
        BY <3>3 DEF PullRequest
      <4> QED
        BY <3>1, <3>3, <3>7, <4>1 DEF Label
    <3>8. CASE Forget
      BY <3>8 DEF Forget, StateOK, GitHubOK
    <3> QED
      BY <1>1, <3>4, <3>5, <3>6, <3>7, <3>8 DEF Author
  <2>2. /\ UNCHANGED <<events, process, cycles, sweep, answered, crashes>>
        /\ UNCHANGED <<activity, lost>> \/ (Forget /\ activity' = FALSE /\ lost' = lost + 1)
    BY <1>1 DEF Forget, Author, Open, Push, Ready, Ask, Close, Redraft, Label, Change
  <2>3. Settles
    BY <1>k, <2>2 DEF Settles, HeadsKept
  <2>4. OthersOK'
    <3>1. OthersOK /\ UNCHANGED <<holding, cycles, answered, crashes>>
      BY <2>2 DEF process, StateOK
    <3>2. activity' \in BOOLEAN /\ lost' \in Nat
      <4>1. CASE UNCHANGED <<activity, lost>>
        BY <3>1, <4>1 DEF OthersOK
      <4>2. CASE activity' = FALSE /\ lost' = lost + 1
        <5>1. activity' \in BOOLEAN
          BY <4>2, Zenon
        <5>2. lost' \in Nat
          BY <3>1, <4>2, SMT DEF OthersOK
        <5> QED
          BY <5>1, <5>2
      <4> QED
        BY <2>2, <4>1, <4>2
    <3> QED
      BY <3>1, <3>2 DEF OthersOK
  <2> QED
    BY <1>k, <2>1, <2>2, <2>3, <2>4 DEF process, StateOK, HandOK, SweepOK, St
<1>2. ASSUME NEW d \in Hook, Receive(d) PROVE StateOK' /\ Settles
  <2>1. UNCHANGED <<github, cycles, sweep, answered, activity, past>> /\ hand = NoDelivery
    BY <1>2 DEF Receive
  <2>2. CASE UNCHANGED <<events, hand>>
    <3>1. holding' = TRUE
      BY <1>2, <2>1, <2>2 DEF Receive
    <3> QED
      BY <1>k, <2>1, <2>2, <3>1
      DEF github, StateOK, GitHubOK, HandOK, SweepOK, OthersOK, Settles, St
  <2>3. ASSUME NEW h \in Parsed(d), St(d) = "absent", events' = Recorded(d, h), hand' = d, holding' = FALSE
        PROVE  StateOK' /\ Settles
    <3>1. h \in Head /\ d \in Delivery
      BY DEF Parsed, Delivery
    <3>2. /\ RowsOK' /\ events'[d].state = "recorded"
          /\ \A e \in Delivery \ {d} : events'[e] = events[e]
      BY <2>3, <3>1, RecordKeeps DEF StateOK
    <3>3. HeadsKept
      BY <3>2 DEF HeadsKept, Delivery
    <3>4. SweepOK'
      BY <2>1, <2>3, <3>2 DEF SweepOK, StateOK, St, Delivery
    <3> QED
      BY <2>1, <2>3, <3>2, <3>3, <3>4 DEF github, StateOK, GitHubOK, HandOK, OthersOK, Settles, St
  <2> QED
    BY <1>2, <2>2, <2>3 DEF Receive
<1>3. CASE Schedule
  <2>1. hand \in Delivery /\ St(hand) = "recorded"
    BY <1>3 DEF Schedule, StateOK, HandOK, Delivery
  <2>2. MovesOn({hand}, "queued")
    BY <1>3, <2>1, MovesKeep DEF Schedule, StateOK
  <2>3. SweepOK'
    <3>1. sweep' = sweep /\ hand \in Hook
      BY <1>3 DEF Schedule, StateOK, HandOK
    <3> QED
      BY <2>2, <3>1 DEF MovesOn, StateOK, SweepOK, St, Delivery
  <2> QED
    BY <1>3, <2>2, <2>3 DEF Schedule, MovesOn, github, StateOK, GitHubOK, HandOK, OthersOK, Settles
<1>4. CASE IngressCrash
  BY <1>4, <1>k, <1>c
  DEF IngressCrash, github, StateOK, GitHubOK, HandOK, SweepOK, OthersOK, Settles, St
<1>5. ASSUME NEW d \in Delivery, Complete(d) \/ GiveUp(d) \/ Drop(d) PROVE StateOK' /\ Settles
  <2>1. PICK state \in {"recorded", "done", "dead"} : events' = Moved({d}, state)
    BY <1>5 DEF Complete, GiveUp, Drop
  <2>2. St(d) = "queued" /\ UNCHANGED <<github, process, cycles, sweep, past>>
    BY <1>5 DEF Complete, GiveUp, Drop
  <2>3. MovesOn({d}, state)
    BY <2>1, <2>2, MovesKeep DEF StateOK
  <2>4. HandOK' /\ SweepOK'
    BY <2>2, <2>3 DEF process, MovesOn, StateOK, HandOK, SweepOK, St, Delivery
  <2>5. events[d].head \in Head
    BY <2>2 DEF StateOK, RowsOK, EventRow, St
  <2>6. OthersOK' /\ (activity => activity')
    BY <1>5, <2>2, <2>5 DEF process, Complete, GiveUp, Drop, StateOK, OthersOK
  <2> QED
    BY <2>2, <2>3, <2>4, <2>6 DEF github, MovesOn, StateOK, GitHubOK, Settles
<1>6. CASE SweepStart
  <2>1. Overdue \in SUBSET Delivery /\ \A d \in Overdue : St(d) = "recorded" /\ d # hand
    BY DEF Overdue
  <2>2. MovesOn(Overdue, "queued")
    BY <1>6, <2>1, MovesKeep DEF SweepStart, StateOK
  <2>3. sweep' \in Pass /\ sweep'.pc = "list"
    BY <1>6, PassesOK DEF SweepStart, Goto, StateOK, Idle
  <2>4. HandOK'
    BY <1>6, <2>1, <2>2 DEF SweepStart, process, MovesOn, StateOK, HandOK, St, Delivery
  <2> QED
    BY <1>6, <2>2, <2>3, <2>4
    DEF SweepStart, github, process, MovesOn, StateOK, GitHubOK, SweepOK, OthersOK, Settles
<1>7. CASE List \/ ListFails \/ InWork \/ Refused
  <2>1. UNCHANGED <<github, events, process, cycles, answered, activity, past>>
    BY <1>7 DEF List, ListFails, InWork, Refused, OnlySweep
  <2>2. pr.head \in Head
    BY DEF StateOK, GitHubOK, PullRequest
  <2>3. sweep' = Idle \/ (sweep' = [sweep EXCEPT !.pc = "key", !.head = pr.head])
    BY <1>7 DEF List, ListFails, InWork, Refused, Goto
  <2>4. CASE sweep' = Idle
    BY <1>k, <2>1, <2>4, PassesOK
    DEF github, process, StateOK, GitHubOK, HandOK, SweepOK, OthersOK, Settles, St
  <2>5. CASE sweep' = [sweep EXCEPT !.pc = "key", !.head = pr.head]
    <3>1. sweep' \in Pass /\ sweep'.pc = "key" /\ sweep'.head = pr.head
      BY <2>2, <2>5, PassesOK DEF StateOK, SweepOK, Pass
    <3> QED
      BY <1>k, <2>1, <2>2, <3>1
      DEF github, process, StateOK, GitHubOK, HandOK, SweepOK, OthersOK, Settles, St
  <2> QED
    BY <2>3, <2>4, <2>5
<1>8. CASE Settled
  <2>1. cycles' \in [Head -> 0..MaxCycles + 1]
    <3>1. 0 \in 0..MaxCycles + 1
      OBVIOUS
    <3>2. cycles \in [Head -> 0..MaxCycles + 1] /\ cycles' = [cycles EXCEPT ![sweep.head] = 0]
      BY <1>8 DEF Settled, StateOK, OthersOK
    <3> QED
      BY <3>1, <3>2
  <2>2. SweepOK'
    BY <1>8, PassesOK DEF Settled, Goto, StateOK, SweepOK
  <2> QED
    BY <1>k, <1>8, <2>1, <2>2 DEF Settled, github, process, StateOK, GitHubOK, HandOK, OthersOK, Settles, St
<1>9. CASE Bump
  <2>1. sweep.head \in Head /\ sweep.pc = "key"
    BY <1>9 DEF Bump, StateOK, SweepOK
  <2>2. cycles' \in [Head -> 0..MaxCycles + 1]
    BY <1>9, <2>1 DEF Bump, Counted, StateOK, OthersOK
  <2>3. sweep' = Idle \/ \E pc \in {"record", "escalate"} : sweep' = [sweep EXCEPT !.pc = pc]
    BY <1>9 DEF Bump, Goto
  <2>4. SweepOK'
    <3>1. sweep \in Pass
      BY DEF StateOK, SweepOK
    <3>2. CASE sweep' = Idle
      BY <3>2, PassesOK DEF StateOK, SweepOK
    <3>3. ASSUME NEW pc \in {"record", "escalate"}, sweep' = [sweep EXCEPT !.pc = pc] PROVE SweepOK'
      <4>1. sweep'.pc = pc /\ sweep'.head = sweep.head
        BY <3>1, <3>3 DEF Pass
      <4>2. sweep' \in Pass
        BY <3>1, <3>3 DEF Pass
      <4> QED
        BY <2>1, <4>1, <4>2 DEF SweepOK
    <3> QED
      BY <2>3, <3>2, <3>3
  <2> QED
    BY <1>k, <1>9, <2>2, <2>4 DEF Bump, github, process, StateOK, GitHubOK, HandOK, OthersOK, Settles, St
<1>10. CASE Reconcile
  <2>1. NewRecon \in Recon /\ St(NewRecon) = "absent" /\ sweep.head \in Head /\ sweep.pc = "record"
    BY <1>10 DEF Reconcile, NewRecon, StateOK, SweepOK
  <2>2. /\ RowsOK' /\ events'[NewRecon].state = "recorded"
        /\ \A e \in Delivery \ {NewRecon} : events'[e] = events[e]
    BY <1>10, <2>1, RecordKeeps DEF Reconcile, StateOK, Delivery
  <2>3. sweep' \in Pass /\ sweep'.d = NewRecon /\ sweep'.head \in Head
    BY <1>10, <2>1, PassesOK DEF Reconcile, Goto, StateOK, SweepOK, Pass
  <2>4. HandOK' /\ SweepOK'
    BY <1>10, <2>1, <2>2, <2>3 DEF Reconcile, process, StateOK, HandOK, SweepOK, St, Delivery
  <2> QED
    BY <1>10, <2>1, <2>2, <2>4 DEF Reconcile, github, process, StateOK, GitHubOK, OthersOK, Settles, St
<1>11. CASE Put
  <2>1. sweep.d \in Recon /\ St(sweep.d) = "recorded"
    BY <1>11 DEF Put, StateOK, SweepOK
  <2>2. MovesOn({sweep.d}, "queued")
    BY <1>11, <2>1, MovesKeep DEF Put, StateOK, Delivery
  <2>3. HandOK'
    BY <1>11, <2>1, <2>2 DEF Put, process, MovesOn, StateOK, HandOK, St, Delivery
  <2>4. SweepOK'
    BY <1>11, PassesOK DEF Put, Goto, StateOK, SweepOK
  <2> QED
    BY <1>11, <2>2, <2>3, <2>4 DEF Put, github, process, MovesOn, StateOK, GitHubOK, OthersOK, Settles
<1>12. CASE Escalate
  <2>1. sweep.head \in Head /\ SweepOK'
    BY <1>12, PassesOK DEF Escalate, Goto, StateOK, SweepOK
  <2> QED
    BY <1>k, <1>12, <2>1 DEF Escalate, github, process, StateOK, GitHubOK, HandOK, OthersOK, Settles, St
<1>13. CASE SweepCrash
  <2>1. SweepOK'
    BY <1>13, PassesOK DEF SweepCrash, Goto, StateOK, SweepOK
  <2> QED
    BY <1>k, <1>c, <1>13, <2>1 DEF SweepCrash, github, process, StateOK, GitHubOK, HandOK, OthersOK, Settles, St
<1>14. CASE UNCHANGED vars
  BY <1>k, <1>14 DEF vars, github, process, StateOK, GitHubOK, HandOK, SweepOK, OthersOK, Settles, St
<1> QED
  BY <1>1, <1>2, <1>3, <1>4, <1>5, <1>6, <1>7, <1>8, <1>9, <1>10, <1>11, <1>12, <1>13, <1>14
  DEF Next, Work, SweepStep

-----------------------------------------------------------------------------
LEMMA CountStep == IntakeInv /\ [Next]_vars => CountInv'
<1> SUFFICES ASSUME IntakeInv, [Next]_vars, NEW h \in Head PROVE CountOK(h)'
  BY DEF CountInv
<1>a. StateOK /\ CountOK(h) /\ Settles
  BY StateStep DEF IntakeInv, CountInv
<1> DEFINE k == sweep.head
           n == Cardinality(Started(h))
<1>n. /\ IsFiniteSet(Started(h)) /\ n \in Nat /\ MaxCycles \in Nat
      /\ cycles \in [Head -> 0..MaxCycles + 1] /\ cycles[h] \in Nat
  BY <1>a, FS_CardinalityType, IntakeAssumption DEF CountOK, StateOK, OthersOK
<1>b. Budget \in Nat /\ (lost' = lost => Budget' = Budget)
  BY <1>a, BudgetIs DEF StateOK, OthersOK
<1>o. Covered(h) \in Nat /\ Covered(h) <= MaxCycles
  BY <1>n DEF Covered
<1>s. HeadsKept => Started(h)' = Started(h)
  BY DEF HeadsKept, Started
<1>e. \/ (activity => activity') /\ lost' = lost
      \/ Forget
  BY <1>a DEF Settles
<1>d. \A d \in Delivery : St(d) = "done" => events'[d] = events[d]
  BY <1>a DEF Settles
<1>f. ASSUME HeadsKept, cycles'[h] = cycles[h], Starting(h)' => Starting(h) PROVE CountOK(h)'
  <2>1. CASE (activity => activity') /\ lost' = lost
    BY <1>a, <1>d, <1>f, <1>s, <2>1, CountFrame
  <2>2. CASE Forget
    BY <1>a, <2>2, ForgetKeeps
  <2> QED
    BY <1>e, <2>1, <2>2
<1>1. CASE Settled
  <2>1. HeadsKept /\ ~Starting(h)'
    BY <1>1 DEF Settled, HeadsKept, Starting, Goto, Idle
  <2>2. CASE h # k
    BY <1>f, <1>1, <1>n, <2>1, <2>2 DEF Settled
  <2>3. CASE h = k
    <3>1. Completed(h) /\ ~Starting(h)
      BY <1>1, <2>3 DEF Settled, Starting
    <3>2. activity' = activity /\ lost' = lost
      BY <1>1 DEF Settled, past
    <3>3. Completed(h)'
      BY <1>d, <3>1, <3>2, CompletedStays
    <3>4. Committed(h)' = n /\ Committed(h) = n
      BY <1>n, <1>s, <2>1, <3>1 DEF Committed
    <3>5. n <= Budget + MaxCycles
      <4> HIDE DEF n, Starting, Completed, Budget, Covered, Committed
      <4> QED
        BY <1>a, <1>b, <1>n, <1>o, <3>4 DEF CountOK
    <3> QED
      BY <1>b, <1>n, <1>s, <2>1, <3>2, <3>3, <3>4, <3>5 DEF CountOK
  <2> QED
    BY <2>2, <2>3
<1>2. CASE Bump
  <2>1. HeadsKept /\ ~Starting(h) /\ sweep.pc = "key"
    BY <1>2 DEF Bump, HeadsKept, Starting
  <2>2. CASE h # k
    <3>1. ~Starting(h)'
      BY <1>2, <2>2, <1>a DEF Bump, Starting, Goto, StateOK, SweepOK, Pass, Idle
    <3> QED
      BY <1>f, <1>2, <1>n, <2>1, <2>2, <3>1 DEF Bump
  <2>3. CASE h = k
    <3>1. ~Completed(h) /\ cycles'[h] = Counted(cycles[h]) /\ lost' = lost
      BY <1>2, <2>3, <1>n DEF Bump, past
    <3>2. n <= Budget + Covered(h)
      <4>1. Committed(h) = n
        BY <1>n, <2>1 DEF Committed
      <4> QED
        BY <1>a, <3>1, <4>1 DEF CountOK
    <3>3. Starting(h)' => cycles[h] < MaxCycles
      BY <1>2, <2>3, <1>a DEF Bump, Starting, Goto, StateOK, SweepOK, Pass, Idle
    <3>4. Committed(h)' = n + (IF Starting(h)' THEN 1 ELSE 0)
      BY <1>s, <2>1 DEF Committed
    <3>5. Covered(h)' = (IF cycles[h] < MaxCycles THEN cycles[h] + 1 ELSE MaxCycles)
      BY <1>n, <3>1 DEF Covered, Counted
    <3>6. Covered(h) = (IF cycles[h] < MaxCycles THEN cycles[h] ELSE MaxCycles)
      BY DEF Covered
    <3>7. Committed(h)' <= Budget' + Covered(h)'
      <4> HIDE DEF n, Starting, Covered, Budget, Committed
      <4>1. Budget' = Budget /\ Budget \in Nat
        BY <1>b, <3>1
      <4>2. CASE cycles[h] < MaxCycles
        BY <1>n, <3>2, <3>4, <3>5, <3>6, <4>1, <4>2
      <4>3. CASE ~(cycles[h] < MaxCycles)
        BY <1>n, <3>2, <3>3, <3>4, <3>5, <3>6, <4>1, <4>3
      <4> QED
        BY <4>2, <4>3
    <3> QED
      BY <1>n, <1>s, <2>1, <3>7 DEF CountOK
  <2> QED
    BY <2>2, <2>3
<1>3. CASE Reconcile
  <2>1. /\ NewRecon \in Recon /\ events[NewRecon].head = 0 /\ k \in Head
        /\ sweep.pc = "record" /\ cycles' = cycles
    BY <1>3, <1>a DEF Reconcile, NewRecon, StateOK, SweepOK, RowsOK, St, Delivery
  <2>2. /\ events'[NewRecon].head = k
        /\ \A d \in Recon \ {NewRecon} : events'[d] = events[d]
    BY <1>3, <1>a, <2>1, RecordKeeps DEF Reconcile, StateOK, NewRecon, Delivery
  <2>3. ~Starting(h)' /\ h # 0
    BY <1>3, <1>a, <2>1 DEF Reconcile, Starting, Goto, StateOK, SweepOK, Pass, Head
  <2>4. activity' = activity /\ lost' = lost
    BY <1>3 DEF Reconcile, past
  <2>5. CASE h # k
    <3>1. Started(h)' = Started(h)
      BY <2>1, <2>2, <2>3, <2>5 DEF Started
    <3> QED
      BY <1>a, <1>d, <2>1, <2>3, <2>4, <3>1, CountFrame
  <2>6. CASE h = k
    <3>1. Started(h)' = Started(h) \cup {NewRecon} /\ NewRecon \notin Started(h)
      BY <2>1, <2>2, <2>3, <2>6 DEF Started
    <3>2. IsFiniteSet(Started(h)') /\ Cardinality(Started(h)') = n + 1
      BY <3>1, <1>n, FS_AddElement
    <3>3. Starting(h)
      BY <2>1, <2>6 DEF Starting
    <3>4. Committed(h) = n + 1 /\ Committed(h)' = n + 1
      <4>1. Committed(h) = n + (IF Starting(h) THEN 1 ELSE 0)
        BY DEF Committed
      <4>2. Committed(h)' = Cardinality(Started(h)') + (IF Starting(h)' THEN 1 ELSE 0)
        BY DEF Committed
      <4> HIDE DEF n
      <4> QED
        BY <1>n, <2>3, <3>2, <3>3, <4>1, <4>2
    <3>5. Committed(h) <= Budget + Covered(h)
      BY <1>a, <3>3 DEF CountOK
    <3>6. Budget' = Budget /\ Covered(h)' = Covered(h)
      BY <1>b, <2>1, <2>4 DEF Covered
    <3>7. Committed(h)' <= Budget' + Covered(h)'
      BY <3>4, <3>5, <3>6
    <3>8. IsFiniteSet(Started(h))'
      BY <3>2
    <3> QED
      BY <3>7, <3>8 DEF CountOK
  <2> QED
    BY <2>5, <2>6
<1>4. CASE ~Settled /\ ~Bump /\ ~Reconcile
  <2>1. HeadsKept
    BY <1>4, <1>a DEF Settles
  <2>2. cycles' = cycles
    BY <1>4 DEF Next, Author, Forget, Open, Push, Ready, Ask, Close, Redraft, Label, Change, Receive, Schedule,
       IngressCrash, Work, Complete, GiveUp, Drop, SweepStart, List, ListFails, SweepStep, InWork, Put,
       Escalate, Refused, SweepCrash, OnlySweep, vars
  <2>3. sweep' = sweep \/ sweep'.pc # "record"
    <3>1. CASE UNCHANGED sweep
      BY <3>1
    <3>2. CASE SweepStart \/ List \/ ListFails \/ InWork \/ Put \/ Escalate \/ Refused \/ SweepCrash
      <4>1. \/ sweep' = Idle
            \/ sweep' = [Idle EXCEPT !.pc = "list"]
            \/ sweep' = [sweep EXCEPT !.pc = "key", !.head = pr.head]
        BY <3>2 DEF SweepStart, List, ListFails, InWork, Put, Escalate, Refused, SweepCrash, Goto
      <4>2. Idle.pc = "idle" /\ [Idle EXCEPT !.pc = "list"].pc = "list"
        BY DEF Idle
      <4>3. [sweep EXCEPT !.pc = "key", !.head = pr.head].pc = "key"
        BY <1>a DEF StateOK, SweepOK, Pass
      <4> QED
        BY <4>1, <4>2, <4>3
    <3> QED
      BY <1>4, <3>1, <3>2 DEF Next, Author, Forget, Open, Push, Ready, Ask, Close, Redraft, Label, Change,
         Receive, Schedule, IngressCrash, Work, Complete, GiveUp, Drop, SweepStep, vars
  <2> QED
    BY <1>f, <2>1, <2>2, <2>3 DEF Starting
<1> QED
  BY <1>1, <1>2, <1>3, <1>4

-----------------------------------------------------------------------------
LEMMA IntakeInvariant == Spec => []IntakeInv
<1>1. IntakeInv /\ [Next]_vars => IntakeInv'
  BY StateStep, CountStep DEF IntakeInv
<1> QED
  BY <1>1, IntakeInvInit, PTL DEF Spec

(***************************************************************************)
(* Pull request, webhooks, rows, counters and the pass of the sweeper keep *)
(* their types, and every row carries the head of its business key         *)
(* (state.py:144-158).                                                     *)
(***************************************************************************)
THEOREM TypeCorrect == Spec => []TypeOK
<1>1. IntakeInv => TypeOK
  BY DEF IntakeInv, StateOK, GitHubOK, RowsOK, HandOK, SweepOK, OthersOK, TypeOK,
         PullRequest, Webhook, EventRow, Pass
<1> QED
  BY <1>1, IntakeInvariant, PTL

(***************************************************************************)
(* The sweeper starts at most max_cycles events for a head, and as many    *)
(* again for each time the comments that had settled it went away:         *)
(* clear_reconcile starts the count anew, but of a head that Bump does not *)
(* come to again before that (sweeper.py:95-118).                          *)
(***************************************************************************)
THEOREM ReconciliationIsBounded == Spec => []ReconcileBounded
<1>1. IntakeInv => ReconcileBounded
  <2> SUFFICES ASSUME IntakeInv, NEW h \in Head
               PROVE  Cardinality(Started(h)) <= MaxCycles * (1 + Restarts)
    BY DEF ReconcileBounded, Started
  <2>1. Cardinality(Started(h)) \in Nat /\ MaxCycles \in Nat /\ CountOK(h)
    BY FS_CardinalityType, IntakeAssumption DEF IntakeInv, CountInv, CountOK
  <2>2. Restarts \in Nat /\ Budget \in Nat
    BY BudgetIs DEF IntakeInv, StateOK, OthersOK, Restarts
  <2>3. Covered(h) \in Nat /\ Covered(h) <= MaxCycles
    BY <2>1 DEF IntakeInv, StateOK, OthersOK, Covered
  <2>4. Committed(h) \in Nat /\ Cardinality(Started(h)) <= Committed(h)
    BY <2>1 DEF Committed
  <2>5. Committed(h) <= Budget + MaxCycles
    <3> HIDE DEF Committed, Budget, Covered, Completed, Starting
    <3> QED
      BY <2>1, <2>2, <2>3, <2>4 DEF CountOK
  <2>6. MaxCycles * (1 + Restarts) = Budget + MaxCycles
    BY <2>1, <2>2 DEF Budget
  <2>7. Cardinality(Started(h)) <= Budget + MaxCycles
    <3> HIDE DEF Committed, Budget
    <3> QED
      BY <2>1, <2>2, <2>4, <2>5
  <2> QED
    BY <2>6, <2>7
<1> QED
  BY <1>1, IntakeInvariant, PTL
=============================================================================
