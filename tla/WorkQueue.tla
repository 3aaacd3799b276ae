------------------------------ MODULE WorkQueue ------------------------------
(***************************************************************************)
(* What reliability/queue.py promises its callers (queue.py:1-13): each    *)
(* message is worked on by at most one worker at a time, is never handed   *)
(* out again once it is acknowledged or dead-lettered, and never vanishes. *)
(* Clocks, tokens, partitions and attempts are absent here; DurableQueue   *)
(* implements this specification with them.                                *)
(***************************************************************************)
EXTENDS Naturals

CONSTANTS Worker, Message   \* Message is a set of positive numbers

VARIABLES
    status,   \* where each message is
    task      \* the message each worker is working on, 0 if none

wvars == <<status, task>>

Status == {"absent", "pending", "acked", "dead"}
Free(m) == \A w \in Worker : task[w] # m

Init == /\ status = [m \in Message |-> "absent"]
        /\ task = [w \in Worker |-> 0]

Put(m) == /\ status[m] = "absent"
          /\ status' = [status EXCEPT ![m] = "pending"]
          /\ UNCHANGED task

Take(w, m) == /\ task[w] = 0
              /\ status[m] = "pending"
              /\ Free(m)
              /\ task' = [task EXCEPT ![w] = m]
              /\ UNCHANGED status

\* The worker lets go of its message, which ends up acked, dead or pending again.
Settle(w, fate) == /\ task[w] # 0
                   /\ status' = [status EXCEPT ![task[w]] = fate]
                   /\ task' = [task EXCEPT ![w] = 0]

\* A message that keeps killing its workers is set aside while nobody has it.
Bury(m) == /\ status[m] = "pending"
           /\ Free(m)
           /\ status' = [status EXCEPT ![m] = "dead"]
           /\ UNCHANGED task

Next == \/ \E m \in Message : Put(m) \/ Bury(m)
        \/ \E w \in Worker, m \in Message : Take(w, m)
        \/ \E w \in Worker, fate \in {"acked", "dead", "pending"} : Settle(w, fate)

Spec == Init /\ [][Next]_wvars
=============================================================================
