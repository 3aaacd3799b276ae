--------------------------- MODULE MCPublication ---------------------------
EXTENDS Publication

CONSTANTS worker, a1, c1, c2

\* The worker's main thread c1 reports failures, also while a thread of its own or one
\* it has abandoned runs an analysis; c2 is a caller in another process.
MCProcess == {worker}
MCThread == {a1, c1}
MCAttempt == {a1}
MCCaller == {c1, c2}
MCHome == [t \in MCThread |-> worker]
=============================================================================
