----------------------------- MODULE MCPipeline -----------------------------
(* Small instances of the event pipeline for TLC. *)
EXTENDS Pipeline, TLC

Symmetry == Permutations(Worker) \cup Permutations(Hook)

\* The two conditional properties say nothing about what lies beyond; an abandoned analysis
\* is followed among the webhook events alone.
Explored == overtaken = 0 /\ (abandoned => \A d \in Recon : St(d) = "absent")
=============================================================================
