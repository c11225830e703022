----------------------------- MODULE MCWorkerPool -----------------------------
(* Two API threads share the workers of one runtime, started twice. *)
EXTENDS WorkerPool

CONSTANTS a, b

TwoCallers == {a, b}
SmallCounts == {2, 5}
=============================================================================
