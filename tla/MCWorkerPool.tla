---------------------------- MODULE MCWorkerPool ----------------------------
(* WorkerPool on small instances: d1 and d2 are about the same issue.       *)
EXTENDS WorkerPool

CONSTANTS d1, d2, d3, k1, k2

MCKeyOf == [d \in Deliveries |-> IF d \in {d1, d2} THEN k1 ELSE k2]
=============================================================================
