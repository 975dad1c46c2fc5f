-------------------------- MODULE MC_MemoryAdapter --------------------------
EXTENDS MemoryAdapter

CONSTANTS c1, k1, k2, v1, th1, th2, th3

(* One category, two keys and one value.  The batches: a key set and     *)
(* then removed in one batch, and the reverse.                            *)
MC_Batches ==
  { <<[key |-> k1, val |-> v1], [key |-> k1, val |-> None]>>,
    <<[key |-> k1, val |-> None], [key |-> k1, val |-> v1]>> }
====
