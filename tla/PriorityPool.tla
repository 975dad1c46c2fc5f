---------------------------- MODULE PriorityPool ----------------------------
(***************************************************************************)
(* The PriorityPool of the mempool (core/mempool/src/pool.rs).  That file  *)
(* is not part of the sources at hand, so every definition here follows   *)
(* spec.md section 4.2: an ordinary queue bounded by PoolSize and ordered  *)
(* by descending priority (stable on ties), an unbounded FIFO queue of     *)
(* system-script transactions, one hash index over both queues, package    *)
(* and flush.  The pool's own locking makes each operation atomic with     *)
(* respect to the others (spec section 5: package sees a snapshot, a flush *)
(* either sees a concurrent insert or not).                                *)
(***************************************************************************)
EXTENDS Integers, Sequences, SequencesExt, FiniteSets

CONSTANTS
  Txs,        \* transaction hashes (model values)
  Sys,        \* the transactions that call a system script
  Priority,   \* Priority[tx]: the gas price the ordinary queue sorts by
  GasOf,      \* GasOf[tx]: the transaction's gas limit, summed by package
  PoolSize    \* pool_size: the bound on the ordinary queue

ASSUME Sys \subseteq Txs
ASSUME PoolSize \in Nat

VARIABLES
  queue,      \* ordinary queue, in insertion order
  sysQueue    \* system-script queue, in insertion (FIFO) order

poolVars == <<queue, sysQueue>>

(* contains(hash): the hash index covers both queues. *)
PoolContains(tx) == tx \in ToSet(queue) \cup ToSet(sysQueue)

Pooled == ToSet(queue) \cup ToSet(sysQueue)

(* reach_limit(): the ordinary queue is full. *)
ReachLimit == Len(queue) >= PoolSize

(* The outcome of insert(tx): Dup before ReachLimit before success. *)
InsertOutcome(tx) ==
  IF PoolContains(tx) THEN "Dup"
  ELSE IF ReachLimit THEN "ReachLimit"
  ELSE "Ok"

(* The outcome of insert_system_script_tx(tx): only the duplicate rule. *)
InsertSystemOutcome(tx) == IF PoolContains(tx) THEN "Dup" ELSE "Ok"

Insert(tx) ==
  /\ InsertOutcome(tx) = "Ok"
  /\ queue' = Append(queue, tx)
  /\ UNCHANGED sysQueue

InsertSystem(tx) ==
  /\ InsertSystemOutcome(tx) = "Ok"
  /\ sysQueue' = Append(sysQueue, tx)
  /\ UNCHANGED queue

(* The ordinary queue by descending priority, stable on equal priority:   *)
(* repeatedly take the first entry of highest priority.                   *)
RECURSIVE ByPriority(_)
ByPriority(q) ==
  IF q = <<>> THEN <<>>
  ELSE LET top == CHOOSE p \in {Priority[q[i]] : i \in DOMAIN q} :
                    \A i \in DOMAIN q : Priority[q[i]] <= p
           first == CHOOSE i \in DOMAIN q :
                      /\ Priority[q[i]] = top
                      /\ \A j \in 1 .. i - 1 : Priority[q[j]] # top
       IN <<q[first]>> \o ByPriority(RemoveAt(q, first))

(* Mutant: a candidate whose gas equals what is left is refused. *)
RECURSIVE TakeWithinStrict(_, _, _)
TakeWithinStrict(cands, gasLeft, numLeft) ==
  IF cands = <<>> \/ numLeft = 0 \/ GasOf[Head(cands)] >= gasLeft THEN <<>>
  ELSE <<Head(cands)>>
         \o TakeWithinStrict(Tail(cands), gasLeft - GasOf[Head(cands)], numLeft - 1)

(* Walk the candidates in order and stop at the first one that would      *)
(* break the count limit or push the gas sum over the gas limit.          *)
RECURSIVE TakeWithin(_, _, _)
TakeWithin(cands, gasLeft, numLeft) ==
  IF \/ cands = <<>>
     \/ numLeft = 0
     \/ GasOf[Head(cands)] > gasLeft
  THEN <<>>
  ELSE <<Head(cands)>>
         \o TakeWithin(Tail(cands), gasLeft - GasOf[Head(cands)], numLeft - 1)

(* package(gas_limit, tx_num_limit): system queue first, then ordinary    *)
(* entries by priority; packaged entries stay in the pool.                *)
Package(gasLimit, txNumLimit) ==
  TakeWithin(sysQueue \o ByPriority(queue), gasLimit, txNumLimit)

(* flush(committed, nonce_check): drop the committed hashes and every     *)
(* survivor for which nonce_check fails (the set nonceFails), from both   *)
(* queues.                                                                *)
Flush(hashes, nonceFails) ==
  LET Keep(tx) == tx \notin hashes \cup nonceFails
  IN /\ queue' = SelectSeq(queue, Keep)
     /\ sysQueue' = SelectSeq(sysQueue, Keep)

=============================================================================
