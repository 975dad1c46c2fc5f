---------------------------- MODULE MC_Mempool ----------------------------
(* Model-checking instance of Mempool: two ordinary transactions that fit *)
(* the pool, one system-script transaction, one transaction that fails   *)
(* check_transaction, two concurrent admissions, a pool of two.          *)
EXTENDS Mempool, TLC

CONSTANTS t1, t2, t3, t4, a1, a2

MC_Txs == {t1, t2, t3, t4}
MC_Sys == {t3}
MC_Malformed == {t4}
MC_Priority == t1 :> 1 @@ t2 :> 2 @@ t3 :> 1 @@ t4 :> 2
MC_GasOf == t1 :> 1 @@ t2 :> 2 @@ t3 :> 1 @@ t4 :> 1
MC_InitialTxs == <<t1>>
MC_Tasks == {a1, a2}
MC_RemoteProposals == {<<t2, t1>>, <<t2, t3>>, <<t1, t1>>, <<t4>>}
(* Liveness instance: one insert task and two peer proposals. *)
MC_OneTask == {a1}
MC_FewProposals == {<<t2, t1>>, <<t1, t1>>}
(* A restart whose initial_txs hold a transaction above the gas limit:   *)
(* initial_insert runs only check_storage_exist, check_transaction would  *)
(* reject it.                                                             *)
MC_OverGas == {t2, t4}
MC_InitialOverGas == <<t2>>
=============================================================================
