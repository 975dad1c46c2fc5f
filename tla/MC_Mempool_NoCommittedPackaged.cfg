CONSTANTS
  t1 = t1
  t2 = t2
  t3 = t3
  t4 = t4
  a1 = a1
  a2 = a2
  Txs <- MC_Txs
  Sys <- MC_Sys
  Malformed <- MC_Malformed
  Priority <- MC_Priority
  GasOf <- MC_GasOf
  InitialTxs <- MC_InitialTxs
  InitCommitted = {}
  Tasks <- MC_Tasks
  PoolSize = 2
  GasLimit = 2
  TxNumLimit = 2
  RemoteProposals <- MC_RemoteProposals
  PullExact = TRUE

SPECIFICATION Spec

INVARIANT NoCommittedPackaged
