------------------------------ MODULE Mempool ------------------------------
(***************************************************************************)
(* MemPoolImpl (core/mempool/src/lib.rs) driven by the consensus adapter   *)
(* (core/consensus/src/adapter.rs).                                        *)
(*                                                                         *)
(* Concurrent MemPool::insert calls (one per task in Tasks) run insert_tx, *)
(* which suspends at every adapter await: the pool and the chain may       *)
(* change between its checks and its insertion.  One consensus engine     *)
(* drives the node height by height through the adapter: it packages a     *)
(* local proposal (get_txs_from_mempool) or checks a proposal of a peer    *)
(* (verify_txs -> ensure_order_txs), then commits: save_signed_txs and     *)
(* save_block, set_args with the new state root, flush_mempool.            *)
(*                                                                         *)
(* Data abstraction: a transaction is its hash.  The account nonce state   *)
(* is abstracted to "a committed transaction's nonce is consumed", so      *)
(* check_authorization fails exactly for the transactions committed as of  *)
(* the state root the adapter last received through set_args (argsRoot).  *)
(* check_transaction's size/gas/chain/timeout checks are the constant set  *)
(* Malformed.  Broadcast and peer scoring change no modelled state.        *)
(***************************************************************************)
EXTENDS Integers, Sequences, SequencesExt, FiniteSets, Functions

CONSTANTS
  Txs, Sys, Priority, GasOf, PoolSize,   \* see PriorityPool
  Malformed,        \* transactions check_transaction rejects
  InitialTxs,       \* initial_txs given to MemPoolImpl::new, a sequence
  InitCommitted,    \* transactions already on chain at start
  Tasks,            \* concurrent MemPool::insert calls
  GasLimit,         \* gas_limit passed to get_txs_from_mempool
  TxNumLimit,       \* tx_num_limit passed to get_txs_from_mempool
  RemoteProposals,  \* ordered hash lists proposed by other validators
  PullExact         \* the peer answers pull_txs with the requested txs

ASSUME Malformed \subseteq Txs /\ InitCommitted \subseteq Txs
ASSUME InitialTxs \in Seq(Txs)
ASSUME RemoteProposals \subseteq Seq(Txs) /\ PullExact \in BOOLEAN

VARIABLES
  queue, sysQueue,  \* the PriorityPool
  committed,        \* transactions in storage (save_signed_txs)
  argsRoot,         \* committed set as of the state root of the last set_args
  job,              \* job[t]: the transaction task t inserts
  pc,               \* pc[t]: where insert_tx of task t is suspended
  phase,            \* where the consensus engine is in the current height
  proposer,         \* "self" for a packaged proposal, "peer" otherwise
  proposal,         \* ordered hashes of the block being decided
  unknown,          \* hashes of the proposal not in the pool, being pulled
  verdict,          \* outcome of the last ensure_order_txs
  lastBlock,        \* ordered hashes of the last committed block
  fetch             \* a get_full_txs call in progress or its result

vars == <<queue, sysQueue, committed, argsRoot, job, pc,
          phase, proposer, proposal, unknown, verdict, lastBlock, fetch>>
taskVars == <<job, pc>>
engineVars == <<phase, proposer, proposal, unknown, verdict>>
fetchVars == <<lastBlock, fetch>>

Pool == INSTANCE PriorityPool

Stages == {"check", "storage", "insert", "done"}
Phases == {"idle", "pull", "verify", "insert", "commit", "args", "flush"}
Verdicts == {"none", "ok", "EnsureDup", "EnsureBreak", "VerifyBatch",
             "Dup", "ReachLimit"}

NoFetch == [pc |-> "idle", req |-> <<>>, found |-> <<>>, missing |-> <<>>,
            res |-> <<>>, ok |-> TRUE]

-----------------------------------------------------------------------------
(* MemPoolImpl::new: each initial transaction goes through initial_insert *)
(* (check_storage_exist, then pool.insert into the ordinary queue); a     *)
(* failure is only logged.                                                *)
InitialInsert(q, tx) ==
  IF tx \in InitCommitted \/ tx \in ToSet(q) \/ Len(q) >= PoolSize
  THEN q ELSE Append(q, tx)

InitialQueue == FoldLeft(InitialInsert, <<>>, InitialTxs)

Init ==
  /\ queue = InitialQueue
  /\ sysQueue = <<>>
  /\ committed = InitCommitted
  /\ argsRoot = InitCommitted
  /\ job \in [Tasks -> Txs]
  /\ pc = [t \in Tasks |-> "check"]
  /\ phase = "idle"
  /\ proposer = "self"
  /\ proposal = <<>>
  /\ unknown = <<>>
  /\ verdict = "none"
  /\ lastBlock = <<>>
  /\ fetch = NoFetch

Goto(t, stage) == pc' = [pc EXCEPT ![t] = stage]

-----------------------------------------------------------------------------
(* insert_tx, one action per stretch between two awaits.                  *)

(* reach_limit, then check_authorization against the state root of the   *)
(* last set_args, then check_transaction.                                 *)
Admissible(tx) ==
  /\ ~Pool!ReachLimit
  /\ tx \notin argsRoot
  /\ tx \notin Malformed

CheckAdmission(t) ==
  /\ pc[t] = "check"
  /\ \/ Admissible(job[t]) /\ Goto(t, "storage")
     \/ ~Admissible(job[t]) /\ Goto(t, "done")
  /\ UNCHANGED <<queue, sysQueue, committed, argsRoot, job, engineVars>>
  /\ UNCHANGED fetchVars

(* check_storage_exist: CommittedTx if the transaction is on chain. *)
CheckStorage(t) ==
  /\ pc[t] = "storage"
  /\ \/ job[t] \notin committed /\ Goto(t, "insert")
     \/ job[t] \in committed /\ Goto(t, "done")
  /\ UNCHANGED <<queue, sysQueue, committed, argsRoot, job, engineVars>>
  /\ UNCHANGED fetchVars

(* Mutant: the system-script test is inverted. *)
InsertIntoPoolSwapped(t) ==
  LET tx == job[t] IN
  /\ pc[t] = "insert"
  /\ \/ tx \notin Sys /\ Pool!InsertSystem(tx)
     \/ tx \in Sys /\ Pool!Insert(tx)
     \/ Pool!InsertOutcome(tx) # "Ok" /\ UNCHANGED <<queue, sysQueue>>
  /\ Goto(t, "done")
  /\ UNCHANGED <<committed, argsRoot, job, engineVars>>
  /\ UNCHANGED fetchVars

(* Insertion into the queue the action selects, then broadcast_tx or      *)
(* report_good; a pool error (Dup, ReachLimit) ends the call.             *)
InsertIntoPool(t) ==
  LET tx == job[t] IN
  /\ pc[t] = "insert"
  /\ \/ tx \in Sys /\ Pool!InsertSystem(tx)
     \/ tx \notin Sys /\ Pool!Insert(tx)
     \/ tx \in Sys /\ Pool!InsertSystemOutcome(tx) # "Ok"
        /\ UNCHANGED <<queue, sysQueue>>
     \/ tx \notin Sys /\ Pool!InsertOutcome(tx) # "Ok"
        /\ UNCHANGED <<queue, sysQueue>>
  /\ Goto(t, "done")
  /\ UNCHANGED <<committed, argsRoot, job, engineVars>>
  /\ UNCHANGED fetchVars

-----------------------------------------------------------------------------
(* The consensus engine, through OverlordConsensusAdapter.                *)

(* get_txs_from_mempool -> MemPool::package. *)
Propose ==
  /\ phase = "idle"
  /\ proposal' = Pool!Package(GasLimit, TxNumLimit)
  /\ proposer' = "self"
  /\ phase' = "commit"
  /\ UNCHANGED <<queue, sysQueue, committed, argsRoot, taskVars,
                 unknown, verdict>>
  /\ UNCHANGED fetchVars

HasDuplicate(p) == ~IsInjective(p)

(* show_unknown_txs: the hashes the pool does not hold, in order. *)
ShowUnknownTxs(hashes) == SelectSeq(hashes, LAMBDA tx : ~Pool!PoolContains(tx))

(* verify_txs -> ensure_order_txs: check_dup_order_hashes, then          *)
(* show_unknown_txs; with nothing unknown the proposal is accepted.       *)
ReceiveProposal ==
  /\ phase = "idle"
  /\ \E p \in RemoteProposals :
       LET missing == ShowUnknownTxs(p) IN
       \/ /\ HasDuplicate(p)
          /\ verdict' = "EnsureDup"
          /\ UNCHANGED <<phase, proposer, proposal, unknown>>
       \/ /\ ~HasDuplicate(p)
          /\ missing = <<>>
          /\ verdict' = "ok"
          /\ phase' = "commit"
          /\ proposer' = "peer"
          /\ proposal' = p
          /\ UNCHANGED unknown
       \/ /\ ~HasDuplicate(p)
          /\ missing # <<>>
          /\ phase' = "pull"
          /\ proposer' = "peer"
          /\ proposal' = p
          /\ unknown' = missing
          /\ UNCHANGED verdict
  /\ UNCHANGED <<queue, sysQueue, committed, argsRoot, taskVars>>
  /\ UNCHANGED fetchVars

Reject(reason) ==
  /\ verdict' = reason
  /\ phase' = "idle"
  /\ proposal' = <<>>
  /\ unknown' = <<>>
  /\ UNCHANGED proposer

(* adapter.pull_txs: a response of the wrong size is EnsureBreak.  The    *)
(* code compares only the length with the request, so unless PullExact    *)
(* the answer is any sequence of that length; it replaces the hashes.     *)
PullResponses ==
  IF PullExact THEN {unknown} ELSE [1 .. Len(unknown) -> Txs]

PullTxs ==
  /\ phase = "pull"
  /\ \/ \E resp \in PullResponses :
          phase' = "verify" /\ unknown' = resp
          /\ UNCHANGED <<proposer, proposal, verdict>>
     \/ Reject("EnsureBreak")
  /\ UNCHANGED <<queue, sysQueue, committed, argsRoot, taskVars>>
  /\ UNCHANGED fetchVars

(* verify_tx_in_parallel: every pulled transaction passes                *)
(* check_authorization, check_transaction and check_storage_exist.        *)
BatchValid(txs) ==
  \A tx \in ToSet(txs) :
    tx \notin argsRoot /\ tx \notin Malformed /\ tx \notin committed

VerifyPulled ==
  /\ phase = "verify"
  /\ \/ BatchValid(unknown) /\ phase' = "insert"
        /\ UNCHANGED <<proposer, proposal, unknown, verdict>>
     \/ ~BatchValid(unknown) /\ Reject("VerifyBatch")
  /\ UNCHANGED <<queue, sysQueue, committed, argsRoot, taskVars>>
  /\ UNCHANGED fetchVars

(* The loop `self.pool.insert(signed_tx)?`: one pulled transaction per    *)
(* step, into the ordinary queue; after the last one, report_good.        *)
InsertPulled ==
  LET tx == Head(unknown) IN
  /\ phase = "insert"
  /\ \/ /\ Pool!Insert(tx)
        /\ unknown' = Tail(unknown)
        /\ IF Tail(unknown) = <<>>
           THEN phase' = "commit" /\ verdict' = "ok"
           ELSE UNCHANGED <<phase, verdict>>
        /\ UNCHANGED <<proposer, proposal>>
     \/ /\ Pool!InsertOutcome(tx) # "Ok"
        /\ Reject(Pool!InsertOutcome(tx))
        /\ UNCHANGED <<queue, sysQueue>>
  /\ UNCHANGED <<committed, argsRoot, taskVars>>
  /\ UNCHANGED fetchVars

(* exec, then save_signed_txs / save_receipts / save_block / save_proof. *)
Commit ==
  /\ phase = "commit"
  /\ committed' = committed \cup ToSet(proposal)
  /\ phase' = "args"
  /\ UNCHANGED <<queue, sysQueue, argsRoot, taskVars,
                 proposer, proposal, unknown, verdict>>
  /\ lastBlock' = proposal
  /\ UNCHANGED fetch

(* set_args: the adapter now validates against the new state root. *)
SetArgs ==
  /\ phase = "args"
  /\ argsRoot' = committed
  /\ phase' = "flush"
  /\ UNCHANGED <<queue, sysQueue, committed, taskVars,
                 proposer, proposal, unknown, verdict>>
  /\ UNCHANGED fetchVars

(* flush_mempool -> MemPool::flush: nonce_check is check_authorization. *)
FlushMempool ==
  /\ phase = "flush"
  /\ Pool!Flush(ToSet(proposal), argsRoot)
  /\ phase' = "idle"
  /\ proposal' = <<>>
  /\ UNCHANGED <<committed, argsRoot, taskVars, proposer, unknown, verdict>>
  /\ UNCHANGED fetchVars

(* MemPool::get_full_txs, called by the engine (through the adapter) for *)
(* the block it has decided and is about to save, or for a peer pulling   *)
(* the last committed block.  The loop over the hashes reads the pool     *)
(* without an await; the hashes it misses are then looked up in storage   *)
(* (get_transactions_from_storage, flattened) after an await, and the     *)
(* result is MisMatch unless every hash was found.                        *)
FetchRequests ==
  (IF phase = "commit" THEN {proposal} ELSE {})
  \cup (IF lastBlock # <<>> THEN {lastBlock} ELSE {})

FetchLookup ==
  /\ fetch.pc \in {"idle", "done"}
  /\ \E req \in FetchRequests :
       fetch' = [NoFetch EXCEPT
                   !.pc = "storage", !.req = req,
                   !.found = SelectSeq(req, LAMBDA h : h \in Pool!Pooled),
                   !.missing = SelectSeq(req, LAMBDA h : h \notin Pool!Pooled)]
  /\ UNCHANGED <<queue, sysQueue, committed, argsRoot, taskVars, engineVars,
                 lastBlock>>

(* Mutant: the hashes missing from the pool are not looked up in storage. *)
FetchStorageNoFallback ==
  /\ fetch.pc = "storage"
  /\ fetch' = [fetch EXCEPT !.pc = "done", !.res = fetch.found,
                             !.ok = Len(fetch.found) = Len(fetch.req)]
  /\ UNCHANGED <<queue, sysQueue, committed, argsRoot, taskVars, engineVars,
                 lastBlock>>

FetchStorage ==
  /\ fetch.pc = "storage"
  /\ LET full == fetch.found \o SelectSeq(fetch.missing,
                                           LAMBDA h : h \in committed)
     IN fetch' = [fetch EXCEPT !.pc = "done", !.res = full,
                               !.ok = Len(full) = Len(fetch.req)]
  /\ UNCHANGED <<queue, sysQueue, committed, argsRoot, taskVars, engineVars,
                 lastBlock>>

-----------------------------------------------------------------------------
Next ==
  \/ \E t \in Tasks : CheckAdmission(t) \/ CheckStorage(t) \/ InsertIntoPool(t)
  \/ Propose
  \/ ReceiveProposal
  \/ PullTxs
  \/ VerifyPulled
  \/ InsertPulled
  \/ Commit
  \/ SetArgs
  \/ FlushMempool
  \/ FetchLookup
  \/ FetchStorage

Spec == Init /\ [][Next]_vars

(* Every insert task is a spawned future that the runtime keeps polling,  *)
(* and the engine, once in a height, goes on through pull, verification,  *)
(* commit, set_args and flush: weak fairness.  Leadership rotates through *)
(* the validators, so this node proposes again whenever it is idle often  *)
(* enough: strong fairness of Propose, which peers' proposals may keep    *)
(* disabling in between.                                                  *)
Fairness ==
  /\ \A t \in Tasks :
       WF_vars(CheckAdmission(t) \/ CheckStorage(t) \/ InsertIntoPool(t))
  /\ WF_vars(PullTxs \/ VerifyPulled \/ InsertPulled \/ Commit \/ SetArgs
             \/ FlushMempool)
  /\ SF_vars(Propose)

FairSpec == Spec /\ Fairness

-----------------------------------------------------------------------------
TypeOK ==
  /\ queue \in Seq(Txs) /\ sysQueue \in Seq(Sys)
  /\ committed \subseteq Txs /\ argsRoot \subseteq committed
  /\ job \in [Tasks -> Txs] /\ pc \in [Tasks -> Stages]
  /\ phase \in Phases /\ proposer \in {"self", "peer"}
  /\ proposal \in Seq(Txs) /\ unknown \in Seq(Txs)
  /\ verdict \in Verdicts
  /\ lastBlock \in Seq(Txs) /\ fetch.pc \in {"idle", "storage", "done"}

(* Spec 4.3 step 4 rejects a committed transaction, so a packaged batch   *)
(* should never propose a transaction that is already on chain.           *)
NoCommittedPackaged ==
  phase = "commit" /\ proposer = "self" => ToSet(proposal) \cap committed = {}

(* ensure_order_txs names three ways to refuse a proposal: a duplicated   *)
(* hash, a short pull response, an invalid pulled transaction.  A         *)
(* proposal is never refused for any other reason.                        *)
RejectOnlyForCause ==
  verdict \in {"none", "ok", "EnsureDup", "EnsureBreak", "VerifyBatch"}

(* Liveness of package: an ordinary transaction in the pool is eventually *)
(* proposed by this node, or leaves the pool (committed from a peer's     *)
(* block or dropped by flush): no entry waits in the queue forever.       *)
EventuallyPackaged ==
  \A tx \in Txs :
    tx \in ToSet(queue) ~>
      \/ tx \notin Pool!Pooled
      \/ proposer = "self" /\ phase = "commit" /\ tx \in ToSet(proposal)

(* get_full_txs never answers MisMatch for a block that was decided or  *)
(* committed: a flush that empties the pool between its pool loop and its *)
(* awaited storage lookup only removes transactions that save_signed_txs  *)
(* already stored, so each hash is found in one place or the other.       *)
FullTxsAvailable == fetch.pc = "done" => fetch.ok

=============================================================================
