# TLA+ models of the node core

This directory holds TLA+ models of the core of the node in `src/`:
- the mempool (`core/mempool/src/lib.rs`) and the priority pool behind it;
- the consensus adapter that drives the mempool and verifies block proofs (`core/consensus/src/adapter.rs`);
- the RocksDB-backed trie cache (`core/executor/src/adapter/trie_db.rs`);
- the in-memory storage adapter (`core/storage/src/adapter/memory.rs`), checked against an abstract key-value contract.

The TLC model checker checks them on small instances. `PROJECT.json` lists every component, run, mutant, finding and hazard, and maps each model definition to the source lines it translates.

## The system and how its parts interact

* **MempoolService** (`MemPoolImpl`, lib.rs).
  * `insert` → `insert_tx` is called concurrently by RPC and gossip tasks. It tests `reach_limit`, then awaits `check_authorization`, `check_transaction` and `check_storage_exist`, then inserts into the pool.
  * `package` hands the consensus engine a batch of transactions.
  * `ensure_order_txs` checks a peer's proposal. It runs the duplicate check, finds the unknown hashes, pulls them, verifies them in parallel and inserts them one by one.
  * `flush` removes a committed block and re-checks every survivor's nonce.
  * `set_args` gives the mempool adapter the new state root.
  * `get_full_txs` answers the engine (and peers pulling a block) with the full txs of a list of hashes. It reads the pool first; after an await it looks the misses up in storage, and it fails with `MisMatch` unless every hash was found.
* **PriorityPool** (`core/mempool/src/pool.rs`).
  * It has an ordinary queue bounded by `pool_size` and ordered by priority, plus a FIFO queue for system-script transactions.
  * That file is not among the sources, so its model follows spec.md §4.2 and every definition of it is marked `spec_modelled`.
* **ConsensusAdapter**.
  * `get_txs_from_mempool` → `package`.
  * `verify_txs` → `ensure_order_txs`.
  * `save_*`, then `set_args`, then `flush_mempool` at commit.
  * `get_full_txs` → the mempool's `get_full_txs`.
  * `verify_block_header` loads the header at `proposal.number - 1` and compares its hash with the proposal's `prev_hash`.
  * `verify_proof` (the ProofVerifier) checks a peer block's proof: height, hash, metadata version, bitmap, >2/3 vote weight and the BLS aggregate signature.
* **TrieCache** (`RocksTrieDB`).
  * A `DashMap` cache in front of RocksDB, used by the executor's state trie from several threads.
  * `get`/`contains` fill the cache on a miss.
  * `insert`/`insert_batch` write the cache first and the store second.
  * `flush` evicts down to `cache_size` through `rand_remove_list`.
* **MemoryAdapter** (`memory.rs`).
  * A `HashMap` of categories behind one `parking_lot` `RwLock`, shared by every caller.
  * `insert`, `get`, `remove`, `contains` and `batch_modify` each take the write lock for their whole body.
  * `prepare_iter` creates the category under the write lock and drops it. It then returns an iterator that keeps a read guard while the caller pulls entries one by one.
* **Not modelled**:
  * the cross-chain client, whose methods are empty;
  * the rest of the consensus adapter. Each of these methods delegates to a crate outside `src/` and keeps no state of its own:
    * network: `transmit`, `pull_block`, `broadcast_number`, `get_*_from_remote`;
    * storage: `get_block_by_number`, `get_current_number`, `get_txs_from_storage`;
    * metadata: `*_metadata`;
    * executor: `exec`;
    * engine: `update_status`, `notify_*`.

    A model of any of them would be a model of that crate, or of the overlord engine that calls them, and neither is in the sources. `update_status` sends `number + 1`, which could overflow only at height `u64::MAX`; no chain reaches that height.
  * `get_txs_from_storage` (adapter.rs:318-332) flattens away the hashes that storage does not hold. spec.md (§ CommonConsensusAdapter) says that missing items return `StorageItemNotFound`. Its callers are in the overlord engine, so no model here consumes its result, and the divergence is recorded only here;
  * the mempool tests.

## Modules

| module | models | state | actions |
|---|---|---|---|
| `PriorityPool` | pool.rs, from spec §4.2 | `queue`, `sysQueue` | `Insert`, `InsertSystem`, `Package` (the `ByPriority` sort and the `TakeWithin` limits), `Flush` |
| `Mempool` | lib.rs + adapter glue | the pool, `committed` (storage), `argsRoot` (the state root of the last `set_args`), one `pc`/`job` per concurrent `insert_tx`, and the engine's `phase`, `proposal`, `unknown`, `verdict` | `CheckAdmission`, `CheckStorage`, `InsertIntoPool` (one per stretch between awaits); `Propose`, `ReceiveProposal`, `PullTxs`, `VerifyPulled`, `InsertPulled`, `Commit` (which also records `lastBlock`), `SetArgs`, `FlushMempool`; `FetchLookup` and `FetchStorage`, the two stretches of `get_full_txs` (`fetch`) for the block being committed or the last one |
| `TrieDB` | trie_db.rs | `db` (RocksDB), `cache` (DashMap), `op[t]` (each thread's operation and locals) | `Get`, `Contains`, `ReadStore`, `FillCache`, `Insert`, `PutStore`, `InsertBatch`, `InsertBatchMismatch`, `BatchFillCache`, `WriteBatch`, `Flush`, `CollectKeys`, `Evict` |
| `StorageKV` | the `StorageAdapter` contract | `store`, `pending` (each thread's call in progress), `ret`, `snap` | `Invoke`, then `Insert`, `Get`, `Remove`, `Contains`, `BatchModify`, `Iterate` (each takes effect at one instant and returns), `Fail` (length mismatch) |
| `MemoryAdapter` | memory.rs | `db`, `cats` (categories created), `readers` (read guards held), `op[t]` (each thread's call and iterator locals), `ret`, `snap` | `Call`/`Start` (encode, block in `write()`), `BatchLengthMismatch`, the write-locked sections `Insert`, `Get`, `Remove`, `Contains`, `BatchModify`, and `PrepareIter`, `TakeReadGuard`, `IterNext`, `IterEnd` |
| `ProofVerifier` | `verify_proof`, `verify_proof_weight`, `verify_proof_signature`, `verify_block_header` | the input `block` (with its `prevHash`), `proof`, `verifiers`, and `result`, `headerResult` | `Verify`: one whole call of each check, through the pure operators `ExtractVoters`, `WeightMap`, `ProofWeightOutcome`, `VoteKeys`, `VerifyProof`, and `PrevHeight`, `HeaderStored`, `VerifyBlockHeader` |

The `MC_*` modules give the constants their values. `Mempool` composes `PriorityPool` through `INSTANCE`.

`MemoryAdapter` instantiates `StorageKV` with a refinement mapping:
- `store` is `db`;
- `pending` is the request that the thread's `op[t]` encodes, or none when the thread is idle.

The run checks `KVSpec == KV!Spec` as a property. Each write-locked section is the linearization point of its call. `IterEnd` is the linearization point of an iteration: what the iterator collected must equal the category at that instant.

**MemoryAdapter data.**
- Keys and values are model values. Encoding and decoding are bijections for values the adapter wrote itself, so they are abstracted away.
- An absent category reads like an empty one.
- Lock model:
  - a write-locked section is one step;
  - `parking_lot`'s task-fair queue is kept. A reader calling `read()` records the writers parked before it (`op[t].ahead`) and waits only for them. A later writer does not block it, and readers arriving after a parked writer queue behind that writer.
- `ret[t]` and `snap[t]` hold the answer of the thread's last call until its next call, in `StorageKV` as in `MemoryAdapter`.

### Data abstraction

**Mempool.**
- A transaction is its hash.
- Account nonces are abstracted to one rule: "a committed transaction's nonce is used up". `check_authorization` therefore fails exactly for the transactions that were committed as of the adapter's last `set_args` root (`argsRoot`). This is how the model represents the adapter validating against a possibly stale root.
- Static `check_transaction` failures are the constant set `Malformed`.
- Broadcasting and peer reporting change no modelled state, so they are left out.
- A `pull_txs` answer of the requested length replaces the unknown hashes. With `PullExact` it is the requested txs, otherwise any txs (see the observation on lib.rs:279).

**TrieDB.**
- Keys and node encodings are model values.
- `Writable[k]` is the set of values a writer may store under key `k`:
  - a single value for content-addressed trie nodes;
  - several values when a key is overwritten.

**ProofVerifier.**
- Hash comparisons are the booleans `hashOk` and `versionOk`.
- A verifier is reduced to its address and vote weight.
- The aggregate signature is the bag of keys whose signatures were added up. BLS aggregate verification accepts exactly when that bag equals the bag of public keys the code hands to it.
- Storage holds the headers of heights `0..Tip`. The hash of the header at height h is written h, so `prevHash` names the height it links to.
- `proposal.number - 1` at number 0 has two outcomes, since the workspace sets no overflow profile: a release build wraps to `u64::MAX` (`U64Max`, above every stored height), and a debug build panics (`Panic`).

## Runs

| run | cfg | expect | shows |
|---|---|---|---|
| mempool | `MC_Mempool.cfg` | pass | 2 insert tasks × 4 txs (1 system, 1 malformed), pool size 2, local and 4 remote proposals. `get_full_txs` for the block being committed, or for the last one, always answers in full (`FullTxsAvailable`), even when a flush runs between its pool loop and its storage lookup. |
| mempool_committed_repooled | `MC_Mempool_NoCommittedPackaged.cfg` | violation | An insert that passed its storage check before a commit re-pools the committed tx after the flush, and the next proposal contains it. |
| mempool_reject_valid | `MC_Mempool_RejectValid.cfg` | violation | A valid peer proposal is refused part-way through the insert loop. TLC's trace shows `ReachLimit`. The same instance also reaches a `Dup` refusal after a gossip insert of a pulled tx; this was checked with the invariant `verdict # "Dup"`. |
| mempool_liveness | `MC_Mempool_Live.cfg` | pass | Under `FairSpec` (1 insert task, 2 remote proposals), every tx in the ordinary queue is eventually in a committed local proposal or leaves the pool (`EventuallyPackaged`). |
| trie | `MC_TrieDB.cfg` | pass | 1 writer, 1 reader, 2 keys, cache size 1, content-addressed values. The cache never disagrees with the store outside a pending write, and a single flusher never panics. |
| trie_failures | `MC_TrieDB_Failures.cfg` | pass | Adds RocksDB errors and a second flushing writer: reads of stored nodes still succeed. |
| trie_incoherent | `MC_TrieDB_Incoherent.cfg` | violation | With rewritable keys and store errors, the cache comes to hold a value RocksDB does not. This happens either through a failed `db.put` after the cache write (the trace TLC prints), or through a reader's late cache fill after an overwrite. The overwrite case was confirmed with store errors off, which gives a subset of this instance's behaviours. |
| trie_flush_race | `MC_TrieDB_FlushRace.cfg` | violation | Two concurrent flushes: the second panics in `rand_remove_list`. |
| trie_cache_size_zero | `MC_TrieDB_CacheZero.cfg` | violation | The `trie` instance with `cache_size` 0: one insert and one flush, and `rand_remove_list` is asked for one key more than it can draw. |
| proof | `MC_ProofVerifier.cfg` | pass | All lists of up to 3 distinct authorities with weights {1,2}, all bitmaps of up to 3 bits, all aggregates, and heights 0–2. Accepted proofs have a real >2/3 supermajority at the right height and hash (P6, P10). Every legitimate proof is accepted (P7). With `Tip` 0, `verify_block_header` accepts exactly a proposal whose `prev_hash` is the stored header below it (P5), and never one at number 0 (`HeaderLinkage`). |
| proof_dup_verifier | `MC_ProofVerifier_DupVerifier.cfg` | violation | With an address listed twice, one signer passes the weight check. |
| storage | `MC_MemoryAdapter.cfg` | pass | 3 threads, 1 category, 2 keys, 1 value, and 2 batches (set-then-remove of one key, and the reverse). Every call and every whole iteration is linearizable against `StorageKV` (`KVSpec`). Under `FairSpec`, every call returns (`CallsReturn`): no iterator is starved by writers calling in turn, and no writer is starved by iterators. A writer-preferring lock, in which a reader waits for every parked writer, starves an iterator behind two alternating writers. |

### Why these bounds are enough

**mempool.**
- Two tasks are enough for every race between insert tasks and between an insert task and the engine.
- Four txs cover the cases that matter: a system tx, a malformed tx, and two priorities and gas values. Pool size 2 and limits 2 make the ReachLimit, gas and count boundaries reachable.
- The remote proposals cover four cases: a duplicated list, an all-known list, a list with unknown txs, and a list with a malformed tx.

**trie.**
- Two keys and a cache of one entry make eviction happen.
- Two-entry batches make half-applied batches visible.

**mempool_liveness.**
- The full instance takes more than five minutes under fairness.
- One insert task and two remote proposals (a duplicate list and an all-known list) still cover every step: admission, package, peer proposals, commit and flush.

**storage.**
- Two threads are enough for an iteration to overlap every kind of write. A third is needed for the starvation case: two writers alternate, so one is always parked while the iterator waits.
- Two keys let a write land between two `next` calls.
- The two opposite one-key batches tell applying pairs in order from applying them in reverse.

**proof.**
- Weights {1,2} over three authorities include the exact-two-thirds case (2 of 3 with equal weights).
- Different weights make the bitmap's order matter.
- With `Tip` 0 and heights 0–2, the header lookup meets all three cases: the wrapped height (number 0), a stored header (number 1), and a missing one (number 2). Every `prev_hash` is tried against each.

### Other checks

- Every passing run fires every action and every disjunct (verified with `-coverage`).
- Each property of a passing run has a mutant in `PROJECT.json`. Each mutant is a plausible bug: an off-by-one, a dropped filter, an inverted test, an unsorted read. TLC finds the property violated for every mutant.
- **Deadlock.** The models do not deadlock, with two exceptions:
  - `ProofVerifier` is a single call that returns (`CHECK_DEADLOCK FALSE`).
  - The storage run turns the deadlock check off because an idle thread may stop calling. `CallsReturn` then rules out any state in which a call in progress waits forever.

### Fairness

`Mempool!FairSpec` assumes:
- **Weak fairness** of each insert task's steps, because the runtime keeps polling a ready future.
- **Weak fairness** of the engine's pull, verify, insert, commit, `set_args` and flush steps, because the engine proceeds through a height once it has started one.
- **Strong fairness** of `Propose`, because leader rotation makes this node the proposer again and again, though not continuously.

No fairness is assumed for peer proposals or new inserts. Among the mempool properties, only `EventuallyPackaged` uses `FairSpec`.

`MemoryAdapter!FairSpec` assumes weak fairness of every step of a call already made (`Proceed(t)`, `TakeReadGuard(t)`). A thread's calls are made by a running thread and never by the model's choice, so `Call` has no fairness.
- A parked writer stays enabled once the readers queued before it have dropped their guards, because later readers queue behind it.
- A parked reader stays enabled once the writers queued before it are through.
- A thread that barges in ahead of the queue takes one atomic step and does not disable the others. `parking_lot`'s eventual fairness then hands the lock to the head of the queue, which justifies weak fairness.

## Findings

1. **Stale storage check re-pools committed txs** (lib.rs:110). The insert lands after the flush of the block that committed the tx, so that flush cannot remove it. The next flush does (its nonce re-check fails for a committed tx), but a `package` before that flush proposes the committed tx, which every validator's `check_storage_exist` then rejects.
2. **A valid proposal is refused with `ReachLimit` or `Dup`** by the insert loop of `ensure_order_txs` (lib.rs:290). Pulled system-script txs also occupy ordinary-queue slots.
3. **Trie cache can disagree with RocksDB.**
   - After a store error: the cache is written first (trie_db.rs:103, 127).
   - After a racing fill of an overwritten key (trie_db.rs:56). This does not arise for content-addressed nodes.
4. **`flush` panics** when two flushes run concurrently (trie_db.rs:157–173, `trie_flush_race`). With `cache_size` 0 every flush of a non-empty cache panics (trie_db.rs:167, `trie_cache_size_zero`): `rand_remove_list` can draw at most `keys.len() - 1` keys, while spec §4.1 has `flush` evict `cache.len() - cache_size` of them, all of them for `cache_size` 0.
5. **Duplicate verifier addresses break the supermajority rule** (adapter.rs:492). The HashMap counts an address once in the total, while the voters and keys count it twice.

### Observation: `ensure_order_txs` checks only the size of a pull answer (lib.rs:279)

The code compares the number of transactions `pull_txs` returns with the number of hashes requested, never the hashes themselves; spec §4.3 step 3 asks for no more. `PullExact` chooses between a peer that answers with the requested txs (`TRUE`, every run) and one that answers with any txs of the right count (`FALSE`). With `FALSE`, the `mempool` instance violates `FullTxsAvailable`: a peer proposes `<<t4>>`, answers the pull with a valid t2, the proposal is accepted and decided, and `get_full_txs(<<t4>>)` fails with `MisMatch`. Whether the network adapter behind `pull_txs` checks the hashes is outside `src/`, so this is recorded as a hazard.

### Observation: a gas-heavy tx in `initial_txs` (lib.rs:92)

`initial_insert` admits `initial_txs` after `check_storage_exist` only, without `check_transaction`, so a tx above the packaging gas limit can head the ordinary queue. What `package` then does depends on `PriorityPool`, which is not under `src/`: spec §4.2 stops before the entry that would exceed the limit (it is then never packaged, nor is anything below it), while P3 lets the entry that first crosses the limit into the batch. The model follows §4.2; with the two readings disagreeing, no property is checked on it.

### Observation: `get_full_txs` can reorder a block (lib.rs:243)

The storage hits are appended after the pool hits. The returned txs follow the requested order only while no hash of a committed block is back in the pool.

After the re-pooling of finding 1, the answer for the last block is a permutation of the block. The ad-hoc invariant `fetch.pc = "done" /\ fetch.ok => fetch.res = fetch.req` on `Mempool` is violated by this trace:
1. two tasks pass admission for t1 and t2;
2. the remote proposal `<<t2, t1>>` is committed, `set_args` runs and then the flush;
3. t1's stale insert re-pools it;
4. `get_full_txs(<<t2, t1>>)` returns `<<t1, t2>>`.

It has the same root cause as finding 1, so it is recorded as a hazard rather than as a run of its own.

### Observation: a node can vanish while it is being inserted (trie_db.rs:103-108)

`insert` makes the node visible in the cache before `db.put` stores it. With two writers, the following happens:
1. w1 puts k1 in the cache;
2. the reader gets k1 from the cache;
3. w2 inserts k2, then its `flush` evicts k1;
4. the reader's next get of k1 misses the cache, finds nothing in RocksDB and returns `None`. w1's put has not completed yet.

An ad-hoc history invariant on the `trie_failures` instance, with store errors off, confirmed this trace. The invariant says that a key a reader has once seen is never read as absent. This is the cache-before-store order of finding 3 again, so it is recorded as a hazard.

## Further work

1. **Self-deadlock in the storage adapter.** A caller that writes to a `MemoryAdapter` while it holds one of its iterators would block forever. Modelling it needs a nested-call caller; no caller in `src/` iterates this adapter.
2. **Synchronization flow.** `verify_block_header`, `verify_proof` and the commit path would compose into one flow. The order in which they are called is decided by the overlord engine, which is outside `src/`, so composing them here would model that engine from the spec.
3. **Runs for the two observations above.** Reordering in `get_full_txs` and vanishing trie nodes each belong in a violation run of their own. The project is at its limit of twelve runs.
