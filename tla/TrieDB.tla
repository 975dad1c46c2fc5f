------------------------------- MODULE TrieDB -------------------------------
(***************************************************************************)
(* RocksTrieDB (core/executor/src/adapter/trie_db.rs): a DashMap cache in  *)
(* front of a RocksDB store.  The DashMap makes each single cache access   *)
(* atomic, RocksDB makes each get, put and batch write atomic; nothing     *)
(* makes a whole operation atomic, so every operation is a sequence of     *)
(* steps that other threads interleave with.                               *)
(*                                                                         *)
(* Writers commit trie nodes (insert, insert_batch, flush); Readers look   *)
(* nodes up (get, contains).  Writable[k] is the set of values a writer    *)
(* may store under key k: a single value when keys are content addressed, *)
(* as trie node hashes are, or several when a key is overwritten.  When    *)
(* StoreMayFail is TRUE any RocksDB call may return an error.             *)
(***************************************************************************)
EXTENDS Integers, Sequences, FiniteSets

CONSTANTS
  Keys,          \* trie node keys (model values)
  Values,        \* node encodings (model values)
  None,          \* absent from a map (model value)
  Writable,      \* Writable[k]: the values writers may store under k
  CacheSize,     \* cache_size
  Writers,       \* threads committing trie nodes
  Readers,       \* threads reading trie nodes
  StoreMayFail   \* whether RocksDB calls may fail

ASSUME Writable \in [Keys -> SUBSET Values]
ASSUME CacheSize \in Nat /\ StoreMayFail \in BOOLEAN

VARIABLES
  db,      \* db[k]: the value RocksDB holds, or None
  cache,   \* cache[k]: the value the DashMap holds, or None
  op       \* op[t]: the operation thread t is in and its locals

vars == <<db, cache, op>>
Threads == Writers \cup Readers

Stored(m) == {k \in Keys : m[k] # None}

(* A batch: keys paired with values, as insert_batch zips them. *)
Pair(k) == {[key |-> k, val |-> v] : v \in Writable[k]}

Batches ==
  {<<e>> : e \in UNION {Pair(k) : k \in Keys}}
  \cup UNION {{<<e1, e2>> : e1 \in Pair(k1), e2 \in Pair(k2)} :
               <<k1, k2>> \in {p \in Keys \X Keys : p[1] # p[2]}}

Idle == [pc |-> "idle", key |-> None, val |-> None, batch |-> <<>>, pos |-> 0,
         len |-> 0, evict |-> {}, durable |-> FALSE, ret |-> "none"]

Init ==
  /\ db = [k \in Keys |-> None]
  /\ cache = [k \in Keys |-> None]
  /\ op = [t \in Threads |-> Idle]

Finish(t, result) ==
  op' = [op EXCEPT ![t] = [Idle EXCEPT !.key = op[t].key,
                                      !.durable = op[t].durable,
                                      !.ret = result]]

-----------------------------------------------------------------------------
(* get (inner_get) and contains: look the key up in the cache; on a miss  *)
(* read RocksDB and, when the store has the key, fill the cache.          *)
(* durable records that the store already held the key at the start.     *)
StartRead(t, k, kind) ==
  /\ op[t].pc = "idle"
  /\ \/ /\ cache[k] # None
        /\ op' = [op EXCEPT ![t] = [Idle EXCEPT !.key = k, !.ret = cache[k],
                                    !.durable = db[k] # None]]
     \/ /\ cache[k] = None
        /\ op' = [op EXCEPT ![t] = [Idle EXCEPT !.pc = kind, !.key = k,
                                    !.durable = db[k] # None]]
  /\ UNCHANGED <<db, cache>>

Get(t, k) == StartRead(t, k, "getDb")

Contains(t, k) == StartRead(t, k, "containsDb")

(* Mutant: contains caches its boolean answer instead of the node. *)
ReadStoreContainsFlag(t) ==
  LET k == op[t].key IN
  /\ op[t].pc \in {"getDb", "containsDb"}
  /\ db[k] # None
  /\ op' = [op EXCEPT ![t].pc = "fill",
                      ![t].val = IF op[t].pc = "containsDb" THEN TRUE ELSE db[k]]
  /\ UNCHANGED <<db, cache>>

(* Mutant: a cache miss is answered as absent without reading RocksDB. *)
ReadStoreCacheOnly(t) ==
  /\ op[t].pc \in {"getDb", "containsDb"}
  /\ Finish(t, None)
  /\ UNCHANGED <<db, cache>>

(* self.db.get(key): a store error ends the call; a found value goes on  *)
(* to the cache insert; absence returns None / false.                     *)
ReadStore(t) ==
  LET k == op[t].key IN
  /\ op[t].pc \in {"getDb", "containsDb"}
  /\ \/ StoreMayFail /\ Finish(t, "StoreError")
     \/ db[k] = None /\ Finish(t, None)
     \/ db[k] # None
        /\ op' = [op EXCEPT ![t].pc = "fill", ![t].val = db[k]]
  /\ UNCHANGED <<db, cache>>

(* self.cache.insert(key, val) with the value read before. *)
FillCache(t) ==
  /\ op[t].pc = "fill"
  /\ cache' = [cache EXCEPT ![op[t].key] = op[t].val]
  /\ Finish(t, op[t].val)
  /\ UNCHANGED db

-----------------------------------------------------------------------------
(* insert: the cache first, then db.put. *)
Insert(t, k, v) ==
  /\ op[t].pc = "idle"
  /\ cache' = [cache EXCEPT ![k] = v]
  /\ op' = [op EXCEPT ![t] = [Idle EXCEPT !.pc = "put", !.key = k, !.val = v]]
  /\ UNCHANGED db

PutStore(t) ==
  /\ op[t].pc = "put"
  /\ \/ db' = [db EXCEPT ![op[t].key] = op[t].val] /\ Finish(t, "ok")
     \/ StoreMayFail /\ UNCHANGED db /\ Finish(t, "StoreError")
  /\ UNCHANGED cache

(* insert_batch: BatchLengthMismatch when the vectors differ in length;   *)
(* else the loop adds each pair to the WriteBatch and to the cache, then  *)
(* db.write(&batch) applies the whole batch at once.                      *)
InsertBatch(t, b) ==
  /\ op[t].pc = "idle"
  /\ op' = [op EXCEPT ![t] = [Idle EXCEPT !.pc = "batchFill", !.batch = b,
                              !.pos = 1]]
  /\ UNCHANGED <<db, cache>>

InsertBatchMismatch(t) ==
  /\ op[t].pc = "idle"
  /\ Finish(t, "BatchLengthMismatch")
  /\ UNCHANGED <<db, cache>>

BatchFillCache(t) ==
  LET e == op[t].batch[op[t].pos] IN
  /\ op[t].pc = "batchFill"
  /\ cache' = [cache EXCEPT ![e.key] = e.val]
  /\ op' = [op EXCEPT ![t].pos = @ + 1,
                      ![t].pc = IF op[t].pos = Len(op[t].batch) THEN "batchWrite"
                                ELSE "batchFill"]
  /\ UNCHANGED db

(* Mutant: only the first pair reaches the WriteBatch. *)
WriteBatchFirstOnly(t) ==
  LET e == op[t].batch[1] IN
  /\ op[t].pc = "batchWrite"
  /\ db' = [db EXCEPT ![e.key] = e.val]
  /\ Finish(t, "ok")
  /\ UNCHANGED cache

WriteBatch(t) ==
  LET b == op[t].batch
      written == {b[i].key : i \in DOMAIN b}
      last(k) == b[CHOOSE i \in DOMAIN b : b[i].key = k]
  IN
  /\ op[t].pc = "batchWrite"
  /\ \/ db' = [k \in Keys |-> IF k \in written THEN last(k).val
                                         ELSE db[k]]
        /\ Finish(t, "ok")
     \/ StoreMayFail /\ UNCHANGED db /\ Finish(t, "StoreError")
  /\ UNCHANGED cache

-----------------------------------------------------------------------------
(* flush: read the cache length and return if it is within cache_size;    *)
(* otherwise collect the keys, let rand_remove_list pick len - cache_size *)
(* of them, and remove those from the cache.                              *)
Flush(t) ==
  LET len == Cardinality(Stored(cache)) IN
  /\ op[t].pc = "idle"
  /\ \/ len <= CacheSize /\ Finish(t, "ok")
     \/ len > CacheSize
        /\ op' = [op EXCEPT ![t] = [Idle EXCEPT !.pc = "collect", !.len = len]]
  /\ UNCHANGED <<db, cache>>

(* rand_remove_list(keys, num): indices are drawn from 0 .. keys.len()-2, *)
(* so the key the DashMap iterates last is never chosen, and a draw from  *)
(* an empty range (num > keys.len() - 1) panics.  The seeded generator    *)
(* with an arbitrary iteration order can pick any such subset.            *)
RandRemoveList(keys, num) ==
  {s \in SUBSET keys : Cardinality(s) = num /\ keys \ s # {}}

(* Mutant: the index range of rand_remove_list is one shorter. *)
CollectKeysShortRange(t) ==
  LET keys == Stored(cache)
      num == op[t].len - CacheSize
  IN
  /\ op[t].pc = "collect"
  /\ \/ num >= Cardinality(keys) - 1
        /\ op' = [op EXCEPT ![t].pc = "panicked"]
     \/ num < Cardinality(keys) - 1
        /\ \E s \in RandRemoveList(keys, num) :
             op' = [op EXCEPT ![t].pc = "evict", ![t].evict = s]
  /\ UNCHANGED <<db, cache>>

CollectKeys(t) ==
  LET keys == Stored(cache)
      num == op[t].len - CacheSize
  IN
  /\ op[t].pc = "collect"
  /\ \/ num > Cardinality(keys) - 1
        /\ op' = [op EXCEPT ![t].pc = "panicked"]
     \/ num <= Cardinality(keys) - 1
        /\ \E s \in RandRemoveList(keys, num) :
             op' = [op EXCEPT ![t].pc = "evict", ![t].evict = s]
  /\ UNCHANGED <<db, cache>>

(* self.cache.remove(item) for each item of the list. *)
Evict(t) ==
  /\ op[t].pc = "evict"
  /\ cache' = [k \in Keys |-> IF k \in op[t].evict THEN None ELSE cache[k]]
  /\ Finish(t, "ok")
  /\ UNCHANGED db

-----------------------------------------------------------------------------
Next ==
  \/ \E t \in Readers, k \in Keys : Get(t, k) \/ Contains(t, k)
  \/ \E t \in Writers, k \in Keys, v \in Values :
       v \in Writable[k] /\ Insert(t, k, v)
  \/ \E t \in Writers, b \in Batches : InsertBatch(t, b)
  \/ \E t \in Writers : InsertBatchMismatch(t) \/ Flush(t)
  \/ \E t \in Threads :
       ReadStore(t) \/ FillCache(t) \/ PutStore(t) \/ BatchFillCache(t)
       \/ WriteBatch(t) \/ CollectKeys(t) \/ Evict(t)

Spec == Init /\ [][Next]_vars

-----------------------------------------------------------------------------
Pcs == {"idle", "getDb", "containsDb", "fill", "put", "batchFill",
        "batchWrite", "collect", "evict", "panicked"}

TypeOK ==
  /\ db \in [Keys -> Values \cup {None}]
  /\ cache \in [Keys -> Values \cup {None}]
  /\ \A t \in Threads : op[t].pc \in Pcs /\ op[t].evict \subseteq Keys

(* A writer has put k into the cache and not yet finished the store write *)
(* that goes with it.                                                     *)
WritePending(k) ==
  \E t \in Writers :
    \/ op[t].pc = "put" /\ op[t].key = k
    \/ op[t].pc \in {"batchFill", "batchWrite"}
       /\ \E i \in 1 .. op[t].pos - 1 : op[t].batch[i].key = k

(* P9, "the cache may miss, never lie": every cached key not in the       *)
(* middle of a write holds the value the store holds, whatever order the  *)
(* readers' cache fills, the writers' inserts and evictions take.         *)
CacheCoherent ==
  \A k \in Stored(cache) : ~WritePending(k) => cache[k] = db[k]

(* P9, eviction loses nothing: a get or contains of a key the store held  *)
(* when the call began finds it, from the cache or from RocksDB.          *)
ReadSeesDurable ==
  \A t \in Readers : op[t].pc = "idle" /\ op[t].durable => op[t].ret # None

(* flush evicts cache.len() - cache_size entries without panicking. *)
FlushNeverPanics == \A t \in Threads : op[t].pc # "panicked"

=============================================================================
