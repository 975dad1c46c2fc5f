---------------------------- MODULE MemoryAdapter ----------------------------
(***************************************************************************)
(* The in-memory StorageAdapter (core/storage/src/adapter/memory.rs):      *)
(* HashMap<category, HashMap<key, value>> behind one parking_lot RwLock,   *)
(* called by several threads at once.                                      *)
(*   - insert, get, remove, contains and batch_modify each run their whole *)
(*     body under self.db.write(); a write-locked section is one step,     *)
(*     since no other thread can read or write db while it runs.  The call *)
(*     (pc "write") and the section are separate steps: the caller blocks  *)
(*     in write() while read guards are held.                              *)
(*   - prepare_iter takes the write lock to create the category, drops it, *)
(*     then returns an iterator that holds a read guard; the caller's next *)
(*     calls read the category one entry at a time under that guard.       *)
(* Keys and values are model values (encode/decode are bijections on the   *)
(* schemas and never fail for values the code itself wrote).  A category  *)
(* absent from the HashMap reads like an empty one; cats records which     *)
(* categories entry().or_insert_with has created.                          *)
(***************************************************************************)
EXTENDS Naturals, Sequences

Seqs == INSTANCE SequencesExt

CONSTANTS Categories, Keys, Values, None, Threads, Batches

VARIABLES
  db,       \* category -> key -> value or None
  cats,     \* the categories present in the HashMap
  readers,  \* the threads holding a read guard of the RwLock
  op,       \* each thread's call in progress and its locals
  ret,      \* each thread's last answer, until its next call
  snap      \* each thread's last completed iteration, until its next call

vars == <<db, cats, readers, op, ret, snap>>

Empty == [k \in Keys |-> None]

Kinds == {"insert", "get", "remove", "contains", "batch", "iter"}

Pcs == {"idle", "write", "read", "iter"}

Idle == [pc |-> "idle", kind |-> "get", cat |-> CHOOSE c \in Categories : TRUE,
         key |-> CHOOSE k \in Keys : TRUE, val |-> None, batch |-> <<>>,
         acc |-> Empty, left |-> {}, ahead |-> {}]

Init ==
  /\ db = [c \in Categories |-> Empty]
  /\ cats = {}
  /\ readers = {}
  /\ op = [t \in Threads |-> Idle]
  /\ ret = [t \in Threads |-> "none"]
  /\ snap = [t \in Threads |-> Empty]

-----------------------------------------------------------------------------
(* A thread calls an operation: the arguments are encoded and the thread  *)
(* blocks in self.db.write() (or, for prepare_iter, in its first write()). *)
Start(t, kind, c, k, v, b) ==
  /\ op[t].pc = "idle"
  /\ op' = [op EXCEPT ![t] = [Idle EXCEPT !.pc = "write",
                                !.kind = kind, !.cat = c, !.key = k,
                                !.val = v, !.batch = b]]
  /\ ret' = [ret EXCEPT ![t] = "none"]
  /\ snap' = [snap EXCEPT ![t] = Empty]
  /\ UNCHANGED <<db, cats, readers>>

Call(t) ==
  \E c \in Categories :
    \/ \E k \in Keys, v \in Values : Start(t, "insert", c, k, v, <<>>)
    \/ \E k \in Keys, kind \in {"get", "remove", "contains"} :
         Start(t, kind, c, k, None, <<>>)
    \/ \E b \in Batches : Start(t, "batch", c, Idle.key, None, b)
    \/ Start(t, "iter", c, Idle.key, None, <<>>)

(* batch_modify with keys and vals of different lengths returns            *)
(* BatchLengthMismatch before it takes the lock.                          *)
BatchLengthMismatch(t) ==
  /\ op[t].pc = "idle"
  /\ ret' = [ret EXCEPT ![t] = "BatchLengthMismatch"]
  /\ UNCHANGED <<db, cats, readers, op, snap>>

(* Mutant: the write lock is granted while read guards are held. *)
LockedNoReadGuard(t, kind) ==
  /\ op[t].pc = "write" /\ op[t].kind = kind

(* self.db.write() returns once no guard is held; the category is created *)
(* by entry().or_insert_with.                                             *)
Locked(t, kind) ==
  /\ op[t].pc = "write" /\ op[t].kind = kind
  /\ readers = {}

(* Thread t leaves its write section with locals o; it is no longer ahead *)
(* of any parked reader.                                                  *)
Unlocked(t, o) ==
  [u \in Threads |-> IF u = t THEN o ELSE [op[u] EXCEPT !.ahead = @ \ {t}]]

Return(t, a) ==
  /\ cats' = cats \cup {op[t].cat}
  /\ ret' = [ret EXCEPT ![t] = a]
  /\ op' = Unlocked(t, Idle)
  /\ UNCHANGED <<readers, snap>>

Insert(t) ==
  /\ Locked(t, "insert")
  /\ db' = [db EXCEPT ![op[t].cat][op[t].key] = op[t].val]
  /\ Return(t, "ok")

Get(t) ==
  /\ Locked(t, "get")
  /\ UNCHANGED db
  /\ Return(t, db[op[t].cat][op[t].key])

Remove(t) ==
  /\ Locked(t, "remove")
  /\ db' = [db EXCEPT ![op[t].cat][op[t].key] = None]
  /\ Return(t, "ok")

Contains(t) ==
  /\ Locked(t, "contains")
  /\ UNCHANGED db
  /\ Return(t, IF db[op[t].cat][op[t].key] # None THEN "true" ELSE "false")

(* The pairs applied in order: Some(value) inserts, None removes. *)
ApplyPair(m, p) == [m EXCEPT ![p.key] = p.val]

(* Mutant: the pairs are applied last to first. *)
ApplyBatchReversed(m, batch) == Seqs!FoldRight(LAMBDA p, acc : ApplyPair(acc, p), batch, m)

ApplyBatch(m, batch) == Seqs!FoldLeft(ApplyPair, m, batch)

BatchModify(t) ==
  /\ Locked(t, "batch")
  /\ db' = [db EXCEPT ![op[t].cat] = ApplyBatch(@, op[t].batch)]
  /\ Return(t, "ok")

(* prepare_iter: the first block creates the category under the write     *)
(* lock and drops the guard at its closing brace; then self.db.read()     *)
(* queues the thread behind the writers already parked (parking_lot's    *)
(* RwLock is task-fair: a reader waits for the writers that came first).  *)
PrepareIter(t) ==
  /\ Locked(t, "iter")
  /\ cats' = cats \cup {op[t].cat}
  /\ op' = Unlocked(t, [op[t] EXCEPT !.pc = "read",
                        !.ahead = {u \in Threads : op[u].pc = "write"} \ {t}])
  /\ UNCHANGED <<db, readers, ret, snap>>

(* Mutant: a writer-preferring lock, where a reader waits for every      *)
(* parked writer, also those that came after it.                          *)
TakeReadGuardWriterPreferring(t) ==
  /\ op[t].pc = "read"
  /\ ~\E u \in Threads : op[u].pc = "write"
  /\ readers' = readers \cup {t}
  /\ op' = [op EXCEPT ![t].pc = "iter", ![t].acc = Empty, ![t].left = Keys]
  /\ UNCHANGED <<db, cats, ret, snap>>

(* read() returns once the writers queued before the reader are through. *)
TakeReadGuard(t) ==
  /\ op[t].pc = "read"
  /\ op[t].ahead = {}
  /\ readers' = readers \cup {t}
  /\ op' = [op EXCEPT ![t].pc = "iter", ![t].acc = Empty, ![t].left = Keys]
  /\ UNCHANGED <<db, cats, ret, snap>>

(* into_iter looks the category up (the expect) and MemoryIterator::next  *)
(* yields one entry of the HashMap, in its own order, per call.           *)
IterNext(t) ==
  /\ op[t].pc = "iter" /\ op[t].left # {}
  /\ op[t].cat \in cats
  /\ \E k \in op[t].left :
       op' = [op EXCEPT ![t].acc[k] = db[op[t].cat][k],
                        ![t].left = @ \ {k}]
  /\ UNCHANGED <<db, cats, readers, ret, snap>>

(* next returns None; the caller drops the MemoryIntoIterator and with it *)
(* the read guard.                                                        *)
IterEnd(t) ==
  /\ op[t].pc = "iter" /\ op[t].left = {}
  /\ snap' = [snap EXCEPT ![t] = op[t].acc]
  /\ readers' = readers \ {t}
  /\ op' = [op EXCEPT ![t] = Idle]
  /\ UNCHANGED <<db, cats, ret>>

Next ==
  \E t \in Threads :
    \/ Call(t) \/ BatchLengthMismatch(t)
    \/ Insert(t) \/ Get(t) \/ Remove(t) \/ Contains(t) \/ BatchModify(t)
    \/ PrepareIter(t) \/ TakeReadGuard(t) \/ IterNext(t) \/ IterEnd(t)

Spec == Init /\ [][Next]_vars

(* The steps of a call already made, under weak fairness.  A running     *)
(* thread keeps running.  A parked writer stays enabled once the guards   *)
(* of the readers queued before it drain, since later readers queue       *)
(* behind it; a parked reader stays enabled once the writers queued       *)
(* before it are through.  A thread that wins the lock by barging does    *)
(* not disable the others, and parking_lot's eventual fairness (a fair    *)
(* unlock hands the lock to the queue's head) lets each one in.           *)
Proceed(t) ==
  \/ Insert(t) \/ Get(t) \/ Remove(t) \/ Contains(t) \/ BatchModify(t)
  \/ PrepareIter(t) \/ IterNext(t) \/ IterEnd(t)

FairSpec ==
  /\ Spec
  /\ \A t \in Threads : WF_vars(Proceed(t)) /\ WF_vars(TakeReadGuard(t))

-----------------------------------------------------------------------------
TypeOK ==
  /\ db \in [Categories -> [Keys -> Values \cup {None}]]
  /\ cats \subseteq Categories /\ readers \subseteq Threads
  /\ \A t \in Threads : op[t].pc \in Pcs /\ op[t].kind \in Kinds
                       /\ op[t].ahead \subseteq Threads
  /\ snap \in [Threads -> [Keys -> Values \cup {None}]]

(* The call thread t has in progress, as the request it made. *)
Request(o) ==
  CASE o.pc = "idle" -> [kind |-> "none"]
    [] o.kind = "insert" -> [kind |-> o.kind, cat |-> o.cat, key |-> o.key,
                             val |-> o.val]
    [] o.kind \in {"get", "remove", "contains"} ->
                            [kind |-> o.kind, cat |-> o.cat, key |-> o.key]
    [] o.kind = "batch" -> [kind |-> o.kind, cat |-> o.cat, batch |-> o.batch]
    [] o.kind = "iter" -> [kind |-> o.kind, cat |-> o.cat]

(* Every call a thread makes returns, whatever the other thread does: a   *)
(* writer is not starved by iterators holding read guards, an iterator is *)
(* not starved by repeated writers, and no thread waits forever on a      *)
(* guard another one keeps (memory.rs: the read guard that               *)
(* MemoryIntoIterator holds until the caller drops it).                   *)
(* The threads run the same code and the model treats them alike, so it  *)
(* is checked for one of them.                                            *)
CallsReturn ==
  LET t == CHOOSE u \in Threads : TRUE IN op[t].pc # "idle" ~> op[t].pc = "idle"

KV == INSTANCE StorageKV
        WITH store <- db, pending <- [t \in Threads |-> Request(op[t])]

(* The adapter implements the StorageAdapter contract: whatever the       *)
(* interleaving of callers, every call, and every iteration as a whole,   *)
(* takes effect at one instant on one map.  It rests on the read guard    *)
(* that MemoryIntoIterator holds while the caller iterates, on the write  *)
(* lock around each batch, and on batch_modify's pair order.              *)
KVSpec == KV!Spec

=============================================================================
