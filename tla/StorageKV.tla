------------------------------ MODULE StorageKV ------------------------------
(***************************************************************************)
(* What a StorageAdapter promises its callers (protocol::traits): a map of *)
(* categories, each a map from keys to values, on which insert, get,       *)
(* remove, contains, batch_modify and a full iteration of one category     *)
(* are linearizable: a thread invokes a call (pending[t] holds the         *)
(* request), the call takes effect at one instant between invocation and  *)
(* response, and it returns.  ret[t] is the answer of thread t's last      *)
(* call, snap[t] the category its last iteration returned, both cleared   *)
(* when the thread makes its next call.                                   *)
(***************************************************************************)
EXTENDS Naturals

CONSTANTS Categories, Keys, Values, None, Threads,
          Batches  \* the batches callers hand to batch_modify

VARIABLES store, pending, ret, snap

Empty == [k \in Keys |-> None]

NoCall == [kind |-> "none"]

Requests ==
  [kind : {"insert"}, cat : Categories, key : Keys, val : Values]
  \cup [kind : {"get", "remove", "contains"}, cat : Categories, key : Keys]
  \cup [kind : {"batch"}, cat : Categories, batch : Batches]
  \cup [kind : {"iter"}, cat : Categories]

(* A batch: (key, Some(value)) inserts, (key, None) removes; of several   *)
(* pairs on one key, the last one stands.                                 *)
Apply(m, batch) ==
  [k \in Keys |->
     LET hits == {i \in DOMAIN batch : batch[i].key = k}
     IN IF hits = {} THEN m[k]
        ELSE batch[CHOOSE i \in hits : \A j \in hits : j <= i].val]

Init ==
  /\ store = [c \in Categories |-> Empty]
  /\ pending = [t \in Threads |-> NoCall]
  /\ ret = [t \in Threads |-> "none"]
  /\ snap = [t \in Threads |-> Empty]

(* A new call clears the answer of the last one. *)
Invoke(t, r) ==
  /\ pending[t] = NoCall
  /\ pending' = [pending EXCEPT ![t] = r]
  /\ ret' = [ret EXCEPT ![t] = "none"]
  /\ snap' = [snap EXCEPT ![t] = Empty]
  /\ UNCHANGED store

(* The call takes effect and returns answer a. *)
Respond(t, kind, a) ==
  /\ pending[t].kind = kind
  /\ pending' = [pending EXCEPT ![t] = NoCall]
  /\ ret' = [ret EXCEPT ![t] = a]
  /\ UNCHANGED snap

Insert(t) ==
  LET r == pending[t] IN
  /\ Respond(t, "insert", "ok")
  /\ store' = [store EXCEPT ![r.cat][r.key] = r.val]

Remove(t) ==
  LET r == pending[t] IN
  /\ Respond(t, "remove", "ok")
  /\ store' = [store EXCEPT ![r.cat][r.key] = None]

Get(t) ==
  LET r == pending[t] IN
  /\ Respond(t, "get", store[r.cat][r.key])
  /\ UNCHANGED store

Contains(t) ==
  LET r == pending[t] IN
  /\ Respond(t, "contains", IF store[r.cat][r.key] # None THEN "true" ELSE "false")
  /\ UNCHANGED store

BatchModify(t) ==
  LET r == pending[t] IN
  /\ Respond(t, "batch", "ok")
  /\ store' = [store EXCEPT ![r.cat] = Apply(@, r.batch)]

(* A batch whose key and value lists differ in length is refused at once. *)
Fail(t) ==
  /\ pending[t] = NoCall
  /\ ret' = [ret EXCEPT ![t] = "BatchLengthMismatch"]
  /\ UNCHANGED <<store, pending, snap>>

Iterate(t) ==
  /\ pending[t].kind = "iter"
  /\ snap' = [snap EXCEPT ![t] = store[pending[t].cat]]
  /\ pending' = [pending EXCEPT ![t] = NoCall]
  /\ UNCHANGED <<store, ret>>

Next ==
  \E t \in Threads :
    \/ \E r \in Requests : Invoke(t, r)
    \/ Insert(t) \/ Remove(t) \/ Get(t) \/ Contains(t) \/ BatchModify(t)
    \/ Fail(t) \/ Iterate(t)

Spec == Init /\ [][Next]_<<store, pending, ret, snap>>

=============================================================================
