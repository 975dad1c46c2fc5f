----------------------------- MODULE MC_TrieDB -----------------------------
(* Model-checking instance of TrieDB: two keys, one committing writer,   *)
(* one reader, a cache of one entry.                                     *)
EXTENDS TrieDB, TLC

CONSTANTS k1, k2, v1, v2, w1, w2, r1

MC_Keys == {k1, k2}
MC_Values == {v1, v2}
MC_Writers == {w1}
MC_TwoWriters == {w1, w2}
MC_Readers == {r1}
(* Content-addressed trie nodes: one value per key. *)
MC_NodeValue == k1 :> {v1} @@ k2 :> {v2}
(* Keys overwritten with other values, as test_trie_insert does. *)
MC_AnyValue == k1 :> {v1, v2} @@ k2 :> {v1, v2}
=============================================================================
