--------------------------- MODULE ProofVerifier ---------------------------
(***************************************************************************)
(* verify_proof of the consensus adapter (core/consensus/src/adapter.rs)   *)
(* with verify_proof_weight and verify_proof_signature.  One call is one   *)
(* step: the adapter takes a block and a proof and returns Ok or the first *)
(* failing check.  The data are abstracted to what the checks tell apart:  *)
(*   - the proposal hash test is the boolean hashOk;                       *)
(*   - the metadata version test is the boolean versionOk;                 *)
(*   - a verifier is [addr, weight]: its address (pub_key bytes, which     *)
(*     also names its bls_pub_key) and its vote_weight;                    *)
(*   - the aggregated signature is the bag of the BLS keys whose           *)
(*     signatures on the proof's vote were added up (agg[a] signatures of  *)
(*     key a).  BLS aggregate verification accepts exactly when the bag   *)
(*     of public keys handed to it equals that bag.                        *)
(* extract_voters belongs to the overlord crate; it follows spec.md 4.5.   *)
(* verify_block_header is checked on the same block: the headers of       *)
(* heights 0 .. Tip are stored, and the hash of the header of height h is  *)
(* written h (hashes of distinct headers differ), so the proposal's        *)
(* prev_hash is the height of the header it names.                        *)
(***************************************************************************)
EXTENDS Integers, Sequences, SequencesExt, FiniteSets

CONSTANTS
  Addrs,        \* verifier addresses (model values)
  AddrOrder,    \* Addrs in ascending byte order, as a sequence
  Weights,      \* vote weights a verifier may have
  MaxVerifiers, \* the longest verifier_list
  MaxBits,      \* the longest bitmap, in bits
  MaxMult,      \* how often one key's signature may be added to an aggregate
  Numbers,      \* block and proof numbers
  DupVerifiers, \* whether metadata may list an address twice
  Tip           \* the highest height whose header storage holds

ASSUME ToSet(AddrOrder) = Addrs /\ Len(AddrOrder) = Cardinality(Addrs)
ASSUME Weights \subseteq Nat /\ 0 \in Numbers /\ DupVerifiers \in BOOLEAN
ASSUME Tip \in Numbers

VARIABLES
  block,    \* [number, hashOk, versionOk, prevHash]
  proof,    \* [number, bitmap, agg]
  verifiers,\* metadata.verifier_list
  result,   \* "pending", then the outcome of verify_proof
  headerResult \* "pending", then the outcome of verify_block_header

vars == <<block, proof, verifiers, result, headerResult>>

-----------------------------------------------------------------------------
VerifierLists ==
  {l \in UNION {[1 .. n -> [addr : Addrs, weight : Weights]] :
                  n \in 1 .. MaxVerifiers} :
     DupVerifiers \/ \A i, j \in DOMAIN l : i # j => l[i].addr # l[j].addr}

Bitmaps == UNION {[1 .. n -> BOOLEAN] : n \in 0 .. MaxBits}

Aggregates == [Addrs -> 0 .. MaxMult]

(* extract_voters sorts the authority list by address (a stable sort of   *)
(* the Vec in place) and keeps the address of every entry whose bit is    *)
(* set; a bitmap without a bit for every authority is malformed.          *)
SortByAddress(list) ==
  FoldLeft(LAMBDA acc, a : acc \o SelectSeq(list, LAMBDA n : n.addr = a),
           <<>>, AddrOrder)

BitmapOk(list, bitmap) == Len(bitmap) >= Len(list)

(* Mutant: the bitmap is read over the metadata order, unsorted. *)
ExtractVotersUnsorted(list, bitmap) ==
  LET picked == SelectSeq([i \in DOMAIN list |-> i], LAMBDA i : bitmap[i])
  IN [j \in DOMAIN picked |-> list[picked[j]].addr]

ExtractVoters(list, bitmap) ==
  LET sorted == SortByAddress(list)
      picked == SelectSeq([i \in DOMAIN sorted |-> i], LAMBDA i : bitmap[i])
  IN [j \in DOMAIN picked |-> sorted[picked[j]].addr]

(* weight_map: collecting (address, vote_weight) pairs of the sorted list *)
(* into a HashMap; a repeated address keeps the weight inserted last.     *)
WeightMap(list) ==
  LET sorted == SortByAddress(list)
      last(a) == CHOOSE i \in DOMAIN sorted :
                   sorted[i].addr = a /\ \A j \in DOMAIN sorted :
                                           sorted[j].addr = a => j <= i
  IN [a \in {n.addr : n \in ToSet(sorted)} |-> sorted[last(a)].weight]

(* Mutant: the supermajority test admits exactly two thirds. *)
ProofWeightOutcomeTwoThirds(weightMap, signedVoters) ==
  LET total == FoldFunction(+, 0, weightMap)
      accumulator == FoldLeft(LAMBDA acc, a : acc + weightMap[a], 0,
                              SelectSeq(signedVoters,
                                        LAMBDA a : a \in DOMAIN weightMap))
  IN IF ~(ToSet(signedVoters) \subseteq DOMAIN weightMap) THEN "Validator"
     ELSE IF 3 * accumulator < 2 * total THEN "Weight"
     ELSE "Ok"

(* verify_proof_weight: total over the map, accumulator over the signed  *)
(* voters (each occurrence), Validator for an unknown voter, and Weight   *)
(* unless 3 * accumulator > 2 * total.                                    *)
ProofWeightOutcome(weightMap, signedVoters) ==
  LET total == FoldFunction(+, 0, weightMap)
      accumulator == FoldLeft(LAMBDA acc, a : acc + weightMap[a], 0,
                              SelectSeq(signedVoters,
                                        LAMBDA a : a \in DOMAIN weightMap))
  IN IF ~(ToSet(signedVoters) \subseteq DOMAIN weightMap) THEN "Validator"
     ELSE IF 3 * accumulator <= 2 * total THEN "Weight"
     ELSE "Ok"

(* hex_pubkeys: the BLS keys of the verifier_list entries, in metadata     *)
(* order, whose address is among the signed voters, as a bag of keys.     *)
VoteKeys(list, signedVoters) ==
  [a \in Addrs |-> IF a \in ToSet(signedVoters)
                   THEN Cardinality({i \in DOMAIN list : list[i].addr = a})
                   ELSE 0]

ProofSignatureOk(voteKeys, agg) == voteKeys = agg

(* verify_proof: the checks in the order the code makes them. *)
VerifyProof(b, p, list) ==
  LET voters == ExtractVoters(list, p.bitmap) IN
  IF b.number = 0 THEN "Ok"
  ELSE IF b.number # p.number THEN "HeightMismatch"
  ELSE IF ~b.hashOk THEN "HashMismatch"
  ELSE IF ~b.versionOk THEN "ConfusedMetadata"
  ELSE IF ~BitmapOk(list, p.bitmap) THEN "BitMap"
  ELSE IF ProofWeightOutcome(WeightMap(list), voters) # "Ok"
       THEN ProofWeightOutcome(WeightMap(list), voters)
  ELSE IF ~ProofSignatureOk(VoteKeys(list, voters), p.agg) THEN "Signature"
  ELSE "Ok"

(* proposal.number - 1 in u64: at number 0 a release build wraps to      *)
(* u64::MAX, a height no chain reaches (U64Max stands for it: it is above *)
(* every stored height), and a debug build panics on the overflow.        *)
U64Max == 2147483647  \* the largest integer TLC holds

Panic == -1

(* Mutant: the height is computed with saturating_sub. *)
SaturatingPrev(n) == IF n = 0 THEN {0} ELSE {n - 1}

PrevHeight(n) == IF n = 0 THEN {U64Max, Panic} ELSE {n - 1}

(* get_block_header_by_number: the stored header, or StorageItemNotFound. *)
HeaderStored(h) == h \in 0 .. Tip

(* verify_block_header at previous height h. *)
VerifyBlockHeader(b, h) ==
  IF h = Panic THEN "Panic"
  ELSE IF ~HeaderStored(h) THEN "StorageItemNotFound"
  ELSE IF h # b.prevHash THEN "PreviousBlockHash"
  ELSE "Ok"

-----------------------------------------------------------------------------
(* A block and a proof arrive from a peer (sync or a proposal's proof);    *)
(* the verifier list is the metadata of the block's height.               *)
Init ==
  /\ block \in [number : Numbers, hashOk : BOOLEAN, versionOk : BOOLEAN,
                prevHash : Numbers]
  /\ proof \in [number : Numbers, bitmap : Bitmaps, agg : Aggregates]
  /\ verifiers \in VerifierLists
  /\ result = "pending"
  /\ headerResult = "pending"

(* Both checks are pure functions of the block, the proof and storage;    *)
(* one step returns the outcome of each.                                  *)
Verify ==
  /\ result = "pending"
  /\ result' = VerifyProof(block, proof, verifiers)
  /\ \E h \in PrevHeight(block.number) :
       headerResult' = VerifyBlockHeader(block, h)
  /\ UNCHANGED <<block, proof, verifiers>>

Next == Verify

Spec == Init /\ [][Next]_vars

Outcomes == {"pending", "Ok", "HeightMismatch", "HashMismatch",
             "ConfusedMetadata", "BitMap", "Validator", "Weight", "Signature"}

TypeOK ==
  /\ result \in Outcomes
  /\ headerResult \in {"pending", "Ok", "Panic", "StorageItemNotFound",
                        "PreviousBlockHash"}

(* The verifiers whose key signatures the aggregate really contains, and *)
(* the vote weight that entries of the authority list with those          *)
(* addresses carry (spec 4.5 step 7: total = sum over all authorities).   *)
Signers(agg) == {a \in Addrs : agg[a] > 0}

ListWeight(list, S) ==
  FoldLeft(LAMBDA acc, n : acc + n.weight, 0,
           SelectSeq(list, LAMBDA n : n.addr \in S))

(* P6 and P10: verify_proof accepts a proof of a non-genesis block only   *)
(* for the block's height and hash, under the height's metadata, when the *)
(* authorities that really signed the precommit hold more than 2/3 of the *)
(* list's vote weight, however the bitmap, the weight map and the key list *)
(* handed to BLS are built from the list.                                 *)
SoundAccept ==
  result = "Ok" /\ block.number # 0 =>
    /\ block.number = proof.number
    /\ block.hashOk /\ block.versionOk
    /\ 3 * ListWeight(verifiers, Signers(proof.agg))
         > 2 * ListWeight(verifiers, Addrs)

(* The reference reading of a bitmap: bit i selects the i-th authority in  *)
(* ascending address order.                                               *)
Rank(a) == CHOOSE i \in DOMAIN AddrOrder : AddrOrder[i] = a

Selected(list, bitmap) ==
  LET sorted == SetToSortSeq({n.addr : n \in ToSet(list)},
                             LAMBDA x, y : Rank(x) < Rank(y))
  IN {sorted[i] : i \in {j \in DOMAIN sorted : j \in DOMAIN bitmap /\ bitmap[j]}}

(* P7: a proof whose bitmap selects a supermajority and whose aggregate    *)
(* holds exactly one signature of each selected authority is accepted:    *)
(* bitmap expansion, weight map and key list agree with one another.      *)
CompleteAccept ==
  LET sel == Selected(verifiers, proof.bitmap) IN
  /\ result # "pending"
  /\ block.number # 0 /\ block.number = proof.number
  /\ block.hashOk /\ block.versionOk
  /\ Len(proof.bitmap) >= Len(verifiers)
  /\ proof.agg = [a \in Addrs |-> IF a \in sel THEN 1 ELSE 0]
  /\ 3 * ListWeight(verifiers, sel) > 2 * ListWeight(verifiers, Addrs)
  => result = "Ok"

(* P5: verify_block_header accepts a proposal exactly when the header of  *)
(* the height below it is stored and its hash is the proposal's prev_hash; *)
(* the genesis number has no such header, whatever u64 subtraction does.  *)
HeaderLinkage ==
  headerResult # "pending" =>
    (headerResult = "Ok" <=> /\ block.number >= 1
                             /\ HeaderStored(block.number - 1)
                             /\ block.prevHash = block.number - 1)

=============================================================================
