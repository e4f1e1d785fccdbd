------------------------------ MODULE AfMerge ------------------------------
(***************************************************************************)
(* The anti-forensic splitter (core/src/af.rs): a master key is split into *)
(* stripes, the stripes lie on disk, where one may be overwritten, and are *)
(* merged again.                                                           *)
(*                                                                         *)
(* A byte is a Cell with an exclusive or, a hash an arbitrary operator.    *)
(* The material is its blocks, of which the caller of merge passes the     *)
(* first len cells.  merge is public (af_merge): unlock passes it          *)
(* material_len cells, others what they like.                              *)
(***************************************************************************)
EXTENDS Integers, Sequences

CONSTANTS
    Cells, Zero,     \* byte values, and the zero byte
    Xor(_, _),       \* ^ on bytes
    Hash(_, _),      \* the hash of a counter and a chunk, digest_size cells
    DIGEST_SIZE,     \* D::output_size()
    BLOCK_SIZE,      \* the key's length
    SECTOR,          \* cells of a sector
    MAX_STRIPES,     \* ceiling on the stripe count
    StripeCounts,    \* stripe counts a header may give
    Fillers,         \* random blocks the stripes but the last are filled with
    HashSpecs        \* hash specs a header may name

Blocks == [1 .. BLOCK_SIZE -> Cells]

ASSUME AfAssumption ==
    /\ BLOCK_SIZE \in Nat /\ DIGEST_SIZE \in Nat \ {0} /\ SECTOR \in Nat \ {0}
    /\ MAX_STRIPES \in Nat
    /\ StripeCounts \subseteq Nat
    /\ Fillers \subseteq Blocks

ASSUME CellAssumption ==
    /\ Zero \in Cells
    /\ \A a, b \in Cells : /\ Xor(a, b) \in Cells
                           /\ Xor(a, b) = Xor(b, a)
                           /\ Xor(Xor(a, b), b) = a

(***************************************************************************)
(* A hash has digest_size cells, and no two chunks of one length have      *)
(* hashes that begin with that many equal cells.                           *)
(***************************************************************************)
ASSUME HashAssumption ==
    \A n \in 0 .. BLOCK_SIZE, m \in 0 .. DIGEST_SIZE :
        \A c \in [1 .. m -> Cells] : Hash(n, c) \in [1 .. DIGEST_SIZE -> Cells]

ASSUME CollisionFree ==
    \A n \in 0 .. BLOCK_SIZE, m \in 0 .. DIGEST_SIZE :
        \A c, d \in [1 .. m -> Cells] :
            (\A k \in 1 .. m : Hash(n, c)[k] = Hash(n, d)[k]) => c = d

VARIABLES
    pc,         \* "split", "stored", "merge" or "done"
    stripes,    \* the stripe count of the keyslot
    hash_spec,  \* its hash spec
    master,     \* the key that is split
    blocks,     \* the material; before it is split, the random filler
    accs,       \* the accumulators of the split, one per stripe passed
    damaged,    \* the stripes overwritten since
    len,        \* how many cells merge was given
    i,          \* the loop's counter
    acc,        \* its accumulator
    err         \* the answer of merge

vars == <<pc, stripes, hash_spec, master, blocks, accs, damaged, len, i, acc, err>>

(***************************************************************************)
(* stripes.saturating_sub(1): the last stripe.                             *)
(***************************************************************************)
Last == IF stripes = 0 THEN 0 ELSE stripes - 1

ZeroBlock == [k \in 1 .. BLOCK_SIZE |-> Zero]

Init ==
    /\ stripes \in StripeCounts
    /\ pc = IF stripes = 0 THEN "stored" ELSE "split"
    /\ hash_spec \in HashSpecs
    /\ master \in Blocks
    /\ blocks \in [0 .. Last -> Fillers]
    /\ accs = [j \in {0} |-> ZeroBlock]
    /\ damaged = {}
    /\ len = 0
    /\ i = 0
    /\ acc = ZeroBlock
    /\ err = "Pending"

-----------------------------------------------------------------------------
(***************************************************************************)
(* diffuse: every digest-sized chunk becomes the hash of its number and    *)
(* itself; the last chunk may be shorter, and so is what is kept of its    *)
(* hash.  Faulty: a partial chunk is forgotten.                            *)
(***************************************************************************)
Chunk(k) == (k - 1) \div DIGEST_SIZE

ChunkLen(n) ==
    IF (n + 1) * DIGEST_SIZE <= BLOCK_SIZE THEN DIGEST_SIZE
    ELSE BLOCK_SIZE - n * DIGEST_SIZE

ChunkOf(d, n) == [k \in 1 .. ChunkLen(n) |-> d[n * DIGEST_SIZE + k]]

WholeChunksOnly(d) ==
    [k \in 1 .. BLOCK_SIZE |->
        IF (Chunk(k) + 1) * DIGEST_SIZE <= BLOCK_SIZE
        THEN Hash(Chunk(k), ChunkOf(d, Chunk(k)))[k - Chunk(k) * DIGEST_SIZE]
        ELSE Zero]

diffuse(d) ==
    [k \in 1 .. BLOCK_SIZE |->
        Hash(Chunk(k), ChunkOf(d, Chunk(k)))[k - Chunk(k) * DIGEST_SIZE]]

xor_into(d, e) == [k \in 1 .. BLOCK_SIZE |-> Xor(d[k], e[k])]

-----------------------------------------------------------------------------
(***************************************************************************)
(* af_split, the inverse the tests build keyslots with (cryptsetup does on *)
(* disk): all stripes but the last are filler, the last hides the key.     *)
(***************************************************************************)
SplitStripe ==
    /\ pc = "split"
    /\ i < Last
    /\ acc' = diffuse(xor_into(acc, blocks[i]))
    /\ accs' = [j \in 0 .. i + 1 |-> IF j = i + 1 THEN acc' ELSE accs[j]]
    /\ i' = i + 1
    /\ UNCHANGED <<pc, stripes, hash_spec, master, blocks, damaged, len, err>>

SplitLast ==
    /\ pc = "split"
    /\ i = Last
    /\ blocks' = [blocks EXCEPT ![Last] = xor_into(master, acc)]
    /\ pc' = "stored"
    /\ UNCHANGED <<stripes, hash_spec, master, accs, damaged, len, i, acc, err>>

(***************************************************************************)
(* One stripe on disk is overwritten with something else.                  *)
(***************************************************************************)
Erase(j, b) ==
    /\ pc = "stored"
    /\ damaged = {}
    /\ stripes > 0
    /\ b # blocks[j]
    /\ blocks' = [blocks EXCEPT ![j] = b]
    /\ damaged' = {j}
    /\ UNCHANGED <<pc, stripes, hash_spec, master, accs, len, i, acc, err>>

-----------------------------------------------------------------------------
(***************************************************************************)
(* material_len for a stripe count that is not refused: whole sectors.     *)
(* Faulty: rounded down.                                                   *)
(***************************************************************************)
RoundedDown == ((BLOCK_SIZE * stripes) \div SECTOR) * SECTOR

material_len == ((BLOCK_SIZE * stripes + SECTOR - 1) \div SECTOR) * SECTOR

(***************************************************************************)
(* merge: an implausible count or an unknown hash is refused before any    *)
(* work.  Faulty: the count is not looked at.                              *)
(***************************************************************************)
Unchecked == TRUE

Plausible == stripes <= MAX_STRIPES

Supported == hash_spec \in {"sha1", "sha256", "sha512"}

Merge(n) ==
    /\ pc = "stored"
    /\ len' = n
    /\ i' = 0
    /\ acc' = ZeroBlock
    /\ \/ Plausible /\ Supported /\ pc' = "merge" /\ UNCHANGED err
       \/ ~ Plausible /\ pc' = "done" /\ err' = "ImplausibleStripes"
       \/ Plausible /\ ~ Supported /\ pc' = "done" /\ err' = "Unsupported"
    /\ UNCHANGED <<stripes, hash_spec, master, blocks, accs, damaged>>

(***************************************************************************)
(* The loop of af_merge.  A stripe beyond the material contributes         *)
(* nothing.  Faulty: the block is mixed in after the accumulator was       *)
(* diffused; the loop waits for a stripe that is not there.                *)
(***************************************************************************)
InMaterial(j) == (j + 1) * BLOCK_SIZE <= len

LateXor ==
    /\ pc = "merge"
    /\ i < Last
    /\ acc' = IF InMaterial(i) THEN xor_into(diffuse(acc), blocks[i]) ELSE acc
    /\ i' = i + 1
    /\ UNCHANGED <<pc, stripes, hash_spec, master, blocks, accs, damaged, len, err>>

WaitForStripe ==
    /\ pc = "merge"
    /\ i < Last
    /\ acc' = IF InMaterial(i) THEN diffuse(xor_into(acc, blocks[i])) ELSE acc
    /\ i' = IF InMaterial(i) THEN i + 1 ELSE i
    /\ UNCHANGED <<pc, stripes, hash_spec, master, blocks, accs, damaged, len, err>>

MergeStripe ==
    /\ pc = "merge"
    /\ i < Last
    /\ acc' = IF InMaterial(i) THEN diffuse(xor_into(acc, blocks[i])) ELSE acc
    /\ i' = i + 1
    /\ UNCHANGED <<pc, stripes, hash_spec, master, blocks, accs, damaged, len, err>>

MergeLast ==
    /\ pc = "merge"
    /\ i = Last
    /\ acc' = IF InMaterial(Last) THEN xor_into(acc, blocks[Last]) ELSE acc
    /\ pc' = "done"
    /\ err' = "Ok"
    /\ UNCHANGED <<stripes, hash_spec, master, blocks, accs, damaged, len, i>>

Next ==
    \/ SplitStripe \/ SplitLast
    \/ \E j \in 0 .. Last, b \in Blocks : Erase(j, b)
    \/ \E n \in 0 .. material_len : Merge(n)
    \/ MergeStripe \/ MergeLast

(***************************************************************************)
(* A merge that was called runs to its end on its caller's thread.         *)
(***************************************************************************)
Spec == Init /\ [][Next]_vars /\ WF_vars(MergeStripe \/ MergeLast)

-----------------------------------------------------------------------------
(***************************************************************************)
(* Type invariant; no stripe is merged of a count above the ceiling.       *)
(***************************************************************************)
TypeOK ==
    /\ pc \in {"split", "stored", "merge", "done"}
    /\ stripes \in StripeCounts
    /\ master \in Blocks
    /\ blocks \in [0 .. Last -> Blocks]
    /\ accs \in [0 .. (IF pc = "split" THEN i ELSE Last) -> Blocks]
    /\ damaged \subseteq 0 .. Last
    /\ len \in Nat
    /\ i \in 0 .. Last
    /\ acc \in Blocks
    /\ pc = "merge" => stripes <= MAX_STRIPES

(***************************************************************************)
(* Whatever the filler, the hash and the lengths, merging the material     *)
(* unlock reads gives back the key that was split (af.rs:49-65, and        *)
(* material_len leaves no stripe out).                                     *)
(***************************************************************************)
Whole == stripes > 0 /\ len = material_len

RoundTrip == (err = "Ok" /\ Whole /\ damaged = {}) => acc = master

(***************************************************************************)
(* docs/RESEARCH.md:102-103: "wiping any part destroys it".  One stripe    *)
(* changed, whichever and however little, and merge does not give the key. *)
(***************************************************************************)
ErasureDestroys == (err = "Ok" /\ Whole /\ damaged # {}) => acc # master

(***************************************************************************)
(* Every merge ends, of material that is too short too.                    *)
(***************************************************************************)
MergeReturns == (pc = "merge") ~> (pc = "done")
=============================================================================
