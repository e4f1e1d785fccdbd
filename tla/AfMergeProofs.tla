--------------------------- MODULE AfMergeProofs ---------------------------
(***************************************************************************)
(* Proofs about AfMerge, for every block size, digest size and sector      *)
(* size, every stripe count and filler, and every hash that satisfies the  *)
(* assumptions named in AfMerge.                                           *)
(***************************************************************************)
EXTENDS AfMerge, TLAPS

-----------------------------------------------------------------------------
(***************************************************************************)
(* xor_into is a group operation on blocks, each block its own inverse.    *)
(***************************************************************************)
LEMMA XorType ==
    ASSUME NEW a \in Blocks, NEW b \in Blocks
    PROVE  xor_into(a, b) \in Blocks
BY CellAssumption DEF Blocks, xor_into

LEMMA XorCancels ==
    ASSUME NEW a \in Blocks, NEW b \in Blocks
    PROVE  xor_into(xor_into(a, b), b) = a
BY CellAssumption DEF Blocks, xor_into

LEMMA XorCommutes ==
    ASSUME NEW a \in Blocks, NEW b \in Blocks
    PROVE  xor_into(a, b) = xor_into(b, a)
BY CellAssumption DEF Blocks, xor_into

LEMMA XorInjective ==
    ASSUME NEW a \in Blocks, NEW b \in Blocks, NEW c \in Blocks,
           xor_into(a, c) = xor_into(b, c)
    PROVE  a = b
<1>1. xor_into(xor_into(a, c), c) = xor_into(xor_into(b, c), c)
    OBVIOUS
<1>2. QED
    BY <1>1, XorCancels

LEMMA ZeroType == ZeroBlock \in Blocks
BY CellAssumption DEF ZeroBlock, Blocks

-----------------------------------------------------------------------------
(***************************************************************************)
(* The chunks of diffuse: a cell has its place in its chunk, and a place   *)
(* in a chunk is one cell, the last and shorter chunk included.            *)
(***************************************************************************)
LEMMA Division ==
    ASSUME NEW x \in Nat, NEW d \in Nat \ {0}
    PROVE  /\ x \div d \in Nat
           /\ (x \div d) * d <= x
           /\ x < (x \div d) * d + d
<1>1. x \div d \in Nat
    OBVIOUS
<1>2. (x \div d) * d <= x
    OBVIOUS
<1>3. x < (x \div d) * d + d
    OBVIOUS
<1>4. QED
    BY <1>1, <1>2, <1>3

LEMMA Quotient ==
    ASSUME NEW q \in Nat, NEW r \in Nat, NEW d \in Nat \ {0}, r < d
    PROVE  (q * d + r) \div d = q
<1> DEFINE p == (q * d + r) \div d
<1>1. q * d \in Nat
    OBVIOUS
<1>2. /\ p \in Nat
      /\ p * d <= q * d + r
      /\ q * d + r < p * d + d
    BY <1>1, Division
<1> HIDE DEF p
<1>3. ~ (p <= q - 1)
  <2> SUFFICES ASSUME p + 1 <= q PROVE FALSE
      BY <1>2
  <2>1. (p + 1) * d <= q * d
      BY <1>2
  <2>2. (p + 1) * d = p * d + d
      BY <1>2
  <2>3. p * d \in Nat
      BY <1>2
  <2>4. QED
      BY <2>1, <2>2, <2>3, <1>1, <1>2
<1>4. ~ (q <= p - 1)
  <2> SUFFICES ASSUME q + 1 <= p PROVE FALSE
      BY <1>2
  <2>1. (q + 1) * d <= p * d
      BY <1>2
  <2>2. (q + 1) * d = q * d + d
      OBVIOUS
  <2>3. p * d \in Nat
      BY <1>2
  <2>4. QED
      BY <2>1, <2>2, <2>3, <1>1, <1>2
<1>5. p = q
    BY <1>2, <1>3, <1>4
<1>6. QED
    BY <1>5 DEF p

LEMMA PlaceInChunk ==
    ASSUME NEW k \in 1 .. BLOCK_SIZE
    PROVE  /\ Chunk(k) \in 0 .. BLOCK_SIZE
           /\ ChunkLen(Chunk(k)) \in 0 .. DIGEST_SIZE
           /\ Chunk(k) * DIGEST_SIZE \in Nat
           /\ k - Chunk(k) * DIGEST_SIZE \in 1 .. ChunkLen(Chunk(k))
<1> DEFINE n == Chunk(k)
<1>1. BLOCK_SIZE \in Nat /\ DIGEST_SIZE \in Nat \ {0} /\ k \in Nat /\ k - 1 \in Nat
    BY AfAssumption
<1>2. /\ n \in Nat
      /\ n * DIGEST_SIZE <= k - 1
      /\ k - 1 < n * DIGEST_SIZE + DIGEST_SIZE
    BY <1>1, Division DEF Chunk
<1> HIDE DEF n
<1>3. n * DIGEST_SIZE \in Nat /\ n <= n * DIGEST_SIZE
    BY <1>1, <1>2
<1>4. (n + 1) * DIGEST_SIZE = n * DIGEST_SIZE + DIGEST_SIZE
    BY <1>1, <1>2
<1>5. ChunkLen(n) \in 0 .. DIGEST_SIZE /\ k - n * DIGEST_SIZE \in 1 .. ChunkLen(n)
  <2> DEFINE s == n * DIGEST_SIZE
  <2>1. CASE s + DIGEST_SIZE <= BLOCK_SIZE
      BY <2>1, <1>1, <1>2, <1>3, <1>4 DEF ChunkLen
  <2>2. CASE ~ (s + DIGEST_SIZE <= BLOCK_SIZE)
    <3>1. ChunkLen(n) = BLOCK_SIZE - s
        BY <2>2, <1>4 DEF ChunkLen
    <3> HIDE DEF s
    <3>2. s \in Nat /\ s <= k - 1 /\ k <= BLOCK_SIZE
        BY <1>1, <1>2, <1>3 DEF s
    <3>3. QED
        BY <3>1, <3>2, <2>2, <1>1 DEF s
  <2>3. QED
      BY <2>1, <2>2
<1>6. n \in 0 .. BLOCK_SIZE
    BY <1>1, <1>2, <1>3
<1>7. QED
    BY <1>3, <1>5, <1>6 DEF n

LEMMA CellOfPlace ==
    ASSUME NEW k \in 1 .. BLOCK_SIZE, NEW m \in 1 .. ChunkLen(Chunk(k))
    PROVE  /\ Chunk(k) * DIGEST_SIZE + m \in 1 .. BLOCK_SIZE
           /\ Chunk(Chunk(k) * DIGEST_SIZE + m) = Chunk(k)
<1> DEFINE n == Chunk(k)
           s == n * DIGEST_SIZE
<1>1. BLOCK_SIZE \in Nat /\ DIGEST_SIZE \in Nat \ {0}
    BY AfAssumption
<1>2. n \in Nat /\ s \in Nat /\ ChunkLen(n) \in 0 .. DIGEST_SIZE
    BY PlaceInChunk
<1>3. (n + 1) * DIGEST_SIZE = s + DIGEST_SIZE
    BY <1>1, <1>2
<1>4. m \in 1 .. ChunkLen(n)
    OBVIOUS
<1>5. ChunkLen(n) = IF s + DIGEST_SIZE <= BLOCK_SIZE THEN DIGEST_SIZE ELSE BLOCK_SIZE - s
    BY <1>3 DEF ChunkLen
<1>6. n * DIGEST_SIZE = s
    OBVIOUS
<1> HIDE DEF n, s
<1>7. s + m \in 1 .. BLOCK_SIZE /\ m - 1 \in Nat /\ m - 1 < DIGEST_SIZE
    BY <1>1, <1>2, <1>4, <1>5
<1>8. (s + (m - 1)) \div DIGEST_SIZE = n
    BY <1>1, <1>2, <1>6, <1>7, Quotient
<1>9. Chunk(s + m) = n
  <2>1. (s + m) - 1 = s + (m - 1)
      BY <1>2, <1>7
  <2>2. QED
      BY <2>1, <1>8 DEF Chunk
<1>10. QED
    BY <1>7, <1>9 DEF n, s

LEMMA ChunkType ==
    ASSUME NEW d \in Blocks, NEW k \in 1 .. BLOCK_SIZE
    PROVE  ChunkOf(d, Chunk(k)) \in [1 .. ChunkLen(Chunk(k)) -> Cells]
<1>1. \A m \in 1 .. ChunkLen(Chunk(k)) : d[Chunk(k) * DIGEST_SIZE + m] \in Cells
    BY CellOfPlace DEF Blocks
<1>2. QED
    BY <1>1 DEF ChunkOf

LEMMA DiffuseType ==
    ASSUME NEW d \in Blocks
    PROVE  diffuse(d) \in Blocks
<1>1. ASSUME NEW k \in 1 .. BLOCK_SIZE
      PROVE  Hash(Chunk(k), ChunkOf(d, Chunk(k)))[k - Chunk(k) * DIGEST_SIZE] \in Cells
  <2>1. Hash(Chunk(k), ChunkOf(d, Chunk(k))) \in [1 .. DIGEST_SIZE -> Cells]
      BY PlaceInChunk, ChunkType, HashAssumption
  <2>2. k - Chunk(k) * DIGEST_SIZE \in 1 .. DIGEST_SIZE
      BY PlaceInChunk, AfAssumption
  <2>3. QED
      BY <2>1, <2>2
<1>2. QED
    BY <1>1 DEF diffuse, Blocks

(***************************************************************************)
(* diffuse loses nothing: this is where CollisionFree is used, once per    *)
(* chunk.                                                                  *)
(***************************************************************************)
LEMMA DiffuseInjective ==
    ASSUME NEW c \in Blocks, NEW d \in Blocks, diffuse(c) = diffuse(d)
    PROVE  c = d
<1>1. ASSUME NEW k \in 1 .. BLOCK_SIZE
      PROVE  c[k] = d[k]
  <2> DEFINE n == Chunk(k)
             s == n * DIGEST_SIZE
  <2>1. ASSUME NEW m \in 1 .. ChunkLen(n)
        PROVE  Hash(n, ChunkOf(c, n))[m] = Hash(n, ChunkOf(d, n))[m]
    <3>1. s + m \in 1 .. BLOCK_SIZE /\ Chunk(s + m) = n
        BY CellOfPlace
    <3>2. (s + m) - s = m
        BY PlaceInChunk
    <3>3. diffuse(c)[s + m] = Hash(n, ChunkOf(c, n))[m]
        BY <3>1, <3>2 DEF diffuse
    <3>4. diffuse(d)[s + m] = Hash(n, ChunkOf(d, n))[m]
        BY <3>1, <3>2 DEF diffuse
    <3>5. QED
        BY <3>3, <3>4
  <2>2. n \in 0 .. BLOCK_SIZE /\ ChunkLen(n) \in 0 .. DIGEST_SIZE
      BY PlaceInChunk
  <2>3. ChunkOf(c, n) \in [1 .. ChunkLen(n) -> Cells] /\ ChunkOf(d, n) \in [1 .. ChunkLen(n) -> Cells]
      BY ChunkType
  <2>4. ChunkOf(c, n) = ChunkOf(d, n)
      BY <2>1, <2>2, <2>3, CollisionFree
  <2>5. k - s \in 1 .. ChunkLen(n) /\ s + (k - s) = k
      BY PlaceInChunk
  <2>6. ChunkOf(c, n)[k - s] = c[k] /\ ChunkOf(d, n)[k - s] = d[k]
      BY <2>5 DEF ChunkOf
  <2>7. QED
      BY <2>4, <2>6
<1>2. /\ c = [k \in 1 .. BLOCK_SIZE |-> c[k]]
      /\ d = [k \in 1 .. BLOCK_SIZE |-> d[k]]
    BY DEF Blocks
<1>3. [k \in 1 .. BLOCK_SIZE |-> c[k]] = [k \in 1 .. BLOCK_SIZE |-> d[k]]
    BY <1>1
<1>4. QED
    BY <1>2, <1>3

(***************************************************************************)
(* One round of split and merge, and that it forgets neither operand.      *)
(***************************************************************************)
Mix(a, b) == diffuse(xor_into(a, b))

LEMMA MixType ==
    ASSUME NEW a \in Blocks, NEW b \in Blocks
    PROVE  Mix(a, b) \in Blocks
BY XorType, DiffuseType DEF Mix

LEMMA MixKeepsLeft ==
    ASSUME NEW a \in Blocks, NEW b \in Blocks, NEW c \in Blocks, Mix(a, c) = Mix(b, c)
    PROVE  a = b
BY XorType, DiffuseInjective, XorInjective DEF Mix

LEMMA MixKeepsRight ==
    ASSUME NEW a \in Blocks, NEW b \in Blocks, NEW c \in Blocks, Mix(c, a) = Mix(c, b)
    PROVE  a = b
<1>1. xor_into(c, a) = xor_into(c, b)
    BY XorType, DiffuseInjective DEF Mix
<1>2. xor_into(a, c) = xor_into(b, c)
    BY <1>1, XorCommutes
<1>3. QED
    BY <1>2, XorInjective

-----------------------------------------------------------------------------
(***************************************************************************)
(* material_len leaves no stripe out: the rounding goes up.                *)
(***************************************************************************)
LEMMA MaterialHoldsStripes ==
    ASSUME stripes \in Nat, NEW j \in 0 .. Last, Whole
    PROVE  InMaterial(j)
<1>1. BLOCK_SIZE \in Nat /\ SECTOR \in Nat \ {0}
    BY AfAssumption
<1>2. BLOCK_SIZE * stripes \in Nat
    BY <1>1
<1> DEFINE x == BLOCK_SIZE * stripes
<1> HIDE DEF x
<1>3. x \in Nat
    BY <1>2 DEF x
<1>4. x <= ((x + SECTOR - 1) \div SECTOR) * SECTOR
  <2> DEFINE q == (x + SECTOR - 1) \div SECTOR
  <2>1. x + SECTOR - 1 \in Nat
      BY <1>1, <1>3
  <2>2. q \in Nat /\ x + SECTOR - 1 < q * SECTOR + SECTOR
      BY <2>1, <1>1, Division
  <2> HIDE DEF q
  <2>3. q * SECTOR \in Nat
      BY <2>2, <1>1
  <2>4. x <= q * SECTOR
      BY <2>2, <2>3, <1>1, <1>3
  <2>5. QED
      BY <2>4 DEF q
<1>5. x <= len
    BY <1>4 DEF x, Whole, material_len
<1>6. (j + 1) * BLOCK_SIZE <= BLOCK_SIZE * stripes
  <2>1. j + 1 \in Nat /\ j + 1 <= stripes
      BY DEF Last, Whole
  <2>2. \A a, b, c \in Nat : a <= b => a * c <= c * b
      OBVIOUS
  <2>3. QED
      BY <2>1, <2>2, <1>1
<1>7. len \in Int
  <2>1. (x + SECTOR - 1) \div SECTOR \in Int
      BY <1>1, <1>3
  <2>2. QED
      BY <2>1, <1>1 DEF x, Whole, material_len
<1>8. QED
    BY <1>1, <1>2, <1>3, <1>5, <1>6, <1>7 DEF InMaterial, x

-----------------------------------------------------------------------------
(***************************************************************************)
(* TypeOK: the loops stay within the stripes, and no stripe is merged of a *)
(* count above the ceiling (af.rs:80-86).                                  *)
(***************************************************************************)
LEMMA LastType ==
    ASSUME stripes \in Nat
    PROVE  Last \in Nat
BY DEF Last

LEMMA TypeInit == Init => TypeOK
<1> SUFFICES ASSUME Init PROVE TypeOK
    OBVIOUS
<1>1. stripes \in Nat /\ Last \in Nat
    BY AfAssumption, LastType DEF Init
<1>2. blocks \in [0 .. Last -> Blocks]
    BY AfAssumption DEF Init
<1>3. accs \in [0 .. (IF pc = "split" THEN i ELSE Last) -> Blocks]
  <2>1. (IF pc = "split" THEN i ELSE Last) = 0
      BY DEF Init, Last
  <2>2. 0 .. 0 = {0}
      OBVIOUS
  <2>3. QED
      BY <2>1, <2>2, ZeroType DEF Init
<1>4. QED
    BY <1>1, <1>2, <1>3, ZeroType DEF Init, TypeOK

LEMMA TypeStep == TypeOK /\ [Next]_vars => TypeOK'
<1> SUFFICES ASSUME TypeOK, [Next]_vars PROVE TypeOK'
    OBVIOUS
<1> USE DEF TypeOK
<1>1. stripes \in Nat /\ Last \in Nat
    BY AfAssumption, LastType
<1>2. CASE SplitStripe
  <2>1. Last' = Last /\ i \in Nat /\ i + 1 \in 0 .. Last
      BY <1>1, <1>2 DEF SplitStripe, Last
  <2>2. acc' \in Blocks
      BY <1>2, <2>1, MixType DEF SplitStripe, Mix
  <2>3. accs' \in [0 .. i + 1 -> Blocks]
    <3>1. \A j \in 0 .. i + 1 : j = i + 1 \/ accs[j] \in Blocks
        BY <1>2, <2>1 DEF SplitStripe
    <3>2. QED
        BY <3>1, <2>2, <1>2 DEF SplitStripe
  <2>4. QED
      BY <1>1, <1>2, <2>1, <2>2, <2>3 DEF SplitStripe
<1>3. CASE SplitLast
  <2>1. Last' = Last
      BY <1>3 DEF SplitLast, Last
  <2>2. blocks' \in [0 .. Last -> Blocks]
      BY <1>3, XorType DEF SplitLast
  <2>3. QED
      BY <1>1, <1>3, <2>1, <2>2 DEF SplitLast
<1>4. ASSUME NEW j \in 0 .. Last, NEW b \in Blocks, Erase(j, b)
      PROVE  TypeOK'
  <2>1. Last' = Last
      BY <1>4 DEF Erase, Last
  <2>2. blocks' \in [0 .. Last -> Blocks]
      BY <1>4 DEF Erase
  <2>3. QED
      BY <1>1, <1>4, <2>1, <2>2 DEF Erase
<1>5. ASSUME NEW n \in 0 .. material_len, Merge(n)
      PROVE  TypeOK'
  <2>1. Last' = Last
      BY <1>5 DEF Merge, Last
  <2>2. n \in Nat /\ 0 \in 0 .. Last
      BY <1>1
  <2>3. QED
      BY <1>1, <1>5, <2>1, <2>2, ZeroType DEF Merge, Plausible
<1>6. CASE MergeStripe
  <2>1. Last' = Last /\ i + 1 \in 0 .. Last
      BY <1>1, <1>6 DEF MergeStripe, Last
  <2>2. acc' \in Blocks
      BY <1>6, MixType DEF MergeStripe, Mix
  <2>3. QED
      BY <1>1, <1>6, <2>1, <2>2 DEF MergeStripe
<1>7. CASE MergeLast
  <2>1. Last' = Last
      BY <1>7 DEF MergeLast, Last
  <2>2. acc' \in Blocks
      BY <1>1, <1>7, XorType DEF MergeLast
  <2>3. QED
      BY <1>1, <1>7, <2>1, <2>2 DEF MergeLast
<1>8. CASE UNCHANGED vars
    BY <1>8 DEF vars, Last
<1>9. QED
    BY <1>2, <1>3, <1>4, <1>5, <1>6, <1>7, <1>8 DEF Next

(***************************************************************************)
(* The type invariant of the split and the merge, for all block, digest    *)
(* and sector sizes: the loops of af_merge stay within the stripes.        *)
(***************************************************************************)
THEOREM TypeCorrect == Spec => []TypeOK
BY TypeInit, TypeStep, PTL DEF Spec
-----------------------------------------------------------------------------
(***************************************************************************)
(* The inductive invariant of RoundTrip, on undamaged material: the        *)
(* stripes take the split's accumulators from one to the next, the last    *)
(* hides the key, and the merge's accumulator is the split's at the same   *)
(* stripe.  Of the hash only its length is used.                           *)
(***************************************************************************)
Passed == IF pc = "split" THEN i ELSE Last

Undamaged ==
    /\ accs[0] = ZeroBlock
    /\ \A n \in 0 .. Last : n < Passed => accs[n + 1] = Mix(accs[n], blocks[n])
    /\ pc = "split" => acc = accs[i]
    /\ (pc # "split" /\ stripes > 0) => blocks[Last] = xor_into(master, accs[Last])
    /\ (pc = "merge" /\ Whole) => acc = accs[i]
    /\ (pc = "done" /\ err = "Ok" /\ Whole) => acc = master

RoundInv ==
    /\ pc # "done" => err = "Pending"
    /\ damaged = {} => Undamaged

LEMMA RoundInvInit == Init => RoundInv
<1> SUFFICES ASSUME Init PROVE RoundInv
    OBVIOUS
<1>1. stripes \in Nat
    BY AfAssumption DEF Init
<1>2. Passed = 0
    BY DEF Init, Passed, Last
<1>3. Undamaged
    BY <1>1, <1>2 DEF Init, Undamaged
<1>4. QED
    BY <1>3 DEF Init, RoundInv

LEMMA RoundInvStep == TypeOK /\ RoundInv /\ [Next]_vars => RoundInv'
<1> SUFFICES ASSUME TypeOK, RoundInv, [Next]_vars PROVE RoundInv'
    OBVIOUS
<1>1. stripes \in Nat /\ Last \in Nat
    BY AfAssumption, LastType DEF TypeOK
<1>2. CASE SplitStripe
  <2>1. pc' # "done" /\ err' = "Pending" /\ damaged' = damaged /\ blocks' = blocks /\ pc' = "split"
      BY <1>2 DEF SplitStripe, RoundInv
  <2>2. SUFFICES ASSUME damaged = {}, Undamaged PROVE Undamaged'
      BY <2>1 DEF RoundInv
  <2>3. Last' = Last /\ i \in Nat /\ i < Last /\ i' = i + 1 /\ Passed = i /\ Passed' = i + 1
      BY <1>1, <1>2 DEF SplitStripe, TypeOK, Last, Passed
  <2>4. accs' = [j \in 0 .. i + 1 |-> IF j = i + 1 THEN acc' ELSE accs[j]]
      BY <1>2 DEF SplitStripe
  <2>5. accs'[i + 1] = acc' /\ \A j \in 0 .. i : accs'[j] = accs[j]
      BY <2>3, <2>4
  <2>6. acc' = Mix(accs[i], blocks[i])
      BY <1>2, <2>2 DEF SplitStripe, Undamaged, Mix
  <2>7. ASSUME NEW n \in 0 .. Last, n < i + 1
        PROVE  accs'[n + 1] = Mix(accs'[n], blocks[n])
    <3>1. CASE n = i
        BY <3>1, <2>3, <2>5, <2>6
    <3>2. CASE n < i
      <4>1. accs[n + 1] = Mix(accs[n], blocks[n])
          BY <3>2, <2>2, <2>3 DEF Undamaged
      <4>2. n \in 0 .. i /\ n + 1 \in 0 .. i
          BY <3>2, <2>3
      <4>3. QED
          BY <4>1, <4>2, <2>5
    <3>3. QED
        BY <3>1, <3>2, <2>3, <2>7
  <2>8. accs'[0] = ZeroBlock
      BY <2>2, <2>3, <2>5 DEF Undamaged
  <2>9. QED
      BY <2>1, <2>3, <2>5, <2>7, <2>8 DEF Undamaged
<1>3. CASE SplitLast
  <2>1. /\ pc' = "stored" /\ err' = "Pending" /\ damaged' = damaged /\ accs' = accs
        /\ master' = master /\ stripes' = stripes /\ pc = "split" /\ i = Last
      BY <1>3 DEF SplitLast, RoundInv
  <2>2. SUFFICES ASSUME damaged = {}, Undamaged PROVE Undamaged'
      BY <2>1 DEF RoundInv
  <2>3. Last' = Last /\ Passed = Last /\ Passed' = Last
      BY <2>1 DEF Last, Passed
  <2>4. acc = accs[Last]
      BY <2>1, <2>2 DEF Undamaged
  <2>5. /\ blocks'[Last] = xor_into(master, accs[Last])
        /\ \A n \in 0 .. Last : n < Last => blocks'[n] = blocks[n]
      BY <1>1, <1>3, <2>4 DEF SplitLast, TypeOK
  <2>6. QED
      BY <2>1, <2>2, <2>3, <2>5 DEF Undamaged
<1>4. ASSUME NEW j \in 0 .. Last, NEW b \in Blocks, Erase(j, b)
      PROVE  RoundInv'
  <2>1. damaged' # {} /\ pc' = pc /\ err' = err /\ pc = "stored"
      BY <1>4 DEF Erase
  <2>2. QED
      BY <2>1 DEF RoundInv
<1>5. ASSUME NEW n \in 0 .. material_len, Merge(n)
      PROVE  RoundInv'
  <2>1. /\ Last' = Last /\ Passed' = Passed /\ pc # "split" /\ pc' # "split"
        /\ accs' = accs /\ blocks' = blocks /\ damaged' = damaged /\ master' = master
        /\ stripes' = stripes /\ acc' = ZeroBlock /\ i' = 0
      BY <1>5 DEF Merge, Last, Passed
  <2>2. (pc' = "done" => err' # "Ok") /\ (pc' # "done" => err' = "Pending")
      BY <1>5 DEF Merge, RoundInv
  <2>3. QED
      BY <2>1, <2>2 DEF RoundInv, Undamaged
<1>6. CASE MergeStripe
  <2>1. /\ Last' = Last /\ Passed' = Passed /\ Passed = Last /\ i' = i + 1 /\ i < Last
        /\ accs' = accs /\ blocks' = blocks /\ damaged' = damaged /\ master' = master
        /\ stripes' = stripes /\ len' = len /\ pc = "merge" /\ pc' = "merge" /\ err' = "Pending"
      BY <1>6 DEF MergeStripe, RoundInv, Last, Passed
  <2>2. SUFFICES ASSUME damaged = {}, Undamaged PROVE Undamaged'
      BY <2>1 DEF RoundInv
  <2>3. i \in 0 .. Last
      BY DEF TypeOK
  <2>4. Whole => acc' = accs[i + 1]
    <3>1. Whole => acc' = Mix(acc, blocks[i])
        BY <1>1, <1>6, <2>3, MaterialHoldsStripes DEF MergeStripe, Mix
    <3>2. accs[i + 1] = Mix(accs[i], blocks[i])
        BY <2>1, <2>2, <2>3 DEF Undamaged
    <3>3. QED
        BY <3>1, <3>2, <2>1, <2>2 DEF Undamaged
  <2>5. Whole' => Whole
      BY <2>1 DEF Whole, material_len
  <2>6. QED
      BY <2>1, <2>2, <2>4, <2>5 DEF Undamaged
<1>7. CASE MergeLast
  <2>1. /\ Last' = Last /\ Passed' = Passed /\ i = Last /\ pc = "merge" /\ pc' = "done"
        /\ accs' = accs /\ blocks' = blocks /\ damaged' = damaged /\ master' = master
        /\ stripes' = stripes /\ len' = len
      BY <1>7 DEF MergeLast, Last, Passed
  <2>2. SUFFICES ASSUME damaged = {}, Undamaged PROVE Undamaged'
      BY <2>1 DEF RoundInv
  <2>3. Whole => acc' = master
    <3>1. SUFFICES ASSUME Whole PROVE acc' = master
        OBVIOUS
    <3>2. Last \in 0 .. Last /\ accs[Last] \in Blocks /\ master \in Blocks
        BY <1>1, <2>1 DEF TypeOK
    <3>3. acc' = xor_into(accs[Last], xor_into(master, accs[Last]))
        BY <1>1, <1>7, <2>1, <2>2, <3>1, <3>2, MaterialHoldsStripes
        DEF MergeLast, Undamaged, Whole
    <3>4. QED
        BY <3>2, <3>3, XorType, XorCommutes, XorCancels
  <2>4. Whole' => Whole
      BY <2>1 DEF Whole, material_len
  <2>5. QED
      BY <2>1, <2>2, <2>3, <2>4 DEF Undamaged
<1>8. CASE UNCHANGED vars
    BY <1>8 DEF vars, RoundInv, Undamaged, Passed, Last, Whole, material_len
<1>9. QED
    BY <1>2, <1>3, <1>4, <1>5, <1>6, <1>7, <1>8 DEF Next

(***************************************************************************)
(* af_merge is the inverse of the split (af.rs:49-65), whatever the hash,  *)
(* the filler, the sizes and the number of stripes: material_len reads     *)
(* every stripe, and undamaged material gives the key back.                *)
(***************************************************************************)
THEOREM MergeInvertsSplit == Spec => []RoundTrip
<1>1. RoundInv /\ TypeOK => RoundTrip
    BY DEF RoundTrip, RoundInv, Undamaged, TypeOK
<1>2. QED
    BY <1>1, TypeInit, TypeStep, RoundInvInit, RoundInvStep, PTL DEF Spec

-----------------------------------------------------------------------------
(***************************************************************************)
(* The inductive invariant of ErasureDestroys.  A stripe takes the split's *)
(* accumulator to the next one exactly if it has not been overwritten; the *)
(* last one hides the key under the same condition; and the merge's        *)
(* accumulator is the split's, at the same stripe, exactly as long as no   *)
(* overwritten stripe has been passed.                                     *)
(***************************************************************************)
Trail ==
    /\ accs[0] = ZeroBlock
    /\ \A n \in 0 .. Last : n < Passed =>
          (accs[n + 1] = Mix(accs[n], blocks[n]) <=> n \notin damaged)
    /\ \A m, n \in damaged : m = n

Hidden ==
    (pc # "split" /\ stripes > 0) =>
        (blocks[Last] = xor_into(master, accs[Last]) <=> Last \notin damaged)

InStep ==
    /\ pc = "split" => acc = accs[i] /\ damaged = {} /\ err = "Pending"
    /\ pc = "stored" => err = "Pending"
    /\ pc = "merge" => err = "Pending"
    /\ (pc = "merge" /\ Whole) =>
          (acc = accs[i] <=> \A n \in damaged : ~ (n < i))
    /\ (pc = "done" /\ err = "Ok" /\ Whole) => (acc = master <=> damaged = {})

MergeInv == Trail /\ Hidden /\ InStep

LEMMA MergeInvInit == Init => MergeInv
<1> SUFFICES ASSUME Init PROVE MergeInv
    OBVIOUS
<1>1. TypeOK /\ stripes \in Nat
    BY TypeInit, AfAssumption DEF TypeOK
<1>2. Passed = 0
    BY DEF Init, Passed, Last
<1>3. Trail
    BY <1>2 DEF Init, Trail
<1>4. Hidden
    BY <1>1 DEF Init, Hidden
<1>5. InStep
    BY DEF Init, InStep
<1>6. QED
    BY <1>3, <1>4, <1>5 DEF MergeInv

LEMMA SplitStripeKeeps ==
    ASSUME TypeOK, MergeInv, SplitStripe
    PROVE  MergeInv'
<1>1. stripes \in Nat /\ Last \in Nat /\ Last' = Last /\ i \in Nat /\ i < Last
    BY AfAssumption, LastType DEF TypeOK, SplitStripe, Last
<1>2. Passed = i /\ Passed' = i + 1
    BY DEF Passed, SplitStripe
<1>3. accs' = [j \in 0 .. i + 1 |-> IF j = i + 1 THEN acc' ELSE accs[j]]
    BY DEF SplitStripe
<1>4. /\ accs'[i + 1] = acc'
      /\ \A j \in 0 .. i : accs'[j] = accs[j]
    BY <1>1, <1>3
<1>5. acc = accs[i] /\ acc' = Mix(accs[i], blocks[i]) /\ damaged = {} /\ damaged' = {} /\ blocks' = blocks
    BY DEF SplitStripe, MergeInv, InStep, Mix
<1>6. Trail'
  <2>1. accs'[0] = ZeroBlock
      BY <1>1, <1>4 DEF MergeInv, Trail
  <2>2. ASSUME NEW n \in 0 .. Last, n < i + 1
        PROVE  accs'[n + 1] = Mix(accs'[n], blocks[n])
    <3>1. CASE n = i
        BY <3>1, <1>1, <1>4, <1>5
    <3>2. CASE n < i
      <4>1. accs[n + 1] = Mix(accs[n], blocks[n])
          BY <3>2, <1>2, <1>5 DEF MergeInv, Trail
      <4>2. n \in 0 .. i /\ n + 1 \in 0 .. i
          BY <3>2, <1>1
      <4>3. QED
          BY <4>1, <4>2, <1>4
    <3>3. QED
        BY <3>1, <3>2, <2>2, <1>1
  <2>3. \A n \in 0 .. Last' : n < Passed' =>
          (accs'[n + 1] = Mix(accs'[n], blocks'[n]) <=> n \notin damaged')
      BY <2>2, <1>1, <1>2, <1>5
  <2>4. QED
      BY <2>1, <2>3, <1>5 DEF Trail
<1>7. Hidden' /\ InStep'
    BY <1>4, <1>5 DEF SplitStripe, Hidden, InStep, MergeInv
<1>8. QED
    BY <1>6, <1>7 DEF MergeInv

LEMMA SplitLastKeeps ==
    ASSUME TypeOK, MergeInv, SplitLast
    PROVE  MergeInv'
<1>1. stripes \in Nat /\ Last \in Nat /\ Last' = Last /\ i = Last
    BY AfAssumption, LastType DEF TypeOK, SplitLast, Last
<1>2. Passed = Last /\ Passed' = Last
    BY <1>1 DEF Passed, SplitLast
<1>3. acc = accs[Last] /\ damaged = {} /\ damaged' = {} /\ accs' = accs /\ master' = master
    BY <1>1 DEF SplitLast, MergeInv, InStep
<1>4. /\ blocks'[Last] = xor_into(master, accs[Last])
      /\ \A n \in 0 .. Last : n < Last => blocks'[n] = blocks[n]
    BY <1>1, <1>3 DEF SplitLast, TypeOK
<1>5. Trail'
  <2>1. \A n \in 0 .. Last : n < Last => accs[n + 1] = Mix(accs[n], blocks'[n])
      BY <1>2, <1>3, <1>4 DEF MergeInv, Trail
  <2>2. accs[0] = ZeroBlock
      BY DEF MergeInv, Trail
  <2>3. QED
      BY <2>1, <2>2, <1>1, <1>2, <1>3 DEF Trail
<1>6. Hidden'
    BY <1>1, <1>3, <1>4 DEF Hidden
<1>7. InStep'
    BY DEF SplitLast, InStep, MergeInv
<1>8. QED
    BY <1>5, <1>6, <1>7 DEF MergeInv

(***************************************************************************)
(* The stripe overwritten took the accumulator on and no longer does.      *)
(***************************************************************************)
LEMMA EraseKeeps ==
    ASSUME TypeOK, MergeInv, NEW j \in 0 .. Last, NEW b \in Blocks, Erase(j, b)
    PROVE  MergeInv'
<1>1. stripes \in Nat /\ Last \in Nat /\ Last' = Last /\ pc = "stored" /\ pc' = "stored"
    BY AfAssumption, LastType DEF TypeOK, Erase, Last
<1>2. Passed = Last /\ Passed' = Last
    BY <1>1 DEF Passed
<1>3. damaged = {} /\ damaged' = {j} /\ accs' = accs /\ master' = master /\ b # blocks[j]
    BY DEF Erase
<1>4. /\ blocks'[j] = b
      /\ \A n \in 0 .. Last : n # j => blocks'[n] = blocks[n]
    BY DEF Erase, TypeOK
<1>5. /\ blocks \in [0 .. Last -> Blocks]
      /\ accs \in [0 .. Last -> Blocks]
      /\ master \in Blocks
    BY <1>1 DEF TypeOK
<1>6. ASSUME NEW n \in 0 .. Last, n < Last
      PROVE  accs[n + 1] = Mix(accs[n], blocks'[n]) <=> n # j
  <2>1. accs[n + 1] = Mix(accs[n], blocks[n])
      BY <1>2, <1>3, <1>6 DEF MergeInv, Trail
  <2>2. CASE n = j
      BY <2>1, <2>2, <1>3, <1>4, <1>5, MixKeepsRight
  <2>3. CASE n # j
      BY <2>1, <2>3, <1>4
  <2>4. QED
      BY <2>2, <2>3
<1>7. Trail'
  <2>1. accs[0] = ZeroBlock
      BY DEF MergeInv, Trail
  <2>2. QED
      BY <2>1, <1>1, <1>2, <1>3, <1>6 DEF Trail
<1>8. Hidden'
  <2>1. stripes > 0
      BY DEF Erase
  <2>2. blocks[Last] = xor_into(master, accs[Last])
      BY <2>1, <1>1, <1>3 DEF MergeInv, Hidden
  <2>3. blocks'[Last] = xor_into(master, accs[Last]) <=> Last # j
      BY <2>2, <1>1, <1>3, <1>4
  <2>4. QED
      BY <2>3, <1>1, <1>3 DEF Hidden
<1>9. InStep'
    BY <1>1 DEF Erase, InStep, MergeInv
<1>10. QED
    BY <1>7, <1>8, <1>9 DEF MergeInv

LEMMA MergeKeeps ==
    ASSUME TypeOK, MergeInv, NEW n \in 0 .. material_len, Merge(n)
    PROVE  MergeInv'
<1>1. /\ Last \in Nat /\ Last' = Last /\ Passed' = Passed
      /\ accs' = accs /\ blocks' = blocks /\ damaged' = damaged /\ master' = master
      /\ stripes' = stripes /\ pc' # "split" /\ pc # "split"
    BY AfAssumption, LastType DEF TypeOK, Merge, Last, Passed
<1>2. Trail' /\ Hidden'
    BY <1>1 DEF MergeInv, Trail, Hidden
<1>3. InStep'
  <2>1. damaged \subseteq 0 .. Last /\ acc' = accs'[0] /\ i' = 0 /\ err = "Pending"
      BY <1>1 DEF TypeOK, Merge, MergeInv, Trail, InStep
  <2>2. \A k \in damaged : ~ (k < 0)
      BY <2>1, <1>1
  <2>3. pc' = "done" => err' # "Ok"
      BY DEF Merge
  <2>4. pc' = "merge" => err' = "Pending"
      BY <2>1 DEF Merge
  <2>5. pc' # "stored"
      BY DEF Merge
  <2>6. QED
      BY <2>1, <2>2, <2>3, <2>4, <2>5, <1>1 DEF InStep
<1>4. QED
    BY <1>2, <1>3 DEF MergeInv

LEMMA MergeStripeKeeps ==
    ASSUME TypeOK, MergeInv, MergeStripe
    PROVE  MergeInv'
<1>1. /\ stripes \in Nat /\ Last \in Nat /\ Last' = Last /\ Passed' = Passed /\ Passed = Last
      /\ accs' = accs /\ blocks' = blocks /\ damaged' = damaged /\ master' = master
      /\ stripes' = stripes /\ len' = len /\ pc' = "merge" /\ pc = "merge" /\ err' = err
      /\ i \in 0 .. Last /\ i < Last /\ i' = i + 1
    BY AfAssumption, LastType DEF TypeOK, MergeStripe, Last, Passed
<1>2. Trail' /\ Hidden'
    BY <1>1 DEF MergeInv, Trail, Hidden
<1>3. /\ blocks \in [0 .. Last -> Blocks]
      /\ accs \in [0 .. Last -> Blocks]
      /\ acc \in Blocks
      /\ damaged \subseteq 0 .. Last
    BY <1>1 DEF TypeOK
<1>4. ASSUME Whole
      PROVE  acc' = accs[i + 1] <=> \A n \in damaged : ~ (n < i + 1)
  <2>1. acc' = Mix(acc, blocks[i])
      BY <1>1, <1>4, MaterialHoldsStripes DEF MergeStripe, Mix
  <2>2. accs[i + 1] = Mix(accs[i], blocks[i]) <=> i \notin damaged
      BY <1>1 DEF MergeInv, Trail
  <2>3. acc = accs[i] <=> \A n \in damaged : ~ (n < i)
      BY <1>1, <1>4 DEF MergeInv, InStep
  <2>4. \A m, n \in damaged : m = n
      BY DEF MergeInv, Trail
  <2>5. CASE i \in damaged
    <3>1. acc = accs[i]
        BY <2>3, <2>4, <2>5, <1>1
    <3>2. acc' # accs[i + 1]
        BY <3>1, <2>1, <2>2, <2>5
    <3>3. i < i + 1
        BY <1>1
    <3>4. QED
        BY <3>2, <3>3, <2>5
  <2>6. CASE i \notin damaged
    <3>1. acc' = accs[i + 1] <=> acc = accs[i]
      <4>1. acc' = accs[i + 1] => acc = accs[i]
          BY <2>1, <2>2, <2>6, <1>1, <1>3, MixKeepsLeft
      <4>2. acc = accs[i] => acc' = accs[i + 1]
          BY <2>1, <2>2, <2>6
      <4>3. QED
          BY <4>1, <4>2
    <3>2. \A n \in damaged : n < i + 1 <=> n < i
        BY <2>6, <1>1, <1>3
    <3>3. QED
        BY <3>1, <3>2, <2>3
  <2>7. QED
      BY <2>5, <2>6
<1>5. InStep'
  <2>1. err = "Pending"
      BY <1>1 DEF MergeInv, InStep
  <2>2. Whole' => Whole
      BY <1>1 DEF Whole, material_len
  <2>3. QED
      BY <2>1, <2>2, <1>1, <1>4 DEF InStep
<1>6. QED
    BY <1>2, <1>5 DEF MergeInv

LEMMA MergeLastKeeps ==
    ASSUME TypeOK, MergeInv, MergeLast
    PROVE  MergeInv'
<1>1. /\ stripes \in Nat /\ Last \in Nat /\ Last' = Last /\ Passed' = Passed /\ Passed = Last
      /\ accs' = accs /\ blocks' = blocks /\ damaged' = damaged /\ master' = master
      /\ stripes' = stripes /\ len' = len /\ pc' = "done" /\ pc = "merge" /\ i = Last
    BY AfAssumption, LastType DEF TypeOK, MergeLast, Last, Passed
<1>2. Trail' /\ Hidden'
    BY <1>1 DEF MergeInv, Trail, Hidden
<1>3. /\ blocks[Last] \in Blocks
      /\ accs[Last] \in Blocks
      /\ acc \in Blocks
      /\ master \in Blocks
      /\ damaged \subseteq 0 .. Last
    BY <1>1 DEF TypeOK
<1>4. ASSUME Whole
      PROVE  acc' = master <=> damaged = {}
  <2>1. acc' = xor_into(acc, blocks[Last])
      BY <1>1, <1>4, MaterialHoldsStripes DEF MergeLast
  <2>2. blocks[Last] = xor_into(master, accs[Last]) <=> Last \notin damaged
      BY <1>1, <1>4 DEF MergeInv, Hidden, Whole
  <2>3. acc = accs[Last] <=> \A n \in damaged : ~ (n < Last)
      BY <1>1, <1>4 DEF MergeInv, InStep
  <2>4. \A m, n \in damaged : m = n
      BY DEF MergeInv, Trail
  <2>5. acc' = master <=> blocks[Last] = xor_into(master, acc)
    <3>1. acc' = xor_into(blocks[Last], acc)
        BY <2>1, <1>3, XorCommutes
    <3>2. xor_into(xor_into(blocks[Last], acc), acc) = blocks[Last]
        BY <1>3, XorCancels
    <3>3. xor_into(xor_into(master, acc), acc) = master
        BY <1>3, XorCancels
    <3>4. QED
        BY <3>1, <3>2, <3>3
  <2>6. CASE damaged = {}
      BY <2>2, <2>3, <2>5, <2>6
  <2>7. CASE Last \in damaged
    <3>1. acc = accs[Last]
        BY <2>3, <2>4, <2>7, <1>1
    <3>2. QED
        BY <3>1, <2>2, <2>5, <2>7
  <2>8. CASE damaged # {} /\ Last \notin damaged
    <3>1. PICK n \in damaged : n \in 0 .. Last /\ n # Last
        BY <2>8, <1>3
    <3>2. acc # accs[Last] /\ blocks[Last] = xor_into(master, accs[Last])
        BY <3>1, <2>2, <2>3, <2>8, <1>1
    <3>3. xor_into(master, accs[Last]) = xor_into(accs[Last], master) /\ xor_into(master, acc) = xor_into(acc, master)
        BY <1>3, XorCommutes
    <3>4. xor_into(master, acc) # xor_into(master, accs[Last])
        BY <3>2, <3>3, <1>3, XorInjective
    <3>5. QED
        BY <3>2, <3>4, <2>5, <2>8
  <2>9. QED
      BY <2>6, <2>7, <2>8
<1>5. InStep'
  <2>1. Whole' => Whole
      BY <1>1 DEF Whole, material_len
  <2>2. QED
      BY <2>1, <1>1, <1>4 DEF InStep
<1>6. QED
    BY <1>2, <1>5 DEF MergeInv

LEMMA MergeInvStep == TypeOK /\ MergeInv /\ [Next]_vars => MergeInv'
<1> SUFFICES ASSUME TypeOK, MergeInv, [Next]_vars PROVE MergeInv'
    OBVIOUS
<1>1. CASE UNCHANGED vars
    BY <1>1 DEF vars, MergeInv, Trail, Hidden, InStep, Passed, Last, Whole, material_len
<1>2. CASE Next
    BY <1>2, SplitStripeKeeps, SplitLastKeeps, EraseKeeps, MergeKeeps, MergeStripeKeeps,
       MergeLastKeeps DEF Next
<1>3. QED
    BY <1>1, <1>2

LEMMA ErrOnlyWhenDone == MergeInv /\ TypeOK /\ err = "Ok" => pc = "done"
BY DEF MergeInv, InStep, TypeOK

(***************************************************************************)
(* "wiping any part destroys it" (docs/RESEARCH.md:102-103): with a hash   *)
(* free of collisions on chunks, one stripe changed in any way makes the   *)
(* merge give another key.                                                 *)
(***************************************************************************)
THEOREM AnyStripeMatters == Spec => []ErasureDestroys
<1>1. MergeInv /\ TypeOK => ErasureDestroys
    BY ErrOnlyWhenDone DEF ErasureDestroys, MergeInv, InStep
<1>2. QED
    BY <1>1, TypeInit, TypeStep, MergeInvInit, MergeInvStep, PTL DEF Spec
=============================================================================
