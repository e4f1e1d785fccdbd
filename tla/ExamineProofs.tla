--------------------------- MODULE ExamineProofs ---------------------------
(***************************************************************************)
(* Proofs about Examine, for every image: a LUKS1 header is parsed as it   *)
(* was written, both parsers refuse for a cause, the audit says what is on *)
(* disk, and the objects of a LUKS2 document are in its header, the first  *)
(* encrypted segment being the one decrypted.                              *)
(***************************************************************************)
EXTENDS Examine, SequenceTheorems, FiniteSetTheorems, WellFoundedInduction, TLAPS

-----------------------------------------------------------------------------
(***************************************************************************)
(* A sequence lies in another at an offset.  Of a concatenation both parts *)
(* do, one after the other; what lies in a buffer still does when the      *)
(* buffer is cut off behind it.                                            *)
(***************************************************************************)
Byte == 0 .. 255

At(data, off, part) ==
    /\ off + Len(part) <= Len(data)
    /\ \A i \in 1 .. Len(part) : data[off + i] = part[i]

LEMMA BytesAreSeq ==
    ASSUME NEW n \in Nat, NEW s \in Bytes(n)
    PROVE  s \in Seq(Byte) /\ Len(s) = n
BY DEF Bytes, Byte

LEMMA BytesAreInts ==
    ASSUME NEW n \in Nat, NEW s \in Bytes(n)
    PROVE  s \in Seq(Int) /\ \A i \in 1 .. n : s[i] \in 0 .. 255
<1>1. s \in [1 .. n -> Byte]
    BY DEF Bytes, Byte
<1>2. Byte \subseteq Int
    BY DEF Byte
<1>3. s \in [1 .. n -> Int]
    BY <1>1, <1>2
<1>4. \A i \in 1 .. n : s[i] \in Byte
    BY <1>1
<1>5. QED
    BY <1>3, <1>4 DEF Byte

LEMMA ConcatLies ==
    ASSUME NEW data \in Seq(Byte), NEW p \in Seq(Byte), NEW q \in Seq(Byte),
           NEW off \in Nat, At(data, off, p \o q)
    PROVE  At(data, off, p) /\ At(data, off + Len(p), q)
<1>1. /\ Len(p) \in Nat /\ Len(q) \in Nat /\ Len(data) \in Nat
      /\ Len(p \o q) = Len(p) + Len(q)
      /\ \A i \in 1 .. Len(p) + Len(q) : (p \o q)[i] = IF i <= Len(p) THEN p[i] ELSE q[i - Len(p)]
    BY ConcatProperties
<1>2. At(data, off, p)
    BY <1>1 DEF At
<1>3. ASSUME NEW i \in 1 .. Len(q) PROVE data[off + Len(p) + i] = q[i]
  <2>1. Len(p) + i \in 1 .. Len(p) + Len(q) /\ ~ (Len(p) + i <= Len(p)) /\ (Len(p) + i) - Len(p) = i
      BY <1>1
  <2>2. data[off + (Len(p) + i)] = (p \o q)[Len(p) + i]
      BY <2>1, <1>1 DEF At
  <2>3. (p \o q)[Len(p) + i] = q[i]
      BY <2>1, <1>1
  <2>4. off + (Len(p) + i) = off + Len(p) + i
      BY <1>1
  <2>5. QED
      BY <2>2, <2>3, <2>4
<1>4. QED
    BY <1>1, <1>2, <1>3 DEF At

LEMMA CutLies ==
    ASSUME NEW data \in Seq(Byte), NEW n \in 0 .. Len(data), NEW off \in Nat, NEW s \in Seq(Byte),
           At(data, off, s), off + Len(s) <= n
    PROVE  At(SubSeq(data, 1, n), off, s)
<1>1. /\ Len(data) \in Nat /\ Len(s) \in Nat /\ n \in Nat
      /\ Len(SubSeq(data, 1, n)) = n
      /\ \A i \in 1 .. n : SubSeq(data, 1, n)[i] = data[i]
    OBVIOUS
<1>2. QED
    BY <1>1 DEF At

LEMMA ReadsWhatLies ==
    ASSUME NEW data \in Seq(Byte), NEW off \in Nat, NEW n \in Nat, NEW s \in Bytes(n),
           At(data, off, s)
    PROVE  bytes_n(data, off, n) = s /\ Field(data, off, n) = s
<1>1. s \in Seq(Byte) /\ Len(s) = n /\ Len(data) \in Nat
    BY BytesAreSeq
<1>2. off + n <= Len(data) /\ \A i \in 1 .. n : data[off + i] = s[i]
    BY <1>1 DEF At
<1> DEFINE t == SubSeq(data, off + 1, off + n)
<1>3. t \in Seq(Byte) /\ Len(t) = n /\ \A i \in 1 .. n : t[i] = data[off + i]
  <2>1. \A i \in off + 1 .. off + n : data[i] \in Byte
      BY <1>1, <1>2
  <2>2. /\ t \in Seq(Byte)
        /\ Len(t) = IF off + 1 <= off + n THEN (off + n) - (off + 1) + 1 ELSE 0
        /\ \A i \in 1 .. (off + n) - (off + 1) + 1 : t[i] = data[(off + 1) + i - 1]
      BY <2>1, SubSeqProperties
  <2> HIDE DEF t
  <2>3. (off + n) - (off + 1) + 1 = n /\ \A i \in 1 .. n : (off + 1) + i - 1 = off + i
      OBVIOUS
  <2>4. QED
      BY <2>2, <2>3
<1> HIDE DEF t
<1>4. t = s
    BY <1>1, <1>2, <1>3, SeqEqual
<1>5. QED
    BY <1>2, <1>4 DEF bytes_n, Field, t

-----------------------------------------------------------------------------
(***************************************************************************)
(* The layout of the LUKS1 header: where the format puts each field when   *)
(* they are written one after the other.  The offsets are those that parse *)
(* reads at (header.rs:118-141).                                           *)
(***************************************************************************)
Joins(whole, p, q) == whole = p \o q

LEMMA Joined ==
    ASSUME NEW m \in Nat, NEW n \in Nat, NEW p \in Bytes(m), NEW q \in Bytes(n),
           NEW whole, Joins(whole, p, q)
    PROVE  whole \in Bytes(m + n)
<1>1. p \in Seq(Byte) /\ Len(p) = m /\ q \in Seq(Byte) /\ Len(q) = n
    BY BytesAreSeq
<1>2. p \o q \in Seq(Byte) /\ Len(p \o q) = m + n
    BY <1>1, ConcatProperties
<1>3. p \o q \in [1 .. m + n -> Byte]
    BY <1>2, LenProperties
<1>4. QED
    BY <1>3 DEF Bytes, Byte, Joins

LEMMA Peel ==
    ASSUME NEW data \in Seq(Byte), NEW off \in Nat, NEW m \in Nat, NEW n \in Nat,
           NEW p \in Bytes(m), NEW q \in Bytes(n), NEW whole, Joins(whole, p, q),
           At(data, off, whole)
    PROVE  At(data, off, p) /\ At(data, off + m, q)
<1>1. p \in Seq(Byte) /\ Len(p) = m /\ q \in Seq(Byte)
    BY BytesAreSeq
<1>2. QED
    BY <1>1, ConcatLies DEF Joins

LEMMA WholeLies ==
    ASSUME NEW data \in Seq(Byte)
    PROVE  At(data, 0, data)
BY DEF At

LEMMA SlotLayout ==
    ASSUME NEW s \in DiskKeyslot
    PROVE  /\ SlotBytes(s) \in Bytes(48)
           /\ \A data \in Seq(Byte), off \in Nat :
                 At(data, off, SlotBytes(s)) =>
                    /\ At(data, off, s.active) /\ At(data, off + 4, s.iterations)
                    /\ At(data, off + 8, s.salt) /\ At(data, off + 40, s.key_material_offset)
                    /\ At(data, off + 44, s.stripes)
<1> DEFINE p2 == s.active \o s.iterations
           p3 == p2 \o s.salt
           p4 == p3 \o s.key_material_offset
           p5 == p4 \o s.stripes
<1>1. /\ s.active \in Bytes(4) /\ s.iterations \in Bytes(4) /\ s.salt \in Bytes(32)
      /\ s.key_material_offset \in Bytes(4) /\ s.stripes \in Bytes(4)
    BY DEF DiskKeyslot
<1>2. SlotBytes(s) = p5
    BY DEF SlotBytes
<1>3. /\ Joins(p2, s.active, s.iterations) /\ Joins(p3, p2, s.salt)
      /\ Joins(p4, p3, s.key_material_offset) /\ Joins(p5, p4, s.stripes)
    BY DEF Joins
<1> HIDE DEF p2, p3, p4, p5
<1>4. p2 \in Bytes(8)
    BY <1>1, <1>3, Joined
<1>5. p3 \in Bytes(40)
    BY <1>1, <1>3, <1>4, Joined
<1>6. p4 \in Bytes(44)
    BY <1>1, <1>3, <1>5, Joined
<1>7. p5 \in Bytes(48)
    BY <1>1, <1>3, <1>6, Joined
<1>8. ASSUME NEW data \in Seq(Byte), NEW off \in Nat, At(data, off, p5)
      PROVE  /\ At(data, off, s.active) /\ At(data, off + 4, s.iterations)
             /\ At(data, off + 8, s.salt) /\ At(data, off + 40, s.key_material_offset)
             /\ At(data, off + 44, s.stripes)
  <2>1. At(data, off, p4) /\ At(data, off + 44, s.stripes)
      BY <1>1, <1>3, <1>6, <1>8, Peel
  <2>2. At(data, off, p3) /\ At(data, off + 40, s.key_material_offset)
      BY <2>1, <1>1, <1>3, <1>5, Peel
  <2>3. At(data, off, p2) /\ At(data, off + 8, s.salt)
      BY <2>2, <1>1, <1>3, <1>4, Peel
  <2>4. At(data, off, s.active) /\ At(data, off + 4, s.iterations)
      BY <2>3, <1>1, <1>3, Peel
  <2>5. QED
      BY <2>1, <2>2, <2>3, <2>4
<1>9. QED
    BY <1>2, <1>7, <1>8

LEMMA Layout ==
    ASSUME NEW d \in DiskHeader
    PROVE  /\ OnDisk(d) \in Bytes(LUKS1_PHDR_LEN)
           /\ At(OnDisk(d), 0, d.magic)
           /\ At(OnDisk(d), 6, d.version)
           /\ At(OnDisk(d), 8, d.cipher_name)
           /\ At(OnDisk(d), 40, d.cipher_mode)
           /\ At(OnDisk(d), 72, d.hash_spec)
           /\ At(OnDisk(d), 104, d.payload_offset)
           /\ At(OnDisk(d), 108, d.key_bytes)
           /\ At(OnDisk(d), 112, d.mk_digest)
           /\ At(OnDisk(d), 132, d.mk_digest_salt)
           /\ At(OnDisk(d), 164, d.mk_digest_iter)
           /\ At(OnDisk(d), 168, d.uuid)
           /\ \A k \in 1 .. LUKS_NUM_KEYS :
                 At(OnDisk(d), 208 + (k - 1) * KEYSLOT_LEN, SlotBytes(d.keyslots[k]))
<1> DEFINE data == OnDisk(d)
           slot == [k \in 1 .. LUKS_NUM_KEYS |-> SlotBytes(d.keyslots[k])]
           p1 == d.magic
           p2 == p1 \o d.version
           p3 == p2 \o d.cipher_name
           p4 == p3 \o d.cipher_mode
           p5 == p4 \o d.hash_spec
           p6 == p5 \o d.payload_offset
           p7 == p6 \o d.key_bytes
           p8 == p7 \o d.mk_digest
           p9 == p8 \o d.mk_digest_salt
           p10 == p9 \o d.mk_digest_iter
           p11 == p10 \o d.uuid
           p12 == p11 \o slot[1]
           p13 == p12 \o slot[2]
           p14 == p13 \o slot[3]
           p15 == p14 \o slot[4]
           p16 == p15 \o slot[5]
           p17 == p16 \o slot[6]
           p18 == p17 \o slot[7]
           p19 == p18 \o slot[8]
<1>1. /\ p1 \in Bytes(6)
      /\ d.version \in Bytes(2)
      /\ d.cipher_name \in Bytes(32)
      /\ d.cipher_mode \in Bytes(32)
      /\ d.hash_spec \in Bytes(32)
      /\ d.payload_offset \in Bytes(4)
      /\ d.key_bytes \in Bytes(4)
      /\ d.mk_digest \in Bytes(20)
      /\ d.mk_digest_salt \in Bytes(32)
      /\ d.mk_digest_iter \in Bytes(4)
      /\ d.uuid \in Bytes(40)
    BY DEF DiskHeader
<1>2. \A k \in 1 .. 8 : slot[k] = SlotBytes(d.keyslots[k]) /\ slot[k] \in Bytes(48)
  <2>1. \A k \in 1 .. 8 : d.keyslots[k] \in DiskKeyslot
      BY DEF DiskHeader, LUKS_NUM_KEYS
  <2>2. QED
      BY <2>1, SlotLayout DEF LUKS_NUM_KEYS
<1>3. data = p19
  <2>1. /\ slot[1] = SlotBytes(d.keyslots[1])
        /\ slot[2] = SlotBytes(d.keyslots[2])
        /\ slot[3] = SlotBytes(d.keyslots[3])
        /\ slot[4] = SlotBytes(d.keyslots[4])
        /\ slot[5] = SlotBytes(d.keyslots[5])
        /\ slot[6] = SlotBytes(d.keyslots[6])
        /\ slot[7] = SlotBytes(d.keyslots[7])
        /\ slot[8] = SlotBytes(d.keyslots[8])
      BY <1>2
  <2> HIDE DEF slot
  <2>2. QED
      BY <2>1, Zenon DEF OnDisk
<1> HIDE DEF data, slot
<1>4. /\ Joins(p2, p1, d.version)
      /\ Joins(p3, p2, d.cipher_name)
      /\ Joins(p4, p3, d.cipher_mode)
      /\ Joins(p5, p4, d.hash_spec)
      /\ Joins(p6, p5, d.payload_offset)
      /\ Joins(p7, p6, d.key_bytes)
      /\ Joins(p8, p7, d.mk_digest)
      /\ Joins(p9, p8, d.mk_digest_salt)
      /\ Joins(p10, p9, d.mk_digest_iter)
      /\ Joins(p11, p10, d.uuid)
      /\ Joins(p12, p11, slot[1])
      /\ Joins(p13, p12, slot[2])
      /\ Joins(p14, p13, slot[3])
      /\ Joins(p15, p14, slot[4])
      /\ Joins(p16, p15, slot[5])
      /\ Joins(p17, p16, slot[6])
      /\ Joins(p18, p17, slot[7])
      /\ Joins(p19, p18, slot[8])
    BY Zenon DEF Joins
<1> HIDE DEF p1, p2, p3, p4, p5, p6, p7, p8, p9, p10, p11, p12, p13, p14, p15, p16, p17, p18, p19
<1>5. p2 \in Bytes(8)
    BY <1>1, <1>4, Joined
<1>6. p3 \in Bytes(40)
    BY <1>1, <1>5, <1>4, Joined
<1>7. p4 \in Bytes(72)
    BY <1>1, <1>6, <1>4, Joined
<1>8. p5 \in Bytes(104)
    BY <1>1, <1>7, <1>4, Joined
<1>9. p6 \in Bytes(108)
    BY <1>1, <1>8, <1>4, Joined
<1>10. p7 \in Bytes(112)
    BY <1>1, <1>9, <1>4, Joined
<1>11. p8 \in Bytes(132)
    BY <1>1, <1>10, <1>4, Joined
<1>12. p9 \in Bytes(164)
    BY <1>1, <1>11, <1>4, Joined
<1>13. p10 \in Bytes(168)
    BY <1>1, <1>12, <1>4, Joined
<1>14. p11 \in Bytes(208)
    BY <1>1, <1>13, <1>4, Joined
<1>15. p12 \in Bytes(256)
    BY <1>2, <1>14, <1>4, Joined
<1>16. p13 \in Bytes(304)
    BY <1>2, <1>15, <1>4, Joined
<1>17. p14 \in Bytes(352)
    BY <1>2, <1>16, <1>4, Joined
<1>18. p15 \in Bytes(400)
    BY <1>2, <1>17, <1>4, Joined
<1>19. p16 \in Bytes(448)
    BY <1>2, <1>18, <1>4, Joined
<1>20. p17 \in Bytes(496)
    BY <1>2, <1>19, <1>4, Joined
<1>21. p18 \in Bytes(544)
    BY <1>2, <1>20, <1>4, Joined
<1>22. p19 \in Bytes(592)
    BY <1>2, <1>21, <1>4, Joined
<1>23. data \in Seq(Byte) /\ At(data, 0, p19)
    BY <1>3, <1>22, BytesAreSeq, WholeLies
<1>24. At(data, 0, p18) /\ At(data, 544, slot[8])
    BY <1>2, <1>4, <1>21, <1>23, Peel
<1>25. At(data, 0, p17) /\ At(data, 496, slot[7])
    BY <1>2, <1>4, <1>20, <1>23, <1>24, Peel
<1>26. At(data, 0, p16) /\ At(data, 448, slot[6])
    BY <1>2, <1>4, <1>19, <1>23, <1>25, Peel
<1>27. At(data, 0, p15) /\ At(data, 400, slot[5])
    BY <1>2, <1>4, <1>18, <1>23, <1>26, Peel
<1>28. At(data, 0, p14) /\ At(data, 352, slot[4])
    BY <1>2, <1>4, <1>17, <1>23, <1>27, Peel
<1>29. At(data, 0, p13) /\ At(data, 304, slot[3])
    BY <1>2, <1>4, <1>16, <1>23, <1>28, Peel
<1>30. At(data, 0, p12) /\ At(data, 256, slot[2])
    BY <1>2, <1>4, <1>15, <1>23, <1>29, Peel
<1>31. At(data, 0, p11) /\ At(data, 208, slot[1])
    BY <1>2, <1>4, <1>14, <1>23, <1>30, Peel
<1>32. At(data, 0, p10) /\ At(data, 168, d.uuid)
    BY <1>1, <1>4, <1>13, <1>23, <1>31, Peel
<1>33. At(data, 0, p9) /\ At(data, 164, d.mk_digest_iter)
    BY <1>1, <1>4, <1>12, <1>23, <1>32, Peel
<1>34. At(data, 0, p8) /\ At(data, 132, d.mk_digest_salt)
    BY <1>1, <1>4, <1>11, <1>23, <1>33, Peel
<1>35. At(data, 0, p7) /\ At(data, 112, d.mk_digest)
    BY <1>1, <1>4, <1>10, <1>23, <1>34, Peel
<1>36. At(data, 0, p6) /\ At(data, 108, d.key_bytes)
    BY <1>1, <1>4, <1>9, <1>23, <1>35, Peel
<1>37. At(data, 0, p5) /\ At(data, 104, d.payload_offset)
    BY <1>1, <1>4, <1>8, <1>23, <1>36, Peel
<1>38. At(data, 0, p4) /\ At(data, 72, d.hash_spec)
    BY <1>1, <1>4, <1>7, <1>23, <1>37, Peel
<1>39. At(data, 0, p3) /\ At(data, 40, d.cipher_mode)
    BY <1>1, <1>4, <1>6, <1>23, <1>38, Peel
<1>40. At(data, 0, p2) /\ At(data, 8, d.cipher_name)
    BY <1>1, <1>4, <1>5, <1>23, <1>39, Peel
<1>41. At(data, 0, p1) /\ At(data, 6, d.version)
    BY <1>1, <1>4, <1>23, <1>40, Peel
<1>42. ASSUME NEW k \in 1 .. LUKS_NUM_KEYS
       PROVE  At(data, 208 + (k - 1) * KEYSLOT_LEN, slot[k])
    BY <1>31, <1>30, <1>29, <1>28, <1>27, <1>26, <1>25, <1>24 DEF LUKS_NUM_KEYS, KEYSLOT_LEN
<1>43. QED
    BY <1>2, <1>3, <1>22, <1>41, <1>40, <1>39, <1>38, <1>37, <1>36, <1>35, <1>34, <1>33, <1>32, <1>42
    DEF LUKS1_PHDR_LEN, LUKS_NUM_KEYS, data, p1

-----------------------------------------------------------------------------
(***************************************************************************)
(* A text in a field is well defined: there is a first NUL, or none.       *)
(***************************************************************************)
Less == OpToRel(<, Nat)

LEMMA LeastOf ==
    ASSUME NEW T, T \subseteq Nat, T # {}
    PROVE  \E x \in T : \A y \in T : x <= y
<1>1. IsWellFoundedOn(Less, Nat)
    BY NatLessThanWellFounded DEF Less
<1>2. PICK x \in T : \A y \in T : <<y, x>> \notin Less
    BY <1>1, WFMin
<1>3. \A y \in T : ~ (y < x)
    BY <1>2 DEF Less, OpToRel
<1>4. QED
    BY <1>3

LEMMA CstrSpells ==
    ASSUME NEW n \in Nat, NEW field \in Bytes(n), NEW data, NEW off, Field(data, off, n) = field
    PROVE  Spells(cstr(data, off, n), field) /\ cstr(data, off, n) \in Seq(Int)
<1> DEFINE Ends(k) == /\ k < Len(field) => field[k + 1] = 0
                      /\ \A m \in 1 .. k : field[m] # 0
           end     == CHOOSE k \in 0 .. Len(field) : Ends(k)
<1>1. field \in Seq(Byte) /\ Len(field) = n
    BY BytesAreSeq
<1>2. \E k \in 0 .. n : Ends(k)
  <2> DEFINE T == {k \in 0 .. n : k = n \/ field[k + 1] = 0}
  <2>1. n \in T /\ T \subseteq Nat
      OBVIOUS
  <2>2. PICK k \in T : \A j \in T : k <= j
      BY <2>1, LeastOf
  <2>3. ASSUME NEW m \in 1 .. k PROVE field[m] # 0
    <3>1. m - 1 \in 0 .. n /\ ~ (k <= m - 1) /\ (m - 1) + 1 = m
        BY <2>2
    <3>2. m - 1 \notin T
        BY <3>1, <2>2
    <3>3. QED
        BY <3>1, <3>2
  <2>4. k < n => field[k + 1] = 0
      BY <2>2
  <2>5. QED
      BY <2>2, <2>3, <2>4, <1>1
<1>3. end \in 0 .. n /\ Ends(end)
    BY <1>1, <1>2
<1> DEFINE s    == SubSeq(field, 1, end)
           text == Lossy(s)
<1>4. cstr(data, off, n) = text
    BY DEF cstr
<1> HIDE DEF end
<1>5. Len(s) = end /\ \A i \in 1 .. end : s[i] = field[i]
    BY <1>1, <1>3
<1> HIDE DEF s
<1>6. Len(text) = end /\ \A i \in 1 .. end : text[i] = IF s[i] < 128 THEN s[i] ELSE REPLACEMENT
    BY <1>3, <1>5 DEF Lossy
<1>7. \A i \in 1 .. n : Lossy(field)[i] = IF field[i] < 128 THEN field[i] ELSE REPLACEMENT
    BY <1>1 DEF Lossy
<1> HIDE DEF text
<1>8. Spells(text, field)
    BY <1>1, <1>3, <1>5, <1>6, <1>7 DEF Spells
<1>9. text \in Seq(Int)
  <2>1. \A i \in 1 .. end : s[i] \in Int
      BY <1>1, <1>3, <1>5 DEF Byte
  <2>2. Lossy(s) \in [1 .. end -> Int]
      BY <2>1, <1>5 DEF Lossy, REPLACEMENT
  <2>3. QED
      BY <2>2, <1>3 DEF text
<1>10. QED
    BY <1>4, <1>8, <1>9

(***************************************************************************)
(* A field spells one text, and whether it begins with three given ASCII   *)
(* letters is seen on its bytes.                                           *)
(***************************************************************************)
LEMMA SpellsOnce ==
    ASSUME NEW n \in Nat, NEW field \in Bytes(n), NEW s \in Seq(Int), NEW t \in Seq(Int),
           Spells(s, field), Spells(t, field)
    PROVE  s = t
<1>1. field \in Seq(Byte) /\ Len(field) = n /\ Len(s) \in Nat /\ Len(t) \in Nat
    BY BytesAreSeq
<1>2. ~ (Len(s) < Len(t))
    BY <1>1 DEF Spells
<1>3. ~ (Len(t) < Len(s))
    BY <1>1 DEF Spells
<1>4. Len(s) = Len(t)
    BY <1>1, <1>2, <1>3
<1>5. \A i \in 1 .. Len(s) : s[i] = t[i]
    BY <1>4 DEF Spells
<1>6. QED
    BY <1>4, <1>5, SeqEqual

LEMMA FirstThree ==
    ASSUME NEW s \in Seq(Int), Len(s) >= 3, NEW w \in Seq(Int), Len(w) = 3
    PROVE  SubSeq(s, 1, 3) = w <=> \A i \in 1 .. 3 : s[i] = w[i]
<1> DEFINE t == SubSeq(s, 1, 3)
<1>1. \A i \in 1 .. 3 : s[i] \in Int
    BY ElementOfSeq
<1>2. t \in Seq(Int) /\ Len(t) = 3 /\ \A i \in 1 .. 3 : t[i] = s[i]
    BY <1>1, SubSeqProperties
<1> HIDE DEF t
<1>3. (\A i \in 1 .. 3 : t[i] = w[i]) => t = w
    BY <1>2, SeqEqual
<1>4. t = w <=> \A i \in 1 .. 3 : s[i] = w[i]
    BY <1>2, <1>3
<1>5. QED
    BY <1>4 DEF t

Letters(w) == w \in Seq(Int) /\ Len(w) = 3 /\ \A i \in 1 .. 3 : w[i] \in 1 .. 127

LEMMA BeginsWith ==
    ASSUME NEW n \in Nat, n >= 3, NEW field \in Bytes(n), NEW s \in Seq(Int), Spells(s, field),
           NEW w, Letters(w)
    PROVE  IsPrefix(w, s) <=> SubSeq(field, 1, 3) = w
<1>0. w \in Seq(Int) /\ Len(w) = 3 /\ \A i \in 1 .. 3 : w[i] \in 1 .. 127
    BY DEF Letters
<1>1. field \in Seq(Byte) /\ Len(field) = n
    BY BytesAreSeq
<1>2. Len(s) \in Nat /\ \A i \in 1 .. n : field[i] \in 0 .. 255
    BY BytesAreInts
<1>3. field \in Seq(Int)
    BY BytesAreInts
<1>4. \A k \in 1 .. n : Lossy(field)[k] = IF field[k] < 128 THEN field[k] ELSE REPLACEMENT
    BY <1>1 DEF Lossy
<1>5. /\ Len(s) <= n
      /\ \A k \in 1 .. Len(s) : field[k] # 0 /\ s[k] = Lossy(field)[k]
      /\ Len(s) < n => field[Len(s) + 1] = 0
    BY <1>1 DEF Spells
<1>6. SubSeq(field, 1, 3) = w <=> \A i \in 1 .. 3 : field[i] = w[i]
    BY <1>0, <1>1, <1>3, FirstThree
<1>7. IsPrefix(w, s) <=> Len(s) >= 3 /\ \A i \in 1 .. 3 : s[i] = w[i]
  <2>1. SubSeq(w, 1, Len(w)) = w
      BY <1>0, SubSeqFull
  <2>2. IsPrefix(w, s) <=> Len(s) >= 3 /\ SubSeq(s, 1, 3) = w
      BY <2>1, <1>0, <1>2 DEF IsPrefix
  <2>3. QED
      BY <2>2, <1>0, FirstThree
<1>8. ASSUME Len(s) >= 3, NEW i \in 1 .. 3 PROVE s[i] = w[i] <=> field[i] = w[i]
  <2>1. i \in 1 .. Len(s) /\ i \in 1 .. n
      BY <1>2, <1>8
  <2>2. s[i] = IF field[i] < 128 THEN field[i] ELSE REPLACEMENT
      BY <2>1, <1>4, <1>5
  <2>3. w[i] \in 1 .. 127 /\ field[i] \in 0 .. 255
    <3>1. w[i] \in 1 .. 127
        BY <1>0
    <3>2. field[i] \in 0 .. 255
        BY <2>1, <1>2
    <3>3. QED
        BY <3>1, <3>2
  <2> DEFINE b == field[i]
             c == w[i]
  <2>4. b \in 0 .. 255 /\ c \in 1 .. 127 /\ s[i] = IF b < 128 THEN b ELSE REPLACEMENT
      BY <2>2, <2>3
  <2> HIDE DEF b, c
  <2>5. s[i] = c <=> b = c
    <3>1. CASE b < 128
        BY <3>1, <2>4
    <3>2. CASE ~ (b < 128)
      <4>1. s[i] = 65533
          BY <3>2, <2>4 DEF REPLACEMENT
      <4>2. c \in Int /\ c < 128 /\ b \in Int
          BY <2>4
      <4>3. c # 65533 /\ b # c
          BY <3>2, <4>2
      <4>4. QED
          BY <4>1, <4>3
    <3>3. QED
        BY <3>1, <3>2
  <2>6. QED
      BY <2>5 DEF b, c
<1>9. ASSUME \A i \in 1 .. 3 : field[i] = w[i] PROVE Len(s) >= 3
  <2> SUFFICES ASSUME ~ (Len(s) >= 3) PROVE FALSE
      OBVIOUS
  <2>1. Len(s) + 1 \in 1 .. 3 /\ Len(s) < n
      BY <1>2
  <2>2. field[Len(s) + 1] = 0 /\ field[Len(s) + 1] \in 1 .. 127
      BY <2>1, <1>0, <1>5, <1>9
  <2>3. QED
      BY <2>2
<1>10. QED
    BY <1>6, <1>7, <1>8, <1>9

(***************************************************************************)
(* The records of the keyslots are read as they were written.              *)
(***************************************************************************)
LEMMA SlotIsRead ==
    ASSUME NEW data \in Seq(Byte), NEW s \in DiskKeyslot, NEW base \in Nat,
           At(data, base, SlotBytes(s))
    PROVE  KeyslotAt(data, base) = s
<1>1. /\ s.active \in Bytes(4) /\ s.iterations \in Bytes(4) /\ s.salt \in Bytes(32)
      /\ s.key_material_offset \in Bytes(4) /\ s.stripes \in Bytes(4)
      /\ s = [active |-> s.active, iterations |-> s.iterations, salt |-> s.salt,
              key_material_offset |-> s.key_material_offset, stripes |-> s.stripes]
    BY DEF DiskKeyslot
<1>2. /\ At(data, base, s.active) /\ At(data, base + 4, s.iterations)
      /\ At(data, base + 8, s.salt) /\ At(data, base + 40, s.key_material_offset)
      /\ At(data, base + 44, s.stripes)
    BY SlotLayout
<1>3. base + 4 \in Nat /\ base + 8 \in Nat /\ base + 40 \in Nat /\ base + 44 \in Nat
    OBVIOUS
<1>4. /\ bytes_n(data, base, 4) = s.active /\ bytes_n(data, base + 4, 4) = s.iterations
      /\ bytes_n(data, base + 8, 32) = s.salt
      /\ bytes_n(data, base + 40, 4) = s.key_material_offset
      /\ bytes_n(data, base + 44, 4) = s.stripes
    BY <1>1, <1>2, <1>3, ReadsWhatLies
<1>5. KeyslotAt(data, base) =
          [active |-> s.active, iterations |-> s.iterations, salt |-> s.salt,
           key_material_offset |-> s.key_material_offset, stripes |-> s.stripes]
    BY <1>4 DEF KeyslotAt, be_u32
<1>6. QED
    BY <1>1, <1>5

(***************************************************************************)
(* A whole header, field by field.                                         *)
(***************************************************************************)
LEMMA FieldsAreRead ==
    ASSUME NEW d \in DiskHeader
    PROVE  LET h == Fields1(OnDisk(d))
           IN /\ h.payload_offset = d.payload_offset /\ h.key_bytes = d.key_bytes
              /\ h.mk_digest = d.mk_digest /\ h.mk_digest_salt = d.mk_digest_salt
              /\ h.mk_digest_iter = d.mk_digest_iter /\ h.keyslots = d.keyslots
              /\ Spells(h.cipher_name, d.cipher_name) /\ Spells(h.cipher_mode, d.cipher_mode)
              /\ Spells(h.hash_spec, d.hash_spec) /\ Spells(h.uuid, d.uuid)
              /\ h.cipher_mode \in Seq(Int) /\ h.hash_spec \in Seq(Int)
<1> DEFINE data == OnDisk(d)
           h    == Fields1(data)
<1>1. data \in Seq(Byte)
    BY Layout, BytesAreSeq DEF LUKS1_PHDR_LEN
<1>2. /\ d.cipher_name \in Bytes(32) /\ d.cipher_mode \in Bytes(32) /\ d.hash_spec \in Bytes(32)
      /\ d.payload_offset \in Bytes(4) /\ d.key_bytes \in Bytes(4)
      /\ d.mk_digest \in Bytes(20) /\ d.mk_digest_salt \in Bytes(32)
      /\ d.mk_digest_iter \in Bytes(4) /\ d.uuid \in Bytes(40)
      /\ d.keyslots \in [1 .. LUKS_NUM_KEYS -> DiskKeyslot]
    BY DEF DiskHeader
<1>3. /\ At(data, 8, d.cipher_name) /\ At(data, 40, d.cipher_mode) /\ At(data, 72, d.hash_spec)
      /\ At(data, 104, d.payload_offset) /\ At(data, 108, d.key_bytes)
      /\ At(data, 112, d.mk_digest) /\ At(data, 132, d.mk_digest_salt)
      /\ At(data, 164, d.mk_digest_iter) /\ At(data, 168, d.uuid)
      /\ \A k \in 1 .. LUKS_NUM_KEYS :
            At(data, 208 + (k - 1) * KEYSLOT_LEN, SlotBytes(d.keyslots[k]))
    BY Layout
<1> HIDE DEF data
<1>4. /\ be_u32(data, 104) = d.payload_offset /\ be_u32(data, 108) = d.key_bytes
      /\ bytes_n(data, 112, 20) = d.mk_digest /\ bytes_n(data, 132, 32) = d.mk_digest_salt
      /\ be_u32(data, 164) = d.mk_digest_iter
    BY <1>1, <1>2, <1>3, ReadsWhatLies DEF be_u32
<1>5. /\ Field(data, 8, 32) = d.cipher_name /\ Field(data, 40, 32) = d.cipher_mode
      /\ Field(data, 72, 32) = d.hash_spec /\ Field(data, 168, 40) = d.uuid
    BY <1>1, <1>2, <1>3, ReadsWhatLies
<1>6. /\ Spells(cstr(data, 8, 32), d.cipher_name) /\ Spells(cstr(data, 40, 32), d.cipher_mode)
      /\ Spells(cstr(data, 72, 32), d.hash_spec) /\ Spells(cstr(data, 168, 40), d.uuid)
      /\ cstr(data, 40, 32) \in Seq(Int) /\ cstr(data, 72, 32) \in Seq(Int)
    BY <1>2, <1>5, CstrSpells
<1>7. [k \in 1 .. LUKS_NUM_KEYS |-> keyslot(data, k - 1)] = d.keyslots
  <2>1. ASSUME NEW k \in 1 .. LUKS_NUM_KEYS PROVE keyslot(data, k - 1) = d.keyslots[k]
    <3>1. 208 + (k - 1) * KEYSLOT_LEN \in Nat /\ d.keyslots[k] \in DiskKeyslot
        BY <1>2 DEF LUKS_NUM_KEYS, KEYSLOT_LEN
    <3>2. QED
        BY <3>1, <1>1, <1>3, SlotIsRead DEF keyslot
  <2>2. QED
      BY <2>1, <1>2
<1>8. QED
    BY <1>4, <1>6, <1>7 DEF Fields1, data

-----------------------------------------------------------------------------
(***************************************************************************)
(* A buffer that ends anywhere: the magic is seen when its six bytes are   *)
(* there, and zeros, which spell no magic, otherwise.                      *)
(***************************************************************************)
Luks1Image(i) == i.luks = 1 /\ i.disk \in DiskHeader /\ i.len \in 0 .. LUKS1_PHDR_LEN

Luks2Image(i) ==
    /\ i.luks = 2 /\ i.magic \in BOOLEAN /\ i.json_valid \in BOOLEAN
    /\ i.len \in Nat /\ i.version \in Nat /\ i.hdr_size \in Nat /\ i.json_len \in Nat

LEMMA ImageKinds == \A i \in Images : Luks1Image(i) \/ Luks2Image(i)
BY ImagesAssumption DEF Luks1Image, Luks2Image

LEMMA BufferIsPrefix ==
    ASSUME Luks1Image(image)
    PROVE  /\ Buffer \in Seq(Byte) /\ Len(Buffer) = image.len
           /\ image.len = LUKS1_PHDR_LEN => Buffer = OnDisk(image.disk)
           /\ image.len >= 6 => At(Buffer, 0, image.disk.magic)
<1> DEFINE disk  == OnDisk(image.disk)
           n     == image.len
           m     == image.disk.magic
           whole == LUKS1_PHDR_LEN
<1>1. image.disk \in DiskHeader /\ n \in 0 .. whole /\ whole \in Nat
    BY DEF Luks1Image, LUKS1_PHDR_LEN
<1>2. m \in Bytes(6)
    BY <1>1 DEF DiskHeader
<1>3. disk \in Bytes(whole) /\ At(disk, 0, m)
    BY <1>1, Layout
<1> HIDE DEF whole, m
<1>4. disk \in Seq(Byte) /\ Len(disk) = whole
    BY <1>1, <1>3, BytesAreSeq
<1>5. m \in Seq(Byte) /\ Len(m) = 6
    BY <1>2, BytesAreSeq
<1>6. Buffer = SubSeq(disk, 1, n)
    BY DEF Buffer
<1> HIDE DEF disk, n
<1>7. SubSeq(disk, 1, n) \in Seq(Byte) /\ Len(SubSeq(disk, 1, n)) = n
  <2>1. \A i \in 1 .. n : disk[i] \in Byte
      BY <1>1, <1>4, ElementOfSeq
  <2>2. QED
      BY <2>1, <1>1, SubSeqProperties
<1>8. n = whole => SubSeq(disk, 1, n) = disk
    BY <1>4, SubSeqFull
<1>9. n >= 6 => At(SubSeq(disk, 1, n), 0, m)
  <2>1. n >= 6 => 0 + Len(m) <= n
      BY <1>1, <1>5
  <2>2. n \in 0 .. Len(disk)
      BY <1>1, <1>4
  <2>3. m \in Seq(Byte)
      BY <1>5
  <2>4. QED
      BY <2>1, <2>2, <2>3, <1>3, <1>4, CutLies
<1>10. QED
    BY <1>6, <1>7, <1>8, <1>9 DEF disk, n, m, whole

LEMMA MagicIsSeen ==
    ASSUME Luks1Image(image)
    PROVE  bytes_n(Buffer, 0, 6) = LUKS_MAGIC <=> HasMagic
<1>1. /\ Buffer \in Seq(Byte) /\ Len(Buffer) = image.len /\ image.luks = 1
      /\ image.len \in Nat /\ image.disk.magic \in Bytes(6)
    BY BufferIsPrefix DEF Luks1Image, LUKS1_PHDR_LEN, DiskHeader
<1>2. CASE image.len >= 6
  <2>1. bytes_n(Buffer, 0, 6) = image.disk.magic
      BY <1>1, <1>2, BufferIsPrefix, ReadsWhatLies
  <2>2. QED
      BY <2>1, <1>1, <1>2 DEF HasMagic
<1>3. CASE ~ (image.len >= 6)
  <2>1. bytes_n(Buffer, 0, 6) = [k \in 1 .. 6 |-> 0]
      BY <1>1, <1>3 DEF bytes_n
  <2>2. bytes_n(Buffer, 0, 6)[1] = 0 /\ LUKS_MAGIC[1] = 76
      BY <2>1 DEF LUKS_MAGIC
  <2>3. QED
      BY <2>2, <1>3 DEF HasMagic
<1>4. QED
    BY <1>2, <1>3

LEMMA VersionIsSeen ==
    ASSUME Luks1Image(image), image.len = LUKS1_PHDR_LEN
    PROVE  be_u16(Buffer, 6) = image.disk.version
<1>1. /\ Buffer \in Seq(Byte) /\ Buffer = OnDisk(image.disk)
      /\ image.disk \in DiskHeader /\ image.disk.version \in Bytes(2)
    BY BufferIsPrefix DEF Luks1Image, DiskHeader
<1>2. At(Buffer, 6, image.disk.version)
    BY <1>1, Layout
<1>3. QED
    BY <1>1, <1>2, ReadsWhatLies DEF be_u16

-----------------------------------------------------------------------------
(***************************************************************************)
(* What each parser answers, and when.                                     *)
(***************************************************************************)
Answered(err) ==
    /\ err = "Ok" <=> (HasMagic /\ HasVersion /\ HasAll)
    /\ err = "NotLuks" <=> ~ HasMagic
    /\ err = "UnsupportedVersion" => ~ HasVersion \/ image.len < 8
    /\ err = "MalformedHeader" => ~ HasAll

LEMMA Parse1Answers ==
    ASSUME Luks1Image(image)
    PROVE  /\ Answered(parse1(Buffer).err)
           /\ parse1(Buffer).err = "Ok" =>
                 image.len = LUKS1_PHDR_LEN /\ parse1(Buffer) = Fields1(OnDisk(image.disk))
<1>1. /\ image.luks = 1 /\ image.len \in 0 .. 592 /\ Len(Buffer) = image.len
      /\ bytes_n(Buffer, 0, 6) = LUKS_MAGIC <=> HasMagic
    BY BufferIsPrefix, MagicIsSeen DEF Luks1Image, LUKS1_PHDR_LEN
<1>2. /\ HasVersion <=> image.disk.version = <<0, 1>>
      /\ HasAll <=> image.len >= 592
    BY <1>1 DEF HasVersion, HasAll
<1>3. /\ Refused("NotLuks").err = "NotLuks"
      /\ Refused("MalformedHeader").err = "MalformedHeader"
      /\ Refused("UnsupportedVersion").err = "UnsupportedVersion"
      /\ Fields1(Buffer).err = "Ok"
    BY DEF Refused, Fields1
<1>4. CASE ~ HasMagic
  <2>1. parse1(Buffer) = Refused("NotLuks")
      BY <1>1, <1>4 DEF parse1
  <2>2. QED
      BY <2>1, <1>3, <1>4 DEF Answered
<1>5. CASE HasMagic /\ image.len < 592
  <2>1. parse1(Buffer) = Refused("MalformedHeader")
      BY <1>1, <1>5 DEF parse1, LUKS1_PHDR_LEN
  <2>2. ~ HasAll
      BY <1>1, <1>2, <1>5
  <2>3. QED
      BY <2>1, <2>2, <1>3, <1>5 DEF Answered
<1>6. CASE HasMagic /\ image.len = 592
  <2>1. ~ (Len(Buffer) < LUKS1_PHDR_LEN) /\ HasAll /\ image.len = LUKS1_PHDR_LEN
      BY <1>1, <1>2, <1>6 DEF LUKS1_PHDR_LEN
  <2>2. be_u16(Buffer, 6) = <<0, 1>> <=> HasVersion
      BY <2>1, <1>2, VersionIsSeen
  <2>3. parse1(Buffer) = IF HasVersion THEN Fields1(Buffer) ELSE Refused("UnsupportedVersion")
      BY <2>1, <2>2, <1>1, <1>6 DEF parse1
  <2>4. Buffer = OnDisk(image.disk)
      BY <2>1, BufferIsPrefix
  <2>5. CASE HasVersion
      BY <2>1, <2>3, <2>4, <2>5, <1>3, <1>6 DEF Answered
  <2>6. CASE ~ HasVersion
      BY <2>3, <2>6, <1>3, <1>6 DEF Answered
  <2>7. QED
      BY <2>5, <2>6
<1>7. image.len < 592 \/ image.len = 592
    BY DEF Luks1Image, LUKS1_PHDR_LEN
<1>8. QED
    BY <1>4, <1>5, <1>6, <1>7

LEMMA Parse2Answers ==
    ASSUME Luks2Image(image)
    PROVE  Answered(parse2(image).err)
<1> DEFINE need == LUKS2_BIN_HDR_LEN + image.json_len
<1>1. /\ image.luks = 2 /\ image.len \in Nat /\ image.hdr_size \in Nat
      /\ image.json_len \in Nat /\ image.version \in Nat
    BY DEF Luks2Image
<1>2. /\ HasMagic <=> image.len >= 6 /\ image.magic
      /\ HasVersion <=> image.version = 2
    BY <1>1 DEF HasMagic, HasVersion
<1>3. JsonArea(image) < need <=> ~ (image.len >= need /\ image.hdr_size >= need)
    BY <1>1 DEF JsonArea, LUKS2_BIN_HDR_LEN
<1>4. HasAll <=> ~ (JsonArea(image) < need \/ ~ image.json_valid \/ image.json_len = 0)
    BY <1>1, <1>3 DEF HasAll, LUKS2_BIN_HDR_LEN
<1>5. HasAll => image.len >= 8
    BY <1>1 DEF HasAll
<1>6. CASE ~ HasMagic
  <2>1. image.len < 6 \/ ~ image.magic
      BY <1>1, <1>2, <1>6
  <2>2. parse2(image).err = "NotLuks"
      BY <2>1 DEF parse2
  <2>3. QED
      BY <2>2, <1>6 DEF Answered
<1>7. CASE HasMagic /\ (image.len < 8 \/ ~ HasVersion)
  <2>1. parse2(image).err = "UnsupportedVersion"
      BY <1>1, <1>2, <1>7 DEF parse2
  <2>2. image.len < 8 => ~ HasAll
      BY <1>1, <1>5
  <2>3. QED
      BY <2>1, <2>2, <1>7 DEF Answered
<1>8. CASE HasMagic /\ ~ (image.len < 8) /\ HasVersion /\ ~ HasAll
  <2>1. parse2(image).err = "MalformedHeader"
      BY <1>1, <1>2, <1>4, <1>8 DEF parse2
  <2>2. QED
      BY <2>1, <1>8 DEF Answered
<1>9. CASE HasMagic /\ ~ (image.len < 8) /\ HasVersion /\ HasAll
  <2>1. parse2(image).err = "Ok"
      BY <1>1, <1>2, <1>4, <1>9 DEF parse2
  <2>2. QED
      BY <2>1, <1>9 DEF Answered
<1>10. QED
    BY <1>6, <1>7, <1>8, <1>9

-----------------------------------------------------------------------------
(***************************************************************************)
(* The inductive invariant: once parsed, the header is what the parser of  *)
(* the image's version makes of the image, and once audited, the findings  *)
(* are the audit's of that header, which was accepted.                     *)
(***************************************************************************)
ExamineInv ==
    /\ image \in Images
    /\ stage = "read" => header.err = "Pending"
    /\ stage # "read" => header = IF image.luks = 1 THEN parse1(Buffer) ELSE parse2(image)
    /\ stage = "audited" => image.luks = 1 /\ header.err = "Ok" /\ findings = audit1(header)

LEMMA SpecInv == Spec => []ExamineInv
<1>1. Init => ExamineInv
    BY DEF Init, ExamineInv
<1>2. ExamineInv /\ [Next]_vars => ExamineInv'
  <2> SUFFICES ASSUME ExamineInv, [Next]_vars PROVE ExamineInv'
      OBVIOUS
  <2>1. image' = image /\ Buffer' = Buffer
      BY DEF Next, ParseLuks1, ParseLuks2, Audit1, vars, Buffer
  <2>2. CASE ParseLuks1
      BY <2>1, <2>2 DEF ExamineInv, ParseLuks1
  <2>3. CASE ParseLuks2
      BY <2>1, <2>3 DEF ExamineInv, ParseLuks2
  <2>4. CASE Audit1
      BY <2>1, <2>4 DEF ExamineInv, Audit1
  <2>5. CASE UNCHANGED vars
      BY <2>1, <2>5 DEF ExamineInv, vars
  <2>6. QED
      BY <2>2, <2>3, <2>4, <2>5 DEF Next
<1>3. QED
    BY <1>1, <1>2, PTL DEF Spec

(***************************************************************************)
(* A parser refuses for a reason that is true of what it was given, and    *)
(* accepts nothing of which a part it needs is missing, wherever the       *)
(* buffer ends and whatever is in it (header.rs:101-116, header2.rs:135-   *)
(* 165).                                                                   *)
(***************************************************************************)
THEOREM RefusesForCause == Spec => []RefusedForCause
<1>1. ExamineInv => RefusedForCause
  <2> SUFFICES ASSUME ExamineInv, stage # "read" PROVE Answered(header.err)
      BY DEF RefusedForCause, Answered
  <2>1. image \in Images
      BY DEF ExamineInv
  <2>2. CASE Luks1Image(image)
    <3>1. header = parse1(Buffer)
        BY <2>2 DEF ExamineInv, Luks1Image
    <3>2. QED
        BY <3>1, <2>2, Parse1Answers
  <2>3. CASE Luks2Image(image)
    <3>1. header = parse2(image)
        BY <2>3 DEF ExamineInv, Luks2Image
    <3>2. QED
        BY <3>1, <2>3, Parse2Answers
  <2>4. QED
      BY <2>1, <2>2, <2>3, ImageKinds
<1>2. QED
    BY <1>1, SpecInv, PTL

(***************************************************************************)
(* A LUKS1 header is parsed as it was written: every field is the bytes    *)
(* the format puts there, every text ends at its first NUL or with its     *)
(* field, whatever the bytes are (header.rs:118-141, bytes.rs:49-53).      *)
(***************************************************************************)
LEMMA ParsedIsWhole ==
    ASSUME ExamineInv, Parsed(1)
    PROVE  image.disk \in DiskHeader /\ header = Fields1(OnDisk(image.disk))
<1>1. image.luks = 1 /\ header.err = "Ok" /\ image \in Images
    BY DEF Parsed, ExamineInv
<1>2. Luks1Image(image)
    BY <1>1, ImageKinds DEF Luks2Image
<1>3. header = parse1(Buffer)
    BY <1>1 DEF ExamineInv
<1>4. QED
    BY <1>1, <1>2, <1>3, Parse1Answers DEF Luks1Image

THEOREM ParsesAsWritten == Spec => []ParsedAsWritten
<1>1. ExamineInv => ParsedAsWritten
  <2> SUFFICES ASSUME ExamineInv, Parsed(1)
               PROVE  /\ \A f \in {"payload_offset", "key_bytes", "mk_digest", "mk_digest_salt",
                                   "mk_digest_iter", "keyslots"} : header[f] = image.disk[f]
                      /\ \A f \in {"cipher_name", "cipher_mode", "hash_spec", "uuid"} :
                            Spells(header[f], image.disk[f])
      BY DEF ParsedAsWritten
  <2> DEFINE h == header
             d == image.disk
  <2>1. /\ h.payload_offset = d.payload_offset /\ h.key_bytes = d.key_bytes
        /\ h.mk_digest = d.mk_digest /\ h.mk_digest_salt = d.mk_digest_salt
        /\ h.mk_digest_iter = d.mk_digest_iter /\ h.keyslots = d.keyslots
        /\ Spells(h.cipher_name, d.cipher_name) /\ Spells(h.cipher_mode, d.cipher_mode)
        /\ Spells(h.hash_spec, d.hash_spec) /\ Spells(h.uuid, d.uuid)
      BY ParsedIsWhole, FieldsAreRead
  <2> HIDE DEF h, d
  <2>2. /\ \A f \in {"payload_offset", "key_bytes", "mk_digest", "mk_digest_salt",
                     "mk_digest_iter", "keyslots"} : h[f] = d[f]
        /\ \A f \in {"cipher_name", "cipher_mode", "hash_spec", "uuid"} : Spells(h[f], d[f])
      BY <2>1
  <2>3. QED
      BY <2>2 DEF h, d
<1>2. QED
    BY <1>1, SpecInv, PTL

-----------------------------------------------------------------------------
(***************************************************************************)
(* The audit.  What it can say of a header, and what its list tells after  *)
(* k turns of the loop over the keyslots: whether the mode and the hash    *)
(* are weak, and of the slots passed those with few iterations, each once  *)
(* and in their order.                                                     *)
(***************************************************************************)
LowSlot(h, k) == is_active(h.keyslots[k]) /\ BelowThousand(h.keyslots[k].iterations)

WeakMode(h) == IsPrefix(CBC, h.cipher_mode) \/ IsPrefix(ECB, h.cipher_mode)

SaysMode(h) == Anomaly("WeakCipherMode", <<h.cipher_mode>>)
SaysHash(h) == Anomaly("WeakKdfHash", <<h.hash_spec>>)
SaysLow(h, k) == Anomaly("LowKdfIterations", <<k - 1, h.keyslots[k].iterations>>)
SaysCount(h) == Anomaly("KeyslotInventory", <<Cardinality(active_keyslots(h))>>)

Sayable(h) == {SaysMode(h), SaysHash(h), SaysCount(h)} \cup {SaysLow(h, k) : k \in 1 .. 8}

Has(s, kind) == \E i \in 1 .. Len(s) : s[i].kind = kind

Tells(s, h, k) ==
    /\ s \in Seq(Sayable(h))
    /\ ~ Has(s, "KeyslotInventory")
    /\ Has(s, "WeakCipherMode") <=> WeakMode(h)
    /\ Has(s, "WeakKdfHash") <=> h.hash_spec = SHA1
    /\ \A i \in 1 .. Len(s) :
          s[i].kind = "LowKdfIterations" =>
             \E m \in 1 .. k : LowSlot(h, m) /\ s[i] = SaysLow(h, m)
    /\ \A m \in 1 .. k : LowSlot(h, m) => \E i \in 1 .. Len(s) : s[i] = SaysLow(h, m)
    /\ \A i, j \in 1 .. Len(s) :
          s[i].kind = "LowKdfIterations" /\ s[j].kind = "LowKdfIterations" /\ i < j =>
             s[i].evidence[1] < s[j].evidence[1]

LEMMA Sayings ==
    ASSUME NEW h
    PROVE  /\ SaysMode(h).kind = "WeakCipherMode"
           /\ SaysHash(h).kind = "WeakKdfHash"
           /\ SaysCount(h).kind = "KeyslotInventory"
           /\ SaysCount(h).evidence = <<Cardinality(active_keyslots(h))>>
           /\ \A k : /\ SaysLow(h, k).kind = "LowKdfIterations"
                     /\ SaysLow(h, k).evidence[1] = k - 1
                     /\ SaysLow(h, k).evidence[2] = h.keyslots[k].iterations
BY DEF SaysMode, SaysHash, SaysCount, SaysLow, Anomaly

LEMMA Pushed ==
    ASSUME NEW S, NEW s \in Seq(S), NEW x \in S
    PROVE  /\ s \o <<x>> \in Seq(S)
           /\ Len(s \o <<x>>) = Len(s) + 1
           /\ \A i \in 1 .. Len(s) : (s \o <<x>>)[i] = s[i]
           /\ (s \o <<x>>)[Len(s) + 1] = x
           /\ Len(s) \in Nat
<1>1. <<x>> \in Seq(S) /\ Len(<<x>>) = 1 /\ <<x>>[1] = x /\ Len(s) \in Nat
    OBVIOUS
<1>2. /\ s \o <<x>> \in Seq(S)
      /\ Len(s \o <<x>>) = Len(s) + Len(<<x>>)
      /\ \A i \in 1 .. Len(s) + Len(<<x>>) :
            (s \o <<x>>)[i] = IF i <= Len(s) THEN s[i] ELSE <<x>>[i - Len(s)]
    BY <1>1, ConcatProperties
<1>3. QED
    BY <1>1, <1>2

LEMMA PushedNothing ==
    ASSUME NEW S, NEW s \in Seq(S)
    PROVE  s \o <<>> = s
BY ConcatEmptySeq

(***************************************************************************)
(* The list before the loop.                                               *)
(***************************************************************************)
LEMMA WeakTold ==
    ASSUME NEW h
    PROVE  Tells(WeakCipherMode(h) \o WeakKdfHash(h), h, 0)
<1> DEFINE S == Sayable(h)
           s == WeakCipherMode(h)
           t == s \o WeakKdfHash(h)
<1>1. SaysMode(h) \in S /\ SaysHash(h) \in S
    BY DEF Sayable
<1>2. s = (IF WeakMode(h) THEN <<SaysMode(h)>> ELSE <<>>)
    BY DEF WeakCipherMode, WeakMode, SaysMode
<1>3. /\ s \in Seq(S) /\ Len(s) = IF WeakMode(h) THEN 1 ELSE 0
      /\ \A i \in 1 .. Len(s) : s[i].kind = "WeakCipherMode"
  <2> HIDE DEF S, s
  <2>1. CASE WeakMode(h)
      BY <2>1, <1>1, <1>2, Sayings
  <2>2. CASE ~ WeakMode(h)
      BY <2>2, <1>2, EmptySeq
  <2>3. QED
      BY <2>1, <2>2
<1>4. WeakKdfHash(h) = IF h.hash_spec = SHA1 THEN <<SaysHash(h)>> ELSE <<>>
    BY DEF WeakKdfHash, SaysHash
<1> HIDE DEF S, s
<1>5. /\ t \in Seq(S) /\ Len(t) \in Nat
      /\ \A i \in 1 .. Len(t) : t[i].kind = "WeakCipherMode" \/ t[i].kind = "WeakKdfHash"
      /\ Has(t, "WeakCipherMode") <=> WeakMode(h)
      /\ Has(t, "WeakKdfHash") <=> h.hash_spec = SHA1
  <2>1. CASE h.hash_spec = SHA1
    <3>1. t = s \o <<SaysHash(h)>>
        BY <2>1, <1>4
    <3>2. /\ t \in Seq(S) /\ Len(t) = Len(s) + 1 /\ Len(s) \in Nat
          /\ \A i \in 1 .. Len(s) : t[i] = s[i]
          /\ t[Len(s) + 1] = SaysHash(h)
        BY <3>1, <1>1, <1>3, Pushed
    <3> HIDE DEF t
    <3>3. t[Len(s) + 1].kind = "WeakKdfHash"
        BY <3>2, Sayings
    <3>4. QED
        BY <2>1, <3>2, <3>3, <1>3 DEF Has
  <2>2. CASE h.hash_spec # SHA1
    <3>1. t = s
        BY <2>2, <1>3, <1>4, PushedNothing
    <3> HIDE DEF t
    <3>2. QED
        BY <2>2, <3>1, <1>3 DEF Has
  <2>3. QED
      BY <2>1, <2>2
<1> HIDE DEF t
<1>6. ~ Has(t, "KeyslotInventory")
    BY <1>5 DEF Has
<1>7. Tells(t, h, 0)
    BY <1>5, <1>6 DEF Tells, S
<1>8. QED
    BY <1>7 DEF t, s

(***************************************************************************)
(* One turn of the loop.                                                   *)
(***************************************************************************)
LEMMA TurnTells ==
    ASSUME NEW h, NEW k \in 0 .. 7, NEW s, Tells(s, h, k)
    PROVE  Tells(s \o LowIterations(h, k + 1), h, k + 1)
<1> DEFINE n == k + 1
           x == SaysLow(h, n)
           t == s \o LowIterations(h, n)
           S == Sayable(h)
<1>1. LowIterations(h, n) = IF LowSlot(h, n) THEN <<x>> ELSE <<>>
    BY DEF LowIterations, LowSlot, SaysLow, SlotIndex
<1>2. /\ x.kind = "LowKdfIterations" /\ x.evidence[1] = k
      /\ \A m : SaysLow(h, m).evidence[1] = m - 1
  <2>1. n - 1 = k
      OBVIOUS
  <2> HIDE DEF n
  <2>2. x.kind = "LowKdfIterations" /\ x.evidence[1] = n - 1
      BY Sayings
  <2>3. QED
      BY <2>1, <2>2, Sayings
<1>3. s \in Seq(S) /\ x \in S
    BY DEF Tells, Sayable
<1>4. 1 .. n = 1 .. k \cup {n} /\ n \notin 1 .. k
    OBVIOUS
<1>5. CASE ~ LowSlot(h, n)
  <2>1. t = s
      BY <1>1, <1>3, <1>5, PushedNothing
  <2> HIDE DEF t, n
  <2>2. Tells(t, h, n)
      BY <2>1, <1>4, <1>5 DEF Tells
  <2>3. QED
      BY <2>2 DEF t, n
<1>6. CASE LowSlot(h, n)
  <2>1. t = s \o <<x>>
      BY <1>1, <1>6
  <2>2. /\ t \in Seq(S) /\ Len(t) = Len(s) + 1 /\ Len(s) \in Nat
        /\ \A i \in 1 .. Len(s) : t[i] = s[i]
        /\ t[Len(s) + 1] = x
    <3> HIDE DEF S, x, t
    <3>1. QED
        BY <2>1, <1>3, Pushed
  <2> DEFINE z == Len(s) + 1
  <2>3. 1 .. Len(t) = 1 .. Len(s) \cup {z} /\ z \notin 1 .. Len(s)
      BY <2>2
  <2>4. \A kind : Has(t, kind) <=> Has(s, kind) \/ kind = "LowKdfIterations"
    <3> HIDE DEF t, x, z
    <3>1. t[z] = x
        BY <2>2 DEF z
    <3>2. QED
        BY <3>1, <2>2, <2>3, <1>2 DEF Has
  <2> HIDE DEF t, x, n
  <2>5. ASSUME NEW i \in 1 .. Len(t), t[i].kind = "LowKdfIterations"
        PROVE  \E m \in 1 .. n : LowSlot(h, m) /\ t[i] = SaysLow(h, m)
    <3>1. CASE i = z
        BY <3>1, <2>2, <1>4, <1>6 DEF x
    <3>2. CASE i \in 1 .. Len(s)
        BY <3>2, <2>2, <2>5, <1>4 DEF Tells
    <3>3. QED
        BY <3>1, <3>2, <2>3
  <2>6. ASSUME NEW m \in 1 .. n, LowSlot(h, m)
        PROVE  \E i \in 1 .. Len(t) : t[i] = SaysLow(h, m)
    <3>1. CASE m = n
        BY <3>1, <2>2, <2>3 DEF x
    <3>2. CASE m \in 1 .. k
      <4>1. PICK i \in 1 .. Len(s) : s[i] = SaysLow(h, m)
          BY <3>2, <2>6 DEF Tells
      <4>2. QED
          BY <4>1, <2>2, <2>3
    <3>3. QED
        BY <3>1, <3>2, <1>4
  <2>7. ASSUME NEW i \in 1 .. Len(t), NEW j \in 1 .. Len(t), i < j,
               t[i].kind = "LowKdfIterations", t[j].kind = "LowKdfIterations"
        PROVE  t[i].evidence[1] < t[j].evidence[1]
    <3>1. i \in 1 .. Len(s)
        BY <2>2, <2>7
    <3>2. CASE j \in 1 .. Len(s)
        BY <3>1, <3>2, <2>2, <2>7 DEF Tells
    <3>3. CASE j = z
      <4>1. t[j].evidence[1] = k
          BY <3>3, <2>2, <1>2
      <4>2. PICK m \in 1 .. k : s[i] = SaysLow(h, m)
          BY <3>1, <2>2, <2>7 DEF Tells
      <4>3. t[i].evidence[1] = m - 1
          BY <4>2, <3>1, <2>2, <1>2
      <4>4. QED
          BY <4>1, <4>3
    <3>4. QED
        BY <3>2, <3>3, <2>3
  <2>8. Tells(t, h, n)
      BY <2>2, <2>4, <2>5, <2>6, <2>7 DEF Tells, S
  <2>9. QED
      BY <2>8 DEF t, n
<1>7. QED
    BY <1>5, <1>6

LEMMA AuditTells ==
    ASSUME NEW h
    PROVE  \E t : Tells(t, h, 8) /\ audit1(h) = t \o <<SaysCount(h)>>
<1> DEFINE t0 == WeakCipherMode(h) \o WeakKdfHash(h)
           t1 == t0 \o LowIterations(h, 1)
           t2 == t1 \o LowIterations(h, 2)
           t3 == t2 \o LowIterations(h, 3)
           t4 == t3 \o LowIterations(h, 4)
           t5 == t4 \o LowIterations(h, 5)
           t6 == t5 \o LowIterations(h, 6)
           t7 == t6 \o LowIterations(h, 7)
           t8 == t7 \o LowIterations(h, 8)
<1>1. audit1(h) = t8 \o <<SaysCount(h)>>
    BY Zenon DEF audit1, SaysCount
<1>2. \A k \in 0 .. 7 : \A s : Tells(s, h, k) => Tells(s \o LowIterations(h, k + 1), h, k + 1)
    BY TurnTells
<1>3. /\ \A s : Tells(s, h, 0) => Tells(s \o LowIterations(h, 1), h, 1)
      /\ \A s : Tells(s, h, 1) => Tells(s \o LowIterations(h, 2), h, 2)
      /\ \A s : Tells(s, h, 2) => Tells(s \o LowIterations(h, 3), h, 3)
      /\ \A s : Tells(s, h, 3) => Tells(s \o LowIterations(h, 4), h, 4)
      /\ \A s : Tells(s, h, 4) => Tells(s \o LowIterations(h, 5), h, 5)
      /\ \A s : Tells(s, h, 5) => Tells(s \o LowIterations(h, 6), h, 6)
      /\ \A s : Tells(s, h, 6) => Tells(s \o LowIterations(h, 7), h, 7)
      /\ \A s : Tells(s, h, 7) => Tells(s \o LowIterations(h, 8), h, 8)
  <2>1. /\ 0 + 1 = 1 /\ 1 + 1 = 2 /\ 2 + 1 = 3 /\ 3 + 1 = 4
        /\ 4 + 1 = 5 /\ 5 + 1 = 6 /\ 6 + 1 = 7 /\ 7 + 1 = 8
      OBVIOUS
  <2>2. /\ 0 \in 0 .. 7 /\ 1 \in 0 .. 7 /\ 2 \in 0 .. 7 /\ 3 \in 0 .. 7
        /\ 4 \in 0 .. 7 /\ 5 \in 0 .. 7 /\ 6 \in 0 .. 7 /\ 7 \in 0 .. 7
      OBVIOUS
  <2>3. QED
      BY <2>1, <2>2, <1>2
<1>4. Tells(t0, h, 0)
    BY WeakTold
<1> HIDE DEF t0
<1>5. Tells(t4, h, 4)
  <2>1. Tells(t1, h, 1)
      BY <1>3, <1>4
  <2>2. Tells(t2, h, 2)
      BY <2>1, <1>3
  <2>3. Tells(t3, h, 3)
      BY <2>2, <1>3
  <2>4. QED
      BY <2>3, <1>3
<1> HIDE DEF t4
<1>6. Tells(t8, h, 8)
  <2>1. Tells(t5, h, 5)
      BY <1>3, <1>5
  <2>2. Tells(t6, h, 6)
      BY <2>1, <1>3
  <2>3. Tells(t7, h, 7)
      BY <2>2, <1>3
  <2>4. QED
      BY <2>3, <1>3
<1>7. QED
    BY <1>1, <1>6

(***************************************************************************)
(* The parsed header and the disk: which slots are low, how many are       *)
(* enabled, and which mode and hash are weak.                              *)
(***************************************************************************)
LEMMA DigitsBelow ==
    ASSUME NEW d \in Bytes(4)
    PROVE  BelowThousand(d) <=>
               (IF d[1] > 0 \/ d[2] > 0 THEN 65536 ELSE d[3] * 256 + d[4]) < 1000
<1>1. d[1] \in 0 .. 255 /\ d[2] \in 0 .. 255 /\ d[3] \in 0 .. 255 /\ d[4] \in 0 .. 255
    BY BytesAreInts
<1>2. QED
    BY <1>1 DEF BelowThousand, LOW_ITERATIONS

LEMMA LowOnDisk ==
    ASSUME NEW h, image.disk \in DiskHeader, h.keyslots = image.disk.keyslots,
           NEW m \in 1 .. 8
    PROVE  /\ m - 1 \in 0 .. 7 /\ DiskSlot(m - 1) = h.keyslots[m]
           /\ LowSlot(h, m) <=> m - 1 \in Enabled /\ Iterations(m - 1) < 1000
<1>1. m - 1 \in 0 .. 7 /\ (m - 1) + 1 = m
    OBVIOUS
<1>2. DiskSlot(m - 1) = h.keyslots[m]
    BY <1>1 DEF DiskSlot
<1>3. h.keyslots[m] \in DiskKeyslot
    BY DEF DiskHeader, LUKS_NUM_KEYS
<1> DEFINE it == h.keyslots[m].iterations
<1>4. it \in Bytes(4)
    BY <1>3 DEF DiskKeyslot
<1>5. Iterations(m - 1) = IF it[1] > 0 \/ it[2] > 0 THEN 65536 ELSE it[3] * 256 + it[4]
    BY <1>2 DEF Iterations
<1> HIDE DEF it
<1>6. BelowThousand(it) <=> Iterations(m - 1) < 1000
    BY <1>4, <1>5, DigitsBelow
<1>7. is_active(h.keyslots[m]) <=> m - 1 \in Enabled
    BY <1>1, <1>2 DEF is_active, Enabled
<1>8. QED
    BY <1>1, <1>2, <1>6, <1>7 DEF LowSlot, it

LEMMA CountOnDisk ==
    ASSUME NEW h, h.keyslots = image.disk.keyslots
    PROVE  Cardinality(active_keyslots(h)) = Cardinality(Enabled)
<1> DEFINE A == active_keyslots(h)
           f == [k \in A |-> k - 1]
<1>1. A = {k \in 1 .. 8 : h.keyslots[k].active = KEY_ENABLED}
    BY DEF active_keyslots, is_active, LUKS_NUM_KEYS
<1>2. Enabled = {n \in 0 .. 7 : h.keyslots[n + 1].active = KEY_ENABLED}
    BY DEF Enabled, DiskSlot
<1> HIDE DEF A
<1>3. \A k \in A : k - 1 \in Enabled
  <2> SUFFICES ASSUME NEW k \in A PROVE k - 1 \in Enabled
      OBVIOUS
  <2>1. k \in 1 .. 8 /\ h.keyslots[k].active = KEY_ENABLED
      BY <1>1
  <2>2. k - 1 \in 0 .. 7 /\ (k - 1) + 1 = k
      BY <2>1
  <2>3. QED
      BY <2>1, <2>2, <1>2
<1>4. \A n \in Enabled : n + 1 \in A /\ (n + 1) - 1 = n
  <2> SUFFICES ASSUME NEW n \in Enabled PROVE n + 1 \in A /\ (n + 1) - 1 = n
      OBVIOUS
  <2>1. n \in 0 .. 7 /\ h.keyslots[n + 1].active = KEY_ENABLED
      BY <1>2
  <2>2. n + 1 \in 1 .. 8 /\ (n + 1) - 1 = n
      BY <2>1
  <2>3. QED
      BY <2>1, <2>2, <1>1
<1>5. A \subseteq 1 .. 8
    BY <1>1
<1>6. f \in Bijection(A, Enabled)
  <2>1. f \in [A -> Enabled]
      BY <1>3
  <2>2. \A j, k \in A : f[j] = f[k] => j = k
      BY <1>5
  <2>3. \A n \in Enabled : \E k \in A : f[k] = n
      BY <1>4
  <2> HIDE DEF f
  <2>4. QED
      BY <2>1, <2>2, <2>3 DEF Bijection, Injection, Surjection, IsInjective
<1>7. IsFiniteSet(A)
  <2>1. A \in SUBSET Nat /\ 8 \in Nat /\ \A k \in A : k <= 8
      BY <1>5
  <2>2. QED
      BY <2>1, FS_BoundedSetOfNaturals
<1>8. QED
    BY <1>6, <1>7, FS_Bijection DEF ExistsBijection, A

LEMMA WeakOnDisk ==
    ASSUME NEW h, NEW d \in DiskHeader,
           h.cipher_mode \in Seq(Int), h.hash_spec \in Seq(Int),
           Spells(h.cipher_mode, d.cipher_mode), Spells(h.hash_spec, d.hash_spec)
    PROVE  /\ WeakMode(h) <=> SubSeq(d.cipher_mode, 1, 3) \in {CBC, ECB}
           /\ h.hash_spec = SHA1 <=> Spells(SHA1, d.hash_spec)
<1>1. d.cipher_mode \in Bytes(32) /\ d.hash_spec \in Bytes(32)
    BY DEF DiskHeader
<1>2. SHA1 \in Seq(Int)
    BY DEF SHA1
<1>3. Letters(CBC)
    BY DEF CBC, Letters
<1>4. Letters(ECB)
    BY DEF ECB, Letters
<1>5. 32 \in Nat /\ 32 >= 3
    OBVIOUS
<1>6. IsPrefix(CBC, h.cipher_mode) <=> SubSeq(d.cipher_mode, 1, 3) = CBC
    BY <1>1, <1>3, <1>5, BeginsWith
<1>7. IsPrefix(ECB, h.cipher_mode) <=> SubSeq(d.cipher_mode, 1, 3) = ECB
    BY <1>1, <1>4, <1>5, BeginsWith
<1>8. Spells(SHA1, d.hash_spec) => h.hash_spec = SHA1
    BY <1>1, <1>2, SpellsOnce
<1>9. QED
    BY <1>6, <1>7, <1>8 DEF WeakMode

(***************************************************************************)
(* What the audit says is true of the disk, and it says all of it, in the  *)
(* order of the slots and with the inventory last, whatever slots are in   *)
(* use and whatever their counts (forensic/src/lib.rs:166-195).            *)
(***************************************************************************)
THEOREM AuditSaysAll == Spec => []AuditIsTrue
<1>1. ExamineInv => AuditIsTrue
  <2> SUFFICES ASSUME ExamineInv, stage = "audited" PROVE AuditIsTrue
      BY DEF AuditIsTrue
  <2> DEFINE h == header
             d == image.disk
             f == findings
             low == "LowKdfIterations"
  <2>1. Parsed(1) /\ f = audit1(h)
      BY DEF ExamineInv, Parsed
  <2>2. d \in DiskHeader /\ h = Fields1(OnDisk(d))
      BY <2>1, ParsedIsWhole
  <2>3. /\ h.keyslots = d.keyslots
        /\ Spells(h.cipher_mode, d.cipher_mode) /\ Spells(h.hash_spec, d.hash_spec)
        /\ h.cipher_mode \in Seq(Int) /\ h.hash_spec \in Seq(Int)
      BY <2>2, FieldsAreRead
  <2>4. PICK t : Tells(t, h, 8) /\ f = t \o <<SaysCount(h)>>
      BY <2>1, AuditTells
  <2> DEFINE last == Len(t) + 1
  <2>5. /\ f \in Seq(Sayable(h)) /\ Len(f) = last /\ Len(t) \in Nat
        /\ \A i \in 1 .. Len(t) : f[i] = t[i]
        /\ f[last] = SaysCount(h)
    <3>1. t \in Seq(Sayable(h)) /\ SaysCount(h) \in Sayable(h)
        BY <2>4 DEF Tells, Sayable
    <3> HIDE DEF f, h
    <3>2. QED
        BY <2>4, <3>1, Pushed
  <2>6. 1 .. Len(f) = 1 .. Len(t) \cup {last} /\ last \notin 1 .. Len(t)
      BY <2>5
  <2>7. f[last].kind = "KeyslotInventory" /\ f[last].evidence = <<Cardinality(Enabled)>>
    <3>1. Cardinality(active_keyslots(h)) = Cardinality(Enabled)
        BY <2>3, CountOnDisk
    <3> HIDE DEF h, f, last
    <3>2. /\ SaysCount(h).kind = "KeyslotInventory"
          /\ SaysCount(h).evidence = <<Cardinality(active_keyslots(h))>>
        BY Sayings
    <3>3. QED
        BY <3>1, <3>2, <2>5
  <2>8. \A kind : Said(kind) = {k \in 1 .. Len(f) : f[k].kind = kind}
      BY DEF Said
  <2> HIDE DEF h, d, f, last
  <2>9. ASSUME NEW k \in Said(low)
        PROVE  k \in 1 .. Len(t) /\ \E m \in 1 .. 8 : LowSlot(h, m) /\ f[k] = SaysLow(h, m)
    <3>1. k \in 1 .. Len(f) /\ f[k].kind = low
        BY <2>8
    <3>2. k \in 1 .. Len(t)
        BY <3>1, <2>6, <2>7
    <3>3. t[k].kind = low /\ f[k] = t[k]
        BY <3>1, <3>2, <2>5
    <3>4. QED
        BY <3>2, <3>3, <2>4 DEF Tells
  <2>10. \A m \in 1 .. 8 :
            /\ m - 1 \in 0 .. 7 /\ DiskSlot(m - 1) = h.keyslots[m]
            /\ LowSlot(h, m) <=> m - 1 \in Enabled /\ Iterations(m - 1) < 1000
      BY <2>2, <2>3, LowOnDisk DEF d
  <2>11. ASSUME NEW k \in Said(low)
         PROVE  /\ f[k].evidence[2] = DiskSlot(f[k].evidence[1]).iterations
                /\ f[k].evidence[1] \in {n \in Enabled : Iterations(n) < 1000}
    <3>1. PICK m \in 1 .. 8 : LowSlot(h, m) /\ f[k] = SaysLow(h, m)
        BY <2>9
    <3>2. f[k].evidence[1] = m - 1 /\ f[k].evidence[2] = h.keyslots[m].iterations
      <4>1. /\ SaysLow(h, m).evidence[1] = m - 1
            /\ SaysLow(h, m).evidence[2] = h.keyslots[m].iterations
          BY Sayings
      <4>2. QED
          BY <4>1, <3>1
    <3>3. QED
        BY <3>1, <3>2, <2>10
  <2>12. ASSUME NEW n \in Enabled, Iterations(n) < 1000
         PROVE  \E k \in Said(low) : f[k].evidence[1] = n
    <3>1. n + 1 \in 1 .. 8 /\ (n + 1) - 1 = n
        BY DEF Enabled
    <3> DEFINE m == n + 1
    <3>2. m \in 1 .. 8 /\ LowSlot(h, m) /\ m - 1 = n
        BY <3>1, <2>10, <2>12
    <3> HIDE DEF m
    <3>3. PICK i \in 1 .. Len(t) : t[i] = SaysLow(h, m)
        BY <3>2, <2>4 DEF Tells
    <3>4. f[i].kind = low /\ f[i].evidence[1] = m - 1
      <4>1. SaysLow(h, m).kind = low /\ SaysLow(h, m).evidence[1] = m - 1
          BY Sayings
      <4>2. QED
          BY <4>1, <3>3, <2>5
    <3>5. QED
        BY <3>2, <3>3, <3>4, <2>6, <2>8
  <2>13. {f[k].evidence[1] : k \in Said(low)} = {n \in Enabled : Iterations(n) < 1000}
      BY <2>11, <2>12
  <2>14. ASSUME NEW j \in Said(low), NEW k \in Said(low), j < k
         PROVE  f[j].evidence[1] < f[k].evidence[1]
    <3>1. /\ j \in 1 .. Len(t) /\ k \in 1 .. Len(t) /\ f[j] = t[j] /\ f[k] = t[k]
          /\ f[j].kind = low /\ f[k].kind = low
        BY <2>5, <2>8, <2>9
    <3>2. QED
        BY <3>1, <2>4, <2>14 DEF Tells
  <2>15. Said("KeyslotInventory") = {Len(f)}
    <3>1. \A k \in 1 .. Len(t) : f[k].kind # "KeyslotInventory"
        BY <2>4, <2>5 DEF Tells, Has
    <3>2. QED
        BY <3>1, <2>5, <2>6, <2>7, <2>8
  <2>16. Last(f).evidence = <<Cardinality(Enabled)>>
      BY <2>5, <2>7 DEF Last
  <2>17. ASSUME NEW kind, kind # "KeyslotInventory"
         PROVE  Said(kind) # {} <=> Has(t, kind)
      BY <2>5, <2>6, <2>7, <2>8, <2>17 DEF Has
  <2>18. /\ Has(t, "WeakKdfHash") <=> Spells(SHA1, d.hash_spec)
         /\ Has(t, "WeakCipherMode") <=> SubSeq(d.cipher_mode, 1, 3) \in {CBC, ECB}
      BY <2>2, <2>3, <2>4, WeakOnDisk DEF Tells
  <2>19. /\ Said("WeakKdfHash") # {} <=> Spells(SHA1, d.hash_spec)
         /\ Said("WeakCipherMode") # {} <=> SubSeq(d.cipher_mode, 1, 3) \in {CBC, ECB}
      BY <2>17, <2>18
  <2>20. QED
      BY <2>11, <2>13, <2>14, <2>15, <2>16, <2>19 DEF AuditIsTrue, f, d
<1>2. QED
    BY <1>1, SpecInv, PTL

-----------------------------------------------------------------------------
(***************************************************************************)
(* filter_map and collect (header2.rs:167-189) keep the options that hold  *)
(* something, in their order. The list is the last value of a recursive    *)
(* function; that there is one is shown by the least length for which      *)
(* there is none, since only sets can be given to the provers and no       *)
(* induction over an operator.                                             *)
(***************************************************************************)
Flattens(f, parts, m) ==
    f = [i \in 1 .. m |-> IF i = 1 THEN parts[i] ELSE f[i - 1] \o parts[i]]

LEMMA FlattenExists ==
    ASSUME NEW parts, NEW m \in Nat \ {0}
    PROVE  \E f : Flattens(f, parts, m)
<1> DEFINE T == {k \in Nat \ {0} : ~ \E f : Flattens(f, parts, k)}
<1>1. SUFFICES ASSUME T # {} PROVE FALSE
    OBVIOUS
<1>2. PICK x \in T : \A y \in T : x <= y
    BY <1>1, LeastOf
<1>3. x \in Nat \ {0} /\ ~ \E f : Flattens(f, parts, x)
    OBVIOUS
<1>4. CASE x = 1
  <2> DEFINE f == [i \in 1 .. 1 |-> parts[1]]
  <2>1. f = [i \in 1 .. 1 |-> IF i = 1 THEN parts[i] ELSE f[i - 1] \o parts[i]]
      OBVIOUS
  <2>2. Flattens(f, parts, x)
      BY <2>1, <1>4 DEF Flattens
  <2>3. QED
      BY <2>2, <1>3
<1>5. CASE x # 1
  <2>1. x - 1 \in Nat \ {0} /\ x - 1 \notin T
      BY <1>2, <1>3, <1>5
  <2>2. PICK g : Flattens(g, parts, x - 1)
      BY <2>1
  <2> DEFINE f == [i \in 1 .. x |-> IF i = x THEN g[x - 1] \o parts[x] ELSE g[i]]
  <2>3. \A i \in 1 .. x - 1 : g[i] = IF i = 1 THEN parts[i] ELSE g[i - 1] \o parts[i]
      BY <2>2 DEF Flattens
  <2>4. \A i \in 1 .. x : f[i] = IF i = 1 THEN parts[i] ELSE f[i - 1] \o parts[i]
    <3> SUFFICES ASSUME NEW i \in 1 .. x
                 PROVE  f[i] = IF i = 1 THEN parts[i] ELSE f[i - 1] \o parts[i]
        OBVIOUS
    <3>1. CASE i = x
      <4>1. i - 1 \in 1 .. x /\ i - 1 # x /\ i # 1
          BY <1>3, <1>5, <3>1
      <4>2. QED
          BY <4>1, <3>1
    <3>2. CASE i # x
      <4>1. i \in 1 .. x - 1 /\ f[i] = g[i]
          BY <1>3, <3>2
      <4>2. CASE i = 1
          BY <4>1, <4>2, <2>3
      <4>3. CASE i # 1
        <5>1. i - 1 \in 1 .. x /\ i - 1 # x
            BY <1>3, <4>1, <4>3
        <5>2. f[i - 1] = g[i - 1]
            BY <5>1
        <5>3. QED
            BY <4>1, <4>3, <5>2, <2>3
      <4>4. QED
          BY <4>2, <4>3
    <3>3. QED
        BY <3>1, <3>2
  <2>5. f = [i \in 1 .. x |-> f[i]]
      OBVIOUS
  <2> HIDE DEF f
  <2>6. Flattens(f, parts, x)
      BY <2>4, <2>5 DEF Flattens
  <2>7. QED
      BY <2>6, <1>3
<1>6. QED
    BY <1>4, <1>5

LEMMA FlattenUnfolds ==
    ASSUME NEW parts, Len(parts) \in Nat \ {0}
    PROVE  \E f : Flattens(f, parts, Len(parts)) /\ FlattenSeq(parts) = f[Len(parts)]
<1> DEFINE flatten[i \in 1 .. Len(parts)] ==
               IF i = 1 THEN parts[i] ELSE flatten[i - 1] \o parts[i]
<1>1. \E f : f = [i \in 1 .. Len(parts) |-> IF i = 1 THEN parts[i] ELSE f[i - 1] \o parts[i]]
    BY FlattenExists DEF Flattens
<1>2. flatten = [i \in 1 .. Len(parts) |->
                    IF i = 1 THEN parts[i] ELSE flatten[i - 1] \o parts[i]]
    BY <1>1
<1>3. FlattenSeq(parts) = flatten[Len(parts)]
    BY DEF FlattenSeq
<1> HIDE DEF flatten
<1>4. QED
    BY <1>2, <1>3 DEF Flattens

(***************************************************************************)
(* Of options, a list takes the ones that hold something, by rising        *)
(* positions (at) and without leaving one out. PicksNext is one turn of    *)
(* the loop, FlattenPicks all of them, again by the least turn that would  *)
(* fail.                                                                   *)
(***************************************************************************)
Options(parts, S) ==
    /\ parts \in Seq(Seq(S))
    /\ \A n \in 1 .. Len(parts) : parts[n] = <<>> \/ \E x \in S : parts[n] = <<x>>

Picks(s, parts, m, at) ==
    /\ at \in [1 .. Len(s) -> 1 .. m]
    /\ \A j, k \in 1 .. Len(s) : j < k => at[j] < at[k]
    /\ \A k \in 1 .. Len(s) : parts[at[k]] = << s[k] >>
    /\ \A n \in 1 .. m : parts[n] # <<>> => \E k \in 1 .. Len(s) : at[k] = n

LEMMA PicksNone ==
    ASSUME NEW parts
    PROVE  Picks(<<>>, parts, 0, <<>>)
BY DEF Picks

LEMMA PicksNext ==
    ASSUME NEW S, NEW parts, Options(parts, S), NEW s \in Seq(S),
           NEW m \in Nat, m < Len(parts), NEW later, later = m + 1,
           \E at : Picks(s, parts, m, at)
    PROVE  /\ s \o parts[later] \in Seq(S)
           /\ \E at : Picks(s \o parts[later], parts, later, at)
<1> PICK at : Picks(s, parts, m, at)
    OBVIOUS
<1> SUFFICES /\ s \o parts[m + 1] \in Seq(S)
             /\ \E to : Picks(s \o parts[m + 1], parts, m + 1, to)
    OBVIOUS
<1>1. Len(s) \in Nat /\ m + 1 \in 1 .. Len(parts)
    BY DEF Options
<1>2. CASE parts[m + 1] = <<>>
  <2>1. s \o parts[m + 1] = s
      BY <1>2, PushedNothing
  <2>2. \A k \in 1 .. Len(s) : at[k] \in 1 .. m + 1
      BY <1>1 DEF Picks
  <2>3. at \in [1 .. Len(s) -> 1 .. m + 1]
      BY <2>2 DEF Picks
  <2>4. \A n \in 1 .. m + 1 : parts[n] # <<>> => n \in 1 .. m
      BY <1>2
  <2>5. Picks(s, parts, m + 1, at)
      BY <2>3, <2>4 DEF Picks
  <2>6. QED
      BY <2>1, <2>5
<1>3. CASE parts[m + 1] # <<>>
  <2>1. PICK x \in S : parts[m + 1] = <<x>>
      BY <1>1, <1>3 DEF Options
  <2> DEFINE t  == s \o <<x>>
             to == [k \in 1 .. Len(t) |-> IF k = Len(s) + 1 THEN m + 1 ELSE at[k]]
  <2>2. /\ t \in Seq(S) /\ Len(t) = Len(s) + 1 /\ t[Len(s) + 1] = x
        /\ \A i \in 1 .. Len(s) : t[i] = s[i]
      BY Pushed
  <2> HIDE DEF t
  <2>3. /\ \A k \in 1 .. Len(s) : k \in 1 .. Len(t) /\ to[k] = at[k] /\ at[k] \in 1 .. m
        /\ Len(s) + 1 \in 1 .. Len(t) /\ to[Len(s) + 1] = m + 1
        /\ \A k \in 1 .. Len(t) : k \in 1 .. Len(s) \/ k = Len(s) + 1
    <3>1. /\ \A k \in 1 .. Len(s) : k \in 1 .. Len(t) /\ k # Len(s) + 1
          /\ Len(s) + 1 \in 1 .. Len(t)
          /\ \A k \in 1 .. Len(t) : k \in 1 .. Len(s) \/ k = Len(s) + 1
        BY <1>1, <2>2
    <3>2. \A k \in 1 .. Len(s) : at[k] \in 1 .. m
        BY DEF Picks
    <3>3. QED
        BY <3>1, <3>2
  <2>4. \A k \in 1 .. Len(t) : to[k] \in 1 .. m + 1
    <3> HIDE DEF to
    <3>1. \A i \in 1 .. m : i \in 1 .. m + 1
        OBVIOUS
    <3>2. m + 1 \in 1 .. m + 1
        OBVIOUS
    <3>3. QED
        BY <2>3, <3>1, <3>2
  <2>5. to \in [1 .. Len(t) -> 1 .. m + 1]
      BY <2>4
  <2> HIDE DEF to
  <2>6. \A j, k \in 1 .. Len(t) : j < k => to[j] < to[k]
    <3> SUFFICES ASSUME NEW j \in 1 .. Len(t), NEW k \in 1 .. Len(t), j < k
                 PROVE  to[j] < to[k]
        OBVIOUS
    <3>1. j \in 1 .. Len(s) /\ to[j] = at[j] /\ at[j] \in 1 .. m
        BY <2>3, <2>2, <1>1
    <3>2. CASE k \in 1 .. Len(s)
      <4>1. at[j] < at[k]
          BY <3>1, <3>2 DEF Picks
      <4>2. QED
          BY <4>1, <3>1, <3>2, <2>3
    <3>3. CASE k = Len(s) + 1
        BY <3>1, <3>3, <2>3
    <3>4. QED
        BY <3>2, <3>3, <2>3
  <2>7. \A k \in 1 .. Len(t) : parts[to[k]] = << t[k] >>
    <3> SUFFICES ASSUME NEW k \in 1 .. Len(t) PROVE parts[to[k]] = << t[k] >>
        OBVIOUS
    <3>1. CASE k \in 1 .. Len(s)
        BY <3>1, <2>2, <2>3 DEF Picks
    <3>2. CASE k = Len(s) + 1
        BY <3>2, <2>1, <2>2, <2>3
    <3>3. QED
        BY <3>1, <3>2, <2>3
  <2>8. \A n \in 1 .. m + 1 : parts[n] # <<>> => \E k \in 1 .. Len(t) : to[k] = n
    <3> SUFFICES ASSUME NEW n \in 1 .. m + 1, parts[n] # <<>>
                 PROVE  \E k \in 1 .. Len(t) : to[k] = n
        OBVIOUS
    <3>1. CASE n \in 1 .. m
      <4>1. PICK k \in 1 .. Len(s) : at[k] = n
          BY <3>1 DEF Picks
      <4>2. QED
          BY <4>1, <2>3
    <3>2. CASE n = m + 1
        BY <3>2, <2>3
    <3>3. QED
        BY <3>1, <3>2
  <2>9. Picks(t, parts, m + 1, to)
      BY <2>5, <2>6, <2>7, <2>8 DEF Picks
  <2>10. QED
      BY <2>1, <2>2, <2>9 DEF t
<1>4. QED
    BY <1>2, <1>3

LEMMA FlattenPicks ==
    ASSUME NEW S, NEW parts, Options(parts, S)
    PROVE  /\ FlattenSeq(parts) \in Seq(S)
           /\ \E at : Picks(FlattenSeq(parts), parts, Len(parts), at)
<1>1. parts \in Seq(Seq(S)) /\ Len(parts) \in Nat
    BY DEF Options
<1>2. CASE Len(parts) = 0
  <2>1. parts = <<>> /\ FlattenSeq(parts) = <<>>
      BY <1>1, <1>2, EmptySeq DEF FlattenSeq
  <2>2. QED
      BY <2>1, <1>2, PicksNone, EmptySeq
<1>3. CASE Len(parts) # 0
  <2>1. PICK f : Flattens(f, parts, Len(parts)) /\ FlattenSeq(parts) = f[Len(parts)]
      BY <1>1, <1>3, FlattenUnfolds
  <2>2. \A i \in 1 .. Len(parts) : f[i] = IF i = 1 THEN parts[i] ELSE f[i - 1] \o parts[i]
      BY <2>1 DEF Flattens
  <2> DEFINE Good(m) == f[m] \in Seq(S) /\ \E at : Picks(f[m], parts, m, at)
             T       == {m \in 1 .. Len(parts) : ~ Good(m)}
  <2>3. SUFFICES ASSUME T # {} PROVE FALSE
      BY <2>1, <1>1, <1>3
  <2>4. T \subseteq Nat
      OBVIOUS
  <2>5. PICK x \in T : \A y \in T : x <= y
      BY <2>3, <2>4, LeastOf
  <2>6. x \in 1 .. Len(parts) /\ ~ Good(x)
      OBVIOUS
  <2>7. CASE x = 1
    <3>1. f[1] = parts[1]
        BY <2>2, <2>6, <2>7
    <3>2. <<>> \in Seq(S) /\ <<>> \o parts[1] = parts[1]
        BY <1>1, <2>6, <2>7, EmptySeq, ConcatEmptySeq
    <3>3. 0 < Len(parts) /\ 1 = 0 + 1
        BY <1>1, <1>3
    <3>4. /\ <<>> \o parts[1] \in Seq(S)
          /\ \E at : Picks(<<>> \o parts[1], parts, 1, at)
        BY <3>2, <3>3, PicksNone, PicksNext
    <3>5. QED
        BY <3>1, <3>2, <3>4, <2>6, <2>7
  <2>8. CASE x # 1
    <3> DEFINE y == x - 1
    <3>1. y \in 1 .. Len(parts) /\ x = y + 1 /\ y < Len(parts) /\ y \in Nat
        BY <2>6, <2>8, <1>1
    <3>2. y \notin T
        BY <3>1, <2>5, <2>6
    <3>3. f[y] \in Seq(S) /\ \E at : Picks(f[y], parts, y, at)
        BY <3>1, <3>2
    <3>4. f[x] = f[y] \o parts[x]
        BY <2>2, <2>6, <2>8
    <3> HIDE DEF y, T
    <3>5. f[y] \o parts[x] \in Seq(S) /\ \E at : Picks(f[y] \o parts[x], parts, x, at)
        BY <3>1, <3>3, PicksNext
    <3>6. QED
        BY <3>4, <3>5, <2>6
  <2>9. QED
      BY <2>7, <2>8
<1>4. QED
    BY <1>2, <1>3
(***************************************************************************)
(* The same said of the positions W that are kept and what stands at each  *)
(* (of): this is what the three maps and a digest's list have in common.   *)
(***************************************************************************)
Lists(s, at, W) ==
    /\ Len(s) \in Nat
    /\ at \in [1 .. Len(s) -> W]
    /\ \A j, k \in 1 .. Len(s) : j < k => at[j] < at[k]
    /\ \A n \in W : \E k \in 1 .. Len(s) : at[k] = n

Listed(s, at, W, of) ==
    Lists(s, at, W) /\ \A k \in 1 .. Len(s) : s[k] = of[at[k]]

Row(W, N, of) == [n \in 1 .. N |-> IF n \in W THEN << of[n] >> ELSE <<>>]

LEMMA OneItem ==
    ASSUME NEW x
    PROVE  << x >> # <<>> /\ Len(<< x >>) = 1 /\ << x >>[1] = x
OBVIOUS

LEMMA RowListed ==
    ASSUME NEW N \in Nat, NEW W \in SUBSET (1 .. N), NEW of
    PROVE  \E at : Listed(FlattenSeq(Row(W, N, of)), at, W, of)
<1> DEFINE parts == Row(W, N, of)
           S     == {of[n] : n \in 1 .. N}
           s     == FlattenSeq(parts)
<1>1. \A n \in 1 .. N : of[n] \in S /\ parts[n] = IF n \in W THEN << of[n] >> ELSE <<>>
    BY DEF Row
<1>2. parts = [n \in 1 .. N |-> parts[n]]
    BY DEF Row
<1> HIDE DEF S, parts
<1>3. \A n \in 1 .. N : parts[n] \in Seq(S)
  <2> SUFFICES ASSUME NEW n \in 1 .. N PROVE parts[n] \in Seq(S)
      OBVIOUS
  <2> DEFINE x == of[n]
  <2>1. x \in S /\ (parts[n] = <<>> \/ parts[n] = << x >>)
      BY <1>1
  <2> HIDE DEF x
  <2>2. << x >> \in Seq(S) /\ <<>> \in Seq(S)
      BY <2>1
  <2>3. QED
      BY <2>1, <2>2
<1>4. parts \in [1 .. N -> Seq(S)]
    BY <1>2, <1>3
<1>5. parts \in Seq(Seq(S)) /\ Len(parts) = N
    BY <1>4
<1>6. Options(parts, S)
    BY <1>1, <1>5 DEF Options
<1>7. PICK at : s \in Seq(S) /\ Picks(s, parts, N, at)
    BY <1>5, <1>6, FlattenPicks
<1> HIDE DEF s
<1>8. Len(s) \in Nat
    BY <1>7
<1>9. \A n \in 1 .. N : n \in W <=> parts[n] # <<>>
    BY <1>1, OneItem
<1>10. \A k \in 1 .. Len(s) : at[k] \in W /\ s[k] = of[at[k]]
  <2> SUFFICES ASSUME NEW k \in 1 .. Len(s) PROVE at[k] \in W /\ s[k] = of[at[k]]
      OBVIOUS
  <2>1. at[k] \in 1 .. N /\ parts[at[k]] = << s[k] >>
      BY <1>7 DEF Picks
  <2>2. << s[k] >> # <<>>
      BY OneItem
  <2>3. at[k] \in W
      BY <2>1, <2>2, <1>9
  <2>4. << s[k] >> = << of[at[k]] >>
      BY <2>1, <2>3, <1>1
  <2>5. QED
      BY <2>3, <2>4, OneItem
<1>11. at \in [1 .. Len(s) -> W]
    BY <1>7, <1>10 DEF Picks
<1>12. \A n \in W : \E k \in 1 .. Len(s) : at[k] = n
    BY <1>7, <1>9 DEF Picks
<1>13. Lists(s, at, W)
    BY <1>7, <1>8, <1>11, <1>12 DEF Lists, Picks
<1>14. QED
    BY <1>10, <1>13 DEF Listed, s, parts

-----------------------------------------------------------------------------
(***************************************************************************)
(* What each object parser answers, said once: everything that it needs is *)
(* there and the object is read, or it is left out.                        *)
(***************************************************************************)
KdfOf(v) ==
    IF v.type.s = "pbkdf2"
    THEN [type |-> "pbkdf2", hash |-> as_str(v.kdf_hash, "sha256"),
          iterations |-> as_u32(v.iterations), salt |-> b64(v.salt)]
    ELSE [type |-> v.type.s, time |-> as_u32(v.time), memory |-> as_u32(v.memory),
          cpus |-> as_u32(v.cpus), salt |-> b64(v.salt)]

HasKdf(v) ==
    /\ IsText(v.type) /\ Present(v.salt)
    /\ \/ v.type.s = "pbkdf2" /\ Present(v.iterations)
       \/ v.type.s \in {"argon2i", "argon2id"}
          /\ Present(v.time) /\ Present(v.memory) /\ Present(v.cpus)

LEMMA KdfRead ==
    ASSUME NEW v
    PROVE  Kdf(v) = IF HasKdf(v) THEN << KdfOf(v) >> ELSE <<>>
<1>1. CASE ~ IsText(v.type)
    BY <1>1 DEF Kdf, HasKdf
<1>2. CASE IsText(v.type) /\ v.type.s = "pbkdf2"
  <2>1. Kdf(v) = IF Present(v.iterations) /\ Present(v.salt)
                 THEN << [type |-> "pbkdf2", hash |-> as_str(v.kdf_hash, "sha256"),
                          iterations |-> as_u32(v.iterations), salt |-> b64(v.salt)] >>
                 ELSE <<>>
      BY <1>2 DEF Kdf
  <2>2. KdfOf(v) = [type |-> "pbkdf2", hash |-> as_str(v.kdf_hash, "sha256"),
                    iterations |-> as_u32(v.iterations), salt |-> b64(v.salt)]
      BY <1>2 DEF KdfOf
  <2>3. HasKdf(v) <=> Present(v.iterations) /\ Present(v.salt)
      BY <1>2 DEF HasKdf
  <2>4. QED
      BY <2>1, <2>2, <2>3
<1>3. CASE IsText(v.type) /\ v.type.s \in {"argon2i", "argon2id"}
  <2>0. v.type.s # "pbkdf2"
      BY <1>3
  <2>1. Kdf(v) = IF \A f \in {"time", "memory", "cpus", "salt"} : Present(v[f])
                 THEN << [type |-> v.type.s, time |-> as_u32(v.time),
                          memory |-> as_u32(v.memory), cpus |-> as_u32(v.cpus),
                          salt |-> b64(v.salt)] >>
                 ELSE <<>>
      BY <1>3, <2>0 DEF Kdf
  <2>2. KdfOf(v) = [type |-> v.type.s, time |-> as_u32(v.time), memory |-> as_u32(v.memory),
                    cpus |-> as_u32(v.cpus), salt |-> b64(v.salt)]
      BY <2>0 DEF KdfOf
  <2>3. HasKdf(v) <=> \A f \in {"time", "memory", "cpus", "salt"} : Present(v[f])
      BY <1>3, <2>0 DEF HasKdf
  <2>4. QED
      BY <2>1, <2>2, <2>3
<1>4. CASE IsText(v.type) /\ v.type.s \notin {"pbkdf2", "argon2i", "argon2id"}
  <2>1. Kdf(v) = <<>>
      BY <1>4 DEF Kdf
  <2>2. ~ HasKdf(v)
      BY <1>4 DEF HasKdf
  <2>3. QED
      BY <2>1, <2>2
<1>5. QED
    BY <1>1, <1>2, <1>3, <1>4

SlotOf(id, v) ==
    [id |-> id, key_size |-> as_u64(v.key_size),
     af_stripes |-> as_u32(v.stripes), af_hash |-> as_str(v.af_hash, "sha256"),
     area_offset |-> as_u64(v.offset), area_size |-> as_u64(v.size),
     area_encryption |-> v.encryption.s, kdf |-> KdfOf(v)]

LEMMA SlotRead ==
    ASSUME NEW id, NEW v
    PROVE  parse_keyslot(id, v) = IF Whole(v) THEN << SlotOf(id, v) >> ELSE <<>>
<1>1. HasKdf(v) => Kdf(v) = << KdfOf(v) >> /\ Kdf(v) # <<>> /\ Kdf(v)[1] = KdfOf(v)
    BY KdfRead
<1>2. ~ HasKdf(v) => Kdf(v) = <<>>
    BY KdfRead
<1>3. Whole(v) <=> /\ HasKdf(v) /\ IsText(v.encryption)
                   /\ \A f \in {"key_size", "stripes", "offset", "size"} : Present(v[f])
    BY DEF Whole, HasKdf
<1>4. CASE Whole(v)
  <2>1. parse_keyslot(id, v) =
           << [id |-> id, key_size |-> as_u64(v.key_size),
               af_stripes |-> as_u32(v.stripes), af_hash |-> as_str(v.af_hash, "sha256"),
               area_offset |-> as_u64(v.offset), area_size |-> as_u64(v.size),
               area_encryption |-> v.encryption.s, kdf |-> Kdf(v)[1]] >>
      BY <1>1, <1>3, <1>4 DEF parse_keyslot
  <2>2. QED
      BY <2>1, <1>1, <1>3, <1>4 DEF SlotOf
<1>5. CASE ~ Whole(v)
    BY <1>2, <1>3, <1>5 DEF parse_keyslot
<1>6. QED
    BY <1>4, <1>5

WholeSegment(v) == Present(v.offset) /\ IsText(v.encryption) /\ Present(v.sector_size)

SegmentOf(id, v) ==
    [id |-> id, offset |-> as_u64(v.offset), encryption |-> v.encryption.s,
     sector_size |-> as_u64(v.sector_size), iv_tweak |-> as_u64(v.iv_tweak)]

LEMMA SegmentRead ==
    ASSUME NEW id, NEW v
    PROVE  parse_segment(id, v) = IF WholeSegment(v) THEN << SegmentOf(id, v) >> ELSE <<>>
BY DEF parse_segment, WholeSegment, SegmentOf

DigestOf(v) ==
    [kind |-> v.type.s, hash |-> as_str(v.hash, "sha256"),
     iterations |-> as_u32(v.iterations), salt |-> b64(v.salt),
     digest |-> b64(v.digest),
     keyslots |-> IF v.keyslots.is = "array" THEN Texts(v.keyslots.items) ELSE <<>>]

LEMMA DigestRead ==
    ASSUME NEW v
    PROVE  parse_digest(v) = IF WholeDigest(v) THEN << DigestOf(v) >> ELSE <<>>
BY DEF parse_digest, WholeDigest, DigestOf

-----------------------------------------------------------------------------
(***************************************************************************)
(* The objects of the three maps, listed by the places of their ids.       *)
(***************************************************************************)
LEMMA OrderedIds ==
    /\ Len(IdOrder) \in Nat
    /\ \A m, n \in 1 .. Len(IdOrder) : IdOrder[m] = IdOrder[n] => m = n
    /\ Range(IdOrder) = {IdOrder[n] : n \in 1 .. Len(IdOrder)}
BY Luks2Assumption DEF Range

SlotsAt(map) == {n \in 1 .. Len(IdOrder) : Holds(map, n) /\ Whole(map[IdOrder[n]])}

SlotsOf(map) == [n \in 1 .. Len(IdOrder) |-> SlotOf(IdOrder[n], map[IdOrder[n]])]

LEMMA KeyslotsListed ==
    ASSUME NEW map
    PROVE  \E at : Listed(keyslots(map), at, SlotsAt(map), SlotsOf(map))
<1> DEFINE N == Len(IdOrder)
<1>1. \A n \in 1 .. N :
         (IF Holds(map, n) THEN parse_keyslot(IdOrder[n], map[IdOrder[n]]) ELSE <<>>)
            = IF n \in SlotsAt(map) THEN << SlotsOf(map)[n] >> ELSE <<>>
  <2> SUFFICES ASSUME NEW n \in 1 .. N
               PROVE  (IF Holds(map, n) THEN parse_keyslot(IdOrder[n], map[IdOrder[n]]) ELSE <<>>)
                         = IF n \in SlotsAt(map) THEN << SlotsOf(map)[n] >> ELSE <<>>
      OBVIOUS
  <2>1. /\ n \in SlotsAt(map) <=> Holds(map, n) /\ Whole(map[IdOrder[n]])
        /\ SlotsOf(map)[n] = SlotOf(IdOrder[n], map[IdOrder[n]])
      BY DEF SlotsAt, SlotsOf
  <2>2. QED
      BY <2>1, SlotRead
<1>2. keyslots(map) = FlattenSeq(Row(SlotsAt(map), N, SlotsOf(map)))
    BY <1>1 DEF keyslots, Row
<1>3. N \in Nat /\ SlotsAt(map) \in SUBSET (1 .. N)
    BY OrderedIds DEF SlotsAt
<1>4. QED
    BY <1>2, <1>3, RowListed

SegmentsAt(map) == {n \in 1 .. Len(IdOrder) : Holds(map, n) /\ WholeSegment(map[IdOrder[n]])}
SegmentsOf(map) == [n \in 1 .. Len(IdOrder) |-> SegmentOf(IdOrder[n], map[IdOrder[n]])]

LEMMA SegmentsListed ==
    ASSUME NEW map
    PROVE  \E at : Listed(segments(map), at, SegmentsAt(map), SegmentsOf(map))
<1> DEFINE N == Len(IdOrder)
<1>1. \A n \in 1 .. N :
         (IF Holds(map, n) THEN parse_segment(IdOrder[n], map[IdOrder[n]]) ELSE <<>>)
            = IF n \in SegmentsAt(map) THEN << SegmentsOf(map)[n] >> ELSE <<>>
  <2> SUFFICES ASSUME NEW n \in 1 .. N
               PROVE  (IF Holds(map, n) THEN parse_segment(IdOrder[n], map[IdOrder[n]]) ELSE <<>>)
                         = IF n \in SegmentsAt(map) THEN << SegmentsOf(map)[n] >> ELSE <<>>
      OBVIOUS
  <2>1. /\ n \in SegmentsAt(map) <=> Holds(map, n) /\ WholeSegment(map[IdOrder[n]])
        /\ SegmentsOf(map)[n] = SegmentOf(IdOrder[n], map[IdOrder[n]])
      BY DEF SegmentsAt, SegmentsOf
  <2>2. QED
      BY <2>1, SegmentRead
<1>2. segments(map) = FlattenSeq(Row(SegmentsAt(map), N, SegmentsOf(map)))
    BY <1>1 DEF segments, Row
<1>3. N \in Nat /\ SegmentsAt(map) \in SUBSET (1 .. N)
    BY OrderedIds DEF SegmentsAt
<1>4. QED
    BY <1>2, <1>3, RowListed

DigestsAt(map) == {n \in 1 .. Len(IdOrder) : Holds(map, n) /\ WholeDigest(map[IdOrder[n]])}
DigestsOf(map) == [n \in 1 .. Len(IdOrder) |-> DigestOf(map[IdOrder[n]])]

LEMMA DigestsListed ==
    ASSUME NEW map
    PROVE  \E at : Listed(digests(map), at, DigestsAt(map), DigestsOf(map))
<1> DEFINE N == Len(IdOrder)
<1>1. \A n \in 1 .. N :
         (IF Holds(map, n) THEN parse_digest(map[IdOrder[n]]) ELSE <<>>)
            = IF n \in DigestsAt(map) THEN << DigestsOf(map)[n] >> ELSE <<>>
  <2> SUFFICES ASSUME NEW n \in 1 .. N
               PROVE  (IF Holds(map, n) THEN parse_digest(map[IdOrder[n]]) ELSE <<>>)
                         = IF n \in DigestsAt(map) THEN << DigestsOf(map)[n] >> ELSE <<>>
      OBVIOUS
  <2>1. /\ n \in DigestsAt(map) <=> Holds(map, n) /\ WholeDigest(map[IdOrder[n]])
        /\ DigestsOf(map)[n] = DigestOf(map[IdOrder[n]])
      BY DEF DigestsAt, DigestsOf
  <2>2. QED
      BY <2>1, DigestRead
<1>2. digests(map) = FlattenSeq(Row(DigestsAt(map), N, DigestsOf(map)))
    BY <1>1 DEF digests, Row
<1>3. N \in Nat /\ DigestsAt(map) \in SUBSET (1 .. N)
    BY OrderedIds DEF DigestsAt
<1>4. QED
    BY <1>2, <1>3, RowListed

(***************************************************************************)
(* A digest names the texts of its list, whatever else is in it            *)
(* (header2.rs:267-275).                                                   *)
(***************************************************************************)
LEMMA TextsNamed ==
    ASSUME NEW items, items \in Seq(Range(items))
    PROVE  {Texts(items)[k] : k \in 1 .. Len(Texts(items))}
               = {t.s : t \in {u \in Range(items) : IsText(u)}}
<1> DEFINE N  == Len(items)
           W  == {n \in 1 .. N : IsText(items[n])}
           of == [n \in 1 .. N |-> items[n].s]
           s  == Texts(items)
<1>1. N \in Nat /\ W \in SUBSET (1 .. N) /\ Range(items) = {items[n] : n \in 1 .. N}
    BY DEF Range
<1>2. \A n \in 1 .. N : of[n] = items[n].s /\ (n \in W <=> IsText(items[n]))
    OBVIOUS
<1>3. s = FlattenSeq(Row(W, N, of))
  <2> HIDE DEF of, W
  <2>1. QED
      BY <1>2 DEF Texts, Row
<1> HIDE DEF of, W, N, s
<1>4. PICK at : Listed(s, at, W, of)
    BY <1>1, <1>3, RowListed
<1>5. \A k \in 1 .. Len(s) : at[k] \in W /\ s[k] = items[at[k]].s
    BY <1>1, <1>2, <1>4 DEF Listed, Lists
<1>6. \A n \in W : \E k \in 1 .. Len(s) : at[k] = n
    BY <1>4 DEF Listed, Lists
<1>7. \A k \in 1 .. Len(s) :
         \E t \in {u \in Range(items) : IsText(u)} : s[k] = t.s
  <2> SUFFICES ASSUME NEW k \in 1 .. Len(s)
               PROVE  \E t \in {u \in Range(items) : IsText(u)} : s[k] = t.s
      OBVIOUS
  <2>1. at[k] \in 1 .. N /\ IsText(items[at[k]]) /\ s[k] = items[at[k]].s
      BY <1>1, <1>2, <1>5
  <2>2. QED
      BY <2>1, <1>1
<1>8. \A t \in {u \in Range(items) : IsText(u)} : \E k \in 1 .. Len(s) : s[k] = t.s
  <2> SUFFICES ASSUME NEW t \in Range(items), IsText(t)
               PROVE  \E k \in 1 .. Len(s) : s[k] = t.s
      OBVIOUS
  <2>1. PICK n \in 1 .. N : t = items[n]
      BY <1>1
  <2>2. PICK k \in 1 .. Len(s) : at[k] = n
      BY <2>1, <1>2, <1>6
  <2>3. QED
      BY <2>1, <2>2, <1>5
<1>9. {s[k] : k \in 1 .. Len(s)} = {t.s : t \in {u \in Range(items) : IsText(u)}}
  <2> DEFINE U == {u \in Range(items) : IsText(u)}
             D == 1 .. Len(s)
  <2>1. (\A k \in D : \E t \in U : s[k] = t.s) /\ (\A t \in U : \E k \in D : s[k] = t.s)
      BY <1>7, <1>8
  <2> HIDE DEF U, D
  <2>2. {s[k] : k \in D} \subseteq {t.s : t \in U}
      BY <2>1
  <2>3. {t.s : t \in U} \subseteq {s[k] : k \in D}
      BY <2>1
  <2>4. {s[k] : k \in D} = {t.s : t \in U}
      BY <2>2, <2>3
  <2>5. QED
      BY <2>4 DEF U, D
<1>10. QED
    BY <1>9 DEF s

-----------------------------------------------------------------------------
(***************************************************************************)
(* What a LUKS2 header is once it is accepted, and the fields of a slot.   *)
(***************************************************************************)
LEMMA ParsedDocument ==
    ASSUME ExamineInv, Parsed(2)
    PROVE  /\ Document(image.root)
           /\ header.keyslots = keyslots(image.root.keyslots)
           /\ header.segments = segments(image.root.segments)
           /\ header.digests = digests(image.root.digests)
<1>1. image.luks = 2 /\ header.err = "Ok" /\ image \in Images
    BY DEF Parsed, ExamineInv
<1>2. Document(image.root)
    BY <1>1, ImagesAssumption
<1>3. header = parse2(image)
    BY <1>1 DEF ExamineInv
<1>4. header = [err |-> "Ok", keyslots |-> keyslots(image.root.keyslots),
                segments |-> segments(image.root.segments),
                digests |-> digests(image.root.digests)]
    BY <1>1, <1>3 DEF parse2
<1>5. QED
    BY <1>2, <1>4

LEMMA SlotFields ==
    ASSUME NEW id, NEW v, Whole(v)
    PROVE  SlotOf(id, v).id = id /\ SlotAsWritten(SlotOf(id, v), v)
<1> DEFINE kdf == KdfOf(v)
           s   == SlotOf(id, v)
<1>1. \A w : Number(w) = as_u64(w) /\ as_u32(w) = Number(w) % U32
    BY DEF Number, as_u64, as_u32
<1>2. /\ s.id = id /\ s.key_size = as_u64(v.key_size) /\ s.af_stripes = as_u32(v.stripes)
      /\ s.area_offset = as_u64(v.offset) /\ s.area_size = as_u64(v.size)
      /\ s.area_encryption = v.encryption.s /\ s.kdf = kdf
    BY DEF SlotOf
<1>3. kdf.type = v.type.s
    BY DEF KdfOf
<1>4. IF kdf.type = "pbkdf2" THEN kdf.iterations = as_u32(v.iterations)
      ELSE kdf.memory = as_u32(v.memory) /\ kdf.time = as_u32(v.time)
    BY DEF KdfOf
<1> HIDE DEF kdf, s
<1>5. SlotAsWritten(s, v)
    BY <1>1, <1>2, <1>3, <1>4 DEF SlotAsWritten
<1>6. QED
    BY <1>2, <1>5 DEF s

(***************************************************************************)
(* There are as many digests as digest objects that have everything: an id *)
(* is at one place of the order only.                                      *)
(***************************************************************************)
LEMMA DigestsCounted ==
    ASSUME NEW map, DOMAIN map \subseteq Range(IdOrder),
           NEW s, NEW at, Lists(s, at, DigestsAt(map))
    PROVE  Len(s) = Cardinality({id \in DOMAIN map : WholeDigest(map[id])})
<1> DEFINE A == 1 .. Len(s)
           B == {id \in DOMAIN map : WholeDigest(map[id])}
           f == [k \in A |-> IdOrder[at[k]]]
<1>1. /\ Len(s) \in Nat
      /\ \A k \in A : at[k] \in DigestsAt(map)
      /\ \A j, k \in A : j < k => at[j] < at[k]
      /\ \A n \in DigestsAt(map) : \E k \in A : at[k] = n
    BY DEF Lists
<1>2. \A n \in DigestsAt(map) : n \in 1 .. Len(IdOrder) /\ IdOrder[n] \in B
    BY DEF DigestsAt, Holds
<1>3. \A id \in B : \E n \in DigestsAt(map) : IdOrder[n] = id
  <2> SUFFICES ASSUME NEW id \in B PROVE \E n \in DigestsAt(map) : IdOrder[n] = id
      OBVIOUS
  <2>1. PICK n \in 1 .. Len(IdOrder) : IdOrder[n] = id
      BY OrderedIds
  <2>2. QED
      BY <2>1 DEF DigestsAt, Holds
<1> HIDE DEF B
<1>4. \A j, k \in A : at[j] = at[k] => j = k
  <2> SUFFICES ASSUME NEW j \in A, NEW k \in A, at[j] = at[k] PROVE j = k
      OBVIOUS
  <2>1. at[j] \in Int /\ at[k] \in Int
      BY <1>1, <1>2
  <2>2. ~ (j < k) /\ ~ (k < j)
      BY <2>1, <1>1
  <2>3. QED
      BY <2>2, <1>1
<1>5. f \in Bijection(A, B)
  <2>1. f \in [A -> B]
      BY <1>1, <1>2
  <2>2. \A j, k \in A : f[j] = f[k] => j = k
      BY <1>1, <1>2, <1>4, OrderedIds
  <2>3. \A id \in B : \E k \in A : f[k] = id
      BY <1>1, <1>3
  <2> HIDE DEF f, A
  <2>4. QED
      BY <2>1, <2>2, <2>3 DEF Bijection, Injection, Surjection, IsInjective
<1>6. IsFiniteSet(A) /\ Cardinality(A) = Len(s)
  <2> DEFINE n == Len(s)
  <2> HIDE DEF n, f
  <2>1. n \in Nat /\ A = 1 .. n
      BY <1>1 DEF n
  <2>2. IsFiniteSet(1 .. n) /\ Cardinality(1 .. n) = IF 1 > n THEN 0 ELSE n - 1 + 1
      BY <2>1, FS_Interval
  <2>3. QED
      BY <2>1, <2>2 DEF n
<1> HIDE DEF A
<1>7. Cardinality(A) = Cardinality(B)
    BY <1>5, <1>6, FS_Bijection DEF ExistsBijection
<1>8. QED
    BY <1>6, <1>7 DEF B

(***************************************************************************)
(* The objects of a LUKS2 document stand for themselves, for every         *)
(* document and every order of ids (header2.rs:167-190): a keyslot that    *)
(* has everything is in the header as it was written whatever is wrong     *)
(* with the objects beside it, nothing else is, the slots are in the order *)
(* of their ids, and the digests that have everything are there with the   *)
(* slots they name.                                                        *)
(***************************************************************************)
THEOREM ObjectsAreFaithful == Spec => []JsonIsFaithful
<1>1. ExamineInv => JsonIsFaithful
  <2> SUFFICES ASSUME ExamineInv, Parsed(2) PROVE JsonIsFaithful
      BY DEF JsonIsFaithful
  <2> DEFINE map   == image.root.keyslots
             slots == header.keyslots
             dmap  == image.root.digests
             ds    == header.digests
  <2>1. /\ DOMAIN map \subseteq Range(IdOrder) /\ DOMAIN dmap \subseteq Range(IdOrder)
        /\ \A id \in DOMAIN dmap :
              dmap[id].keyslots.is = "array"
                 => dmap[id].keyslots.items \in Seq(Range(dmap[id].keyslots.items))
        /\ slots = keyslots(map) /\ ds = digests(dmap)
      BY ParsedDocument DEF Document
  <2>2. /\ JsonIsFaithful <=>
              /\ {slots[k].id : k \in 1 .. Len(slots)} = {id \in DOMAIN map : Whole(map[id])}
              /\ \A j, k \in 1 .. Len(slots) :
                    j < k => \E m, n \in 1 .. Len(IdOrder) :
                                m < n /\ IdOrder[m] = slots[j].id /\ IdOrder[n] = slots[k].id
              /\ \A k \in 1 .. Len(slots) : SlotAsWritten(slots[k], map[slots[k].id])
              /\ Len(ds) = Cardinality({id \in DOMAIN dmap : WholeDigest(dmap[id])})
              /\ \A k \in 1 .. Len(ds) :
                    \E id \in DOMAIN dmap :
                       WholeDigest(dmap[id]) /\ Names(ds[k].keyslots, dmap[id].keyslots)
      BY DEF JsonIsFaithful, Object
  <2> HIDE DEF map, slots, dmap, ds
  <2>3. PICK at : Listed(slots, at, SlotsAt(map), SlotsOf(map))
      BY <2>1, KeyslotsListed
  <2>4. \A k \in 1 .. Len(slots) :
           /\ at[k] \in SlotsAt(map) /\ at[k] \in 1 .. Len(IdOrder)
           /\ slots[k].id = IdOrder[at[k]] /\ slots[k].id \in DOMAIN map
           /\ Whole(map[slots[k].id])
           /\ SlotAsWritten(slots[k], map[slots[k].id])
    <3> SUFFICES ASSUME NEW k \in 1 .. Len(slots)
                 PROVE  /\ at[k] \in SlotsAt(map) /\ at[k] \in 1 .. Len(IdOrder)
                        /\ slots[k].id = IdOrder[at[k]] /\ slots[k].id \in DOMAIN map
                        /\ Whole(map[slots[k].id])
                        /\ SlotAsWritten(slots[k], map[slots[k].id])
        OBVIOUS
    <3> DEFINE id == IdOrder[at[k]]
    <3>1. at[k] \in SlotsAt(map) /\ slots[k] = SlotsOf(map)[at[k]]
        BY <2>3 DEF Listed, Lists
    <3>2. at[k] \in 1 .. Len(IdOrder) /\ id \in DOMAIN map /\ Whole(map[id])
        BY <3>1 DEF SlotsAt, Holds
    <3>3. slots[k] = SlotOf(id, map[id])
        BY <3>1, <3>2 DEF SlotsOf
    <3> HIDE DEF id
    <3>4. slots[k].id = id /\ SlotAsWritten(slots[k], map[id])
        BY <3>2, <3>3, SlotFields
    <3>5. QED
        BY <3>1, <3>2, <3>4 DEF id
  <2>5. {slots[k].id : k \in 1 .. Len(slots)} = {id \in DOMAIN map : Whole(map[id])}
    <3>1. \A id \in DOMAIN map : Whole(map[id]) => \E k \in 1 .. Len(slots) : slots[k].id = id
      <4> SUFFICES ASSUME NEW id \in DOMAIN map, Whole(map[id])
                   PROVE  \E k \in 1 .. Len(slots) : slots[k].id = id
          OBVIOUS
      <4>1. PICK n \in 1 .. Len(IdOrder) : IdOrder[n] = id
          BY <2>1, OrderedIds
      <4>2. n \in SlotsAt(map)
          BY <4>1 DEF SlotsAt, Holds
      <4>3. PICK k \in 1 .. Len(slots) : at[k] = n
          BY <4>2, <2>3 DEF Listed, Lists
      <4>4. QED
          BY <4>1, <4>3, <2>4
    <3>2. QED
        BY <2>4, <3>1, Zenon
  <2>6. \A j, k \in 1 .. Len(slots) :
           j < k => \E m, n \in 1 .. Len(IdOrder) :
                       m < n /\ IdOrder[m] = slots[j].id /\ IdOrder[n] = slots[k].id
    <3>1. \A j, k \in 1 .. Len(slots) : j < k => at[j] < at[k]
        BY <2>3 DEF Listed, Lists
    <3>2. QED
        BY <3>1, <2>4, Zenon
  <2>7. PICK to : Listed(ds, to, DigestsAt(dmap), DigestsOf(dmap))
      BY <2>1, DigestsListed
  <2>8. Len(ds) = Cardinality({id \in DOMAIN dmap : WholeDigest(dmap[id])})
      BY <2>1, <2>7, DigestsCounted DEF Listed
  <2>9. \A k \in 1 .. Len(ds) :
           \E id \in DOMAIN dmap :
              WholeDigest(dmap[id]) /\ Names(ds[k].keyslots, dmap[id].keyslots)
    <3> SUFFICES ASSUME NEW k \in 1 .. Len(ds)
                 PROVE  \E id \in DOMAIN dmap :
                           WholeDigest(dmap[id]) /\ Names(ds[k].keyslots, dmap[id].keyslots)
        OBVIOUS
    <3> DEFINE id == IdOrder[to[k]]
               v  == dmap[id].keyslots
               ks == ds[k].keyslots
    <3>1. to[k] \in DigestsAt(dmap) /\ ds[k] = DigestsOf(dmap)[to[k]]
        BY <2>7 DEF Listed, Lists
    <3>2. to[k] \in 1 .. Len(IdOrder) /\ id \in DOMAIN dmap /\ WholeDigest(dmap[id])
        BY <3>1 DEF DigestsAt, Holds
    <3>3. ds[k] = DigestOf(dmap[id])
        BY <3>1, <3>2 DEF DigestsOf
    <3>4. ks = IF v.is = "array" THEN Texts(v.items) ELSE <<>>
        BY <3>3 DEF DigestOf
    <3>5. v.is = "array" => v.items \in Seq(Range(v.items))
        BY <3>2, <2>1
    <3> HIDE DEF id, v, ks
    <3>6. Names(ks, v)
      <4>1. CASE v.is = "array"
          BY <4>1, <3>4, <3>5, TextsNamed DEF Names
      <4>2. CASE v.is # "array"
          BY <4>2, <3>4 DEF Names
      <4>3. QED
          BY <4>1, <4>2
    <3>7. QED
        BY <3>2, <3>6 DEF v, ks
  <2>10. QED
      BY <2>2, <2>4, <2>5, <2>6, <2>8, <2>9
<1>2. QED
    BY <1>1, SpecInv, PTL

(***************************************************************************)
(* The segment that will be decrypted is the document's first encrypted    *)
(* one of those that can be read, with its own place, sectors and tweak;   *)
(* there is none exactly when no object is such a segment (crypt_segment,  *)
(* header2.rs:200-204).                                                    *)
(***************************************************************************)
THEOREM DecryptsFirstSegment == Spec => []SegmentIsFirst
<1>1. ExamineInv => SegmentIsFirst
  <2> SUFFICES ASSUME ExamineInv, Parsed(2) PROVE SegmentIsFirst
      BY DEF SegmentIsFirst
  <2> DEFINE map   == image.root.segments
             s     == header.segments
             N     == Len(IdOrder)
             E     == Encrypted(header)
             taken == crypt_segment(header)
  <2>1. DOMAIN map \subseteq Range(IdOrder) /\ s = segments(map)
      BY ParsedDocument DEF Document
  <2>2. E = {k \in 1 .. Len(s) : s[k].encryption # ""}
      BY DEF Encrypted
  <2>3. taken = IF E = {} THEN <<>> ELSE << s[Min(E)] >>
      BY DEF crypt_segment
  <2>4. \A n \in 1 .. N : Decryptable(IdOrder[n]) <=>
              n \in SegmentsAt(map) /\ map[IdOrder[n]].encryption.s # ""
      BY DEF Decryptable, SegmentsAt, Holds, WholeSegment
  <2>5. /\ \A id \in DOMAIN map : \E n \in 1 .. N : IdOrder[n] = id
        /\ N \in Nat
      BY <2>1, OrderedIds
  <2>6. PICK at : Listed(s, at, SegmentsAt(map), SegmentsOf(map))
      BY <2>1, SegmentsListed
  <2>7. \A n \in SegmentsAt(map) : n \in 1 .. N
      BY DEF SegmentsAt
  <2>8. SegmentIsFirst <=>
           IF \E id \in DOMAIN map : Decryptable(id)
           THEN \E n \in 1 .. N :
                   /\ Decryptable(IdOrder[n])
                   /\ \A m \in 1 .. n - 1 : ~ Decryptable(IdOrder[m])
                   /\ taken = << SegmentOf(IdOrder[n], map[IdOrder[n]]) >>
           ELSE taken = <<>>
      BY DEF SegmentIsFirst, SegmentOf, Number, as_u64
  <2> HIDE DEF map, s, N, E, taken
  <2>9. /\ Len(s) \in Nat
        /\ \A k \in 1 .. Len(s) :
              /\ at[k] \in SegmentsAt(map) /\ at[k] \in 1 .. N
              /\ s[k] = SegmentOf(IdOrder[at[k]], map[IdOrder[at[k]]])
        /\ \A j, k \in 1 .. Len(s) : j < k => at[j] < at[k]
        /\ \A n \in SegmentsAt(map) : \E k \in 1 .. Len(s) : at[k] = n
    <3>1. \A n \in 1 .. N : SegmentsOf(map)[n] = SegmentOf(IdOrder[n], map[IdOrder[n]])
        BY DEF SegmentsOf, N
    <3>2. QED
        BY <3>1, <2>6, <2>7 DEF Listed, Lists
  <2>10. \A k \in 1 .. Len(s) : k \in E <=> Decryptable(IdOrder[at[k]])
    <3> SUFFICES ASSUME NEW k \in 1 .. Len(s)
                 PROVE  k \in E <=> Decryptable(IdOrder[at[k]])
        OBVIOUS
    <3>1. s[k].encryption = map[IdOrder[at[k]]].encryption.s
      <4>1. s[k] = SegmentOf(IdOrder[at[k]], map[IdOrder[at[k]]])
          BY <2>9
      <4>2. \A id, v : SegmentOf(id, v).encryption = v.encryption.s
          BY DEF SegmentOf
      <4>3. QED
          BY <4>1, <4>2
    <3>2. QED
        BY <3>1, <2>2, <2>4, <2>9
  <2>11. \A n \in 1 .. N : Decryptable(IdOrder[n]) => \E k \in E : at[k] = n
      BY <2>4, <2>9, <2>10
  <2>12. CASE E = {}
    <3>1. ~ \E id \in DOMAIN map : Decryptable(id)
        BY <2>5, <2>11, <2>12
    <3>2. QED
        BY <3>1, <2>3, <2>8, <2>12
  <2>13. CASE E # {}
    <3>1. E \subseteq 1 .. Len(s) /\ E \subseteq Nat
      <4>1. E \subseteq 1 .. Len(s)
          BY <2>2
      <4>2. \A i \in 1 .. Len(s) : i \in Nat
          BY <2>9
      <4>3. QED
          BY <4>1, <4>2
    <3>2. \E x \in E : \A y \in E : x <= y
        BY <3>1, <2>13, LeastOf
    <3> DEFINE k == Min(E)
               n == at[k]
    <3>3. k \in E /\ \A y \in E : k <= y
        BY <3>2 DEF Min
    <3> HIDE DEF k
    <3>4. k \in 1 .. Len(s) /\ taken = << s[k] >>
        BY <3>1, <3>3, <2>3, <2>13 DEF k
    <3>5. /\ n \in 1 .. N /\ Decryptable(IdOrder[n])
          /\ taken = << SegmentOf(IdOrder[n], map[IdOrder[n]]) >>
        BY <3>3, <3>4, <2>9, <2>10
    <3>6. ASSUME NEW m \in 1 .. n - 1, Decryptable(IdOrder[m]) PROVE FALSE
      <4>1. m \in 1 .. N /\ m < n
          BY <3>5, <2>5
      <4>2. PICK j \in E : at[j] = m
          BY <4>1, <3>6, <2>11
      <4>3. j \in 1 .. Len(s) /\ k <= j
          BY <3>1, <3>3
      <4>4. CASE k = j
          BY <4>1, <4>2, <4>4, <3>5
      <4>5. CASE k < j
        <5>1. at[k] < at[j]
            BY <4>3, <4>5, <3>4, <2>9
        <5>2. QED
            BY <5>1, <4>1, <4>2, <3>5
      <4>6. QED
          BY <4>3, <4>4, <4>5, <3>4
    <3>7. IdOrder[n] \in DOMAIN map
        BY <3>5 DEF Decryptable, map
    <3> HIDE DEF n
    <3>8. QED
        BY <3>5, <3>6, <3>7, <2>8
  <2>14. QED
      BY <2>12, <2>13
<1>2. QED
    BY <1>1, SpecInv, PTL
=============================================================================
