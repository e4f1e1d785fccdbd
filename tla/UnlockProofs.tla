---------------------------- MODULE UnlockProofs ----------------------------
(***************************************************************************)
(* Proofs about Unlock, for every value of the constants.                  *)
(***************************************************************************)
EXTENDS UnlockRefinement, WellFoundedInduction, TLAPS

-----------------------------------------------------------------------------
(***************************************************************************)
(* A run of at most CALIBRATION_ITERS rounds takes at most one calibration *)
(* unit: the PBKDF2 runs that are not probed are short.                    *)
(***************************************************************************)
LEMMA ProjectedType ==
    ASSUME NEW iters \in Nat, NEW pass \in Nat
    PROVE  Projected(iters, pass) \in Nat
<1>1. pass * iters \in Nat
    OBVIOUS
<1>2. \A x \in Nat : x \div CALIBRATION_ITERS \in Nat
    BY KdfAssumption
<1>3. QED
    BY <1>1, <1>2 DEF Projected

LEMMA ShortRun ==
    ASSUME NEW iters \in Nat, NEW pass \in Nat, iters <= CALIBRATION_ITERS
    PROVE  Projected(iters, pass) <= pass
<1>1. pass * iters <= pass * CALIBRATION_ITERS
    BY KdfAssumption
<1>2. \A x \in Nat, c \in Nat \ {0}, p \in Nat : x <= p * c => x \div c <= p
    OBVIOUS
<1>3. pass * iters \in Nat
    OBVIOUS
<1>4. QED
    BY <1>1, <1>2, <1>3, KdfAssumption DEF Projected

(***************************************************************************)
(* The outcome of a derivation: its types, and that it takes at most its   *)
(* budget and one calibration unit more.  A derivation that is not probed  *)
(* is itself at most one unit; a probed one costs the probe and what was   *)
(* projected; a refused one at most the probe.                             *)
(***************************************************************************)
Outcome(d, budget) ==
    /\ d.err \in {"Ok", "Unsupported"} \cup
                  {"KeyLengthExceeded", "DerivationMemoryExceeded", "DerivationBudgetExceeded"}
    /\ d.spent \in Nat
    /\ d.rounds \in Nat
    /\ d.spent <= budget + MaxPass

LEMMA RoundsType ==
    ASSUME NEW iterations \in Nat
    PROVE  Rounds(iterations) \in Nat
BY DEF Rounds

LEMMA Pbkdf2Outcome ==
    ASSUME NEW hash, NEW iterations \in Nat, NEW key_len \in Nat,
           NEW budget \in Nat, NEW pass \in 0 .. MaxPass
    PROVE  Outcome(derive_key_within(hash, iterations, key_len, budget, pass), budget)
<1> DEFINE iters == Rounds(iterations)
           run   == Projected(iters, pass)
<1>1. iters \in Nat /\ pass \in Nat /\ pass <= MaxPass /\ MaxPass \in Nat
    BY RoundsType, KdfAssumption
<1>2. run \in Nat
    BY <1>1, ProjectedType
<1>3. iters <= CALIBRATION_ITERS => run <= pass
    BY <1>1, ShortRun
<1> HIDE DEF iters, run
<1>4. CASE key_len > MAX_KEY_BYTES
    BY <1>4, <1>1 DEF derive_key_within, Refused, Outcome
<1>5. CASE key_len <= MAX_KEY_BYTES /\ hash \notin Hashes
    BY <1>5, <1>1, KdfAssumption DEF derive_key_within, Refused, Outcome
<1>6. CASE key_len <= MAX_KEY_BYTES /\ hash \in Hashes /\ iters > CALIBRATION_ITERS /\ run > budget
    BY <1>6, <1>1, <1>2, KdfAssumption DEF derive_key_within, Refused, Outcome, iters, run
<1>7. CASE key_len <= MAX_KEY_BYTES /\ hash \in Hashes /\ iters > CALIBRATION_ITERS /\ run <= budget
    BY <1>7, <1>1, <1>2, KdfAssumption DEF derive_key_within, Derived, Outcome, iters, run
<1>8. CASE key_len <= MAX_KEY_BYTES /\ hash \in Hashes /\ iters <= CALIBRATION_ITERS
    BY <1>8, <1>1, <1>2, <1>3, KdfAssumption DEF derive_key_within, Derived, Outcome, iters, run
<1>9. QED
    BY <1>1, <1>2, <1>4, <1>5, <1>6, <1>7, <1>8, KdfAssumption

LEMMA Argon2Outcome ==
    ASSUME NEW kdf \in KdfParams, NEW key_len \in Nat,
           NEW budget \in Nat, NEW pass \in 0 .. MaxPass
    PROVE  Outcome(derive_key_argon2_within(kdf, key_len, budget, pass), budget)
<1> DEFINE run == pass * kdf.cost
<1>1. kdf.cost \in Nat /\ pass \in Nat /\ pass <= MaxPass /\ MaxPass \in Nat
    BY KdfAssumption DEF KdfParams
<1>2. run \in Nat
    BY <1>1
<1>3. kdf.cost = 0 => run = 0
    BY <1>1
<1>4. kdf.cost = 1 => run = pass
    BY <1>1
<1> HIDE DEF run
<1>5. CASE \/ key_len > MAX_KEY_BYTES
           \/ kdf.memory > MAX_ARGON2_MEMORY_KIB
           \/ ~ Argon2Accepts(kdf, key_len)
    BY <1>5, <1>1 DEF derive_key_argon2_within, Refused, Outcome
<1>6. CASE /\ ~ (key_len > MAX_KEY_BYTES)
           /\ ~ (kdf.memory > MAX_ARGON2_MEMORY_KIB)
           /\ Argon2Accepts(kdf, key_len)
           /\ kdf.cost > 1 /\ run > budget
    BY <1>6, <1>1 DEF derive_key_argon2_within, Refused, Outcome, run
<1>7. CASE /\ ~ (key_len > MAX_KEY_BYTES)
           /\ ~ (kdf.memory > MAX_ARGON2_MEMORY_KIB)
           /\ Argon2Accepts(kdf, key_len)
           /\ ~ (kdf.cost > 1 /\ run > budget)
    <2>1. run + (IF kdf.cost > 1 THEN pass ELSE 0) <= budget + MaxPass
        BY <1>1, <1>2, <1>3, <1>4, <1>7
    <2>2. run + (IF kdf.cost > 1 THEN pass ELSE 0) \in Nat
        BY <1>1, <1>2
    <2>3. derive_key_argon2_within(kdf, key_len, budget, pass) =
              Derived(kdf.cost, run + (IF kdf.cost > 1 THEN pass ELSE 0))
        BY <1>7 DEF derive_key_argon2_within, run
    <2>4. QED
        BY <2>1, <2>2, <2>3, <1>1 DEF Derived, Outcome
<1>8. QED
    BY <1>5, <1>6, <1>7

LEMMA DeriveOutcome ==
    ASSUME NEW kdf \in KdfParams, NEW key_len \in Nat,
           NEW budget \in Nat, NEW pass \in 0 .. MaxPass
    PROVE  Outcome(Derive(kdf, key_len, budget, pass), budget)
<1>1. kdf.cost \in Nat
    BY DEF KdfParams
<1>2. QED
    BY <1>1, Pbkdf2Outcome, Argon2Outcome DEF Derive

-----------------------------------------------------------------------------
(***************************************************************************)
(* What the parsers yield has the type of a header.                        *)
(***************************************************************************)
LEMMA Header1Type ==
    ASSUME NEW b \in Luks1Body
    PROVE  Header1(b) \in Header
<1>1. b.keyslots \in Seq(Keyslot) /\ Len(b.keyslots) \in Nat
    BY DEF Luks1Body
<1>2. ASSUME NEW i \in 1 .. Len(b.keyslots)
      PROVE  Slot1(b, i) \in Slot
    <2>1. b.keyslots[i] \in Keyslot
        BY <1>1
    <2>2. b.keyslots[i].key_material_offset * SECTOR \in Nat
        BY <2>1 DEF Keyslot, SECTOR
    <2>3. Pbkdf2(b.hash_spec, b.keyslots[i].iterations) \in KdfParams
        BY <2>1 DEF Pbkdf2, KdfParams, Luks1Body, Keyslot
    <2>4. i \in Nat
        BY <1>1
    <2>5. QED
        BY <2>1, <2>2, <2>3, <2>4 DEF Slot1, Slot, Luks1Body, Keyslot
<1>3. [i \in 1 .. Len(b.keyslots) |-> Slot1(b, i)] \in Seq(Slot)
    BY <1>1, <1>2
<1>4. Header1(b).digests \in Seq(Luks2Digest)
    <2> DEFINE ids == 1 .. Len(b.keyslots)
               d   == [kind |-> "pbkdf2", hash |-> b.hash_spec,
                       iterations |-> b.mk_digest_iter, len |-> MK_DIGEST_LEN,
                       of |-> b.mk, keyslots |-> ids]
    <2>1. ids \in SUBSET Nat
        BY <1>1
    <2>2. d \in Luks2Digest
        <3>1. b.hash_spec \in Names /\ b.mk_digest_iter \in Nat /\ b.mk \in MasterKeys
            BY DEF Luks1Body
        <3>2. MK_DIGEST_LEN \in Nat /\ "pbkdf2" \in Names
            BY NamesAssumption DEF MK_DIGEST_LEN
        <3> HIDE DEF ids
        <3>3. QED
            BY <2>1, <3>1, <3>2 DEF Luks2Digest
    <2>3. Header1(b).digests = <<d>>
        BY DEF Header1
    <2> HIDE DEF d
    <2>4. QED
        BY <2>2, <2>3
<1>5. QED
    BY <1>3, <1>4 DEF Header1, Header, Luks1Body

LEMMA Header2Type ==
    ASSUME NEW b \in Luks2Body, CryptSegments(b) # {}
    PROVE  Header2(b) \in Header
<1>1. b.keyslots \in Seq(Luks2Keyslot) /\ Len(b.keyslots) \in Nat
    BY DEF Luks2Body
<1>2. ASSUME NEW i \in 1 .. Len(b.keyslots)
      PROVE  Slot2(b, i) \in Slot
    <2>1. b.keyslots[i] \in Luks2Keyslot
        BY <1>1
    <2>2. QED
        BY <2>1 DEF Slot2, Slot, Luks2Keyslot
<1>3. [i \in 1 .. Len(b.keyslots) |-> Slot2(b, i)] \in Seq(Slot)
    BY <1>1, <1>2
<1>4. crypt_segment(b).encryption \in Names \X Names
    <2> DEFINE n == Len(b.segments)
    <2>0. b.segments \in Seq(Luks2Segment) /\ n \in Nat
        BY DEF Luks2Body
    <2>1. CryptSegments(b) \subseteq 1 .. n /\ CryptSegments(b) \subseteq Nat
        <3>1. CryptSegments(b) \subseteq 1 .. n
            BY Zenon DEF CryptSegments
        <3>2. 1 .. n \subseteq Nat
            BY <2>0
        <3>3. QED
            BY <3>1, <3>2, Zenon
    <2>2. \E i \in CryptSegments(b) : \A j \in CryptSegments(b) : i <= j
        <3> DEFINE Less == OpToRel(<, Nat)
        <3>1. \E i \in CryptSegments(b) :
                  \A j \in CryptSegments(b) : ~ (<<j, i>> \in Less)
            <4>1. IsWellFoundedOn(Less, Nat)
                BY NatLessThanWellFounded
            <4> HIDE DEF Less
            <4>2. QED
                BY <2>1, <4>1, WFMin
        <3>2. \A i, j \in Nat : ~ (<<j, i>> \in Less) => i <= j
            BY DEF OpToRel
        <3> HIDE DEF Less
        <3>3. QED
            BY <2>1, <3>1, <3>2
    <2>3. PICK i \in CryptSegments(b) : crypt_segment(b) = b.segments[i]
        BY <2>2 DEF crypt_segment
    <2>4. b.segments[i] \in Luks2Segment
        <3>1. i \in 1 .. n
            BY <2>1
        <3>2. QED
            BY <2>0, <3>1
    <2>5. QED
        BY <2>3, <2>4 DEF Luks2Segment
<1>5. QED
    BY <1>3, <1>4 DEF Header2, Header, Luks2Body

LEMMA NoHeaderType ==
    NoHeader \in Header /\ Len(NoHeader.keyslots) = 0 /\ Len(NoHeader.digests) = 0
<1>1. <<"", "">> \in Names \X Names
    BY NamesAssumption
<1>2. <<>> \in Seq(Slot) /\ <<>> \in Seq(Luks2Digest) /\ Len(<<>>) = 0
    OBVIOUS
<1>3. QED
    BY <1>1, <1>2 DEF NoHeader, Header

(***************************************************************************)
(* The facts of TypeOK that every action relies on.                        *)
(***************************************************************************)
LEMMA ListTypes ==
    ASSUME TypeOK
    PROVE  /\ header.keyslots \in Seq(Slot) /\ Len(header.keyslots) \in Nat
           /\ header.digests \in Seq(Luks2Digest) /\ Len(header.digests) \in Nat
           /\ slot <= Len(header.keyslots) => Current \in Slot
           /\ dig <= Len(header.digests) => Digest \in Luks2Digest
           /\ slot \in Nat /\ dig \in Nat
<1>1. header \in Header
    BY DEF TypeOK
<1>2. header.keyslots \in Seq(Slot) /\ Len(header.keyslots) \in Nat
    BY <1>1 DEF Header
<1>3. header.digests \in Seq(Luks2Digest) /\ Len(header.digests) \in Nat
    BY <1>1 DEF Header
<1>4. slot \in 1 .. Len(header.keyslots) + 1 /\ dig \in 1 .. Len(header.digests) + 1
    BY DEF TypeOK
<1>5. slot \in Nat /\ slot >= 1 /\ dig \in Nat /\ dig >= 1
    BY <1>2, <1>3, <1>4
<1>6. QED
    BY <1>2, <1>3, <1>5 DEF Current, Digest

LEMMA RefuseType ==
    ASSUME TypeOK, NEW err \in Errors \ {"Pending"}, Refuse(err)
    PROVE  /\ pc' = "done" /\ pc' \in Labels
           /\ result' \in [err : Errors, key : MasterKeys \cup {Junk, NoKey}, slots_tried : Nat]
           /\ result'.err # "Pending"
<1>1. tried \in Nat
    BY DEF TypeOK
<1>2. (IF err = "UnlockBudgetExceeded" THEN tried ELSE 0) \in Nat
    BY <1>1
<1>3. QED
    BY <1>2 DEF Refuse, Labels

LEMMA ParsedType ==
    ASSUME NEW c \in Containers
    PROVE  /\ Parse1(c) = "Ok" => Header1(c.body) \in Header
           /\ Parse2(c) = "Ok" => Header2(c.body) \in Header
           /\ Parse1(c) \in Errors \ {"Pending"}
           /\ Parse2(c) \in Errors \ {"Pending"}
<1>1. IsContainer(c)
    BY UnlockAssumption
<1>2. Parse1(c) = "Ok" => c.version = 1
    BY DEF Parse1
<1>3. Parse2(c) = "Ok" => c.version = 2 /\ CryptSegments(c.body) # {}
    BY DEF Parse2
<1>4. Parse1(c) = "Ok" => Header1(c.body) \in Header
    BY <1>1, <1>2, Header1Type DEF IsContainer
<1>5. Parse2(c) = "Ok" => Header2(c.body) \in Header
    BY <1>1, <1>3, Header2Type DEF IsContainer
<1>6. Parse1(c) \in Errors \ {"Pending"}
    BY DEF Parse1, Errors
<1>7. Parse2(c) \in Errors \ {"Pending"}
    BY DEF Parse2, Errors
<1>8. QED
    BY <1>4, <1>5, <1>6, <1>7

-----------------------------------------------------------------------------
(***************************************************************************)
(* Type correctness.  TypeOK is inductive as it stands: the header is      *)
(* parsed while the cursors still have their first values, because they    *)
(* lie within the lists of the empty header.                               *)
(***************************************************************************)
LEMMA TypeInit == Init => TypeOK
<1> SUFFICES ASSUME Init PROVE TypeOK
    OBVIOUS
<1>1. header \in Header /\ Len(header.keyslots) = 0 /\ Len(header.digests) = 0
    BY NoHeaderType DEF Init
<1>2. total \in Nat
    BY UnlockAssumption DEF Init
<1>3. QED
    BY <1>1, <1>2 DEF Init, TypeOK, Labels, Errors, Pending, NoSlotKey

LEMMA TypeStep == TypeOK /\ [Next]_vars => TypeOK'
<1> SUFFICES ASSUME TypeOK, [Next]_vars PROVE TypeOK'
    OBVIOUS
<1> USE DEF call, loop, clock
<1>0. \A t \in 0 .. MaxIo : t \in Nat /\ elapsed + t \in Nat
    BY UnlockAssumption DEF TypeOK
<1>1. CASE Detect
    <2>1. CASE GoTo("parse1") \/ GoTo("parse2")
        BY <1>1, <2>1 DEF Detect, GoTo, TypeOK, Labels
    <2>2. CASE \E err \in Errors \ {"Pending"} : Refuse(err)
        BY <1>1, <2>2, RefuseType DEF Detect, TypeOK
    <2>3. QED
        BY <1>1, <2>1, <2>2 DEF Detect, Errors
<1>2. CASE ParseLuks1
    <2>1. elapsed' \in Nat
        BY <1>0, <1>2 DEF ParseLuks1, TakesTime
    <2>2. container \in Containers /\ header = NoHeader /\ slot_key = NoSlotKey
        BY <1>2 DEF ParseLuks1, TypeOK
    <2>3. slot = 1 /\ dig = 1 /\ tried = 0
        BY <2>2, NoHeaderType DEF TypeOK
    <2>4. CASE Parse1(container) = "Ok" /\ GoTo("slot") /\ header' = Header1(container.body)
        <3>1. header' \in Header
            BY <2>2, <2>4, ParsedType
        <3>2. Len(header'.keyslots) \in Nat /\ Len(header'.digests) \in Nat
            BY <3>1 DEF Header
        <3>3. QED
            BY <1>2, <2>1, <2>2, <2>3, <2>4, <3>1, <3>2
            DEF ParseLuks1, GoTo, TypeOK, Labels
    <2>5. CASE header' = header /\ \E err \in Errors \ {"Pending"} : Refuse(err)
        BY <1>2, <2>1, <2>5, RefuseType DEF ParseLuks1, TypeOK
    <2>6. QED
        BY <1>2, <2>2, <2>4, <2>5, ParsedType DEF ParseLuks1, Errors
<1>3. CASE ParseLuks2
    <2>1. elapsed' \in Nat
        BY <1>0, <1>3 DEF ParseLuks2, TakesTime
    <2>2. container \in Containers /\ header = NoHeader /\ slot_key = NoSlotKey
        BY <1>3 DEF ParseLuks2, TypeOK
    <2>3. slot = 1 /\ dig = 1 /\ tried = 0
        BY <2>2, NoHeaderType DEF TypeOK
    <2>4. CASE Parse2(container) = "Ok" /\ GoTo("slot") /\ header' = Header2(container.body)
        <3>1. header' \in Header
            BY <2>2, <2>4, ParsedType
        <3>2. Len(header'.keyslots) \in Nat /\ Len(header'.digests) \in Nat
            BY <3>1 DEF Header
        <3>3. QED
            BY <1>3, <2>1, <2>2, <2>3, <2>4, <3>1, <3>2
            DEF ParseLuks2, GoTo, TypeOK, Labels
    <2>5. CASE header' = header /\ \E err \in Errors \ {"Pending"} : Refuse(err)
        BY <1>3, <2>1, <2>5, RefuseType DEF ParseLuks2, TypeOK
    <2>6. QED
        BY <1>3, <2>2, <2>4, <2>5, ParsedType DEF ParseLuks2, Errors
<1>4. CASE SkipInactive
    BY <1>4, ListTypes DEF SkipInactive, TypeOK
<1>5. CASE OutOfSlots
    <2>1. "AuthenticationFailed" \in Errors \ {"Pending"}
        BY DEF Errors
    <2>2. QED
        BY <1>5, <2>1, RefuseType DEF OutOfSlots, TypeOK
<1>6. CASE OutOfTime
    <2>1. "UnlockBudgetExceeded" \in Errors \ {"Pending"}
        BY DEF Errors
    <2>2. QED
        BY <1>6, <2>1, RefuseType DEF OutOfTime, TypeOK
<1>7. CASE DeriveSlotKey
    <2> DEFINE D(pass) == Derive(Current.kdf, Current.key_size, Remaining, pass)
    <2>1. PICK pass \in 0 .. MaxPass :
              /\ elapsed' = elapsed + D(pass).spent
              /\ spent' = D(pass).spent
              /\ \/ /\ D(pass).err = "Ok"
                    /\ GoTo("material")
                    /\ slot_key' = [secret |-> passphrase, rounds |-> D(pass).rounds]
                 \/ /\ D(pass).err # "Ok"
                    /\ Refuse(D(pass).err)
                    /\ slot_key' = slot_key
        BY <1>7 DEF DeriveSlotKey
    <2>2. Current \in Slot /\ slot <= Len(header.keyslots)
        BY <1>7, ListTypes DEF DeriveSlotKey
    <2>3. Current.kdf \in KdfParams /\ Current.key_size \in Nat
        BY <2>2 DEF Slot
    <2>4. Remaining \in Nat
        BY <1>7, KdfAssumption DEF DeriveSlotKey, HasTime, Remaining, Lesser, TypeOK
    <2>5. Outcome(D(pass), Remaining)
        BY <2>3, <2>4, DeriveOutcome
    <2> HIDE DEF D
    <2>6. elapsed' \in Nat /\ spent' \in Nat
        BY <2>1, <2>5 DEF Outcome, TypeOK
    <2>7. CASE D(pass).err = "Ok"
        <3>1. slot_key' \in [secret : Passphrases \cup {NoKey}, rounds : Nat]
            BY <2>1, <2>5, <2>7 DEF Outcome, TypeOK
        <3>2. slot_key'.secret = passphrase
            BY <2>1, <2>7
        <3>3. GoTo("material")
            BY <2>1, <2>7
        <3>4. QED
            BY <1>7, <2>2, <2>6, <3>1, <3>2, <3>3 DEF DeriveSlotKey, GoTo, TypeOK, Labels
    <2>8. CASE D(pass).err # "Ok"
        <3>1. D(pass).err \in Errors \ {"Pending"}
            BY <2>5 DEF Outcome, Errors
        <3>2. Refuse(D(pass).err) /\ slot_key' = slot_key
            BY <2>1, <2>8
        <3>3. QED
            BY <1>7, <2>6, <3>1, <3>2, RefuseType DEF DeriveSlotKey, TypeOK
    <2>9. QED
        BY <2>7, <2>8
<1>8. CASE RefuseStripes
    <2>1. "ImplausibleStripes" \in Errors \ {"Pending"}
        BY DEF Errors
    <2>2. QED
        BY <1>8, <2>1, RefuseType DEF RefuseStripes, TypeOK
<1>9. CASE LeaveSlot
    <2>1. elapsed' \in Nat
        BY <1>0, <1>9 DEF LeaveSlot, TakesTime
    <2>2. QED
        BY <1>9, <2>1, ListTypes
        DEF LeaveSlot, NextSlot, GoTo, TypeOK, Labels, NoSlotKey
<1>10. CASE RecoverCandidate
    <2>1. elapsed' \in Nat
        BY <1>0, <1>10 DEF RecoverCandidate, TakesTime
    <2>2. Current \in Slot
        BY <1>10, ListTypes DEF RecoverCandidate, TypeOK
    <2>3. Merged(Current, slot_key.secret, slot_key.rounds) \in MasterKeys \cup {Junk}
        BY <2>2, HeaderAssumption DEF Merged, Slot
    <2>4. CASE GoTo("digest") /\ candidate' = Merged(Current, slot_key.secret, slot_key.rounds)
        BY <1>10, <2>1, <2>3, <2>4, HeaderAssumption
        DEF RecoverCandidate, GoTo, TypeOK, Labels
    <2>5. CASE Refuse("Unsupported") /\ UNCHANGED candidate
        <3>1. "Unsupported" \in Errors \ {"Pending"}
            BY DEF Errors
        <3>2. QED
            BY <1>10, <2>1, <2>5, <3>1, RefuseType DEF RecoverCandidate, TypeOK
    <2>6. QED
        BY <1>10, <2>4, <2>5 DEF RecoverCandidate
<1>11. CASE SkipDigest
    BY <1>11, ListTypes DEF SkipDigest, TypeOK
<1>12. CASE OutOfDigests
    BY <1>12, ListTypes
    DEF OutOfDigests, NextSlot, GoTo, TypeOK, Labels, NoSlotKey
<1>13. CASE VerifyDigest
    <2> DEFINE D(pass) == derive_key_within(Digest.hash, Digest.iterations, Digest.len,
                                            Remaining, pass)
    <2>1. PICK pass \in 0 .. MaxPass :
              /\ elapsed' = elapsed + D(pass).spent
              /\ spent' = D(pass).spent
              /\ \/ D(pass).err # "Ok" /\ Refuse(D(pass).err) /\ UNCHANGED dig
                 \/ GoTo("finish") /\ UNCHANGED dig
                 \/ GoTo("digest") /\ dig' = dig + 1
        BY <1>13 DEF VerifyDigest
    <2>2. Digest \in Luks2Digest /\ dig <= Len(header.digests)
        BY <1>13, ListTypes DEF VerifyDigest
    <2>3. Digest.iterations \in Nat /\ Digest.len \in Nat
        BY <2>2 DEF Luks2Digest
    <2>4. Remaining \in Nat
        BY <1>13, KdfAssumption DEF VerifyDigest, HasTime, Remaining, Lesser, TypeOK
    <2>5. Outcome(D(pass), Remaining)
        BY <2>3, <2>4, Pbkdf2Outcome
    <2> HIDE DEF D
    <2>6. elapsed' \in Nat /\ spent' \in Nat
        <3>1. D(pass).spent \in Nat
            BY <2>5 DEF Outcome
        <3>2. elapsed \in Nat
            BY DEF TypeOK
        <3>3. QED
            BY <2>1, <3>1, <3>2
    <2>7. CASE D(pass).err # "Ok" /\ Refuse(D(pass).err) /\ UNCHANGED dig
        <3>1. D(pass).err \in Errors \ {"Pending"}
            BY <2>5 DEF Outcome, Errors
        <3>2. QED
            BY <1>13, <2>6, <2>7, <3>1, RefuseType DEF VerifyDigest, TypeOK
    <2>8. CASE GoTo("finish") /\ UNCHANGED dig
        BY <1>13, <2>2, <2>6, <2>8 DEF VerifyDigest, GoTo, TypeOK, Labels
    <2>9. CASE GoTo("digest") /\ dig' = dig + 1
        <3>1. dig' \in 1 .. Len(header.digests) + 1
            BY <2>2, <2>9, ListTypes DEF TypeOK
        <3>2. /\ pc = "digest" /\ pc' = "digest"
              /\ UNCHANGED <<call, header, slot, tried, slot_key, candidate, result>>
            BY <1>13, <2>9 DEF VerifyDigest, GoTo
        <3>3. QED
            BY <2>6, <3>1, <3>2 DEF call, TypeOK, Labels
    <2>10. QED
        BY <2>1, <2>7, <2>8, <2>9
<1>14. CASE IoError
    <2>1. "Io" \in Errors \ {"Pending"}
        BY DEF Errors
    <2>2. elapsed' \in Nat
        BY <1>0, <1>14 DEF IoError, TakesTime
    <2>3. QED
        BY <1>14, <2>1, <2>2, RefuseType DEF IoError, TypeOK
<1>15. CASE Finish
    <2>1. elapsed' \in Nat
        BY <1>0, <1>15 DEF Finish, TakesTime
    <2>2. QED
        BY <1>15, <2>1 DEF Finish, TypeOK, Labels, Errors
<1>16. CASE UNCHANGED vars
    BY <1>16 DEF vars, TypeOK, Labels
<1>17. QED
    BY <1>1, <1>2, <1>3, <1>4, <1>5, <1>6, <1>7, <1>8, <1>9, <1>10, <1>11,
       <1>12, <1>13, <1>14, <1>15, <1>16 DEF Next

(***************************************************************************)
(* Every state of every unlock is well typed, whatever the container, the  *)
(* budget and the speed of the machine (volume.rs, the whole unlock).      *)
(***************************************************************************)
THEOREM TypeCorrect == Spec => []TypeOK
<1>1. QED
    BY TypeInit, TypeStep, PTL DEF Spec

-----------------------------------------------------------------------------
(***************************************************************************)
(* The time bound.  OverrunBounded alone is not inductive: a step that     *)
(* adds I/O time may start at the bound.  The strengthening says where in  *)
(* the loop the one calibration unit and the one access are spent: after a *)
(* derivation nothing is owed to I/O yet, and every later derivation waits *)
(* for the deadline check.                                                 *)
(***************************************************************************)
TimeInv ==
    /\ spent <= DERIVATION_BUDGET + MaxPass
    /\ pc \in {"detect", "parse1", "parse2"} => elapsed = 0
    /\ pc \in {"material", "finish"} => elapsed <= total + MaxPass
    /\ pc \in {"slot", "digest", "done"} => elapsed <= total + MaxPass + MaxIo

LEMMA RemainingBound ==
    ASSUME TypeOK, HasTime
    PROVE  /\ Remaining \in Nat
           /\ Remaining <= DERIVATION_BUDGET
           /\ elapsed + Remaining <= total
BY KdfAssumption DEF TypeOK, HasTime, Remaining, Lesser

LEMMA TimeStep == TypeOK /\ TimeInv /\ [Next]_vars => TimeInv'
<1> SUFFICES ASSUME TypeOK, TimeInv, [Next]_vars PROVE TimeInv'
    OBVIOUS
<1> USE DEF call, loop, clock
<1>0. /\ MaxIo \in Nat /\ MaxPass \in Nat /\ DERIVATION_BUDGET \in Nat
      /\ total \in Nat /\ elapsed \in Nat /\ spent \in Nat /\ pc \in Labels
    BY UnlockAssumption, KdfAssumption DEF TypeOK
<1>1. CASE Detect
    BY <1>0, <1>1 DEF Detect, GoTo, Refuse, TimeInv
<1>2. CASE ParseLuks1
    BY <1>0, <1>2 DEF ParseLuks1, GoTo, Refuse, TakesTime, TimeInv
<1>3. CASE ParseLuks2
    BY <1>0, <1>3 DEF ParseLuks2, GoTo, Refuse, TakesTime, TimeInv
<1>4. CASE SkipInactive
    BY <1>0, <1>4 DEF SkipInactive, TimeInv
<1>5. CASE OutOfSlots
    BY <1>0, <1>5 DEF OutOfSlots, Refuse, TimeInv
<1>6. CASE OutOfTime
    BY <1>0, <1>6 DEF OutOfTime, AtDerivation, Refuse, TimeInv
<1>7. CASE DeriveSlotKey
    <2> DEFINE D(pass) == Derive(Current.kdf, Current.key_size, Remaining, pass)
    <2>1. PICK pass \in 0 .. MaxPass :
              /\ elapsed' = elapsed + D(pass).spent
              /\ spent' = D(pass).spent
              /\ pc' \in {"material", "done"}
        BY <1>7 DEF DeriveSlotKey, GoTo, Refuse
    <2>2. Current.kdf \in KdfParams /\ Current.key_size \in Nat
        BY <1>7, ListTypes DEF DeriveSlotKey, Slot
    <2>3. /\ Remaining \in Nat /\ Remaining <= DERIVATION_BUDGET
          /\ elapsed + Remaining <= total
        BY <1>7, RemainingBound DEF DeriveSlotKey
    <2>4. D(pass).spent \in Nat /\ D(pass).spent <= Remaining + MaxPass
        BY <2>2, <2>3, DeriveOutcome DEF Outcome
    <2> HIDE DEF D
    <2>5. QED
        BY <1>0, <1>7, <2>1, <2>3, <2>4 DEF DeriveSlotKey, TimeInv
<1>8. CASE RefuseStripes
    BY <1>0, <1>8 DEF RefuseStripes, Refuse, TimeInv
<1>9. CASE LeaveSlot
    BY <1>0, <1>9 DEF LeaveSlot, NextSlot, GoTo, TakesTime, TimeInv
<1>10. CASE RecoverCandidate
    BY <1>0, <1>10 DEF RecoverCandidate, GoTo, Refuse, TakesTime, TimeInv
<1>11. CASE SkipDigest
    BY <1>0, <1>11 DEF SkipDigest, TimeInv
<1>12. CASE OutOfDigests
    BY <1>0, <1>12 DEF OutOfDigests, NextSlot, GoTo, TimeInv
<1>13. CASE VerifyDigest
    <2> DEFINE D(pass) == derive_key_within(Digest.hash, Digest.iterations, Digest.len,
                                            Remaining, pass)
    <2>1. PICK pass \in 0 .. MaxPass :
              /\ elapsed' = elapsed + D(pass).spent
              /\ spent' = D(pass).spent
              /\ pc' \in {"digest", "finish", "done"}
        BY <1>13 DEF VerifyDigest, GoTo, Refuse
    <2>2. Digest.iterations \in Nat /\ Digest.len \in Nat
        BY <1>13, ListTypes DEF VerifyDigest, Luks2Digest
    <2>3. /\ Remaining \in Nat /\ Remaining <= DERIVATION_BUDGET
          /\ elapsed + Remaining <= total
        BY <1>13, RemainingBound DEF VerifyDigest
    <2>4. D(pass).spent \in Nat /\ D(pass).spent <= Remaining + MaxPass
        BY <2>2, <2>3, Pbkdf2Outcome DEF Outcome
    <2> HIDE DEF D
    <2>5. QED
        BY <1>0, <1>13, <2>1, <2>3, <2>4 DEF VerifyDigest, TimeInv
<1>14. CASE IoError
    BY <1>0, <1>14 DEF IoError, Refuse, TakesTime, TimeInv
<1>15. CASE Finish
    BY <1>0, <1>15 DEF Finish, TakesTime, TimeInv
<1>16. CASE UNCHANGED vars
    BY <1>16 DEF vars, TimeInv
<1>17. QED
    BY <1>1, <1>2, <1>3, <1>4, <1>5, <1>6, <1>7, <1>8, <1>9, <1>10, <1>11,
       <1>12, <1>13, <1>14, <1>15, <1>16 DEF Next

(***************************************************************************)
(* However many slots and digests a header lists and whatever they cost,   *)
(* an unlock overruns its total by at most one calibration unit and one    *)
(* access (UnlockDeadline::remaining before both derivations of a slot).   *)
(***************************************************************************)
THEOREM Overrun == Spec => []OverrunBounded
<1>1. Init => TimeInv
    BY KdfAssumption, UnlockAssumption DEF Init, TimeInv
<1>2. TypeOK /\ TimeInv => OverrunBounded
    <2> SUFFICES ASSUME TypeOK, TimeInv PROVE OverrunBounded
        OBVIOUS
    <2>1. /\ MaxIo \in Nat /\ MaxPass \in Nat /\ total \in Nat /\ elapsed \in Nat
        BY UnlockAssumption, KdfAssumption DEF TypeOK
    <2>2. QED
        BY <2>1 DEF TypeOK, TimeInv, OverrunBounded, Labels
<1>3. QED
    BY <1>1, <1>2, TimeStep, TypeCorrect, PTL DEF Spec

DeadlineStep ==
    elapsed >= total =>
        /\ AtDerivation => result'.err = "UnlockBudgetExceeded"
        /\ spent' = spent
        /\ elapsed' <= elapsed + MaxIo

LEMMA DeadlineHolds == TypeOK /\ Next => DeadlineStep
<1> SUFFICES ASSUME TypeOK, Next, elapsed >= total
             PROVE  /\ AtDerivation => result'.err = "UnlockBudgetExceeded"
                    /\ spent' = spent
                    /\ elapsed' <= elapsed + MaxIo
    BY DEF DeadlineStep
<1> USE DEF call, loop, clock
<1>1. elapsed \in Nat /\ total \in Nat /\ MaxIo \in Nat
    BY UnlockAssumption DEF TypeOK
<1>2. ~ HasTime
    BY <1>1 DEF HasTime
<1>3. ~ DeriveSlotKey /\ ~ VerifyDigest
    BY <1>2 DEF DeriveSlotKey, VerifyDigest
<1>4. TakesTime => elapsed' <= elapsed + MaxIo
    BY <1>1 DEF TakesTime
<1>5. UNCHANGED elapsed => elapsed' <= elapsed + MaxIo
    BY <1>1
<1>6. elapsed' <= elapsed + MaxIo
    BY <1>3, <1>4, <1>5
    DEF Next, Detect, ParseLuks1, ParseLuks2, SkipInactive, OutOfSlots,
        OutOfTime, RefuseStripes, LeaveSlot, RecoverCandidate, SkipDigest,
        OutOfDigests, IoError, Finish
<1>7. spent' = spent
    BY <1>3
    DEF Next, Detect, ParseLuks1, ParseLuks2, SkipInactive, OutOfSlots,
        OutOfTime, RefuseStripes, LeaveSlot, RecoverCandidate, SkipDigest,
        OutOfDigests, IoError, Finish
<1>8. ASSUME AtDerivation
      PROVE  result'.err = "UnlockBudgetExceeded"
  <2>1. /\ slot \in Nat /\ Len(header.keyslots) \in Nat
        /\ dig \in Nat /\ Len(header.digests) \in Nat
      BY ListTypes DEF TypeOK
  <2>2. OutOfTime
      BY <1>3, <1>8, <2>1
      DEF AtDerivation, Next, Detect, ParseLuks1, ParseLuks2, SkipInactive,
          OutOfSlots, RefuseStripes, LeaveSlot, RecoverCandidate, SkipDigest,
          OutOfDigests, IoError, Finish
  <2>3. QED
      BY <2>2 DEF OutOfTime, Refuse
<1>9. QED
    BY <1>6, <1>7, <1>8

(***************************************************************************)
(* No derivation, neither a slot's first nor its second, is started by an  *)
(* unlock whose total budget is used up: where one is due it is refused.   *)
(***************************************************************************)
THEOREM DeadlineStopsWork == Spec => NoWorkAfterDeadline
<1>1. TypeOK /\ [Next]_vars => [DeadlineStep]_vars
    BY DeadlineHolds
<1>2. QED
    BY <1>1, TypeCorrect, PTL DEF Spec, NoWorkAfterDeadline, DeadlineStep

-----------------------------------------------------------------------------
(***************************************************************************)
(* A derivation refused for its length or its memory has done no work.     *)
(***************************************************************************)
Ceilings == {"KeyLengthExceeded", "DerivationMemoryExceeded", "ImplausibleStripes"}

LEMMA DeriveCeilingIsFree ==
    ASSUME NEW kdf, NEW key_len, NEW budget, NEW pass,
           Derive(kdf, key_len, budget, pass).err \in Ceilings
    PROVE  Derive(kdf, key_len, budget, pass).spent = 0
BY DEF Derive, derive_key_within, derive_key_argon2_within, Refused, Derived, Ceilings

LEMMA DigestCeilingIsFree ==
    ASSUME NEW hash, NEW iterations, NEW key_len, NEW budget, NEW pass,
           derive_key_within(hash, iterations, key_len, budget, pass).err \in Ceilings
    PROVE  derive_key_within(hash, iterations, key_len, budget, pass).spent = 0
BY DEF derive_key_within, Refused, Derived, Ceilings

LEMMA CeilingStep ==
    ASSUME TypeOK, [Next]_vars, result'.err \in Ceilings, elapsed' # elapsed
    PROVE  FALSE
<1> USE DEF call, loop, clock
<1>0. elapsed \in Nat /\ elapsed + 0 = elapsed
    BY DEF TypeOK
<1>1. \A err : Refuse(err) => result'.err = err
    BY DEF Refuse
<1>2. pc # "done" => result.err \notin Ceilings
    BY DEF TypeOK, Pending, Ceilings
<1>3. CASE DeriveSlotKey
    <2> DEFINE D(pass) == Derive(Current.kdf, Current.key_size, Remaining, pass)
    <2>1. PICK pass \in 0 .. MaxPass :
              /\ elapsed' = elapsed + D(pass).spent
              /\ result' = result \/ Refuse(D(pass).err)
        BY <1>3 DEF DeriveSlotKey, GoTo
    <2>2. pc = "slot"
        BY <1>3 DEF DeriveSlotKey
    <2>3. D(pass).err \in Ceilings
        BY <1>1, <1>2, <2>1, <2>2
    <2>4. D(pass).spent = 0
        BY <2>3, DeriveCeilingIsFree
    <2>5. QED
        BY <1>0, <2>1, <2>4
<1>4. CASE VerifyDigest
    <2> DEFINE D(pass) == derive_key_within(Digest.hash, Digest.iterations, Digest.len,
                                            Remaining, pass)
    <2>1. PICK pass \in 0 .. MaxPass :
              /\ elapsed' = elapsed + D(pass).spent
              /\ result' = result \/ Refuse(D(pass).err)
        BY <1>4 DEF VerifyDigest, GoTo
    <2>2. pc = "digest"
        BY <1>4 DEF VerifyDigest
    <2>3. D(pass).err \in Ceilings
        BY <1>1, <1>2, <2>1, <2>2
    <2>4. D(pass).spent = 0
        BY <2>3, DigestCeilingIsFree
    <2>5. QED
        BY <1>0, <2>1, <2>4
<1>5. CASE ParseLuks1
    <2>1. Parse1(container) \notin Ceilings
        BY DEF Parse1, Ceilings
    <2>2. QED
        BY <1>1, <1>2, <1>5, <2>1 DEF ParseLuks1, GoTo, Ceilings
<1>6. CASE ParseLuks2
    <2>1. Parse2(container) \notin Ceilings
        BY DEF Parse2, Ceilings
    <2>2. QED
        BY <1>1, <1>2, <1>6, <2>1 DEF ParseLuks2, GoTo, Ceilings
<1>7. CASE LeaveSlot \/ RecoverCandidate
    BY <1>1, <1>2, <1>7 DEF LeaveSlot, RecoverCandidate, NextSlot, GoTo, Ceilings
<1>8. CASE IoError \/ Finish
    BY <1>1, <1>8 DEF IoError, Finish, Ceilings
<1>9. QED
    BY <1>3, <1>4, <1>5, <1>6, <1>7, <1>8
    DEF Next, vars, Detect, SkipInactive, OutOfSlots, OutOfTime, RefuseStripes,
        SkipDigest, OutOfDigests

(***************************************************************************)
(* No time passes in a step that refuses a length, a memory cost or a      *)
(* stripe count: nothing was allocated, measured or read for it.           *)
(***************************************************************************)
THEOREM CeilingsAreFree == Spec => CeilingRefusalIsFree
<1>1. TypeOK /\ [Next]_vars =>
          [result'.err \in {"KeyLengthExceeded", "DerivationMemoryExceeded",
                            "ImplausibleStripes"} => elapsed' = elapsed]_vars
    BY CeilingStep DEF Ceilings
<1>2. QED
    BY <1>1, TypeCorrect, PTL DEF Spec, CeilingRefusalIsFree

-----------------------------------------------------------------------------
(***************************************************************************)
(* Every way a call goes on takes it forward: to a later phase, to a later *)
(* slot, on within the slot, to a later digest of the slot.                *)
(***************************************************************************)
LEMMA PhaseNumbers ==
    /\ Phase["detect"] = 4 /\ Phase["parse1"] = 3 /\ Phase["parse2"] = 3
    /\ Phase["slot"] = 2 /\ Phase["material"] = 2 /\ Phase["digest"] = 2
    /\ Phase["finish"] = 1 /\ Phase["done"] = 0
    /\ Turn["slot"] = 2 /\ Turn["material"] = 1 /\ Turn["digest"] = 0
BY DEF Phase, Turn

LEMMA EndAdvances ==
    ASSUME TypeOK, pc # "done", pc' = "done"
    PROVE  Advances
<1>1. pc \in Labels
    BY DEF TypeOK
<1>2. Phase["done"] < Phase[pc]
    BY <1>1, PhaseNumbers DEF Labels
<1>3. QED
    BY <1>2 DEF Advances

LEMMA NextSlotAdvances ==
    ASSUME TypeOK, pc \in {"material", "digest"}, NextSlot, UNCHANGED header
    PROVE  Advances
<1>1. slot \in Nat /\ slot' = slot + 1 /\ pc' = "slot"
    BY DEF TypeOK, NextSlot, GoTo
<1>2. slot' > slot
    BY <1>1
<1>3. QED
    BY <1>1, <1>2, PhaseNumbers DEF Advances

LEMMA AdvancesStep == TypeOK /\ [Next]_vars => [Advances]_vars
<1> SUFFICES ASSUME TypeOK, Next PROVE Advances
    OBVIOUS
<1>1. slot \in Nat /\ dig \in Nat
    BY DEF TypeOK
<1>2. CASE pc' = "done"
  <2>1. pc # "done"
      BY DEF Next, Detect, ParseLuks1, ParseLuks2, SkipInactive, OutOfSlots, OutOfTime,
         AtDerivation, DeriveSlotKey, RefuseStripes, LeaveSlot, RecoverCandidate, SkipDigest,
         OutOfDigests, VerifyDigest, IoError, Finish
  <2>2. QED
      BY <1>2, <2>1, EndAdvances
<1>3. CASE pc' # "done"
  <2>1. CASE Detect
    <3>1. pc = "detect" /\ pc' \in {"parse1", "parse2"}
        BY <1>3, <2>1 DEF Detect, GoTo, Refuse
    <3>2. QED
        BY <3>1, PhaseNumbers DEF Advances
  <2>2. CASE ParseLuks1 \/ ParseLuks2
    <3>1. pc \in {"parse1", "parse2"} /\ pc' = "slot"
        BY <1>3, <2>2 DEF ParseLuks1, ParseLuks2, GoTo, Refuse
    <3>2. QED
        BY <3>1, PhaseNumbers DEF Advances
  <2>3. CASE SkipInactive
    <3>1. pc = "slot" /\ pc' = "slot" /\ slot' = slot + 1 /\ UNCHANGED header
        BY <2>3 DEF SkipInactive
    <3>2. slot' > slot
        BY <3>1, <1>1
    <3>3. QED
        BY <3>1, <3>2, PhaseNumbers DEF Advances
  <2>4. CASE DeriveSlotKey
    <3>1. pc = "slot" /\ pc' = "material" /\ UNCHANGED <<header, slot>>
        BY <1>3, <2>4 DEF DeriveSlotKey, GoTo, Refuse
    <3>2. QED
        BY <3>1, PhaseNumbers DEF Advances
  <2>5. CASE LeaveSlot \/ OutOfDigests
    <3>1. pc \in {"material", "digest"} /\ NextSlot /\ UNCHANGED header
        BY <2>5 DEF LeaveSlot, OutOfDigests
    <3>2. QED
        BY <3>1, NextSlotAdvances
  <2>6. CASE RecoverCandidate
    <3>1. pc = "material" /\ pc' = "digest" /\ UNCHANGED <<header, slot>>
        BY <1>3, <2>6 DEF RecoverCandidate, GoTo, Refuse
    <3>2. QED
        BY <3>1, PhaseNumbers DEF Advances
  <2>7. CASE SkipDigest
    <3>1. pc = "digest" /\ pc' = pc /\ dig' = dig + 1 /\ UNCHANGED <<header, slot>>
        BY <2>7 DEF SkipDigest
    <3>2. dig' > dig
        BY <3>1, <1>1
    <3>3. QED
        BY <3>1, <3>2, PhaseNumbers DEF Advances
  <2>8. CASE VerifyDigest
    <3>1. /\ pc = "digest" /\ UNCHANGED <<header, slot>>
          /\ pc' = "finish" \/ (pc' = "digest" /\ dig' = dig + 1)
        BY <1>3, <2>8 DEF VerifyDigest, GoTo, Refuse
    <3>2. CASE pc' = "finish"
        BY <3>1, <3>2, PhaseNumbers DEF Advances
    <3>3. CASE pc' = "digest" /\ dig' = dig + 1
      <4>1. dig' > dig
          BY <3>3, <1>1
      <4>2. QED
          BY <3>1, <3>3, <4>1, PhaseNumbers DEF Advances
    <3>4. QED
        BY <3>1, <3>2, <3>3
  <2>9. ~ (OutOfSlots \/ OutOfTime \/ RefuseStripes \/ IoError \/ Finish)
      BY <1>3 DEF OutOfSlots, OutOfTime, RefuseStripes, IoError, Finish, Refuse
  <2>10. QED
      BY <2>1, <2>2, <2>3, <2>4, <2>5, <2>6, <2>7, <2>8, <2>9 DEF Next
<1>4. QED
    BY <1>2, <1>3

(***************************************************************************)
(* The recovery loops end, for every header: no step of an unlock leaves   *)
(* it where an earlier one had it (volume.rs:282-318, :336-401).           *)
(***************************************************************************)
THEOREM UnlockGoesForward == Spec => UnlockAdvances
BY AdvancesStep, TypeCorrect, PTL DEF Spec, UnlockAdvances
=============================================================================
