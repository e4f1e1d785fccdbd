----------------------- MODULE UnlockRefinementProofs -----------------------
(***************************************************************************)
(* The unlock keeps its promise, and an opened volume has a genuine key,   *)
(* for every set of containers, every budget and every machine.            *)
(***************************************************************************)
EXTENDS UnlockProofs

(***************************************************************************)
(* What a derivation's outcome says of the slot or digest, time aside.     *)
(***************************************************************************)
LEMMA DeriveMeaning ==
    ASSUME NEW s, NEW budget, NEW pass
    PROVE  LET d == Derive(s.kdf, s.key_size, budget, pass)
           IN /\ d.err = "Ok" => ~ KdfUnusable(s) /\ d.rounds = HeaderRounds(s.kdf)
              /\ d.err # "Ok" => d.err \in Transient \/ (d.err \in Refusals /\ KdfUnusable(s))
BY DEF Derive, derive_key_within, derive_key_argon2_within, Refused, Derived,
       KdfUnusable, HeaderRounds, Transient, Refusals

LEMMA DigestMeaning ==
    ASSUME NEW e, NEW budget, NEW pass
    PROVE  LET d == derive_key_within(e.hash, e.iterations, e.len, budget, pass)
           IN /\ d.err = "Ok" => ~ DigestUnusable(e) /\ d.rounds = Rounds(e.iterations)
              /\ d.err # "Ok" => d.err \in Transient \/ (d.err \in Refusals /\ DigestUnusable(e))
BY DEF derive_key_within, Refused, Derived, DigestUnusable, Transient, Refusals

(***************************************************************************)
(* What the loop has established where it stands: every slot before the    *)
(* current one declines; from the key material on, the current slot is     *)
(* usable as far as it was looked at; at the digests, the candidate is     *)
(* what the slot yields and no digest before the current one confirms it.  *)
(***************************************************************************)
Judged(e) == ~ DigestUnusable(header.digests[e]) /\ ~ Confirms(header.digests[e], candidate)

MeaningInv ==
    /\ pc \in {"slot", "material", "digest", "finish"} =>
          /\ Readable(container)
          /\ header = ParsedHeader(container)
          /\ Reached(container, header, passphrase, slot)
    /\ pc \in {"material", "digest", "finish"} =>
          /\ Current.active
          /\ ~ KdfUnusable(Current)
          /\ slot_key.rounds = HeaderRounds(Current.kdf)
    /\ pc \notin {"digest", "finish", "done"} => dig = 1
    /\ pc \in {"digest", "finish"} =>
          /\ MaterialComplete(container, Current)
          /\ ~ SlotUnusable(container, Current)
          /\ candidate = Yields(Current, passphrase)
          /\ \A f \in Judges(header, Current) : f < dig => Judged(f)
    /\ pc = "finish" =>
          /\ dig \in Judges(header, Current)
          /\ ~ DigestUnusable(Digest)
          /\ Confirms(Digest, candidate)

(***************************************************************************)
(* One more slot declines: the loop reaches the next.                      *)
(***************************************************************************)
LEMMA ReachedNext ==
    ASSUME NEW c, NEW h, NEW p, NEW i \in Nat, i >= 1,
           Reached(c, h, p, i), Declines(c, h, h.keyslots[i], p)
    PROVE  Reached(c, h, p, i + 1)
BY DEF Reached

LEMMA LeavingDeclines ==
    ASSUME TypeOK, MeaningInv,
           \/ LeaveSlot
           \/ OutOfDigests
    PROVE  Declines(container, header, Current, passphrase)
<1>1. CASE LeaveSlot
    <2>1. ~ MaterialComplete(container, Current) /\ Current.stripes <= MAX_STRIPES
        BY <1>1 DEF LeaveSlot
    <2>2. Current.stripes \in Nat /\ MAX_STRIPES \in Nat
        BY <1>1, ListTypes, HeaderAssumption DEF LeaveSlot, TypeOK, Slot
    <2>3. ~ KdfUnusable(Current)
        BY <1>1 DEF LeaveSlot, MeaningInv
    <2>4. ~ SlotUnusable(container, Current)
        BY <2>1, <2>2, <2>3 DEF SlotUnusable
    <2>5. QED
        BY <2>1, <2>4 DEF Declines
<1>2. CASE OutOfDigests
    <2>1. pc = "digest" /\ dig > Len(header.digests)
        BY <1>2 DEF OutOfDigests
    <2>2. \A f \in Judges(header, Current) : Judged(f)
        <3>1. \A f \in 1 .. Len(header.digests) : f < dig
            BY <2>1, ListTypes
        <3>2. QED
            BY <2>1, <3>1 DEF MeaningInv, Judges
    <2>3. QED
        BY <2>1, <2>2 DEF MeaningInv, Declines, Judged
<1>3. QED
    BY <1>1, <1>2

LEMMA MeaningStep == TypeOK /\ MeaningInv /\ [Next]_vars => MeaningInv'
<1> SUFFICES ASSUME TypeOK, MeaningInv, [Next]_vars PROVE MeaningInv'
    OBVIOUS
<1> USE DEF call, loop, clock
<1>0. \A err : Refuse(err) => pc' = "done"
    BY DEF Refuse
<1>d. ASSUME pc' = "done" PROVE MeaningInv'
    BY <1>d DEF MeaningInv
<1>n. ASSUME NextSlot, UNCHANGED <<container, passphrase, header>>,
             pc \in {"material", "digest"},
             Declines(container, header, Current, passphrase)
      PROVE  MeaningInv'
    <2>1. pc' = "slot" /\ slot' = slot + 1 /\ dig' = 1
        BY <1>n DEF NextSlot, GoTo
    <2>2. /\ Readable(container) /\ header = ParsedHeader(container)
          /\ Reached(container, header, passphrase, slot)
        BY <1>n DEF MeaningInv
    <2>3. slot \in Nat /\ slot >= 1
        BY ListTypes DEF TypeOK
    <2>4. Reached(container, header, passphrase, slot + 1)
        BY <1>n, <2>2, <2>3, ReachedNext DEF Current
    <2>5. Reached(container, header, passphrase, slot)'
        BY <1>n, <2>1, <2>4
    <2>6. Readable(container)' /\ (header = ParsedHeader(container))'
        BY <1>n, <2>2
    <2>7. QED
        BY <2>1, <2>5, <2>6 DEF MeaningInv
<1>1. CASE Detect
    BY <1>0, <1>d, <1>1 DEF Detect, GoTo, MeaningInv
<1>2. CASE ParseLuks1
    <2>1. CASE Parse1(container) = "Ok" /\ GoTo("slot") /\ header' = Header1(container.body)
        <3>1. container.version = 1
            BY <2>1 DEF Parse1
        <3>2. Readable(container) /\ Header1(container.body) = ParsedHeader(container)
            BY <2>1, <3>1 DEF Readable, ParsedHeader
        <3>3. slot = 1
            BY <1>2, NoHeaderType DEF ParseLuks1, TypeOK
        <3>4. Reached(container, header', passphrase, 1)
            BY DEF Reached
        <3>5. pc' = "slot" /\ dig' = dig /\ dig = 1
            BY <1>2, <2>1 DEF ParseLuks1, GoTo, MeaningInv
        <3>6. container' = container /\ passphrase' = passphrase /\ slot' = slot
            BY <1>2 DEF ParseLuks1
        <3>7. QED
            BY <2>1, <3>2, <3>3, <3>4, <3>5, <3>6 DEF MeaningInv
    <2>2. QED
        BY <1>0, <1>d, <1>2, <2>1 DEF ParseLuks1
<1>3. CASE ParseLuks2
    <2>1. CASE Parse2(container) = "Ok" /\ GoTo("slot") /\ header' = Header2(container.body)
        <3>1. container.version = 2
            BY <2>1 DEF Parse2
        <3>2. Readable(container) /\ Header2(container.body) = ParsedHeader(container)
            BY <2>1, <3>1 DEF Readable, ParsedHeader
        <3>3. slot = 1
            BY <1>3, NoHeaderType DEF ParseLuks2, TypeOK
        <3>4. Reached(container, header', passphrase, 1)
            BY DEF Reached
        <3>5. pc' = "slot" /\ dig' = dig /\ dig = 1
            BY <1>3, <2>1 DEF ParseLuks2, GoTo, MeaningInv
        <3>6. container' = container /\ passphrase' = passphrase /\ slot' = slot
            BY <1>3 DEF ParseLuks2
        <3>7. QED
            BY <2>1, <3>2, <3>3, <3>4, <3>5, <3>6 DEF MeaningInv
    <2>2. QED
        BY <1>0, <1>d, <1>3, <2>1 DEF ParseLuks2
<1>4. CASE SkipInactive
    <2>1. Declines(container, header, Current, passphrase)
        BY <1>4 DEF SkipInactive, Declines
    <2>2. slot \in Nat /\ slot >= 1
        BY ListTypes DEF TypeOK
    <2>3. Reached(container, header, passphrase, slot + 1)
        BY <1>4, <2>1, <2>2, ReachedNext DEF SkipInactive, MeaningInv, Current
    <2>4. QED
        BY <1>4, <2>3 DEF SkipInactive, MeaningInv
<1>5. CASE OutOfSlots \/ OutOfTime \/ RefuseStripes \/ IoError \/ Finish
    BY <1>0, <1>d, <1>5 DEF OutOfSlots, OutOfTime, RefuseStripes, IoError, Finish
<1>7. CASE DeriveSlotKey
    <2> DEFINE D(pass) == Derive(Current.kdf, Current.key_size, Remaining, pass)
    <2>1. PICK pass \in 0 .. MaxPass :
              \/ /\ D(pass).err = "Ok"
                 /\ GoTo("material")
                 /\ slot_key' = [secret |-> passphrase, rounds |-> D(pass).rounds]
              \/ Refuse(D(pass).err)
        BY <1>7 DEF DeriveSlotKey
    <2>2. CASE /\ D(pass).err = "Ok"
               /\ GoTo("material")
               /\ slot_key' = [secret |-> passphrase, rounds |-> D(pass).rounds]
        <3>1. ~ KdfUnusable(Current) /\ slot_key'.rounds = HeaderRounds(Current.kdf)
            BY <2>2, DeriveMeaning
        <3>2. pc' = "material" /\ pc = "slot" /\ Current.active
            BY <1>7, <2>2 DEF DeriveSlotKey, GoTo
        <3>3. UNCHANGED <<container, passphrase, header, slot, dig, candidate>>
            BY <1>7 DEF DeriveSlotKey
        <3>4. Current' = Current
            BY <3>3 DEF Current
        <3> HIDE DEF D
        <3>5. QED
            BY <3>1, <3>2, <3>3, <3>4 DEF MeaningInv
    <2>3. QED
        BY <1>0, <1>d, <2>1, <2>2
<1>9. CASE LeaveSlot
    BY <1>n, <1>9, LeavingDeclines DEF LeaveSlot
<1>10. CASE RecoverCandidate
    <2>1. CASE /\ MaterialSupported(Current)
               /\ GoTo("digest")
               /\ candidate' = Merged(Current, slot_key.secret, slot_key.rounds)
        <3>1. pc = "material" /\ pc' = "digest"
            BY <1>10, <2>1 DEF RecoverCandidate, GoTo
        <3>2. UNCHANGED <<container, passphrase, header, slot, dig, slot_key>>
            BY <1>10 DEF RecoverCandidate
        <3>3. Current' = Current
            BY <3>2 DEF Current
        <3>4. slot_key.secret = passphrase /\ slot_key.rounds = HeaderRounds(Current.kdf)
            BY <3>1 DEF TypeOK, MeaningInv
        <3>5. candidate' = Yields(Current, passphrase)
            BY <2>1, <3>4 DEF Yields
        <3>6. Current.stripes \in Nat /\ MAX_STRIPES \in Nat
            BY <3>1, ListTypes, HeaderAssumption DEF TypeOK, Slot
        <3>7. MaterialComplete(container, Current) /\ ~ SlotUnusable(container, Current)
            BY <1>10, <2>1, <3>1, <3>6 DEF RecoverCandidate, SlotUnusable, MeaningInv
        <3>8. \A f \in Judges(header, Current) : ~ (f < dig)
            <4>1. dig = 1
                BY <3>1 DEF MeaningInv
            <4>2. \A f \in 1 .. Len(header.digests) : ~ (f < 1)
                BY ListTypes
            <4>3. QED
                BY <4>1, <4>2 DEF Judges
        <3>9. MaterialComplete(container, Current)' /\ ~ SlotUnusable(container, Current)'
            BY <3>2, <3>3, <3>7
        <3>10. (candidate = Yields(Current, passphrase))'
            BY <3>2, <3>3, <3>5
        <3>11. Judges(header, Current)' = Judges(header, Current)
            BY <3>2, <3>3
        <3>12. QED
            BY <3>1, <3>2, <3>3, <3>8, <3>9, <3>10, <3>11 DEF MeaningInv
    <2>2. QED
        BY <1>0, <1>d, <1>10, <2>1 DEF RecoverCandidate
<1>11. CASE SkipDigest
    <2>1. UNCHANGED <<pc, container, passphrase, header, slot, slot_key, candidate>>
        BY <1>11 DEF SkipDigest
    <2>2. Current' = Current
        BY <2>1 DEF Current
    <2>3. dig \notin Judges(header, Current) /\ pc = "digest" /\ dig' = dig + 1
        BY <1>11 DEF SkipDigest, Judges, Digest
    <2>4. \A f \in Judges(header, Current) : f < dig + 1 => Judged(f)
        <3>1. \A f \in 1 .. Len(header.digests) : f < dig + 1 => f < dig \/ f = dig
            BY ListTypes
        <3>2. QED
            BY <2>3, <3>1 DEF MeaningInv, Judges
    <2>5. \A f : Judged(f)' = Judged(f)
        BY <2>1 DEF Judged
    <2>6. QED
        BY <2>1, <2>2, <2>3, <2>4, <2>5 DEF MeaningInv
<1>12. CASE OutOfDigests
    BY <1>n, <1>12, LeavingDeclines DEF OutOfDigests
<1>13. CASE VerifyDigest
    <2> DEFINE D(pass) == derive_key_within(Digest.hash, Digest.iterations, Digest.len,
                                            Remaining, pass)
               M(pass) == DigestMatches(Digest, candidate, D(pass).rounds)
    <2>1. PICK pass \in 0 .. MaxPass :
              \/ Refuse(D(pass).err)
              \/ D(pass).err = "Ok" /\ M(pass) /\ GoTo("finish") /\ UNCHANGED dig
              \/ D(pass).err = "Ok" /\ ~ M(pass) /\ GoTo("digest") /\ dig' = dig + 1
        BY <1>13 DEF VerifyDigest
    <2>2. UNCHANGED <<container, passphrase, header, slot, slot_key, candidate>>
        BY <1>13 DEF VerifyDigest
    <2>3. Current' = Current
        BY <2>2 DEF Current
    <2>4. dig \in Judges(header, Current) /\ pc = "digest"
        <3>1. dig \in 1 .. Len(header.digests)
            BY <1>13, ListTypes DEF VerifyDigest, TypeOK
        <3>2. QED
            BY <1>13, <3>1 DEF VerifyDigest, Judges, Digest
    <2>5. D(pass).err = "Ok" => ~ DigestUnusable(Digest) /\ (M(pass) <=> Confirms(Digest, candidate))
        BY DigestMeaning DEF Confirms
    <2> HIDE DEF D, M
    <2>6. \A f : Judged(f)' = Judged(f)
        BY <2>2 DEF Judged
    <2>7. CASE D(pass).err = "Ok" /\ M(pass) /\ GoTo("finish") /\ UNCHANGED dig
        <3>1. Digest' = Digest /\ pc' = "finish"
            BY <2>2, <2>7 DEF Digest, GoTo
        <3>2. QED
            BY <2>2, <2>3, <2>4, <2>5, <2>6, <2>7, <3>1 DEF MeaningInv
    <2>8. CASE D(pass).err = "Ok" /\ ~ M(pass) /\ GoTo("digest") /\ dig' = dig + 1
        <3>1. pc' = "digest"
            BY <2>8 DEF GoTo
        <3>2. Judged(dig)
            BY <2>5, <2>8 DEF Judged, Digest
        <3>3. \A f \in Judges(header, Current) : f < dig + 1 => Judged(f)
            <4>1. \A f \in 1 .. Len(header.digests) : f < dig + 1 => f < dig \/ f = dig
                BY ListTypes
            <4>2. QED
                BY <2>4, <3>2, <4>1 DEF MeaningInv, Judges
        <3>4. QED
            BY <2>2, <2>3, <2>4, <2>6, <2>8, <3>1, <3>3 DEF MeaningInv
    <2>9. QED
        BY <1>0, <1>d, <2>1, <2>7, <2>8
<1>16. CASE UNCHANGED vars
    <2>1. Current' = Current /\ Digest' = Digest
        BY <1>16 DEF vars, Current, Digest
    <2>2. \A f : Judged(f)' = Judged(f)
        BY <1>16 DEF vars, Judged
    <2>3. QED
        BY <1>16, <2>1, <2>2 DEF vars, MeaningInv
<1>17. QED
    BY <1>1, <1>2, <1>3, <1>4, <1>5, <1>7, <1>9, <1>10, <1>11, <1>12, <1>13, <1>16 DEF Next

-----------------------------------------------------------------------------
(***************************************************************************)
(* Every answer is an allowed one, action by action.                       *)
(***************************************************************************)
LEMMA TransientAllowed ==
    ASSUME NEW err \in Transient, Refuse(err)
    PROVE  MayAnswer(container, passphrase, result')
BY DEF Refuse, MayAnswer

LEMMA ObstructedAllowed ==
    ASSUME TypeOK, MeaningInv, pc \in {"slot", "material", "digest"},
           slot <= Len(header.keyslots),
           Obstructs(container, header, Current, passphrase),
           NEW err \in Refusals, Refuse(err)
    PROVE  MayAnswer(container, passphrase, result')
<1>1. /\ Readable(container) /\ header = ParsedHeader(container)
      /\ Reached(container, header, passphrase, slot)
    BY DEF MeaningInv
<1>2. slot \in 1 .. Len(header.keyslots)
    BY ListTypes DEF TypeOK
<1>3. ParametersRefused(container, passphrase)
    BY <1>1, <1>2 DEF ParametersRefused, Current
<1>4. result'.err = err
    BY DEF Refuse
<1>5. QED
    BY <1>3, <1>4 DEF MayAnswer

LEMMA AnswerAllowed ==
    ASSUME TypeOK, MeaningInv, Next
    PROVE  result' = result \/ MayAnswer(container, passphrase, result')
<1> USE DEF call, loop, clock
<1>0. \A label : GoTo(label) => result' = result
    BY DEF GoTo
<1>i. Refuse("Io") => MayAnswer(container, passphrase, result')
    BY TransientAllowed DEF Transient
<1>1. CASE Detect
    <2>1. CASE /\ container.version \notin {1, 2}
               /\ Refuse(IF container.magic THEN "UnsupportedVersion" ELSE "NotLuks")
        BY <2>1 DEF Refuse, MayAnswer, HeaderRefused
    <2>2. QED
        BY <1>0, <1>i, <1>1, <2>1 DEF Detect
<1>2. CASE ParseLuks1
    <2>1. CASE Parse1(container) # "Ok" /\ Refuse(Parse1(container))
        BY <2>1 DEF Refuse, MayAnswer, HeaderRefused
    <2>2. QED
        BY <1>0, <1>i, <1>2, <2>1 DEF ParseLuks1
<1>3. CASE ParseLuks2
    <2>1. CASE Parse2(container) # "Ok" /\ Refuse(Parse2(container))
        BY <2>1 DEF Refuse, MayAnswer, HeaderRefused
    <2>2. QED
        BY <1>0, <1>i, <1>3, <2>1 DEF ParseLuks2
<1>4. CASE SkipInactive \/ SkipDigest
    BY <1>4 DEF SkipInactive, SkipDigest
<1>5. CASE OutOfSlots
    <2>1. /\ Readable(container) /\ header = ParsedHeader(container)
          /\ Reached(container, header, passphrase, slot)
        BY <1>5 DEF OutOfSlots, MeaningInv
    <2>2. slot = Len(header.keyslots) + 1
        BY <1>5, ListTypes DEF OutOfSlots, TypeOK
    <2>3. WrongPassphrase(container, passphrase)
        BY <2>1, <2>2 DEF WrongPassphrase
    <2>4. result'.err = "AuthenticationFailed"
        BY <1>5 DEF OutOfSlots, Refuse
    <2>5. QED
        BY <2>3, <2>4 DEF MayAnswer
<1>6. CASE OutOfTime
    BY <1>6, TransientAllowed DEF OutOfTime, Transient
<1>7. CASE DeriveSlotKey
    <2> DEFINE D(pass) == Derive(Current.kdf, Current.key_size, Remaining, pass)
    <2>1. PICK pass \in 0 .. MaxPass :
              \/ GoTo("material")
              \/ D(pass).err # "Ok" /\ Refuse(D(pass).err)
        BY <1>7 DEF DeriveSlotKey
    <2>2. CASE D(pass).err # "Ok" /\ Refuse(D(pass).err)
        <3>1. CASE D(pass).err \in Transient
            BY <2>2, <3>1, TransientAllowed
        <3>2. CASE D(pass).err \in Refusals /\ KdfUnusable(Current)
            <4>1. Obstructs(container, header, Current, passphrase)
                BY <1>7, <3>2 DEF DeriveSlotKey, Obstructs, SlotUnusable
            <4> HIDE DEF D
            <4>2. QED
                BY <1>7, <2>2, <3>2, <4>1, ObstructedAllowed DEF DeriveSlotKey
        <3>3. QED
            BY <2>2, <3>1, <3>2, DeriveMeaning
    <2>3. QED
        BY <1>0, <2>1, <2>2
<1>8. CASE RefuseStripes
    <2>1. Obstructs(container, header, Current, passphrase)
        BY <1>8 DEF RefuseStripes, Obstructs, SlotUnusable, MeaningInv
    <2>2. slot <= Len(header.keyslots) /\ pc = "material"
        BY <1>8 DEF RefuseStripes, TypeOK
    <2>3. QED
        BY <1>8, <2>1, <2>2, ObstructedAllowed DEF RefuseStripes, Refusals
<1>9. CASE LeaveSlot \/ OutOfDigests
    BY <1>0, <1>9 DEF LeaveSlot, OutOfDigests, NextSlot
<1>10. CASE RecoverCandidate
    <2>1. CASE ~ MaterialSupported(Current) /\ Refuse("Unsupported")
        <3>1. Obstructs(container, header, Current, passphrase)
            BY <1>10, <2>1 DEF RecoverCandidate, Obstructs, SlotUnusable, MeaningInv
        <3>2. slot <= Len(header.keyslots) /\ pc = "material"
            BY <1>10 DEF RecoverCandidate, TypeOK
        <3>3. QED
            BY <2>1, <3>1, <3>2, ObstructedAllowed DEF Refusals
    <2>2. QED
        BY <1>0, <1>10, <2>1 DEF RecoverCandidate
<1>13. CASE VerifyDigest
    <2> DEFINE D(pass) == derive_key_within(Digest.hash, Digest.iterations, Digest.len,
                                            Remaining, pass)
    <2>1. PICK pass \in 0 .. MaxPass :
              \/ result' = result
              \/ D(pass).err # "Ok" /\ Refuse(D(pass).err)
        BY <1>13 DEF VerifyDigest, GoTo
    <2>2. CASE D(pass).err # "Ok" /\ Refuse(D(pass).err)
        <3>1. CASE D(pass).err \in Transient
            BY <2>2, <3>1, TransientAllowed
        <3>2. CASE D(pass).err \in Refusals /\ DigestUnusable(Digest)
            <4>1. pc = "digest" /\ slot <= Len(header.keyslots)
                BY <1>13 DEF VerifyDigest, TypeOK
            <4>2. dig \in Judges(header, Current)
                <5>1. dig \in 1 .. Len(header.digests)
                    BY <1>13, ListTypes DEF VerifyDigest, TypeOK
                <5>2. QED
                    BY <1>13, <5>1 DEF VerifyDigest, Judges, Digest
            <4>3. \A f \in Judges(header, Current) :
                      f < dig => ~ Confirms(header.digests[f], Yields(Current, passphrase))
                BY <4>1 DEF MeaningInv, Judged
            <4>4. Obstructs(container, header, Current, passphrase)
                BY <3>2, <4>1, <4>2, <4>3 DEF MeaningInv, Obstructs, Digest
            <4> HIDE DEF D
            <4>5. QED
                BY <2>2, <3>2, <4>1, <4>4, ObstructedAllowed
        <3>3. QED
            BY <2>2, <3>1, <3>2, DigestMeaning
    <2>3. QED
        BY <2>1, <2>2
<1>14. CASE IoError
    BY <1>i, <1>14 DEF IoError
<1>15. CASE Finish
    <2>1. pc = "finish" /\ result'.err = "Ok" /\ result'.key = candidate
        BY <1>15 DEF Finish
    <2>2. slot \in 1 .. Len(header.keyslots)
        BY <2>1, ListTypes DEF TypeOK
    <2>3. \A f \in Judges(header, Current) : f <= dig => ~ DigestUnusable(header.digests[f])
        <3>1. \A f \in 1 .. Len(header.digests) : f <= dig => f < dig \/ f = dig
            BY ListTypes
        <3>2. QED
            BY <2>1, <3>1 DEF MeaningInv, Judges, Judged, Digest
    <2>4. Accepts(container, header, Current, passphrase)
        BY <2>1, <2>3 DEF MeaningInv, Accepts, Digest
    <2>5. Opened(container, passphrase, candidate)
        BY <2>1, <2>2, <2>4 DEF MeaningInv, Opened, Current
    <2>6. QED
        BY <2>1, <2>5 DEF MayAnswer
<1>17. QED
    BY <1>1, <1>2, <1>3, <1>4, <1>5, <1>6, <1>7, <1>8, <1>9, <1>10, <1>13, <1>14, <1>15 DEF Next

LEMMA AnswerOnce ==
    ASSUME TypeOK, Next
    PROVE  /\ UNCHANGED <<container, passphrase>>
           /\ result' # result => result = Pending /\ result' # Pending
<1> USE DEF call, loop, clock
<1>1. pc # "done"
    BY DEF Next, Detect, ParseLuks1, ParseLuks2, SkipInactive, OutOfSlots,
           OutOfTime, AtDerivation, DeriveSlotKey, RefuseStripes, LeaveSlot, RecoverCandidate,
           SkipDigest, OutOfDigests, VerifyDigest, IoError, Finish
<1>2. UNCHANGED <<container, passphrase>>
    BY DEF Next, Detect, ParseLuks1, ParseLuks2, SkipInactive, OutOfSlots,
           OutOfTime, DeriveSlotKey, RefuseStripes, LeaveSlot, RecoverCandidate,
           SkipDigest, OutOfDigests, VerifyDigest, IoError, Finish
<1>3. result' # result => pc' = "done"
    BY DEF Next, Detect, ParseLuks1, ParseLuks2, SkipInactive, OutOfSlots,
           OutOfTime, DeriveSlotKey, RefuseStripes, LeaveSlot, RecoverCandidate,
           SkipDigest, OutOfDigests, VerifyDigest, IoError, Finish,
           Refuse, GoTo, NextSlot
<1>4. TypeOK'
    BY TypeStep
<1>5. QED
    BY <1>1, <1>2, <1>3, <1>4 DEF TypeOK, Pending

-----------------------------------------------------------------------------
LEMMA MeaningInit == Init => MeaningInv
BY DEF Init, MeaningInv

(***************************************************************************)
(* Refinement: an unlock answers once, and only what the container and the *)
(* passphrase allow -- the key of the first accepting slot, "wrong         *)
(* passphrase" only when every active slot declines, a refusal only of     *)
(* something unusable -- whatever the clock and the reader do.             *)
(***************************************************************************)
THEOREM Refinement == Spec => KeepsPromise
<1>1. Init => Promise!Init
    BY DEF Init, Promise!Init
<1>2. TypeOK /\ MeaningInv /\ [Next]_vars =>
          [Promise!Answer]_<<container, passphrase, result>>
    <2> SUFFICES ASSUME TypeOK, MeaningInv, [Next]_vars
                 PROVE  [Promise!Answer]_<<container, passphrase, result>>
        OBVIOUS
    <2>1. CASE Next
        <3>1. UNCHANGED <<container, passphrase>>
            BY <2>1, AnswerOnce
        <3>2. CASE result' = result
            BY <3>1, <3>2
        <3>3. CASE result' # result
            <4>1. result = Pending /\ result' # Pending
                BY <2>1, <3>3, AnswerOnce
            <4>2. MayAnswer(container, passphrase, result')
                BY <2>1, <3>3, AnswerAllowed
            <4>3. QED
                BY <3>1, <4>1, <4>2 DEF Promise!Answer
        <3>4. QED
            BY <3>2, <3>3
    <2>2. CASE UNCHANGED vars
        BY <2>2 DEF vars, call
    <2>3. QED
        BY <2>1, <2>2
<1>3. QED
    BY <1>1, <1>2, TypeCorrect, MeaningInit, MeaningStep, PTL
    DEF Spec, KeepsPromise, Promise!Spec

-----------------------------------------------------------------------------
(***************************************************************************)
(* Genuine keys.  While the call runs MeaningInv says all there is; once   *)
(* it has returned, the answer keeps what was true when it was given.      *)
(***************************************************************************)
GenuineInv == MeaningInv /\ OpenedKeyIsGenuine

LEMMA ConfirmedIsGenuine ==
    ASSUME TypeOK, MeaningInv, pc = "finish"
    PROVE  Genuine(candidate)
<1>1. /\ dig \in Judges(header, Current) /\ Confirms(Digest, candidate)
      /\ candidate = Yields(Current, passphrase) /\ Current.active
    BY DEF MeaningInv
<1>2. /\ dig \in 1 .. Len(header.digests)
      /\ Digest.kind = "pbkdf2" /\ Current.id \in Digest.keyslots
    BY <1>1 DEF Judges, References, Digest
<1>3. Digest.len > 0 => Digest.of = candidate
    BY <1>1 DEF Confirms, DigestMatches
<1>4. Current.stripes = 0 => candidate = ZeroKey
    BY <1>1 DEF Yields, Merged
<1>5. ASSUME Current.stripes # 0, Digest.len > 0
      PROVE  Current.pass = passphrase /\ Current.mk = candidate
  <2>1. candidate # Junk
      BY <1>2, <1>3, <1>5, ListTypes, HeaderAssumption DEF Luks2Digest
  <2>2. QED
      BY <1>1, <1>5, <2>1 DEF Yields, Merged
<1>6. slot \in 1 .. Len(header.keyslots)
    BY ListTypes DEF TypeOK
<1>7. QED
    BY <1>1, <1>2, <1>3, <1>4, <1>5, <1>6 DEF Genuine, Current, Digest

LEMMA GenuineStep == TypeOK /\ GenuineInv /\ [Next]_vars => GenuineInv'
<1> SUFFICES ASSUME TypeOK, GenuineInv, [Next]_vars PROVE GenuineInv'
    OBVIOUS
<1>1. MeaningInv'
    BY MeaningStep DEF GenuineInv
<1>2. OpenedKeyIsGenuine'
    <2>1. CASE Finish
        <3>1. result'.key = candidate /\ pc = "finish" /\ UNCHANGED <<header, passphrase>>
            BY <2>1 DEF Finish, call
        <3>2. QED
            BY <3>1, ConfirmedIsGenuine DEF GenuineInv, OpenedKeyIsGenuine, Genuine
    <2>2. CASE UNCHANGED vars
        BY <2>2 DEF vars, call, GenuineInv, OpenedKeyIsGenuine, Genuine
    <2>3. CASE Next /\ ~ Finish
        <3>1. result'.err # "Ok"
            <4>1. result'.err # "Ok" \/ result' = result
                <5>1. \A err : Refuse(err) => result'.err = err
                    BY DEF Refuse
                <5>2. QED
                    BY <2>3, <5>1
                    DEF Next, Detect, ParseLuks1, ParseLuks2, SkipInactive, OutOfSlots,
                        OutOfTime, DeriveSlotKey, RefuseStripes, LeaveSlot, RecoverCandidate,
                        SkipDigest, OutOfDigests, VerifyDigest, IoError, GoTo, NextSlot
            <4>2. pc # "done"
                BY <2>3
                DEF Next, Detect, ParseLuks1, ParseLuks2, SkipInactive, OutOfSlots,
                    OutOfTime, AtDerivation, DeriveSlotKey, RefuseStripes, LeaveSlot, RecoverCandidate,
                    SkipDigest, OutOfDigests, VerifyDigest, IoError
            <4>3. QED
                BY <4>1, <4>2 DEF TypeOK, Pending
        <3>2. QED
            BY <3>1 DEF OpenedKeyIsGenuine
    <2>4. QED
        BY <2>1, <2>2, <2>3
<1>3. QED
    BY <1>1, <1>2 DEF GenuineInv

(***************************************************************************)
(* The master key of an opened volume is that of an active slot, by a      *)
(* digest that lists the slot and, if it has bytes, was taken of that key: *)
(* sealed there under the caller's passphrase, or of zeros where the slot  *)
(* has no stripes (recover_master_key1, recover_master_key2, af_merge).    *)
(***************************************************************************)
THEOREM GenuineKey == Spec => []OpenedKeyIsGenuine
<1>1. Init => GenuineInv
    BY MeaningInit DEF Init, Pending, GenuineInv, OpenedKeyIsGenuine
<1>2. QED
    BY <1>1, GenuineStep, TypeCorrect, PTL DEF Spec, GenuineInv
=============================================================================
