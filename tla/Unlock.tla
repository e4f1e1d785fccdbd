------------------------------- MODULE Unlock -------------------------------
(***************************************************************************)
(* One call of a LuksVolume::unlock*_with_passphrase[_within] entry point  *)
(* (core/src/volume.rs), from detecting the version to the answer.         *)
(*                                                                         *)
(* The call is sequential.  What is not in its hands is the time every     *)
(* derivation and every read takes, the I/O errors of the reader, and what *)
(* the container says; all three are nondeterministic.  The two recovery   *)
(* loops, recover_master_key1 and recover_master_key2, differ in the       *)
(* header they read and are one loop over the Header of LuksHeader.        *)
(***************************************************************************)
EXTENDS LuksHeader

CONSTANTS
    Containers,  \* the containers a call may be made on
    Budgets,     \* the total budgets a caller may pass
    MaxIo        \* longest time a header, key-material or size access takes

ASSUME UnlockAssumption ==
    /\ \A c \in Containers : IsContainer(c)
    /\ Budgets \subseteq Nat
    /\ MaxIo \in Nat

VARIABLES
    pc,          \* where the call is
    container,   \* the arguments of the call
    passphrase,
    total,       \* UnlockDeadline.total
    elapsed,     \* UnlockDeadline.started.elapsed()
    spent,       \* duration of the latest derivation
    header,      \* the parsed header
    slot,        \* cursor of the loop over keyslots
    tried,       \* the slots enumerate() has counted
    dig,         \* cursor of the inner loop over digests
    slot_key,    \* the derived slot key: its secret and its rounds
    candidate,   \* the master key merged from the current slot
    result       \* the answer of the call

call  == <<container, passphrase, total>>
loop  == <<slot, tried, dig, slot_key, candidate>>
clock == <<elapsed, spent>>
vars  == <<pc, call, clock, header, loop, result>>

NoHeader  == [keyslots |-> <<>>, digests |-> <<>>, segment |-> <<"", "">>]
NoSlotKey == [secret |-> NoKey, rounds |-> 0]
Pending   == [err |-> "Pending", key |-> NoKey, slots_tried |-> 0]

Current == header.keyslots[slot]
Digest  == header.digests[dig]

(***************************************************************************)
(* The three public ways in: detecting, LUKS1 and LUKS2.                   *)
(***************************************************************************)
Init ==
    /\ pc \in {"detect", "parse1", "parse2"}
    /\ container \in Containers
    /\ passphrase \in Passphrases
    /\ total \in Budgets
    /\ elapsed = 0
    /\ spent = 0
    /\ header = NoHeader
    /\ slot = 1
    /\ tried = 0
    /\ dig = 1
    /\ slot_key = NoSlotKey
    /\ candidate = NoKey
    /\ result = Pending

-----------------------------------------------------------------------------
(***************************************************************************)
(* Returning an error, with the count UnlockBudgetExceeded reports.        *)
(***************************************************************************)
Refuse(err) ==
    /\ pc' = "done"
    /\ result' = [err |-> err, key |-> NoKey,
                  slots_tried |-> IF err = "UnlockBudgetExceeded" THEN tried ELSE 0]

GoTo(label) == pc' = label /\ UNCHANGED result

(***************************************************************************)
(* UnlockDeadline::remaining: nothing once the total is used up, and never *)
(* more than one derivation may take.  Faulty: no check of the total.      *)
(***************************************************************************)
Unlimited == TRUE
HasTime   == elapsed < total
Remaining == Lesser(total - elapsed, DERIVATION_BUDGET)

TakesTime == \E t \in 0 .. MaxIo : elapsed' = elapsed + t

(***************************************************************************)
(* unlock_with_passphrase_within: read eight bytes, dispatch.  The clock   *)
(* starts after it.                                                        *)
(***************************************************************************)
Detect ==
    /\ pc = "detect"
    /\ \/ Refuse("Io")
       \/ /\ container.len >= 8
          /\ container.version = 1
          /\ GoTo("parse1")
       \/ /\ container.len >= 8
          /\ container.version = 2
          /\ GoTo("parse2")
       \/ /\ container.len >= 8
          /\ container.version \notin {1, 2}
          /\ Refuse(IF container.magic THEN "UnsupportedVersion" ELSE "NotLuks")
    /\ UNCHANGED <<call, clock, header, loop>>

(***************************************************************************)
(* unlock1_inner and unlock2_inner up to the recovery loop.                *)
(***************************************************************************)
ParseLuks1 ==
    /\ pc = "parse1"
    /\ \/ /\ Parse1(container) = "Ok"
          /\ GoTo("slot")
          /\ header' = Header1(container.body)
       \/ /\ Parse1(container) # "Ok"
          /\ Refuse(Parse1(container))
          /\ UNCHANGED header
       \/ /\ Refuse("Io")
          /\ UNCHANGED header
    /\ TakesTime
    /\ UNCHANGED <<call, spent, loop>>

ParseLuks2 ==
    /\ pc = "parse2"
    /\ \/ /\ Parse2(container) = "Ok"
          /\ GoTo("slot")
          /\ header' = Header2(container.body)
       \/ /\ Parse2(container) # "Ok"
          /\ Refuse(Parse2(container))
          /\ UNCHANGED header
       \/ /\ Refuse("Io")
          /\ UNCHANGED header
    /\ TakesTime
    /\ UNCHANGED <<call, spent, loop>>

-----------------------------------------------------------------------------
(***************************************************************************)
(* The loop goes on with the next slot.  Faulty: it stays on the slot, or  *)
(* keeps the key of the slot before.                                       *)
(***************************************************************************)
StuckSlot ==
    /\ GoTo("slot")
    /\ slot_key' = NoSlotKey
    /\ candidate' = NoKey
    /\ dig' = 1
    /\ UNCHANGED <<slot, tried>>

KeepingSlotKey ==
    /\ GoTo("slot")
    /\ slot' = slot + 1
    /\ tried' = tried + 1
    /\ candidate' = NoKey
    /\ dig' = 1
    /\ UNCHANGED slot_key

NextSlot ==
    /\ GoTo("slot")
    /\ slot' = slot + 1
    /\ tried' = tried + 1
    /\ slot_key' = NoSlotKey
    /\ candidate' = NoKey
    /\ dig' = 1

(***************************************************************************)
(* active_keyslots() passes over a slot that is not enabled, uncounted.    *)
(***************************************************************************)
SkipInactive ==
    /\ pc = "slot"
    /\ slot <= Len(header.keyslots)
    /\ ~ Current.active
    /\ slot' = slot + 1
    /\ UNCHANGED <<pc, call, clock, header, tried, dig, slot_key, candidate, result>>

OutOfSlots ==
    /\ pc = "slot"
    /\ slot > Len(header.keyslots)
    /\ Refuse("AuthenticationFailed")
    /\ UNCHANGED <<call, clock, header, loop>>

(***************************************************************************)
(* remaining(tried)? before either of a slot's derivations.                *)
(***************************************************************************)
AtDerivation ==
    \/ pc = "slot" /\ slot <= Len(header.keyslots) /\ Current.active
    \/ pc = "digest" /\ dig <= Len(header.digests) /\ References(Digest, Current)

OutOfTime ==
    /\ AtDerivation
    /\ ~ HasTime
    /\ Refuse("UnlockBudgetExceeded")
    /\ UNCHANGED <<call, clock, header, loop>>

(***************************************************************************)
(* The slot key, or the derivation's refusal, which ends the whole unlock. *)
(***************************************************************************)
DeriveSlotKey ==
    /\ pc = "slot"
    /\ slot <= Len(header.keyslots)
    /\ Current.active
    /\ HasTime
    /\ \E pass \in 0 .. MaxPass :
        LET d == Derive(Current.kdf, Current.key_size, Remaining, pass)
        IN /\ elapsed' = elapsed + d.spent
           /\ spent' = d.spent
           /\ \/ /\ d.err = "Ok"
                 /\ GoTo("material")
                 /\ slot_key' = [secret |-> passphrase, rounds |-> d.rounds]
              \/ /\ d.err # "Ok"
                 /\ Refuse(d.err)
                 /\ UNCHANGED slot_key
    /\ UNCHANGED <<call, header, slot, tried, dig, candidate>>

(***************************************************************************)
(* Reading, decrypting and merging the slot's key material.  An implausible*)
(* stripe count is refused before the buffer is sized or read; material    *)
(* the container does not hold in full leaves the slot; an area mode, key  *)
(* size or AF hash without an implementation ends the unlock.              *)
(***************************************************************************)
RefuseStripes ==
    /\ pc = "material"
    /\ Current.stripes > MAX_STRIPES
    /\ Refuse("ImplausibleStripes")
    /\ UNCHANGED <<call, clock, header, loop>>

LeaveSlot ==
    /\ pc = "material"
    /\ Current.stripes <= MAX_STRIPES
    /\ ~ MaterialComplete(container, Current)
    /\ NextSlot
    /\ TakesTime
    /\ UNCHANGED <<call, spent, header>>

RecoverCandidate ==
    /\ pc = "material"
    /\ Current.stripes <= MAX_STRIPES
    /\ MaterialComplete(container, Current)
    /\ \/ /\ MaterialSupported(Current)
          /\ GoTo("digest")
          /\ candidate' = Merged(Current, slot_key.secret, slot_key.rounds)
       \/ /\ ~ MaterialSupported(Current)
          /\ Refuse("Unsupported")
          /\ UNCHANGED candidate
    /\ TakesTime
    /\ UNCHANGED <<call, spent, header, slot, tried, dig, slot_key>>

-----------------------------------------------------------------------------
(***************************************************************************)
(* The digests.  One that does not reference the slot, or is not pbkdf2,   *)
(* is passed over; a match is the answer; when all are done the next slot  *)
(* is tried.  In LUKS1 the one digest references every slot.               *)
(***************************************************************************)
SkipDigest ==
    /\ pc = "digest"
    /\ dig <= Len(header.digests)
    /\ ~ References(Digest, Current)
    /\ dig' = dig + 1
    /\ UNCHANGED <<pc, call, clock, header, slot, tried, slot_key, candidate, result>>

OutOfDigests ==
    /\ pc = "digest"
    /\ dig > Len(header.digests)
    /\ NextSlot
    /\ UNCHANGED <<call, clock, header>>

VerifyDigest ==
    /\ pc = "digest"
    /\ dig <= Len(header.digests)
    /\ References(Digest, Current)
    /\ HasTime
    /\ \E pass \in 0 .. MaxPass :
        LET d == derive_key_within(Digest.hash, Digest.iterations, Digest.len,
                                   Remaining, pass)
            matches == DigestMatches(Digest, candidate, d.rounds)
        IN /\ elapsed' = elapsed + d.spent
           /\ spent' = d.spent
           /\ \/ d.err # "Ok" /\ Refuse(d.err) /\ UNCHANGED dig
              \/ d.err = "Ok" /\ matches /\ GoTo("finish") /\ UNCHANGED dig
              \/ d.err = "Ok" /\ ~ matches /\ GoTo("digest") /\ dig' = dig + 1
    /\ UNCHANGED <<call, header, slot, tried, slot_key, candidate>>

(***************************************************************************)
(* A failing seek or read of the key material, or of the container's size. *)
(***************************************************************************)
IoError ==
    /\ \/ pc = "material" /\ Current.stripes <= MAX_STRIPES
       \/ pc = "finish"
    /\ Refuse("Io")
    /\ TakesTime
    /\ UNCHANGED <<call, spent, header, loop>>

(***************************************************************************)
(* seek(End) for the total size, and the DecryptedPayload is returned.     *)
(***************************************************************************)
Finish ==
    /\ pc = "finish"
    /\ pc' = "done"
    /\ result' = [err |-> "Ok", key |-> candidate, slots_tried |-> 0]
    /\ TakesTime
    /\ UNCHANGED <<call, spent, header, loop>>

Next ==
    \/ Detect \/ ParseLuks1 \/ ParseLuks2
    \/ SkipInactive \/ OutOfSlots \/ OutOfTime
    \/ DeriveSlotKey \/ RefuseStripes \/ LeaveSlot \/ RecoverCandidate
    \/ SkipDigest \/ OutOfDigests \/ VerifyDigest
    \/ IoError \/ Finish

(***************************************************************************)
(* The call runs on its caller's thread and every step of it is one the    *)
(* thread takes in finite time: it never waits for anyone.                 *)
(***************************************************************************)
Spec == Init /\ [][Next]_vars /\ WF_vars(Next)

-----------------------------------------------------------------------------
Errors == {"Pending", "Ok", "Io", "Abort", "NotLuks", "UnsupportedVersion",
           "MalformedHeader", "NoActiveKeyslot", "Unsupported",
           "KeyLengthExceeded", "DerivationMemoryExceeded",
           "DerivationBudgetExceeded", "UnlockBudgetExceeded",
           "ImplausibleStripes", "AuthenticationFailed"}

Labels == {"detect", "parse1", "parse2", "slot", "material", "digest",
           "finish", "done"}

(***************************************************************************)
(* Type invariant.  Beyond the types: the cursors stay within one of the   *)
(* header's lists, no slot starts with a key left from another, the key    *)
(* material is reached only with a slot key of this slot, the digests only *)
(* with its candidate, and the call has an answer exactly when it returned.*)
(***************************************************************************)
TypeOK ==
    /\ pc \in Labels
    /\ container \in Containers
    /\ passphrase \in Passphrases
    /\ total \in Nat
    /\ elapsed \in Nat
    /\ spent \in Nat
    /\ header \in Header
    /\ slot \in 1 .. Len(header.keyslots) + 1
    /\ tried \in Nat /\ tried < slot
    /\ dig \in 1 .. Len(header.digests) + 1
    /\ slot_key \in [secret : Passphrases \cup {NoKey}, rounds : Nat]
    /\ candidate \in MasterKeys \cup {Junk, NoKey}
    /\ result \in [err : Errors, key : MasterKeys \cup {Junk, NoKey}, slots_tried : Nat]
    /\ pc \in {"detect", "parse1", "parse2"} => header = NoHeader
    /\ pc \in {"detect", "parse1", "parse2", "slot"} => slot_key = NoSlotKey
    /\ pc \in {"material", "digest", "finish"} =>
          slot <= Len(header.keyslots) /\ slot_key.secret = passphrase
    /\ pc \in {"digest", "finish"} => candidate # NoKey
    /\ pc = "finish" => dig <= Len(header.digests)
    /\ pc # "done" => result = Pending
    /\ pc = "done" => result.err # "Pending"

(***************************************************************************)
(* The bound an unlock really keeps (UnlockDeadline, volume.rs:234-271):   *)
(* whatever the number of slots and digests and whatever they cost, the    *)
(* total is overrun by at most one calibration unit and one access, and    *)
(* one derivation exceeds its own ceiling by at most one calibration unit. *)
(***************************************************************************)
OverrunBounded ==
    /\ elapsed <= total + MaxPass + MaxIo
    /\ spent <= DERIVATION_BUDGET + MaxPass

(***************************************************************************)
(* Issue #10: once the total is used up no further derivation starts,      *)
(* neither a slot's first nor its second: where one is due the call is     *)
(* refused, and every other step takes the time of one access at most.     *)
(***************************************************************************)
NoWorkAfterDeadline ==
    [][elapsed >= total =>
          /\ AtDerivation => result'.err = "UnlockBudgetExceeded"
          /\ spent' = spent
          /\ elapsed' <= elapsed + MaxIo]_vars

(***************************************************************************)
(* A ceiling on length, memory or stripes is enforced before anything is   *)
(* allocated, measured or read (crypto.rs:102-107, :229-240, af.rs:116):   *)
(* the refusal costs no time.                                              *)
(***************************************************************************)
CeilingRefusalIsFree ==
    [][result'.err \in {"KeyLengthExceeded", "DerivationMemoryExceeded",
                        "ImplausibleStripes"} => elapsed' = elapsed]_vars

(***************************************************************************)
(* The key of an opened volume is that of an active slot, by a digest that *)
(* lists the slot (volume.rs:314, :395).  A digest that has bytes was      *)
(* taken of that very key; and if the slot has stripes too, the key was    *)
(* sealed in it under the caller's passphrase.  Without stripes the key is *)
(* zeros whatever the passphrase (af.rs:51-65), and nothing else.          *)
(***************************************************************************)
Genuine(k) ==
    \E i \in 1 .. Len(header.keyslots), e \in 1 .. Len(header.digests) :
        LET s == header.keyslots[i]
            d == header.digests[e]
        IN /\ s.active /\ d.kind = "pbkdf2" /\ s.id \in d.keyslots
           /\ d.len > 0 => d.of = k
           /\ IF s.stripes = 0 THEN k = ZeroKey
              ELSE d.len > 0 => s.pass = passphrase /\ s.mk = k

OpenedKeyIsGenuine == result.err = "Ok" => Genuine(result.key)

(***************************************************************************)
(* The loops over slots and digests end, however many of each the header   *)
(* has and whichever way a turn goes (volume.rs:282-318, :336-401): every  *)
(* step takes the call to a later phase, or in the loop, whose header no   *)
(* longer changes, to a later slot, or on within the slot, or to a later   *)
(* digest of it.  The cursors end with the header's lists (TypeOK), so     *)
(* there is no endless sequence of steps.                                  *)
(***************************************************************************)
Phase == [detect |-> 4, parse1 |-> 3, parse2 |-> 3, slot |-> 2, material |-> 2,
          digest |-> 2, finish |-> 1, done |-> 0]

Turn == [slot |-> 2, material |-> 1, digest |-> 0]

Advances ==
    \/ Phase[pc'] < Phase[pc]
    \/ /\ Phase[pc] = 2 /\ Phase[pc'] = 2
       /\ UNCHANGED header
       /\ \/ slot' > slot
          \/ slot' = slot /\ Turn[pc'] < Turn[pc]
          \/ slot' = slot /\ pc' = pc /\ dig' > dig

UnlockAdvances == [][Advances]_vars

(***************************************************************************)
(* Every call returns: the loops over slots and digests end.               *)
(***************************************************************************)
Returns == <>(pc = "done")
=============================================================================
