------------------------------- MODULE Audit -------------------------------
(***************************************************************************)
(* The header audit (forensic/src/lib.rs): what audit1 says of a parsed    *)
(* LUKS1 header.  A finding is its kind and its evidence; severity and     *)
(* category follow from the kind, and so does the code, which is the       *)
(* kind's name.  The wording of notes is left out.                         *)
(***************************************************************************)
EXTENDS Luks1Header, FiniteSets, SequencesExt

SHA1 == <<115, 104, 97, 49>>
CBC  == <<99, 98, 99>>
ECB  == <<101, 99, 98>>

LOW_ITERATIONS == 1000

severity(kind) ==
    CASE kind \in {"WeakCipherMode", "WeakKdfHash"} -> "Low"
      [] kind = "LowKdfIterations"                  -> "Medium"
      [] kind = "KeyslotInventory"                  -> "Info"

category(kind) == IF kind = "KeyslotInventory" THEN "Provenance" ELSE "Integrity"

(***************************************************************************)
(* Anomaly::new and its Observation.                                       *)
(***************************************************************************)
Anomaly(kind, evidence) ==
    [kind |-> kind, severity |-> severity(kind), category |-> category(kind),
     evidence |-> evidence]

(***************************************************************************)
(* A big-endian u32 below a thousand.                                      *)
(***************************************************************************)
BelowThousand(digits) ==
    digits[1] = 0 /\ digits[2] = 0 /\ digits[3] * 256 + digits[4] < LOW_ITERATIONS

(***************************************************************************)
(* A keyslot's turn in the loop of audit1.  The index counts all slots of  *)
(* the header.  Faulty: it counts the active ones.                         *)
(***************************************************************************)
CountedAmongActive(h, k) ==
    Cardinality({m \in active_keyslots(h) : m < k})

SlotIndex(h, k) == k - 1

LowIterations(h, k) ==
    IF is_active(h.keyslots[k]) /\ BelowThousand(h.keyslots[k].iterations)
    THEN << Anomaly("LowKdfIterations", <<SlotIndex(h, k), h.keyslots[k].iterations>>) >>
    ELSE <<>>

WeakCipherMode(h) ==
    IF IsPrefix(CBC, h.cipher_mode) \/ IsPrefix(ECB, h.cipher_mode)
    THEN << Anomaly("WeakCipherMode", <<h.cipher_mode>>) >> ELSE <<>>

WeakKdfHash(h) ==
    IF h.hash_spec = SHA1 THEN << Anomaly("WeakKdfHash", <<h.hash_spec>>) >> ELSE <<>>

audit1(h) ==
    WeakCipherMode(h) \o WeakKdfHash(h)
    \o LowIterations(h, 1) \o LowIterations(h, 2) \o LowIterations(h, 3) \o LowIterations(h, 4)
    \o LowIterations(h, 5) \o LowIterations(h, 6) \o LowIterations(h, 7) \o LowIterations(h, 8)
    \o << Anomaly("KeyslotInventory", <<Cardinality(active_keyslots(h))>>) >>
=============================================================================
