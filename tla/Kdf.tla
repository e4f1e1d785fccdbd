-------------------------------- MODULE Kdf --------------------------------
(***************************************************************************)
(* The budgeted key derivations of core/src/crypto.rs.                     *)
(*                                                                         *)
(* A derivation is a function of its parameters, of the time it may take   *)
(* (budget) and of the speed of the machine (pass).  Only three facts of   *)
(* its outcome matter to an unlock: whether it was refused, how long it    *)
(* took, and with how many rounds the key was really derived (a key        *)
(* derived with other rounds than the header names is another key).        *)
(*                                                                         *)
(* Time is a natural number of ticks.  "pass" is the time of one           *)
(* calibration unit: CALIBRATION_ITERS rounds of PBKDF2, or one pass of    *)
(* Argon2.  Both functions are linear in their round count, which is the   *)
(* assumption the code states where it projects (crypto.rs:78, :186).      *)
(***************************************************************************)
EXTENDS Integers

CONSTANTS
    DERIVATION_BUDGET,      \* ceiling of one derivation, in ticks
    CALIBRATION_ITERS,      \* PBKDF2 rounds of the calibration probe
    MAX_KEY_BYTES,          \* ceiling on the derived length
    MAX_ARGON2_MEMORY_KIB,  \* ceiling on the Argon2 memory cost
    Names,                  \* the strings a header may name things with
    MaxPass                 \* longest calibration unit this machine takes

ASSUME KdfAssumption ==
    /\ DERIVATION_BUDGET \in Nat \ {0}
    /\ CALIBRATION_ITERS \in Nat \ {0}
    /\ MAX_KEY_BYTES \in Nat \ {0}
    /\ MAX_ARGON2_MEMORY_KIB \in Nat
    /\ MaxPass \in Nat

ASSUME NamesAssumption == {"", "pbkdf2"} \subseteq Names

(***************************************************************************)
(* The hash specs pbkdf2_into and af::merge dispatch on.                   *)
(***************************************************************************)
Hashes == {"sha1", "sha256", "sha512"}

(***************************************************************************)
(* The parameters of a keyslot's KDF.  cost is PBKDF2's iteration count or *)
(* Argon2's time cost; salted says that the salt and lane count are ones   *)
(* the argon2 crate accepts.                                               *)
(***************************************************************************)
KdfParams == [type : {"pbkdf2", "argon2i", "argon2id"}, hash : Names,
              cost : Nat, memory : Nat, salted : BOOLEAN]

Pbkdf2(hash, iterations) ==
    [type |-> "pbkdf2", hash |-> hash, cost |-> iterations, memory |-> 0,
     salted |-> TRUE]

Lesser(a, b) == IF a <= b THEN a ELSE b

Refused(err, spent) == [err |-> err, spent |-> spent, rounds |-> 0]

Derived(rounds, spent) == [err |-> "Ok", spent |-> spent, rounds |-> rounds]

(***************************************************************************)
(* iterations.max(1): a header's zero is one round.                        *)
(***************************************************************************)
Rounds(iterations) == IF iterations = 0 THEN 1 ELSE iterations

(***************************************************************************)
(* The projection of the probe: measured * iters / CALIBRATION_ITERS.  By  *)
(* linearity it is also the time of the run itself.  The code saturates    *)
(* the product at u64 nanoseconds, above every budget.                     *)
(***************************************************************************)
Projected(iters, pass) == (pass * iters) \div CALIBRATION_ITERS

(***************************************************************************)
(* Faulty variants of derive_key_within: rounds reduced to what fits the   *)
(* budget, the length ceiling checked only after the probe, no projection. *)
(***************************************************************************)
ClampingDerive(hash, iterations, key_len, budget, pass) ==
    LET iters == IF Projected(Rounds(iterations), pass) > budget
                 THEN CALIBRATION_ITERS
                 ELSE Rounds(iterations)
    IN IF key_len > MAX_KEY_BYTES THEN Refused("KeyLengthExceeded", 0)
       ELSE IF hash \notin Hashes THEN Refused("Unsupported", 0)
       ELSE Derived(iters, Projected(iters, pass))

LateCeilingDerive(hash, iterations, key_len, budget, pass) ==
    IF hash \notin Hashes THEN Refused("Unsupported", 0)
    ELSE IF key_len > MAX_KEY_BYTES THEN Refused("KeyLengthExceeded", pass)
    ELSE Derived(Rounds(iterations), Projected(Rounds(iterations), pass))

UnprojectedDerive(hash, iterations, key_len, budget, pass) ==
    IF key_len > MAX_KEY_BYTES THEN Refused("KeyLengthExceeded", 0)
    ELSE IF hash \notin Hashes THEN Refused("Unsupported", 0)
    ELSE Derived(Rounds(iterations), Projected(Rounds(iterations), pass))

(***************************************************************************)
(* PBKDF2.  The length ceiling comes before the probe, which runs at that  *)
(* very length; an unknown hash is refused by the first pbkdf2_into, the   *)
(* probe's or the run's, without work.  Up to CALIBRATION_ITERS rounds are *)
(* neither probed nor projected.                                           *)
(***************************************************************************)
derive_key_within(hash, iterations, key_len, budget, pass) ==
    LET iters  == Rounds(iterations)
        probed == iters > CALIBRATION_ITERS
        run    == Projected(iters, pass)
    IN IF key_len > MAX_KEY_BYTES THEN Refused("KeyLengthExceeded", 0)
       ELSE IF hash \notin Hashes THEN Refused("Unsupported", 0)
       ELSE IF probed /\ run > budget
            THEN Refused("DerivationBudgetExceeded", pass)
       ELSE Derived(iters, run + (IF probed THEN pass ELSE 0))

(***************************************************************************)
(* What the argon2 crate accepts: Params::new wants at least one pass and  *)
(* four bytes of output, hash_password_into a salt long enough.            *)
(***************************************************************************)
Argon2Accepts(kdf, key_len) == kdf.salted /\ kdf.cost >= 1 /\ key_len >= 4

(***************************************************************************)
(* Argon2.  The length and memory ceilings come before the one-pass probe, *)
(* which a time cost of 1 (or the invalid 0) skips.                        *)
(***************************************************************************)
derive_key_argon2_within(kdf, key_len, budget, pass) ==
    LET probed == kdf.cost > 1
        run    == pass * kdf.cost
    IN IF key_len > MAX_KEY_BYTES THEN Refused("KeyLengthExceeded", 0)
       ELSE IF kdf.memory > MAX_ARGON2_MEMORY_KIB
            THEN Refused("DerivationMemoryExceeded", 0)
       ELSE IF ~ Argon2Accepts(kdf, key_len) THEN Refused("Unsupported", 0)
       ELSE IF probed /\ run > budget
            THEN Refused("DerivationBudgetExceeded", pass)
       ELSE Derived(kdf.cost, run + (IF probed THEN pass ELSE 0))

(***************************************************************************)
(* The dispatch of recover_master_key2 on a keyslot's KDF; a LUKS1 slot is *)
(* always PBKDF2.                                                          *)
(***************************************************************************)
Derive(kdf, key_len, budget, pass) ==
    IF kdf.type = "pbkdf2"
    THEN derive_key_within(kdf.hash, kdf.cost, key_len, budget, pass)
    ELSE derive_key_argon2_within(kdf, key_len, budget, pass)

(***************************************************************************)
(* The rounds a key must have been derived with to be the slot's key.      *)
(***************************************************************************)
HeaderRounds(kdf) ==
    IF kdf.type = "pbkdf2" THEN Rounds(kdf.cost) ELSE kdf.cost
=============================================================================
