---------------------------- MODULE UnlockClaims ----------------------------
(***************************************************************************)
(* What the repository's documents and comments say of an unlock and the   *)
(* code does not keep.  Each is refuted by a run of its own.               *)
(***************************************************************************)
EXTENDS Unlock, UnlockMeaning

(***************************************************************************)
(* core/src/volume.rs:273-274: "try each active keyslot until one yields a *)
(* master key whose digest matches" -- so a slot that would accept is not  *)
(* passed over because an earlier one is unusable.                         *)
(***************************************************************************)
TriesEachSlot ==
    result.err \in Refusals =>
        \A i \in 1 .. Len(header.keyslots) :
            ~ Accepts(container, header, header.keyslots[i], passphrase)

(***************************************************************************)
(* docs/decisions/0006, Decision: "Any other cipher, mode, or hash is      *)
(* recognized and refused [...]; an unsupported combination is never       *)
(* decrypted by construction."                                             *)
(***************************************************************************)
OnlyAesXtsOpened == result.err = "Ok" => header.segment = <<"aes", "xts-plain64">>

(***************************************************************************)
(* docs/RESEARCH.md:92-96, step 4 of unlocking: "verify the recovered      *)
(* master key against the header's master-key digest [...] A mismatch =>   *)
(* wrong passphrase" -- a key that was never in the container fails.       *)
(***************************************************************************)
WrongKeyFailsDigest == result.err = "Ok" => result.key # Junk

(***************************************************************************)
(* docs/RESEARCH.md:78: "The passphrase unlocks *a keyslot*, not the       *)
(* volume directly", and core/src/error.rs:152, of AuthenticationFailed:   *)
(* "no keyslot matched the passphrase" -- where no active slot is sealed   *)
(* under the caller's passphrase, the volume does not open.                *)
(***************************************************************************)
OpensMatchingSlot ==
    result.err = "Ok" =>
        \E i \in 1 .. Len(header.keyslots) :
            header.keyslots[i].active /\ header.keyslots[i].pass = passphrase

(***************************************************************************)
(* SECURITY.md, "Bounded reads": "the LUKS2 hdr_size/JSON area [...] are   *)
(* length-checked before use" -- a header size is refused, not allocated.  *)
(***************************************************************************)
HeaderSizeChecked == result.err # "Abort"
=============================================================================
