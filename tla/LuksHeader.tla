----------------------------- MODULE LuksHeader -----------------------------
(***************************************************************************)
(* A LUKS container as it lies on disk, and what the parsers of            *)
(* core/src/header.rs and core/src/header2.rs make of it.                  *)
(*                                                                         *)
(* A container carries, besides the fields the code reads, what the bytes  *)
(* it never interprets stand for: which passphrase sealed a keyslot        *)
(* (pass), which master key is in it (mk), and of which master key a       *)
(* digest was taken (of).  Salts, UUIDs and labels are left out.           *)
(*                                                                         *)
(* Both parsers yield one shape, Header, on which one model of the two     *)
(* recovery loops runs.                                                    *)
(***************************************************************************)
EXTENDS Kdf, Sequences

CONSTANTS
    Passphrases,   \* the secrets a keyslot may be sealed with
    MasterKeys,    \* the master keys a keyslot may hold
    ZeroKey,       \* the one of zero bytes only
    Junk,          \* what decrypting with a wrong key yields
    NoKey,         \* no key yet
    MAX_STRIPES,   \* ceiling on the anti-forensic stripe count
    MAX_ALLOC      \* largest buffer the host's allocator can provide

ASSUME HeaderAssumption ==
    /\ MAX_STRIPES \in Nat
    /\ MAX_ALLOC \in Nat
    /\ ZeroKey \in MasterKeys
    /\ Junk \notin MasterKeys
    /\ NoKey \notin MasterKeys
    /\ NoKey # Junk

LUKS1_PHDR_LEN    == 592
LUKS2_BIN_HDR_LEN == 4096
MK_DIGEST_LEN     == 20
SECTOR            == 512

-----------------------------------------------------------------------------
(***************************************************************************)
(* The on-disk fields of a LUKS1 header.  active is the u32 marker: the    *)
(* enabled one, the disabled one, or neither.                              *)
(***************************************************************************)
Keyslot == [active : {"ENABLED", "DISABLED", "UNKNOWN"}, iterations : Nat,
            key_material_offset : Nat, stripes : Nat,
            pass : Passphrases, mk : MasterKeys]

Luks1Body == [cipher_name : Names, cipher_mode : Names, hash_spec : Names,
              key_bytes : Nat, mk_digest_iter : Nat, mk : MasterKeys,
              keyslots : Seq(Keyslot)]

(***************************************************************************)
(* The JSON objects of a LUKS2 header that parse_keyslot, parse_segment    *)
(* and parse_digest keep.  encryption is <<name, mode>>, the pair          *)
(* split_encryption makes of the string; a digest's len is that of the     *)
(* bytes b64 decodes, 0 when the text does not decode.                     *)
(***************************************************************************)
Luks2Keyslot == [id : Nat, kdf : KdfParams, key_size : Nat, af_stripes : Nat,
                 af_hash : Names, area_offset : Nat,
                 area_encryption : Names \X Names,
                 pass : Passphrases, mk : MasterKeys]

Luks2Segment == [encryption : Names \X Names]

Luks2Digest == [kind : Names, hash : Names, iterations : Nat, len : Nat,
                of : MasterKeys, keyslots : SUBSET Nat]

Luks2Body == [json_len : Nat, json_valid : BOOLEAN,
              keyslots : Seq(Luks2Keyslot), segments : Seq(Luks2Segment),
              digests : Seq(Luks2Digest)]

(***************************************************************************)
(* A container: the magic and the version the first eight bytes spell, its *)
(* length, and the big-endian u64 at offset 8, which is the header size of *)
(* LUKS2 and the first letters of the cipher's name in LUKS1.              *)
(***************************************************************************)
IsContainer(c) ==
    /\ c.magic \in BOOLEAN
    /\ c.version \in Nat
    /\ c.len \in Nat
    /\ c.hdr_size \in Nat
    /\ c.version = 1 => c.body \in Luks1Body
    /\ c.version = 2 => c.body \in Luks2Body

-----------------------------------------------------------------------------
(***************************************************************************)
(* What a recovery loop reads of a header.                                 *)
(***************************************************************************)
Slot == [id : Nat, active : BOOLEAN, kdf : KdfParams, key_size : Nat,
         stripes : Nat, af_hash : Names, offset : Nat,
         cipher : Names, mode : Names,
         pass : Passphrases, mk : MasterKeys]

Header == [keyslots : Seq(Slot), digests : Seq(Luks2Digest),
           segment : Names \X Names]

(***************************************************************************)
(* Luks1Header.  Every slot shares the header's cipher, hash and key size, *)
(* and one digest of MK_DIGEST_LEN bytes verifies them all.                *)
(***************************************************************************)
Slot1(b, i) ==
    LET k == b.keyslots[i]
    IN [id |-> i, active |-> k.active = "ENABLED",
        kdf |-> Pbkdf2(b.hash_spec, k.iterations),
        key_size |-> b.key_bytes, stripes |-> k.stripes,
        af_hash |-> b.hash_spec, offset |-> k.key_material_offset * SECTOR,
        cipher |-> b.cipher_name, mode |-> b.cipher_mode,
        pass |-> k.pass, mk |-> k.mk]

Header1(b) ==
    [keyslots |-> [i \in 1 .. Len(b.keyslots) |-> Slot1(b, i)],
     digests  |-> << [kind |-> "pbkdf2", hash |-> b.hash_spec,
                      iterations |-> b.mk_digest_iter, len |-> MK_DIGEST_LEN,
                      of |-> b.mk, keyslots |-> 1 .. Len(b.keyslots)] >>,
     segment  |-> <<b.cipher_name, b.cipher_mode>>]

(***************************************************************************)
(* Luks2Header.  Every parsed slot counts as active; the data segment is   *)
(* the first whose encryption is not empty.                                *)
(***************************************************************************)
Slot2(b, i) ==
    LET k == b.keyslots[i]
    IN [id |-> k.id, active |-> TRUE, kdf |-> k.kdf, key_size |-> k.key_size,
        stripes |-> k.af_stripes, af_hash |-> k.af_hash,
        offset |-> k.area_offset, cipher |-> k.area_encryption[1],
        mode |-> k.area_encryption[2], pass |-> k.pass, mk |-> k.mk]

CryptSegments(b) ==
    {i \in 1 .. Len(b.segments) : b.segments[i].encryption # <<"", "">>}

crypt_segment(b) ==
    b.segments[CHOOSE i \in CryptSegments(b) :
                   \A j \in CryptSegments(b) : i <= j]

Header2(b) ==
    [keyslots |-> [i \in 1 .. Len(b.keyslots) |-> Slot2(b, i)],
     digests  |-> b.digests,
     segment  |-> crypt_segment(b).encryption]

-----------------------------------------------------------------------------
(***************************************************************************)
(* unlock1_inner up to its loop: the whole binary header must be there,    *)
(* then the magic, the version, and one enabled slot.                      *)
(***************************************************************************)
Parse1(c) ==
    IF c.len < LUKS1_PHDR_LEN THEN "Io"
    ELSE IF ~ c.magic THEN "NotLuks"
    ELSE IF c.version # 1 THEN "UnsupportedVersion"
    ELSE IF \A i \in 1 .. Len(c.body.keyslots) :
                c.body.keyslots[i].active # "ENABLED"
         THEN "NoActiveKeyslot"
    ELSE "Ok"

(***************************************************************************)
(* Does the JSON text survive: it must end within the declared header size *)
(* and within the container, past whose end read_available leaves zeros.   *)
(***************************************************************************)
JsonComplete(c) ==
    /\ c.body.json_valid
    /\ c.body.json_len > 0
    /\ LUKS2_BIN_HDR_LEN + c.body.json_len <= Lesser(c.hdr_size, c.len)

(***************************************************************************)
(* unlock2_inner up to its loop.  The buffer of the declared header size   *)
(* is allocated before the magic or the version is looked at; a size the   *)
(* allocator cannot provide ends the process ("Abort").                    *)
(***************************************************************************)
Parse2(c) ==
    IF c.len < LUKS2_BIN_HDR_LEN THEN "Io"
    ELSE IF c.hdr_size > MAX_ALLOC THEN "Abort"
    ELSE IF ~ c.magic THEN "NotLuks"
    ELSE IF c.version # 2 THEN "UnsupportedVersion"
    ELSE IF ~ JsonComplete(c) THEN "MalformedHeader"
    ELSE IF CryptSegments(c.body) = {} \/ c.body.keyslots = <<>>
         THEN "NoActiveKeyslot"
    ELSE "Ok"

-----------------------------------------------------------------------------
(***************************************************************************)
(* af::material_len, rounded up to sectors, and whether read_available     *)
(* gets all of a slot's key material.  Material of no bytes is complete    *)
(* wherever it is said to lie, past the container's end too.               *)
(***************************************************************************)
material_len(s) ==
    (((s.key_size * s.stripes) + SECTOR - 1) \div SECTOR) * SECTOR

MaterialComplete(c, s) ==
    material_len(s) = 0 \/ s.offset + material_len(s) <= c.len

(***************************************************************************)
(* xts_decrypt_area accepts one mode and two key sizes.  It always uses    *)
(* AES: the cipher's name is not among its parameters.                     *)
(***************************************************************************)
XtsAccepts(mode, key_len) == mode = "xts-plain64" /\ key_len \in {32, 64}

(***************************************************************************)
(* Neither xts_decrypt_area nor af::merge refuses the slot's material.     *)
(***************************************************************************)
MaterialSupported(s) == XtsAccepts(s.mode, s.key_size) /\ s.af_hash \in Hashes

(***************************************************************************)
(* What xts_decrypt_area and af::merge make of the material of slot s with *)
(* a key derived from secret in so many rounds: the sealed master key when *)
(* it is the key and the cipher the slot was sealed with, and anything     *)
(* else otherwise.  Without stripes nothing is merged into the zeros       *)
(* af_merge begins with, and the secret has no part in the result.         *)
(***************************************************************************)
Merged(s, secret, rounds) ==
    IF s.stripes = 0 THEN ZeroKey
    ELSE IF secret = s.pass /\ rounds = HeaderRounds(s.kdf) /\ s.cipher = "aes"
    THEN s.mk
    ELSE Junk

(***************************************************************************)
(* Does digest d verify slot s, and does the d.len bytes derived from a    *)
(* candidate equal the stored ones?  Two empty strings always are.         *)
(* Faulty: any digest verifies any slot.                                   *)
(***************************************************************************)
ReferencesAny(d, s) == d.kind = "pbkdf2"

References(d, s) == d.kind = "pbkdf2" /\ s.id \in d.keyslots

DigestMatches(d, candidate, rounds) ==
    d.len = 0 \/ (candidate = d.of /\ rounds = Rounds(d.iterations))
=============================================================================
