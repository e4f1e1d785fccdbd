---------------------------- MODULE Luks1Header ----------------------------
(***************************************************************************)
(* The LUKS1 header as bytes: the readers of core/src/bytes.rs and         *)
(* Luks1Header::parse (core/src/header.rs).                                *)
(*                                                                         *)
(* A buffer is a sequence of bytes, offset o of the code is data[o + 1].   *)
(* An integer is kept as its big-endian digits, base 256.                  *)
(***************************************************************************)
EXTENDS Integers, Sequences

LUKS_MAGIC     == <<76, 85, 75, 83, 186, 190>>
LUKS1_PHDR_LEN == 592
LUKS_NUM_KEYS  == 8
KEYSLOT_LEN    == 48
KEY_ENABLED    == <<0, 172, 113, 243>>

-----------------------------------------------------------------------------
(***************************************************************************)
(* bytes_n, and be_u16, be_u32, be_u64 for 2, 4 and 8 bytes: all zero as   *)
(* soon as one byte is missing.                                            *)
(***************************************************************************)
bytes_n(data, off, n) ==
    IF off + n <= Len(data) THEN SubSeq(data, off + 1, off + n)
    ELSE [k \in 1 .. n |-> 0]

be_u16(data, off) == bytes_n(data, off, 2)
be_u32(data, off) == bytes_n(data, off, 4)

(***************************************************************************)
(* String::from_utf8_lossy of a byte that stands alone.                    *)
(***************************************************************************)
REPLACEMENT == 65533

Lossy(s) == [k \in 1 .. Len(s) |-> IF s[k] < 128 THEN s[k] ELSE REPLACEMENT]

(***************************************************************************)
(* cstr: up to the first NUL, or the whole field.  Faulty: only trailing   *)
(* NULs are dropped.                                                       *)
(***************************************************************************)
Field(data, off, len) ==
    IF off + len <= Len(data) THEN SubSeq(data, off + 1, off + len) ELSE <<>>

TrimmedCstr(data, off, len) ==
    LET field == Field(data, off, len)
    IN Lossy(SubSeq(field, 1, CHOOSE k \in 0 .. Len(field) :
                /\ k > 0 => field[k] # 0
                /\ \A m \in k + 1 .. Len(field) : field[m] = 0))

cstr(data, off, len) ==
    LET field == Field(data, off, len)
    IN Lossy(SubSeq(field, 1, CHOOSE k \in 0 .. Len(field) :
                /\ k < Len(field) => field[k + 1] = 0
                /\ \A m \in 1 .. k : field[m] # 0))

-----------------------------------------------------------------------------
(***************************************************************************)
(* Keyslot i of 0 .. 7.  Faulty: the records are taken for 44 bytes, their *)
(* length without the stripe count.                                        *)
(***************************************************************************)
KeyslotAt(data, base) ==
    [active |-> be_u32(data, base), iterations |-> be_u32(data, base + 4),
     salt |-> bytes_n(data, base + 8, 32),
     key_material_offset |-> be_u32(data, base + 40),
     stripes |-> be_u32(data, base + 44)]

ShortRecord(data, i) == KeyslotAt(data, 208 + i * 44)

keyslot(data, i) == KeyslotAt(data, 208 + i * KEYSLOT_LEN)

is_active(slot) == slot.active = KEY_ENABLED

Refused(err) == [err |-> err]

(***************************************************************************)
(* Luks1Header::parse.  The magic comes first, then the length, then the   *)
(* version.  Faulty: no look at the length.                                *)
(***************************************************************************)
Fields1(data) ==
    [err |-> "Ok",
     cipher_name |-> cstr(data, 8, 32), cipher_mode |-> cstr(data, 40, 32),
     hash_spec |-> cstr(data, 72, 32),
     payload_offset |-> be_u32(data, 104), key_bytes |-> be_u32(data, 108),
     mk_digest |-> bytes_n(data, 112, 20),
     mk_digest_salt |-> bytes_n(data, 132, 32),
     mk_digest_iter |-> be_u32(data, 164), uuid |-> cstr(data, 168, 40),
     keyslots |-> [k \in 1 .. LUKS_NUM_KEYS |-> keyslot(data, k - 1)]]

AnyLength(data) ==
    IF bytes_n(data, 0, 6) # LUKS_MAGIC THEN Refused("NotLuks")
    ELSE IF be_u16(data, 6) # <<0, 1>> THEN Refused("UnsupportedVersion")
    ELSE Fields1(data)

parse1(data) ==
    IF bytes_n(data, 0, 6) # LUKS_MAGIC THEN Refused("NotLuks")
    ELSE IF Len(data) < LUKS1_PHDR_LEN THEN Refused("MalformedHeader")
    ELSE IF be_u16(data, 6) # <<0, 1>> THEN Refused("UnsupportedVersion")
    ELSE Fields1(data)

active_keyslots(h) == {k \in 1 .. LUKS_NUM_KEYS : is_active(h.keyslots[k])}
=============================================================================
