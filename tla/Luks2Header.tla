---------------------------- MODULE Luks2Header ----------------------------
(***************************************************************************)
(* The LUKS2 header as JSON: Luks2Header::parse (core/src/header2.rs).     *)
(*                                                                         *)
(* A JSON value is absent, a text, a number, an array or something else.   *)
(* n is the u64 a text or number spells, NaN when it spells none; b is how *)
(* many bytes a text decodes to, NaN when it is not base64.  The members   *)
(* of the nested objects af, area and kdf are fields of the keyslot: the   *)
(* parser cannot tell a missing object from one without its fields.  Of a  *)
(* byte string only its length is kept.                                    *)
(***************************************************************************)
EXTENDS Integers, Sequences, SequencesExt

CONSTANTS
    U32,      \* 2^32: what `as u32` reduces by
    IdOrder   \* the ids of JSON objects in the order of their strings

(***************************************************************************)
(* A JSON object has an id once.                                           *)
(***************************************************************************)
ASSUME Luks2Assumption ==
    /\ U32 \in Nat \ {0}
    /\ IdOrder \in Seq(STRING)
    /\ \A m, n \in 1 .. Len(IdOrder) : IdOrder[m] = IdOrder[n] => m = n

NaN    == -1
Absent == [is |-> "absent"]

LUKS2_BIN_HDR_LEN == 4096

-----------------------------------------------------------------------------
(***************************************************************************)
(* Value::get and its conversions.                                         *)
(***************************************************************************)
Present(v) == v.is # "absent"
IsText(v)  == v.is = "text"

as_u64(v) == IF v.is \in {"text", "number"} /\ v.n # NaN THEN v.n ELSE 0

as_u32(v) == as_u64(v) % U32

b64(v) == IF IsText(v) /\ v.b # NaN THEN v.b ELSE 0

as_str(v, default) == IF IsText(v) THEN v.s ELSE default

-----------------------------------------------------------------------------
(***************************************************************************)
(* The three object parsers.  An Option is a sequence of at most one.      *)
(***************************************************************************)
Kdf(v) ==
    CASE ~ IsText(v.type) -> <<>>
      [] IsText(v.type) /\ v.type.s = "pbkdf2" ->
           IF Present(v.iterations) /\ Present(v.salt)
           THEN << [type |-> "pbkdf2", hash |-> as_str(v.kdf_hash, "sha256"),
                    iterations |-> as_u32(v.iterations), salt |-> b64(v.salt)] >>
           ELSE <<>>
      [] IsText(v.type) /\ v.type.s \in {"argon2i", "argon2id"} ->
           IF \A f \in {"time", "memory", "cpus", "salt"} : Present(v[f])
           THEN << [type |-> v.type.s, time |-> as_u32(v.time),
                    memory |-> as_u32(v.memory), cpus |-> as_u32(v.cpus),
                    salt |-> b64(v.salt)] >>
           ELSE <<>>
      [] OTHER -> <<>>

parse_keyslot(id, v) ==
    IF /\ Kdf(v) # <<>>
       /\ \A f \in {"key_size", "stripes", "offset", "size"} : Present(v[f])
       /\ IsText(v.encryption)
    THEN << [id |-> id, key_size |-> as_u64(v.key_size),
             af_stripes |-> as_u32(v.stripes), af_hash |-> as_str(v.af_hash, "sha256"),
             area_offset |-> as_u64(v.offset), area_size |-> as_u64(v.size),
             area_encryption |-> v.encryption.s, kdf |-> Kdf(v)[1]] >>
    ELSE <<>>

parse_segment(id, v) ==
    IF Present(v.offset) /\ IsText(v.encryption) /\ Present(v.sector_size)
    THEN << [id |-> id, offset |-> as_u64(v.offset), encryption |-> v.encryption.s,
             sector_size |-> as_u64(v.sector_size), iv_tweak |-> as_u64(v.iv_tweak)] >>
    ELSE <<>>

Texts(items) ==
    FlattenSeq([n \in 1 .. Len(items) |-> IF IsText(items[n]) THEN << items[n].s >> ELSE <<>>])

parse_digest(v) ==
    IF IsText(v.type) /\ Present(v.salt) /\ Present(v.digest)
    THEN << [kind |-> v.type.s, hash |-> as_str(v.hash, "sha256"),
             iterations |-> as_u32(v.iterations), salt |-> b64(v.salt),
             digest |-> b64(v.digest),
             keyslots |-> IF v.keyslots.is = "array" THEN Texts(v.keyslots.items)
                          ELSE <<>>] >>
    ELSE <<>>

(***************************************************************************)
(* The objects of a map in the order of their ids (serde_json keeps them   *)
(* sorted), the ones that do not parse left out.  A map that is missing or *)
(* no object is empty.  Faulty: one that does not parse spoils them all;   *)
(* the last encrypted segment is taken.                                    *)
(***************************************************************************)
Holds(map, n) == IdOrder[n] \in DOMAIN map

AllOrNothing(map) ==
    LET Slot(n) == parse_keyslot(IdOrder[n], map[IdOrder[n]])
        ids     == {n \in 1 .. Len(IdOrder) : Holds(map, n)}
    IN IF \E n \in ids : Slot(n) = <<>> THEN <<>>
       ELSE FlattenSeq([n \in 1 .. Len(IdOrder) |-> IF n \in ids THEN Slot(n) ELSE <<>>])

keyslots(map) ==
    FlattenSeq([n \in 1 .. Len(IdOrder) |->
        IF Holds(map, n) THEN parse_keyslot(IdOrder[n], map[IdOrder[n]]) ELSE <<>>])

segments(map) ==
    FlattenSeq([n \in 1 .. Len(IdOrder) |->
        IF Holds(map, n) THEN parse_segment(IdOrder[n], map[IdOrder[n]]) ELSE <<>>])

digests(map) ==
    FlattenSeq([n \in 1 .. Len(IdOrder) |->
        IF Holds(map, n) THEN parse_digest(map[IdOrder[n]]) ELSE <<>>])

Encrypted(h) == {k \in 1 .. Len(h.segments) : h.segments[k].encryption # ""}

LastEncrypted(h) == IF Encrypted(h) = {} THEN <<>> ELSE << h.segments[Max(Encrypted(h))] >>

crypt_segment(h) == IF Encrypted(h) = {} THEN <<>> ELSE << h.segments[Min(Encrypted(h))] >>

(***************************************************************************)
(* Luks2Header::parse of a buffer of d.len bytes.  Integers past its end   *)
(* read as zero; the text must end within the declared header size and the *)
(* buffer.                                                                 *)
(***************************************************************************)
JsonArea(d) ==
    LET hdr_size == IF d.len >= 16 THEN d.hdr_size ELSE 0
    IN IF hdr_size <= d.len THEN hdr_size ELSE d.len

parse2(d) ==
    IF d.len < 6 \/ ~ d.magic THEN [err |-> "NotLuks"]
    ELSE IF d.len < 8 \/ d.version # 2 THEN [err |-> "UnsupportedVersion"]
    ELSE IF \/ JsonArea(d) < LUKS2_BIN_HDR_LEN + d.json_len
            \/ ~ d.json_valid \/ d.json_len = 0 THEN [err |-> "MalformedHeader"]
    ELSE [err |-> "Ok", keyslots |-> keyslots(d.root.keyslots),
          segments |-> segments(d.root.segments),
          digests |-> digests(d.root.digests)]
=============================================================================
