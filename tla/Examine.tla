------------------------------ MODULE Examine ------------------------------
(***************************************************************************)
(* A header examined without a passphrase: the public parsers              *)
(* Luks1Header::parse and Luks2Header::parse on a buffer of any length,    *)
(* and the audit of what the first made of it.                             *)
(*                                                                         *)
(* An image is what was written to disk and how much of it the examiner    *)
(* has: the fields of a LUKS1 header, or the JSON document of a LUKS2 one. *)
(***************************************************************************)
EXTENDS Luks2Header, Audit

CONSTANT Images

(***************************************************************************)
(* What a LUKS1 header has on disk, each field of its width in bytes.  The *)
(* examiner's buffer may end anywhere in it.  Of a LUKS2 one the length of *)
(* the buffer and the numbers of its binary header are numbers; of what    *)
(* its JSON says only that its ids are in the order of ids and that an     *)
(* array is a sequence.                                                    *)
(***************************************************************************)
Bytes(n) == [1 .. n -> 0 .. 255]

DiskKeyslot == [active : Bytes(4), iterations : Bytes(4), salt : Bytes(32),
                key_material_offset : Bytes(4), stripes : Bytes(4)]

DiskHeader ==
    [magic : Bytes(6), version : Bytes(2), cipher_name : Bytes(32), cipher_mode : Bytes(32),
     hash_spec : Bytes(32), payload_offset : Bytes(4), key_bytes : Bytes(4),
     mk_digest : Bytes(20), mk_digest_salt : Bytes(32), mk_digest_iter : Bytes(4),
     uuid : Bytes(40), keyslots : [1 .. LUKS_NUM_KEYS -> DiskKeyslot]]

Document(root) ==
    /\ \A map \in {root.keyslots, root.segments, root.digests} :
          DOMAIN map \subseteq Range(IdOrder)
    /\ \A id \in DOMAIN root.digests :
          LET v == root.digests[id].keyslots
          IN v.is = "array" => v.items \in Seq(Range(v.items))

ASSUME ImagesAssumption ==
    \A i \in Images :
        \/ i.luks = 1 /\ i.disk \in DiskHeader /\ i.len \in 0 .. LUKS1_PHDR_LEN
        \/ /\ i.luks = 2 /\ i.magic \in BOOLEAN /\ i.json_valid \in BOOLEAN
           /\ i.len \in Nat /\ i.version \in Nat /\ i.hdr_size \in Nat /\ i.json_len \in Nat
           /\ Document(i.root)

VARIABLES
    image,     \* what is examined
    header,    \* what the parser answered
    findings,  \* what the audit said
    stage

vars == <<image, header, findings, stage>>

(***************************************************************************)
(* The LUKS1 format (the table of header.rs:6-14): its fields one after    *)
(* the other, with nothing between them.                                   *)
(***************************************************************************)
SlotBytes(s) == s.active \o s.iterations \o s.salt \o s.key_material_offset \o s.stripes

OnDisk(d) ==
    d.magic \o d.version \o d.cipher_name \o d.cipher_mode \o d.hash_spec
    \o d.payload_offset \o d.key_bytes \o d.mk_digest \o d.mk_digest_salt
    \o d.mk_digest_iter \o d.uuid
    \o SlotBytes(d.keyslots[1]) \o SlotBytes(d.keyslots[2]) \o SlotBytes(d.keyslots[3])
    \o SlotBytes(d.keyslots[4]) \o SlotBytes(d.keyslots[5]) \o SlotBytes(d.keyslots[6])
    \o SlotBytes(d.keyslots[7]) \o SlotBytes(d.keyslots[8])

Buffer == SubSeq(OnDisk(image.disk), 1, image.len)

Init ==
    /\ image \in Images
    /\ header = [err |-> "Pending"]
    /\ findings = <<>>
    /\ stage = "read"

-----------------------------------------------------------------------------
ParseLuks1 ==
    /\ stage = "read"
    /\ image.luks = 1
    /\ header' = parse1(Buffer)
    /\ stage' = "parsed"
    /\ UNCHANGED <<image, findings>>

ParseLuks2 ==
    /\ stage = "read"
    /\ image.luks = 2
    /\ header' = parse2(image)
    /\ stage' = "parsed"
    /\ UNCHANGED <<image, findings>>

Audit1 ==
    /\ stage = "parsed"
    /\ image.luks = 1
    /\ header.err = "Ok"
    /\ findings' = audit1(header)
    /\ stage' = "audited"
    /\ UNCHANGED <<image, header>>

Next == ParseLuks1 \/ ParseLuks2 \/ Audit1

Spec == Init /\ [][Next]_vars

-----------------------------------------------------------------------------
Parsed(luks) == image.luks = luks /\ header.err = "Ok"

(***************************************************************************)
(* A text in a field: what comes before its first NUL, or all of it.       *)
(***************************************************************************)
Spells(text, field) ==
    /\ Len(text) <= Len(field)
    /\ \A k \in 1 .. Len(text) : field[k] # 0 /\ text[k] = Lossy(field)[k]
    /\ Len(text) < Len(field) => field[Len(text) + 1] = 0

(***************************************************************************)
(* A LUKS1 header is parsed as it was written: no field is taken from its  *)
(* neighbour's bytes, no text runs past its first NUL or out of its field, *)
(* and the eight slots are the eight records (header.rs:118-141,           *)
(* bytes.rs:49-53).                                                        *)
(***************************************************************************)
ParsedAsWritten ==
    Parsed(1) =>
        /\ \A f \in {"payload_offset", "key_bytes", "mk_digest", "mk_digest_salt",
                     "mk_digest_iter", "keyslots"} : header[f] = image.disk[f]
        /\ \A f \in {"cipher_name", "cipher_mode", "hash_spec", "uuid"} :
              Spells(header[f], image.disk[f])

(***************************************************************************)
(* A parser refuses for a reason that is true of what it was given, and    *)
(* accepts nothing of which a part it needs is missing (header.rs:101-116, *)
(* header2.rs:135-165): the zeros the readers give past the end of a       *)
(* buffer never become a header.                                           *)
(***************************************************************************)
HasMagic   == image.len >= 6 /\ (IF image.luks = 1 THEN image.disk.magic = LUKS_MAGIC ELSE image.magic)
HasVersion == IF image.luks = 1 THEN image.disk.version = <<0, 1>> ELSE image.version = 2
HasAll     == IF image.luks = 1 THEN image.len >= 592
              ELSE /\ image.json_valid
                   /\ image.json_len > 0
                   /\ image.len >= 4096 + image.json_len
                   /\ image.hdr_size >= 4096 + image.json_len

RefusedForCause ==
    stage # "read" =>
        /\ header.err = "Ok" <=> (HasMagic /\ HasVersion /\ HasAll)
        /\ header.err = "NotLuks" <=> ~ HasMagic
        /\ header.err = "UnsupportedVersion" => ~ HasVersion \/ image.len < 8
        /\ header.err = "MalformedHeader" => ~ HasAll

(***************************************************************************)
(* What the audit says is true of the disk, and it says all of it          *)
(* (forensic/src/lib.rs:166-195).  A keyslot is called by its place on     *)
(* disk, whatever slots before it are not in use; every enabled slot below *)
(* a thousand iterations is named once; the inventory counts the enabled   *)
(* ones and comes last, once.                                              *)
(***************************************************************************)
DiskSlot(n) == image.disk.keyslots[n + 1]

Enabled == {n \in 0 .. 7 : DiskSlot(n).active = KEY_ENABLED}

Iterations(n) ==
    LET d == DiskSlot(n).iterations
    IN IF d[1] > 0 \/ d[2] > 0 THEN 65536 ELSE d[3] * 256 + d[4]

Said(kind) == {k \in 1 .. Len(findings) : findings[k].kind = kind}

AuditIsTrue ==
    stage = "audited" =>
        /\ \A k \in Said("LowKdfIterations") :
              findings[k].evidence[2] = DiskSlot(findings[k].evidence[1]).iterations
        /\ {findings[k].evidence[1] : k \in Said("LowKdfIterations")} =
              {n \in Enabled : Iterations(n) < 1000}
        /\ \A j, k \in Said("LowKdfIterations") :
              j < k => findings[j].evidence[1] < findings[k].evidence[1]
        /\ Said("KeyslotInventory") = {Len(findings)}
        /\ Last(findings).evidence = <<Cardinality(Enabled)>>
        /\ Said("WeakKdfHash") # {} <=> Spells(SHA1, image.disk.hash_spec)
        /\ Said("WeakCipherMode") # {} <=> SubSeq(image.disk.cipher_mode, 1, 3) \in {CBC, ECB}

(***************************************************************************)
(* The objects of a LUKS2 document stand for themselves (header2.rs:167-   *)
(* 190).  A keyslot object that has everything is in the header as it was  *)
(* written, whatever is wrong with the objects beside it; nothing is in    *)
(* the header that is not an object of the document, and its numbers are   *)
(* the document's, cut to their width, or zero where it has none; and the  *)
(* slots are in the order of their ids, which is that of strings.  A       *)
(* digest names the slots its list names as texts.                         *)
(***************************************************************************)
Object(id) == image.root.keyslots[id]

Whole(v) ==
    /\ \A f \in {"key_size", "stripes", "offset", "size"} : Present(v[f])
    /\ IsText(v.encryption) /\ IsText(v.type) /\ Present(v.salt)
    /\ \/ v.type.s = "pbkdf2" /\ Present(v.iterations)
       \/ v.type.s \in {"argon2i", "argon2id"}
          /\ Present(v.time) /\ Present(v.memory) /\ Present(v.cpus)

WholeDigest(v) == IsText(v.type) /\ Present(v.salt) /\ Present(v.digest)

Number(v) == IF v.is \in {"text", "number"} /\ v.n # NaN THEN v.n ELSE 0

SlotAsWritten(s, v) ==
    /\ s.key_size = Number(v.key_size)
    /\ s.af_stripes = Number(v.stripes) % U32
    /\ s.area_offset = Number(v.offset)
    /\ s.area_size = Number(v.size)
    /\ s.area_encryption = v.encryption.s
    /\ s.kdf.type = v.type.s
    /\ IF s.kdf.type = "pbkdf2" THEN s.kdf.iterations = Number(v.iterations) % U32
       ELSE s.kdf.memory = Number(v.memory) % U32 /\ s.kdf.time = Number(v.time) % U32

Names(ids, v) ==
    {ids[k] : k \in 1 .. Len(ids)} =
        IF v.is = "array" THEN {t.s : t \in {u \in Range(v.items) : IsText(u)}} ELSE {}

JsonIsFaithful ==
    Parsed(2) =>
        LET slots == header.keyslots
            doc   == DOMAIN image.root.keyslots
        IN /\ {slots[k].id : k \in 1 .. Len(slots)} = {id \in doc : Whole(Object(id))}
           /\ \A j, k \in 1 .. Len(slots) :
                 j < k => \E m, n \in 1 .. Len(IdOrder) :
                             m < n /\ IdOrder[m] = slots[j].id /\ IdOrder[n] = slots[k].id
           /\ \A k \in 1 .. Len(slots) : SlotAsWritten(slots[k], Object(slots[k].id))
           /\ Len(header.digests) = Cardinality({id \in DOMAIN image.root.digests :
                                                   WholeDigest(image.root.digests[id])})
           /\ \A k \in 1 .. Len(header.digests) :
                 \E id \in DOMAIN image.root.digests :
                    /\ WholeDigest(image.root.digests[id])
                    /\ Names(header.digests[k].keyslots, image.root.digests[id].keyslots)

(***************************************************************************)
(* The segment that will be decrypted (crypt_segment, header2.rs:200-204)  *)
(* is the document's first encrypted one, by the order of ids, of those    *)
(* that can be read at all, with the place, the sectors and the tweak that *)
(* object gives.  The name of a cipher may be empty and the segment then   *)
(* is none.                                                                *)
(***************************************************************************)
Decryptable(id) ==
    /\ id \in DOMAIN image.root.segments
    /\ LET v == image.root.segments[id]
       IN /\ Present(v.offset) /\ Present(v.sector_size)
          /\ IsText(v.encryption) /\ v.encryption.s # ""

SegmentIsFirst ==
    Parsed(2) =>
        LET taken == crypt_segment(header)
        IN IF \E id \in DOMAIN image.root.segments : Decryptable(id)
           THEN \E n \in 1 .. Len(IdOrder) :
                   /\ Decryptable(IdOrder[n])
                   /\ \A m \in 1 .. n - 1 : ~ Decryptable(IdOrder[m])
                   /\ LET v == image.root.segments[IdOrder[n]]
                      IN taken = << [id |-> IdOrder[n], offset |-> Number(v.offset),
                                     encryption |-> v.encryption.s,
                                     sector_size |-> Number(v.sector_size),
                                     iv_tweak |-> Number(v.iv_tweak)] >>
           ELSE taken = <<>>
=============================================================================
