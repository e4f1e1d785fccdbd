------------------------------ MODULE MCUnlock ------------------------------
(***************************************************************************)
(* Instances for TLC.  A container is built from a plain one by changing   *)
(* what the case is about.                                                 *)
(***************************************************************************)
EXTENDS UnlockRefinement, UnlockClaims

CONSTANTS p1, p2, k1, k2

(***************************************************************************)
(* LUKS1: three slots on disk unless said otherwise.                       *)
(***************************************************************************)
Slot1Of(pass, mk) ==
    [active |-> "ENABLED", iterations |-> 2, key_material_offset |-> 2,
     stripes |-> 4, pass |-> pass, mk |-> mk]

Luks1(slots) ==
    [magic |-> TRUE, version |-> 1, len |-> 8192, hdr_size |-> 100000,
     body |-> [cipher_name |-> "aes", cipher_mode |-> "xts-plain64",
               hash_spec |-> "sha256", key_bytes |-> 64, mk_digest_iter |-> 3,
               mk |-> k1, keyslots |-> slots]]

Inactive == [Slot1Of(p1, k1) EXCEPT !.active = "DISABLED"]
Unmarked == [Slot1Of(p1, k1) EXCEPT !.active = "UNKNOWN"]
Short1   == [Slot1Of(p1, k1) EXCEPT !.key_material_offset = 15, !.stripes = 8]
Striped1 == [Slot1Of(p1, k1) EXCEPT !.stripes = 9]
Bare1    == [Slot1Of(p2, ZeroKey) EXCEPT !.stripes = 0]

Containers1 ==
    { Luks1(<<Inactive, Slot1Of(p2, k1), Slot1Of(p1, k1)>>),
      Luks1(<<Short1, [Slot1Of(p1, k1) EXCEPT !.iterations = 5], Unmarked>>),
      Luks1(<<Slot1Of(p2, k1), Striped1>>),
      Luks1(<<[Slot1Of(p2, k1) EXCEPT !.stripes = 0],
              [Slot1Of(p1, k1) EXCEPT !.iterations = 0]>>),
      [Luks1(<<Slot1Of(p2, k1), Bare1>>) EXCEPT !.body.mk = ZeroKey],
      Luks1(<<[Bare1 EXCEPT !.key_material_offset = 17, !.iterations = 0],
              Slot1Of(p1, k1)>>),
      Luks1(<<Inactive, Unmarked>>),
      [Luks1(<<Slot1Of(p1, k1)>>) EXCEPT !.body.cipher_name = "serpent"],
      [Luks1(<<Slot1Of(p1, k1)>>) EXCEPT !.body.cipher_mode = "cbc-essiv"],
      [Luks1(<<Slot1Of(p1, k1)>>) EXCEPT !.body.hash_spec = "whirlpool"],
      [Luks1(<<Slot1Of(p1, k1)>>) EXCEPT !.body.key_bytes = 65],
      [Luks1(<<Slot1Of(p1, k1)>>) EXCEPT !.len = 591],
      [Luks1(<<Slot1Of(p1, k1)>>) EXCEPT !.len = 7] }

(***************************************************************************)
(* LUKS2.                                                                  *)
(***************************************************************************)
Argon2(time, memory) ==
    [type |-> "argon2id", hash |-> "", cost |-> time, memory |-> memory,
     salted |-> TRUE]

Slot2Of(id, pass, mk) ==
    [id |-> id, kdf |-> Argon2(2, 4), key_size |-> 64, af_stripes |-> 8,
     af_hash |-> "sha256", area_offset |-> 5120,
     area_encryption |-> <<"aes", "xts-plain64">>, pass |-> pass, mk |-> mk]

DigestOf(mk, ids) ==
    [kind |-> "pbkdf2", hash |-> "sha256", iterations |-> 3, len |-> 32,
     of |-> mk, keyslots |-> ids]

Luks2(slots, digests) ==
    [magic |-> TRUE, version |-> 2, len |-> 8192, hdr_size |-> 5120,
     body |-> [json_len |-> 500, json_valid |-> TRUE, keyslots |-> slots,
               segments |-> << [encryption |-> <<"", "">>],
                               [encryption |-> <<"aes", "xts-plain64">>] >>,
               digests |-> digests]]

Bare2(id) == [Slot2Of(id, p2, ZeroKey) EXCEPT !.af_stripes = 0]

Plain2 == Luks2(<<Slot2Of(0, p1, k1)>>, <<DigestOf(k1, {0})>>)

Containers2 ==
    { Plain2,
      Luks2(<<Slot2Of(0, p2, k1), [Slot2Of(1, p1, k1) EXCEPT !.kdf = Pbkdf2("sha1", 5)]>>,
            <<DigestOf(k2, {0}), DigestOf(k1, {0, 1})>>),
      Luks2(<<Slot2Of(0, p1, k1), Slot2Of(1, p1, k2)>>,
            <<[DigestOf(k2, {0, 1}) EXCEPT !.kind = "other"], DigestOf(k1, {1}),
              DigestOf(k2, {1})>>),
      Luks2(<<[Slot2Of(0, p2, k1) EXCEPT !.area_offset = 8000],
              [Slot2Of(1, p1, k1) EXCEPT !.kdf = Argon2(1, 4)],
              Slot2Of(2, p1, k2)>>,
            <<DigestOf(k2, {1}), DigestOf(k2, {2})>>),
      Luks2(<<Slot2Of(0, p2, k1), [Slot2Of(1, p1, k1) EXCEPT !.kdf = Argon2(2, 5)]>>,
            <<DigestOf(k1, {0, 1})>>),
      Luks2(<<Slot2Of(0, p1, k1)>>, <<[DigestOf(k1, {0}) EXCEPT !.hash = "md5"]>>),
      Luks2(<<Slot2Of(0, p1, k1)>>, <<[DigestOf(k1, {0}) EXCEPT !.len = 65]>>),
      Luks2(<<[Slot2Of(0, p1, k1) EXCEPT !.kdf = Argon2(0, 4)]>>, <<DigestOf(k1, {0})>>),
      Luks2(<<[Slot2Of(0, p1, k1) EXCEPT !.kdf = Pbkdf2("md5", 1)]>>, <<DigestOf(k1, {0})>>),
      Luks2(<<[Slot2Of(0, p1, k1) EXCEPT !.af_hash = "md5"]>>, <<DigestOf(k1, {0})>>),
      Luks2(<<[Slot2Of(0, p1, k1) EXCEPT !.key_size = 16]>>, <<DigestOf(k1, {0})>>),
      Luks2(<<[Bare2(0) EXCEPT !.area_offset = 9000], Slot2Of(1, p1, k1)>>,
            <<DigestOf(ZeroKey, {0, 1}), DigestOf(k1, {1})>>),
      Luks2(<<[Bare2(0) EXCEPT !.area_offset = 9000,
                               !.area_encryption = <<"aes", "cbc-plain">>]>>,
            <<DigestOf(ZeroKey, {0})>>),
      Luks2(<<Slot2Of(0, p1, ZeroKey), Bare2(1)>>, <<DigestOf(ZeroKey, {0})>>),
      [Plain2 EXCEPT !.body.segments = << [encryption |-> <<"", "">>] >>],
      [Plain2 EXCEPT !.body.keyslots = <<>>],
      [Plain2 EXCEPT !.body.json_valid = FALSE],
      [Plain2 EXCEPT !.hdr_size = 0],
      [Plain2 EXCEPT !.len = 4500],
      [Plain2 EXCEPT !.len = 4095] }

Foreign ==
    { [magic |-> m, version |-> v, len |-> 8192, hdr_size |-> 0, body |-> <<>>] :
          m \in BOOLEAN, v \in {0, 3} }

MCContainers == Containers1 \cup Containers2 \cup Foreign

(***************************************************************************)
(* Every pairing of slots, and in LUKS2 of digests, that the loops tell    *)
(* apart: right and wrong passphrase and master key, cheap and dear, cut   *)
(* off, refused, unreferenced, empty, without stripes.                     *)
(***************************************************************************)
Slots1 == { Slot1Of(p1, k1), Slot1Of(p1, k2), Slot1Of(p2, k1), Inactive, Short1,
            Striped1, Bare1, [Slot1Of(p1, k1) EXCEPT !.iterations = 5] }

Slots2(id) ==
    { Slot2Of(id, p1, k1), Slot2Of(id, p1, k2), Slot2Of(id, p2, k1),
      [Slot2Of(id, p1, k1) EXCEPT !.kdf = Pbkdf2("sha1", 5)],
      [Slot2Of(id, p1, k1) EXCEPT !.kdf = Argon2(2, 5)],
      [Slot2Of(id, p1, k1) EXCEPT !.area_offset = 8000],
      [Slot2Of(id, p1, k1) EXCEPT !.area_encryption = <<"serpent", "xts-plain64">>],
      [Slot2Of(id, p1, k1) EXCEPT !.area_encryption = <<"aes", "cbc-plain">>] }

Digests2 ==
    { DigestOf(k1, {0}), DigestOf(k1, {1}), DigestOf(k2, {0, 1}),
      [DigestOf(k1, {0, 1}) EXCEPT !.kind = "other"],
      [DigestOf(k1, {0, 1}) EXCEPT !.len = 65],
      [DigestOf(k1, {0, 1}) EXCEPT !.len = 0] }

PairedContainers ==
    { Luks1(<<a, b>>) : a \in Slots1, b \in Slots1 } \cup
    { Luks2(<<a, b>>, <<d, e>>) :
          a \in Slots2(0), b \in Slots2(1), d \in Digests2,
          e \in {DigestOf(k1, {1}), DigestOf(k2, {0, 1})} }

AllContainers == MCContainers \cup PairedContainers

(***************************************************************************)
(* Containers of the refuted claims.                                       *)
(***************************************************************************)
MixedContainers ==
    { Luks2(<<[Slot2Of(0, p2, k1) EXCEPT !.kdf = Argon2(2, 5)], Slot2Of(1, p1, k1)>>,
            <<DigestOf(k1, {0, 1})>>) }

SerpentSegment ==
    { [Plain2 EXCEPT !.body.segments = << [encryption |-> <<"serpent", "xts-plain64">>] >>] }

EmptyDigest ==
    { Luks2(<<Slot2Of(0, p1, k1)>>, <<[DigestOf(k1, {0}) EXCEPT !.len = 0]>>) }

Stripeless == { Luks2(<<Bare2(0)>>, <<DigestOf(ZeroKey, {0})>>) }

LargeHeaders == { [Plain2 EXCEPT !.hdr_size = 100000] }

MCNames == {"", "pbkdf2", "other", "aes", "serpent", "xts-plain64", "cbc-essiv",
            "cbc-plain", "sha1", "sha256", "sha512", "md5", "whirlpool"}

MCPassphrases == {p1, p2}
MCMasterKeys  == {k1, k2, ZeroKey}
MCBudgets     == {0, 3, 20}
AmpleBudget   == {20}
=============================================================================
