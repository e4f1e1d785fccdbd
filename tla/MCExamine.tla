----------------------------- MODULE MCExamine -----------------------------
(***************************************************************************)
(* Headers for TLC: one LUKS1 header and one LUKS2 document, and around    *)
(* each what differs from it in a text, a pair of keyslots, a length, the  *)
(* magic and version, or one field of one JSON object.                     *)
(***************************************************************************)
EXTENDS Examine

MCIdOrder == <<"0", "1", "10", "2">>

-----------------------------------------------------------------------------
Pad(s, n)  == s \o [k \in 1 .. n - Len(s) |-> 0]
Long(s, n) == s \o [k \in 1 .. n - Len(s) |-> 120]

Modes == {Pad(<<120, 116, 115>>, 32), Pad(CBC \o <<45, 101>>, 32), Pad(ECB, 32),
          Pad(<<120>> \o CBC, 32), Pad(<<0>> \o CBC, 32), Pad(<<99, 98, 0, 99>>, 32),
          Long(CBC, 32), Pad(<<99, 200, 99>>, 32), Pad(<<>>, 32)}

Hashes == {Pad(SHA1, 32), Pad(SHA1 \o <<0, 120>>, 32), Pad(SHA1 \o <<120>>, 32),
           Pad(<<115, 104, 97, 50>>, 32), Long(SHA1, 32), Pad(<<0>> \o SHA1, 32)}

DISABLED == <<0, 0, 222, 173>>

Slot(n, active, iterations) ==
    [active |-> active, iterations |-> iterations,
     salt |-> [k \in 1 .. 32 |-> 10 * n + k], key_material_offset |-> <<0, n, 0, 8>>,
     stripes |-> <<0, 0, 15, 160>>]

SlotKinds == {<<KEY_ENABLED, <<0, 0, 0, 0>>>>, <<KEY_ENABLED, <<0, 0, 3, 231>>>>,
              <<KEY_ENABLED, <<0, 0, 3, 232>>>>, <<KEY_ENABLED, <<0, 1, 0, 1>>>>,
              <<DISABLED, <<0, 0, 0, 1>>>>, <<<<0, 0, 0, 1>>, <<0, 0, 0, 1>>>>}

Slots(second, last) ==
    [n \in 1 .. 8 |-> CASE n = 2 -> Slot(n, second[1], second[2])
                        [] n = 5 -> Slot(n, KEY_ENABLED, <<0, 0, 2, 0>>)
                        [] n = 8 -> Slot(n, last[1], last[2])
                        [] OTHER -> Slot(n, DISABLED, <<0, 0, 0, n>>)]

Disk1 ==
    [magic |-> LUKS_MAGIC, version |-> <<0, 1>>, cipher_name |-> Pad(<<97, 101, 115>>, 32),
     cipher_mode |-> Pad(<<120, 116, 115>>, 32), hash_spec |-> Pad(<<115, 104, 97, 50>>, 32),
     payload_offset |-> <<0, 0, 16, 1>>, key_bytes |-> <<0, 0, 0, 64>>,
     mk_digest |-> [k \in 1 .. 20 |-> 100 + k], mk_digest_salt |-> [k \in 1 .. 32 |-> 150 + k],
     mk_digest_iter |-> <<0, 2, 3, 4>>, uuid |-> Long(<<51>>, 40),
     keyslots |-> Slots(<<DISABLED, <<0, 0, 0, 1>>>>, <<KEY_ENABLED, <<0, 0, 0, 0>>>>)]

Luks1(disk, len) == [luks |-> 1, disk |-> disk, len |-> len]

Luks1Images ==
    {Luks1([Disk1 EXCEPT !.cipher_mode = m, !.hash_spec = h], 592) : m \in Modes, h \in Hashes}
    \cup {Luks1([Disk1 EXCEPT !.keyslots = Slots(a, b)], 592) : a, b \in SlotKinds}
    \cup {Luks1([Disk1 EXCEPT !.magic = m, !.version = v], n) :
            m \in {LUKS_MAGIC, <<83, 75, 85, 76, 186, 190>>, <<0, 0, 0, 0, 0, 0>>},
            v \in {<<0, 1>>, <<0, 2>>, <<1, 0>>},
            n \in {0, 5, 6, 7, 8, 207, 591, 592}}

-----------------------------------------------------------------------------
Text(s)   == [is |-> "text", s |-> s, n |-> NaN, b |-> NaN]
Num(n)    == [is |-> "number", n |-> n]
Digits(n) == [is |-> "text", s |-> "digits", n |-> n, b |-> 3]
Base64(b) == [is |-> "text", s |-> "base64", n |-> NaN, b |-> b]
Other     == [is |-> "other"]

(***************************************************************************)
(* 9 and 17 do not fit 8, the width of a u32 here.                         *)
(***************************************************************************)
Values == {Absent, Other, Num(0), Num(3), Num(9), Num(NaN), Digits(17), Text("aes-cbc"), Text("")}

Keyslot(type) ==
    [type |-> Text(type), kdf_hash |-> Text("sha512"), iterations |-> Num(5),
     time |-> Num(4), memory |-> Num(6), cpus |-> Num(1), salt |-> Base64(32),
     key_size |-> Num(64), stripes |-> Num(2), af_hash |-> Text("sha256"),
     offset |-> Digits(32768), size |-> Digits(4096), encryption |-> Text("aes-xts")]

Segment == [offset |-> Digits(16384), encryption |-> Text("aes-xts"),
            sector_size |-> Num(512), iv_tweak |-> Absent]

Digest == [type |-> Text("pbkdf2"), hash |-> Text("sha256"), iterations |-> Num(7),
           salt |-> Base64(32), digest |-> Base64(32),
           keyslots |-> [is |-> "array", items |-> <<Text("0"), Num(1), Text("2")>>]]

Root == [keyslots |-> [id \in {"0", "10", "2"} |-> Keyslot("argon2id")],
         segments |-> [id \in {"0"} |-> Segment],
         digests  |-> [id \in {"0", "1"} |-> Digest]]

Luks2(root) ==
    [luks |-> 2, len |-> 16384, magic |-> TRUE, version |-> 2, hdr_size |-> 16384,
     json_len |-> 900, json_valid |-> TRUE, root |-> root]

Luks2Images ==
    {Luks2([Root EXCEPT !.keyslots[id] = [Keyslot(t) EXCEPT ![f] = v]]) :
        id \in {"0", "10"}, t \in {"pbkdf2", "argon2i", "scrypt"},
        f \in DOMAIN Keyslot("pbkdf2"), v \in Values}
    \cup {Luks2([Root EXCEPT !.segments = [id \in ids |->
                    IF id = "10" THEN [Segment EXCEPT ![f] = v] ELSE Segment]]) :
            ids \in SUBSET {"1", "10", "2"}, f \in DOMAIN Segment, v \in Values}
    \cup {Luks2([Root EXCEPT !.digests["1"][f] = v]) : f \in DOMAIN Digest, v \in Values}
    \cup {[Luks2(Root) EXCEPT !.len = n, !.hdr_size = h, !.json_len = j, !.json_valid = ok] :
            n \in {0, 5, 6, 7, 8, 15, 16, 4095, 4096, 4995, 4996, 16384},
            h \in {0, 4096, 4995, 4996, 16384}, j \in {0, 900}, ok \in BOOLEAN}
    \cup {[Luks2(Root) EXCEPT !.magic = m, !.version = v] : m \in BOOLEAN, v \in {1, 2, 3}}

MCImages == Luks1Images \cup Luks2Images
=============================================================================
