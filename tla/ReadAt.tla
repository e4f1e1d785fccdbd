------------------------------- MODULE ReadAt -------------------------------
(***************************************************************************)
(* DecryptedPayload::read_at (core/src/volume.rs) and read_available under *)
(* it, as steps on a call frame and the reader's cursor: one seek, some    *)
(* reads that may be short, one decryption of the whole unit, one copy,    *)
(* until the buffer is full.                                               *)
(*                                                                         *)
(* Addresses count cells of a fixed number of bytes.  The plaintext of a   *)
(* payload cell is its own payload-relative address; a ciphertext cell     *)
(* carries what XTS binds it to, the tweak of its unit and its place in    *)
(* it.  A cell decrypts to its plaintext under that tweak, at that place   *)
(* and together with the whole cipher block it is part of, only.           *)
(***************************************************************************)
EXTENDS Integers, Sequences

CONSTANTS
    Volumes,   \* the unlocked volumes a payload may be of
    BLOCK,     \* cells of a 16-byte cipher block
    SECTOR,    \* cells of a 512-byte sector
    U64,       \* number of values of a u64, in cells
    MAX_ALLOC  \* largest buffer the host's allocator can provide, in cells

(***************************************************************************)
(* What unlock1_inner and unlock2_inner put into a DecryptedPayload: the   *)
(* cipher mode, the payload's offset, the encryption unit, the tweak base, *)
(* and the container's size.  The unit is one sector in LUKS1 and in LUKS2 *)
(* whatever u64 the header says, but at least one sector.                  *)
(***************************************************************************)
Volume == [cipher_mode : {"xts-plain64", "other"}, payload_offset : Nat,
           sector_size : Nat, iv_tweak : Nat, total_size : Nat]

ASSUME ReadAtAssumption ==
    /\ BLOCK \in Nat \ {0}
    /\ SECTOR \in Nat \ {0} /\ SECTOR % BLOCK = 0
    /\ U64 \in Nat \ {0}
    /\ MAX_ALLOC \in Nat
    /\ \A v \in Volumes :
          /\ v \in Volume
          /\ v.sector_size >= SECTOR
          /\ v.sector_size < U64 /\ v.payload_offset < U64 /\ v.total_size < U64

Least(a, b) == IF a <= b THEN a ELSE b

payload_size(v) ==
    IF v.payload_offset <= v.total_size THEN v.total_size - v.payload_offset ELSE 0

-----------------------------------------------------------------------------
Junk == -1
Zero == [tweak |-> -1, place |-> 0, plain |-> Junk]

(***************************************************************************)
(* What dm-crypt wrote at a container address: plain64 counts 512-byte     *)
(* sectors, and a unit has the number of its first sector.                 *)
(***************************************************************************)
OnDisk(v, address) ==
    LET a     == address - v.payload_offset
        first == a - (a % v.sector_size)
    IN [tweak |-> v.iv_tweak + (first \div SECTOR), place |-> a % v.sector_size, plain |-> a]

(***************************************************************************)
(* Where the plaintext dm-crypt has written ends: with the last whole      *)
(* cipher block, and at once for a unit that is not a number of sectors,   *)
(* which dm-crypt does not know.                                           *)
(***************************************************************************)
PlainEnd(v) ==
    IF v.sector_size % SECTOR = 0
    THEN payload_size(v) - (payload_size(v) % BLOCK)
    ELSE 0

(***************************************************************************)
(* The cell at a place of the unit xts_decrypt_area has been given with a  *)
(* tweak: plaintext when the cells of its whole block belong there.        *)
(***************************************************************************)
BlockOf(place) == LET first == place - (place % BLOCK) IN first .. first + BLOCK - 1

xts_decrypt_area(tweak, cells, place) ==
    IF \A p \in BlockOf(place) :
           p + 1 \in DOMAIN cells /\ cells[p + 1].tweak = tweak /\ cells[p + 1].place = p
    THEN cells[place + 1].plain
    ELSE Junk

(***************************************************************************)
(* The tweak of a unit.  Faulty: it counts units.                          *)
(***************************************************************************)
UnitNumberTweak(v, unit) == v.iv_tweak + unit

Tweak(v, unit) ==
    LET step == v.sector_size \div SECTOR
    IN v.iv_tweak + unit * (IF step = 0 THEN 1 ELSE step)

-----------------------------------------------------------------------------
(***************************************************************************)
(* A call of read_at: its arguments, where it stands, the plaintext copied *)
(* so far (its length is "done") and the ciphertext of the current unit.   *)
(***************************************************************************)
Frame(offset, want) ==
    [offset |-> offset, want |-> want, stage |-> "seek", buf |-> <<>>, ct |-> <<>>]

Pos(f)         == (f.offset + Len(f.buf)) % U64
Unit(v, f)     == Pos(f) \div v.sector_size
Within(v, f)   == Pos(f) % v.sector_size
Physical(v, f) == (v.payload_offset + Unit(v, f) * v.sector_size) % U64

(***************************************************************************)
(* The additions of read_at leave u64: a build with overflow checks panics *)
(* there, another wraps.                                                   *)
(***************************************************************************)
Overflows(v, f) ==
    \/ f.offset + Len(f.buf) >= U64
    \/ v.payload_offset + Unit(v, f) * v.sector_size >= U64

Finished(f) == f.stage = "seek" /\ Len(f.buf) = f.want

(***************************************************************************)
(* A fresh zeroed unit buffer, if the allocator provides one of the size   *)
(* the header says, and reader.seek(Start(physical)).                      *)
(***************************************************************************)
AtUnit(f) == f.stage = "seek" /\ Len(f.buf) < f.want

Fits(v) == v.sector_size <= MAX_ALLOC

Sought(f) == [f EXCEPT !.stage = "fill", !.ct = <<>>]

(***************************************************************************)
(* read_available: reads of any length the reader likes until the unit is  *)
(* full or the reader says 0.  Interrupted reads are retried and change    *)
(* nothing.                                                                *)
(***************************************************************************)
Available(v, cursor) == IF cursor < v.total_size THEN v.total_size - cursor ELSE 0

Readable(v, f, cursor) ==
    1 .. Least(v.sector_size - Len(f.ct), Available(v, cursor))

Filled(v, f, cursor, n) ==
    [f EXCEPT !.ct = @ \o [i \in 1 .. n |-> OnDisk(v, cursor + i - 1)]]

UnitRead(v, f, cursor) ==
    f.stage = "fill" /\ (Len(f.ct) = v.sector_size \/ Available(v, cursor) = 0)

(***************************************************************************)
(* The unit's rest is zeros, however much of it was read; decrypt it and   *)
(* copy what the caller wants of it.  Faulty: copy the rest of the unit,   *)
(* or only its whole cipher blocks.                                        *)
(***************************************************************************)
ZeroFilled(v, f) ==
    [i \in 1 .. v.sector_size |-> IF i <= Len(f.ct) THEN f.ct[i] ELSE Zero]

Plain(v, f, take) ==
    [i \in 1 .. take |->
        xts_decrypt_area(Tweak(v, Unit(v, f)), ZeroFilled(v, f), Within(v, f) + i - 1)]

CopyUnitRest(v, f) ==
    [f EXCEPT !.stage = "seek", !.ct = <<>>,
              !.buf = @ \o Plain(v, f, v.sector_size - Within(v, f))]

CopyWholeBlocks(v, f) ==
    LET take == Least(v.sector_size - Within(v, f), f.want - Len(f.buf))
    IN [f EXCEPT !.stage = "seek", !.ct = <<>>,
                 !.buf = @ \o Plain(v, f, take - (take % BLOCK))]

Copied(v, f) ==
    LET take == Least(v.sector_size - Within(v, f), f.want - Len(f.buf))
    IN [f EXCEPT !.stage = "seek", !.ct = <<>>, !.buf = @ \o Plain(v, f, take)]
=============================================================================
