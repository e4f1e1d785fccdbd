---------------------------- MODULE ReadAtProofs ----------------------------
(***************************************************************************)
(* Lemmas about a frame of read_at, for every volume, unit size and        *)
(* buffer: what its steps keep, and that what it copies is the plaintext.  *)
(* Payload and Source, whose calls are such frames, are proved from them.  *)
(***************************************************************************)
EXTENDS ReadAt, SequenceTheorems, TLAPS

-----------------------------------------------------------------------------
(***************************************************************************)
(* Division with rest, which is unique.                                    *)
(***************************************************************************)
LEMMA DivMod ==
    ASSUME NEW x \in Nat, NEW d \in Nat \ {0}
    PROVE  /\ x \div d \in Nat
           /\ x % d \in 0 .. d - 1
           /\ (x \div d) * d \in Nat
           /\ x = (x \div d) * d + (x % d)
<1>1. x \div d \in Nat /\ x % d \in 0 .. d - 1
    OBVIOUS
<1>2. x = (x \div d) * d + (x % d)
    OBVIOUS
<1>3. QED
    BY <1>1, <1>2

LEMMA Multiples ==
    ASSUME NEW p \in Nat, NEW q \in Nat, NEW d \in Nat \ {0}, p < q
    PROVE  p * d \in Nat /\ q * d \in Nat /\ p * d + d <= q * d
<1>1. (p + 1) * d <= q * d
    OBVIOUS
<1>2. (p + 1) * d = p * d + d
    OBVIOUS
<1>3. QED
    BY <1>1, <1>2

LEMMA DivModUnique ==
    ASSUME NEW q \in Nat, NEW r \in Nat, NEW d \in Nat \ {0}, r < d
    PROVE  /\ q * d + r \in Nat
           /\ (q * d + r) \div d = q
           /\ (q * d + r) % d = r
<1> DEFINE x == q * d + r
           p == x \div d
           s == x % d
<1>1. q * d \in Nat /\ x \in Nat
    OBVIOUS
<1>2. p \in Nat /\ s \in 0 .. d - 1 /\ p * d \in Nat /\ x = p * d + s
    BY <1>1, DivMod
<1>3. x = q * d + r
    OBVIOUS
<1> HIDE DEF x, p, s
<1>4. ~ (p < q)
    BY <1>1, <1>2, <1>3, Multiples
<1>5. ~ (q < p)
    BY <1>1, <1>2, <1>3, Multiples
<1>6. p = q /\ s = r
    BY <1>1, <1>2, <1>3, <1>4, <1>5
<1>7. QED
    BY <1>1, <1>6 DEF x, p, s

(***************************************************************************)
(* A multiple has no rest, and adding one does not change a rest.          *)
(***************************************************************************)
LEMMA MultipleOf ==
    ASSUME NEW x \in Nat, NEW d \in Nat \ {0}, x % d = 0
    PROVE  x = (x \div d) * d
BY DivMod

LEMMA MultipleHasNoRest ==
    ASSUME NEW n \in Nat, NEW d \in Nat \ {0}
    PROVE  n * d \in Nat /\ (n * d) % d = 0 /\ (n * d) \div d = n
<1>1. 0 \in Nat /\ 0 < d /\ n * d + 0 = n * d
    OBVIOUS
<1>2. \A r \in Nat : r < d => /\ n * d + r \in Nat
                              /\ (n * d + r) \div d = n
                              /\ (n * d + r) % d = r
    BY DivModUnique
<1>3. QED
    BY <1>1, <1>2

LEMMA AddMultiple ==
    ASSUME NEW x \in Nat, NEW y \in Nat, NEW d \in Nat \ {0}, x % d = 0
    PROVE  (x + y) % d = y % d
<1> DEFINE a == x \div d
           b == y \div d
           r == y % d
<1>1. a \in Nat /\ b \in Nat /\ r \in 0 .. d - 1 /\ x = a * d /\ y = b * d + r
    BY DivMod
<1> HIDE DEF a, b, r
<1>2. x + y = (a + b) * d + r
    BY <1>1
<1>3. ((a + b) * d + r) % d = r
    BY <1>1, DivModUnique
<1>4. QED
    BY <1>2, <1>3 DEF r

LEMMA TimesMultiple ==
    ASSUME NEW m \in Nat, NEW x \in Nat, NEW d \in Nat \ {0}, x % d = 0
    PROVE  /\ m * x \in Nat
           /\ (m * x) % d = 0
           /\ (m * x) \div d = m * (x \div d)
<1> DEFINE a == x \div d
           n == m * a
<1>1. a \in Nat /\ x = a * d
    BY DivMod
<1>2. n \in Nat /\ n = m * a
    BY <1>1
<1> HIDE DEF a, n
<1>3. m * x = n * d
  <2>1. m * (a * d) = (m * a) * d
      BY <1>1
  <2>2. QED
      BY <2>1, <1>1, <1>2
<1>4. n * d \in Nat /\ (n * d) % d = 0 /\ (n * d) \div d = n
    BY <1>2, MultipleHasNoRest
<1>5. QED
    BY <1>2, <1>3, <1>4 DEF a

(***************************************************************************)
(* The block of an address below a multiple of the block size ends at or   *)
(* below it.                                                               *)
(***************************************************************************)
LEMMA BlockEndsBelow ==
    ASSUME NEW a \in Nat, NEW e \in Nat, NEW d \in Nat \ {0}, e % d = 0, a < e
    PROVE  (a - (a % d)) + d <= e
<1> DEFINE p == a \div d
           q == e \div d
           r == a % d
<1>1. p \in Nat /\ r \in 0 .. d - 1 /\ p * d \in Nat /\ a = p * d + r
    BY DivMod
<1>2. q \in Nat /\ q * d \in Nat /\ e = q * d
    BY DivMod
<1> HIDE DEF p, q, r
<1>3. p < q
  <2> SUFFICES ASSUME ~ (p < q) PROVE FALSE
      OBVIOUS
  <2>1. q = p \/ q < p
      BY <1>1, <1>2
  <2>2. q * d <= p * d
      BY <2>1, <1>1, <1>2, Multiples
  <2>3. QED
      BY <2>2, <1>1, <1>2
<1>4. p * d + d <= q * d
    BY <1>1, <1>2, <1>3, Multiples
<1>5. QED
    BY <1>1, <1>2, <1>4 DEF r

(***************************************************************************)
(* The cells of such a block, which begins r below a place: they are in    *)
(* the unit of size s, and as addresses below e.                           *)
(***************************************************************************)
LEMMA BlockIsInside ==
    ASSUME NEW p \in Nat, NEW r \in Nat, NEW d \in Nat, NEW s \in Nat, NEW b \in Nat, NEW e \in Nat,
           r <= p, (p - r) + d <= s, ((b + p) - r) + d <= e,
           NEW q \in p - r .. (p - r) + d - 1
    PROVE  q \in 0 .. s - 1 /\ b + q < e
OBVIOUS

LEMMA NoWrap ==
    ASSUME NEW o \in Nat, NEW n \in Nat, NEW j \in Nat, NEW e \in Nat, NEW u \in Nat,
           n < j, o + j - 1 < e, e < u
    PROVE  o + n \in 0 .. u - 1
OBVIOUS

LEMMA IsSeq ==
    ASSUME NEW S, NEW k \in Nat, NEW s \in [1 .. k -> S]
    PROVE  s \in Seq(S) /\ Len(s) = k
OBVIOUS

-----------------------------------------------------------------------------
(***************************************************************************)
(* What holds of a frame throughout its call.  FrameOK: its types, and it  *)
(* outgrows neither the buffer nor the unit.  UnitIsOnDisk: while a unit   *)
(* is read, the cursor stands where the next of its cells is, and those    *)
(* read so far are the unit's.  CopiedIsPlain: what was copied is the      *)
(* plaintext, up to the last whole cipher block of the payload.            *)
(***************************************************************************)
CipherCells == [tweak : Int, place : Int, plain : Int]

Frames == [offset : 0 .. U64 - 1, want : Nat, stage : {"seek", "fill"},
           buf : Seq(Int), ct : Seq(CipherCells)]

FrameOK(v, f) ==
    /\ f \in Frames
    /\ Len(f.buf) <= f.want
    /\ Len(f.ct) <= v.sector_size
    /\ f.stage = "fill" => Len(f.buf) < f.want

UnitIsOnDisk(v, f, cursor) ==
    f.stage = "fill" =>
        /\ cursor = Physical(v, f) + Len(f.ct)
        /\ \A k \in 1 .. Len(f.ct) : f.ct[k] = OnDisk(v, Physical(v, f) + k - 1)

CopiedIsPlain(v, f) ==
    \A i \in 1 .. Len(f.buf) :
        f.offset + i - 1 < PlainEnd(v) => f.buf[i] = f.offset + i - 1

LEMMA VolumeGeometry ==
    ASSUME NEW v \in Volumes
    PROVE  /\ BLOCK \in Nat \ {0} /\ SECTOR \in Nat \ {0} /\ U64 \in Nat \ {0}
           /\ v.sector_size \in Nat \ {0} /\ v.sector_size < U64
           /\ v.sector_size \div SECTOR \in Nat \ {0}
           /\ v.sector_size % SECTOR = 0 => v.sector_size % BLOCK = 0
           /\ v.payload_offset \in 0 .. U64 - 1
           /\ v.total_size \in 0 .. U64 - 1
           /\ v.iv_tweak \in Nat
           /\ payload_size(v) \in 0 .. v.total_size
           /\ payload_size(v) > 0 => v.payload_offset + payload_size(v) = v.total_size
<1>1. /\ v \in Volume
      /\ v.sector_size >= SECTOR
      /\ v.sector_size < U64 /\ v.payload_offset < U64 /\ v.total_size < U64
      /\ BLOCK \in Nat \ {0} /\ SECTOR \in Nat \ {0} /\ U64 \in Nat \ {0}
      /\ SECTOR % BLOCK = 0
    BY ReadAtAssumption
<1>2. /\ v.sector_size \in Nat /\ v.payload_offset \in Nat
      /\ v.iv_tweak \in Nat /\ v.total_size \in Nat
    BY <1>1 DEF Volume
<1> DEFINE step == v.sector_size \div SECTOR
           rest == v.sector_size % SECTOR
           span == step * SECTOR
<1>3. /\ step \in Nat /\ step * SECTOR \in Nat /\ rest \in 0 .. SECTOR - 1
      /\ v.sector_size = step * SECTOR + rest
    BY <1>1, <1>2, DivMod
<1> HIDE DEF step, rest
<1>4. step # 0
  <2>1. step = 0 => span = 0
      BY <1>1
  <2>2. span \in Nat /\ v.sector_size = span + rest
      BY <1>3
  <2> HIDE DEF span
  <2>3. span # 0
      BY <2>2, <1>1, <1>2, <1>3
  <2>4. QED
      BY <2>1, <2>3
<1>5. rest = 0 => v.sector_size % BLOCK = 0
  <2> HIDE DEF span
  <2>1. (step * SECTOR) % BLOCK = 0
    <3>1. step \in Nat /\ SECTOR \in Nat /\ BLOCK \in Nat \ {0} /\ SECTOR % BLOCK = 0
        BY <1>1, <1>3
    <3>2. QED
        BY <3>1, TimesMultiple
  <2>2. rest = 0 => v.sector_size = step * SECTOR
      BY <1>3
  <2>3. QED
      BY <2>1, <2>2
<1>6. /\ payload_size(v) \in 0 .. v.total_size
      /\ payload_size(v) > 0 => v.payload_offset + payload_size(v) = v.total_size
    BY <1>2 DEF payload_size
<1>7. /\ v.sector_size \div SECTOR \in Nat \ {0}
      /\ v.sector_size % SECTOR = 0 => v.sector_size % BLOCK = 0
    BY <1>3, <1>4, <1>5 DEF step, rest
<1>8. v.sector_size # 0
    BY <1>1, <1>2
<1>9. v.payload_offset \in 0 .. U64 - 1 /\ v.total_size \in 0 .. U64 - 1
    BY <1>1, <1>2
<1>10. QED
    BY <1>1, <1>2, <1>6, <1>7, <1>8, <1>9

LEMMA OnDiskType ==
    ASSUME NEW v \in Volumes, NEW address \in Int
    PROVE  OnDisk(v, address) \in CipherCells
<1> DEFINE a == address - v.payload_offset
           first == a - (a % v.sector_size)
<1>1. a \in Int /\ v.sector_size \in Nat \ {0} /\ SECTOR \in Nat \ {0} /\ v.iv_tweak \in Nat
    BY VolumeGeometry
<1>2. a % v.sector_size \in Int /\ first \in Int
    BY <1>1
<1>3. first \div SECTOR \in Int
    BY <1>1, <1>2
<1>4. OnDisk(v, address) = [tweak |-> v.iv_tweak + (first \div SECTOR),
                            place |-> a % v.sector_size, plain |-> a]
    BY DEF OnDisk
<1> HIDE DEF a, first
<1>5. QED
    BY <1>1, <1>2, <1>3, <1>4 DEF CipherCells

LEMMA FrameGeometry ==
    ASSUME NEW v \in Volumes, NEW f, FrameOK(v, f)
    PROVE  /\ Len(f.buf) \in Nat /\ Len(f.ct) \in Nat
           /\ Pos(f) \in 0 .. U64 - 1
           /\ Unit(v, f) \in Nat /\ Unit(v, f) * v.sector_size \in Nat
           /\ Within(v, f) \in 0 .. v.sector_size - 1
           /\ Pos(f) = Unit(v, f) * v.sector_size + Within(v, f)
           /\ Physical(v, f) \in 0 .. U64 - 1
<1>1. f.offset \in 0 .. U64 - 1 /\ f.buf \in Seq(Int) /\ f.ct \in Seq(CipherCells)
    BY DEF FrameOK, Frames
<1>2. Len(f.buf) \in Nat /\ Len(f.ct) \in Nat
    BY <1>1
<1>3. Pos(f) \in 0 .. U64 - 1
  <2>1. U64 \in Nat \ {0} /\ f.offset + Len(f.buf) \in Nat
      BY <1>1, <1>2, VolumeGeometry
  <2>2. QED
      BY <2>1, DivMod DEF Pos
<1>4. v.sector_size \in Nat \ {0} /\ Pos(f) \in Nat
    BY <1>3, VolumeGeometry
<1>5. /\ Unit(v, f) \in Nat /\ Unit(v, f) * v.sector_size \in Nat
      /\ Within(v, f) \in 0 .. v.sector_size - 1
      /\ Pos(f) = Unit(v, f) * v.sector_size + Within(v, f)
    BY <1>4, DivMod DEF Unit, Within
<1>6. Physical(v, f) \in 0 .. U64 - 1
  <2>1. U64 \in Nat \ {0} /\ v.payload_offset + Unit(v, f) * v.sector_size \in Nat
      BY <1>5, VolumeGeometry
  <2>2. QED
      BY <2>1, DivMod DEF Physical
<1>7. QED
    BY <1>2, <1>3, <1>5, <1>6

-----------------------------------------------------------------------------
(***************************************************************************)
(* The seek to a unit begins it, at the place it has in the container.     *)
(***************************************************************************)
LEMMA NewFrame ==
    ASSUME NEW v \in Volumes, NEW offset \in 0 .. U64 - 1, NEW want \in Nat, NEW cursor
    PROVE  /\ FrameOK(v, Frame(offset, want))
           /\ CopiedIsPlain(v, Frame(offset, want))
           /\ UnitIsOnDisk(v, Frame(offset, want), cursor)
<1>1. <<>> \in Seq(Int) /\ <<>> \in Seq(CipherCells) /\ Len(<<>>) = 0
    BY EmptySeq
<1>2. Frame(offset, want) \in Frames
    BY <1>1 DEF Frame, Frames
<1>3. FrameOK(v, Frame(offset, want))
    BY <1>1, <1>2, VolumeGeometry DEF Frame, FrameOK
<1>4. CopiedIsPlain(v, Frame(offset, want))
    BY <1>1 DEF Frame, CopiedIsPlain
<1>5. QED
    BY <1>3, <1>4 DEF Frame, UnitIsOnDisk

LEMMA SameUnit ==
    ASSUME NEW v, NEW f, NEW g, g.offset = f.offset, g.buf = f.buf
    PROVE  /\ Pos(g) = Pos(f) /\ Unit(v, g) = Unit(v, f) /\ Within(v, g) = Within(v, f)
           /\ Physical(v, g) = Physical(v, f)
           /\ CopiedIsPlain(v, f) => CopiedIsPlain(v, g)
BY DEF Pos, Unit, Within, Physical, CopiedIsPlain

LEMMA SoughtKeeps ==
    ASSUME NEW v \in Volumes, NEW f, FrameOK(v, f), CopiedIsPlain(v, f), AtUnit(f)
    PROVE  /\ FrameOK(v, Sought(f))
           /\ CopiedIsPlain(v, Sought(f))
           /\ UnitIsOnDisk(v, Sought(f), Physical(v, f))
<1> DEFINE g == Sought(f)
<1>1. <<>> \in Seq(CipherCells) /\ Len(<<>>) = 0
    BY EmptySeq
<1>2. /\ g \in Frames /\ g.offset = f.offset /\ g.want = f.want /\ g.buf = f.buf
      /\ g.stage = "fill" /\ g.ct = <<>>
    BY <1>1 DEF FrameOK, Frames, Sought
<1> HIDE DEF g
<1>3. FrameOK(v, g)
    BY <1>1, <1>2, VolumeGeometry DEF FrameOK, AtUnit
<1>4. CopiedIsPlain(v, g) /\ Physical(v, g) = Physical(v, f)
    BY <1>2, SameUnit
<1>5. UnitIsOnDisk(v, g, Physical(v, f))
    BY <1>1, <1>2, <1>4, FrameGeometry DEF UnitIsOnDisk
<1>6. QED
    BY <1>3, <1>4, <1>5 DEF g

(***************************************************************************)
(* A read of any length goes on with the unit where the last one ended,    *)
(* gets at least one cell of it and stays within the container.            *)
(***************************************************************************)
LEMMA FilledKeeps ==
    ASSUME NEW v \in Volumes, NEW f, NEW cursor \in 0 .. U64 - 1,
           FrameOK(v, f), CopiedIsPlain(v, f), UnitIsOnDisk(v, f, cursor),
           f.stage = "fill", NEW n \in Readable(v, f, cursor)
    PROVE  /\ FrameOK(v, Filled(v, f, cursor, n))
           /\ CopiedIsPlain(v, Filled(v, f, cursor, n))
           /\ UnitIsOnDisk(v, Filled(v, f, cursor, n), cursor + n)
           /\ cursor + n \in 0 .. U64 - 1
           /\ Filled(v, f, cursor, n).buf = f.buf /\ Filled(v, f, cursor, n).stage = "fill"
           /\ Len(Filled(v, f, cursor, n).ct) > Len(f.ct)
<1> DEFINE g    == Filled(v, f, cursor, n)
           more == [i \in 1 .. n |-> OnDisk(v, cursor + i - 1)]
           m    == Len(f.ct)
           at   == Physical(v, f)
<1>1. /\ m \in Nat /\ at \in 0 .. U64 - 1 /\ f.ct \in Seq(CipherCells)
      /\ m <= v.sector_size /\ v.sector_size \in Nat /\ v.total_size \in 0 .. U64 - 1
      /\ U64 \in Nat /\ cursor = at + m
    BY FrameGeometry, VolumeGeometry DEF FrameOK, Frames, UnitIsOnDisk
<1>2. n \in Nat /\ 0 < n /\ m + n <= v.sector_size /\ cursor + n <= v.total_size
  <2> DEFINE avail == Available(v, cursor)
  <2>1. avail \in Nat /\ (avail > 0 => cursor + avail = v.total_size)
      BY <1>1 DEF Available
  <2>2. n \in 1 .. Least(v.sector_size - m, avail)
      BY DEF Readable
  <2> DEFINE ss    == v.sector_size
             total == v.total_size
  <2>3. ss \in Nat /\ total \in Nat /\ m \in Nat /\ cursor \in Nat /\ m <= ss
      BY <1>1
  <2>4. avail > 0 => cursor + avail = total
      BY <2>1
  <2>5. n \in 1 .. Least(ss - m, avail)
      BY <2>2
  <2> DEFINE room == ss - m
  <2> HIDE DEF avail, m, ss, total
  <2>6. n \in Nat /\ 0 < n /\ n <= ss - m /\ n <= avail
    <3>1. room \in Nat /\ avail \in Nat /\ n \in 1 .. Least(room, avail)
        BY <2>1, <2>3, <2>5
    <3> HIDE DEF room
    <3>2. n \in Nat /\ 0 < n /\ n <= room /\ n <= avail
        BY <3>1 DEF Least
    <3>3. QED
        BY <3>2 DEF room
  <2>7. m + n <= ss /\ cursor + n <= total
      BY <2>1, <2>3, <2>4, <2>6
  <2>8. QED
      BY <2>6, <2>7 DEF ss, total
<1>3. more \in Seq(CipherCells) /\ Len(more) = n
  <2>1. \A i \in 1 .. n : OnDisk(v, cursor + i - 1) \in CipherCells
      BY <1>2, OnDiskType
  <2>2. more \in [1 .. n -> CipherCells]
      BY <2>1
  <2> HIDE DEF more
  <2>3. QED
      BY <2>2, <1>2, IsSeq
<1>4. /\ g \in Frames /\ g.offset = f.offset /\ g.want = f.want /\ g.buf = f.buf
      /\ g.stage = "fill" /\ g.ct = f.ct \o more
  <2>1. f.ct \o more \in Seq(CipherCells)
      BY <1>1, <1>3
  <2>2. QED
      BY <2>1 DEF FrameOK, Frames, Filled
<1>5. \A i \in 1 .. n : more[i] = OnDisk(v, cursor + i - 1)
    OBVIOUS
<1>6. \A k \in 1 .. m : f.ct[k] = OnDisk(v, at + k - 1)
    BY DEF UnitIsOnDisk
<1> HIDE DEF g, more
<1>7. /\ Len(g.ct) = m + n
      /\ \A i \in 1 .. m + n : g.ct[i] = IF i <= m THEN f.ct[i] ELSE more[i - m]
  <2>1. \A s, t \in Seq(CipherCells) :
            /\ Len(s \o t) = Len(s) + Len(t)
            /\ \A i \in 1 .. Len(s) + Len(t) :
                  (s \o t)[i] = IF i <= Len(s) THEN s[i] ELSE t[i - Len(s)]
      BY ConcatProperties
  <2>2. m = Len(f.ct) /\ f.ct \in Seq(CipherCells) /\ more \in Seq(CipherCells) /\ Len(more) = n
      BY <1>1, <1>3
  <2> HIDE DEF m
  <2>3. /\ Len(f.ct \o more) = m + n
        /\ \A i \in 1 .. m + n :
              (f.ct \o more)[i] = IF i <= m THEN f.ct[i] ELSE more[i - m]
      BY <2>1, <2>2
  <2>4. QED
      BY <2>3, <1>4
<1>8. FrameOK(v, g)
    BY <1>2, <1>4, <1>7 DEF FrameOK
<1>9. CopiedIsPlain(v, g) /\ Physical(v, g) = at
    BY <1>4, SameUnit
<1> HIDE DEF m, at
<1>10. ASSUME NEW k \in 1 .. m + n
       PROVE  g.ct[k] = OnDisk(v, at + k - 1)
  <2>1. CASE k <= m
      BY <2>1, <1>1, <1>6, <1>7
  <2>2. CASE k > m
    <3>1. k - m \in 1 .. n /\ cursor + (k - m) - 1 = at + k - 1
        BY <2>2, <1>1, <1>2
    <3>2. g.ct[k] = more[k - m]
        BY <2>2, <1>1, <1>2, <1>7
    <3>3. more[k - m] = OnDisk(v, cursor + (k - m) - 1)
        BY <3>1, <1>5
    <3>4. QED
        BY <3>1, <3>2, <3>3
  <2>3. QED
      BY <2>1, <2>2, <1>1, <1>2
<1>11. UnitIsOnDisk(v, g, cursor + n)
  <2>1. cursor + n = at + (m + n)
      BY <1>1, <1>2
  <2>2. QED
      BY <2>1, <1>7, <1>9, <1>10 DEF UnitIsOnDisk
<1>12. cursor + n \in 0 .. U64 - 1
    BY <1>1, <1>2
<1>13. Len(g.ct) > m
    BY <1>1, <1>2, <1>7
<1>14. QED
    BY <1>4, <1>8, <1>9, <1>11, <1>12, <1>13 DEF g, m

-----------------------------------------------------------------------------
(***************************************************************************)
(* Decrypting a unit.  The plaintext ends with a whole cipher block, and   *)
(* where there is any the units are numbers of sectors.                    *)
(***************************************************************************)
LEMMA PlainEndIsAligned ==
    ASSUME NEW v \in Volumes
    PROVE  /\ PlainEnd(v) \in 0 .. payload_size(v) /\ PlainEnd(v) % BLOCK = 0
           /\ PlainEnd(v) > 0 => v.sector_size % SECTOR = 0
<1> DEFINE size == payload_size(v)
           q    == size \div BLOCK
<1>1. size \in Nat /\ BLOCK \in Nat \ {0}
    BY VolumeGeometry
<1>2. q \in Nat /\ size % BLOCK \in 0 .. BLOCK - 1 /\ q * BLOCK \in Nat
      /\ size = q * BLOCK + (size % BLOCK)
    BY <1>1, DivMod
<1>3. PlainEnd(v) = IF v.sector_size % SECTOR = 0 THEN size - (size % BLOCK) ELSE 0
    BY DEF PlainEnd
<1> HIDE DEF size, q
<1>4. PlainEnd(v) = (IF v.sector_size % SECTOR = 0 THEN q * BLOCK ELSE 0)
    BY <1>1, <1>2, <1>3
<1>5. (q * BLOCK) % BLOCK = 0 /\ 0 % BLOCK = 0
  <2>1. q \in Nat
      BY <1>2
  <2>2. (q * BLOCK) % BLOCK = 0
      BY <1>1, <2>1, MultipleHasNoRest
  <2>3. 0 % BLOCK = 0
      BY <1>1
  <2>4. QED
      BY <2>2, <2>3
<1>6. PlainEnd(v) \in 0 .. size
    BY <1>1, <1>2, <1>4
<1>7. CASE v.sector_size % SECTOR = 0
    BY <1>4, <1>5, <1>6, <1>7 DEF size
<1>8. CASE v.sector_size % SECTOR # 0
  <2>1. PlainEnd(v) = 0
      BY <1>4, <1>8
  <2>2. QED
      BY <2>1, <1>1, <1>5, <1>6 DEF size
<1>9. QED
    BY <1>7, <1>8

(***************************************************************************)
(* What is on disk in a unit is bound to the tweak read_at decrypts it     *)
(* with, and to its place: dm-crypt counts sectors, read_at units.         *)
(***************************************************************************)
LEMMA UnitOnDisk ==
    ASSUME NEW v \in Volumes, v.sector_size % SECTOR = 0,
           NEW unit \in Nat, NEW p \in 0 .. v.sector_size - 1
    PROVE  OnDisk(v, v.payload_offset + unit * v.sector_size + p) =
               [tweak |-> v.iv_tweak + unit * (v.sector_size \div SECTOR),
                place |-> p, plain |-> unit * v.sector_size + p]
<1> DEFINE ss == v.sector_size
           b  == unit * ss
<1>1. /\ ss \in Nat \ {0} /\ SECTOR \in Nat \ {0} /\ ss % SECTOR = 0
      /\ v.payload_offset \in Nat /\ p \in Nat /\ p < ss /\ b \in Nat
    BY VolumeGeometry
<1>2. (b + p) % ss = p
  <2> HIDE DEF ss
  <2>1. (unit * ss + p) % ss = p
      BY <1>1, DivModUnique
  <2>2. QED
      BY <2>1
<1>3. b \div SECTOR = unit * (ss \div SECTOR)
  <2>1. ss \in Nat /\ SECTOR \in Nat \ {0} /\ ss % SECTOR = 0
      BY <1>1
  <2> HIDE DEF ss
  <2>2. (unit * ss) \div SECTOR = unit * (ss \div SECTOR)
      BY <2>1, TimesMultiple
  <2>3. QED
      BY <2>2
<1> DEFINE a == (v.payload_offset + b + p) - v.payload_offset
<1>4. OnDisk(v, v.payload_offset + b + p) =
          [tweak |-> v.iv_tweak + ((a - (a % ss)) \div SECTOR), place |-> a % ss, plain |-> a]
    BY DEF OnDisk
<1>5. a = b + p
    BY <1>1
<1> HIDE DEF a
<1>6. a % ss = p /\ a - (a % ss) = b
    BY <1>1, <1>2, <1>5
<1>7. QED
    BY <1>3, <1>4, <1>5, <1>6

LEMMA DecryptsToPlain ==
    ASSUME NEW v \in Volumes, NEW f, NEW cursor,
           FrameOK(v, f), UnitIsOnDisk(v, f, cursor), UnitRead(v, f, cursor),
           NEW place \in 0 .. v.sector_size - 1,
           Unit(v, f) * v.sector_size + place < PlainEnd(v)
    PROVE  xts_decrypt_area(Tweak(v, Unit(v, f)), ZeroFilled(v, f), place) =
               Unit(v, f) * v.sector_size + place
<1> DEFINE ss   == v.sector_size
           unit == Unit(v, f)
           b    == unit * ss
           size == payload_size(v)
           end  == PlainEnd(v)
           m    == Len(f.ct)
<1>1. /\ ss \in Nat \ {0} /\ BLOCK \in Nat \ {0}
      /\ ss % SECTOR = 0 => ss % BLOCK = 0
      /\ v.total_size \in 0 .. U64 - 1 /\ v.payload_offset \in Nat
      /\ size \in Nat /\ U64 \in Nat \ {0}
      /\ size > 0 => v.payload_offset + size = v.total_size
    BY VolumeGeometry
<1>2. end \in 0 .. size /\ end % BLOCK = 0 /\ (end > 0 => ss % SECTOR = 0)
    BY PlainEndIsAligned
<1>3. unit \in Nat /\ b \in Nat /\ m \in Nat /\ m <= ss
    BY FrameGeometry DEF FrameOK
<1>4. place \in Nat /\ b + place < end
    OBVIOUS
<1>s. ss % SECTOR = 0 /\ ss % BLOCK = 0
  <2>1. end > 0
    <3> HIDE DEF b, end, size
    <3>1. QED
        BY <1>1, <1>2, <1>3, <1>4
  <2>2. QED
      BY <2>1, <1>1, <1>2
<1>5. Physical(v, f) = v.payload_offset + b
  <2>1. Physical(v, f) = (v.payload_offset + b) % U64
      BY DEF Physical
  <2> DEFINE off == v.payload_offset
  <2>2. off \in Nat /\ b \in Nat /\ end \in Nat /\ size \in Nat /\ U64 \in Nat
      BY <1>1, <1>2, <1>3
  <2>3. b < size /\ (size > 0 => off + size < U64)
    <3>1. v.total_size < U64 /\ end <= size
        BY <1>1, <1>2
    <3> HIDE DEF b, size, end
    <3>2. QED
        BY <3>1, <2>2, <1>1, <1>4
  <2> HIDE DEF b, size, end, off
  <2>4. off + b \in 0 .. U64 - 1
      BY <2>2, <2>3
  <2>5. QED
      BY <2>1, <2>4, <1>1 DEF off
<1>6. f.stage = "fill" /\ (m = ss \/ Available(v, cursor) = 0)
    BY DEF UnitRead
<1>7. /\ cursor = v.payload_offset + b + m
      /\ \A k \in 1 .. m : f.ct[k] = OnDisk(v, v.payload_offset + b + k - 1)
    BY <1>5, <1>6 DEF UnitIsOnDisk
<1>8. m = ss \/ b + m >= size
  <2> HIDE DEF b, size, end, m
  <2>1. Available(v, cursor) = 0 => cursor >= v.total_size
      BY <1>1, <1>3, <1>7 DEF Available
  <2>2. QED
      BY <2>1, <1>1, <1>2, <1>3, <1>4, <1>6, <1>7
<1> HIDE DEF b, size, end, m
<1>9. (b + place) % BLOCK = place % BLOCK
  <2>1. b % BLOCK = 0
    <3>1. unit \in Nat /\ ss \in Nat /\ ss % BLOCK = 0 /\ BLOCK \in Nat \ {0}
        BY <1>1, <1>s, <1>3
    <3> HIDE DEF unit, ss
    <3>2. (unit * ss) % BLOCK = 0
        BY <3>1, TimesMultiple
    <3>3. QED
        BY <3>2 DEF b
  <2>2. b \in Nat /\ BLOCK \in Nat \ {0} /\ place \in Nat
      BY <1>1, <1>3, <1>4
  <2>3. QED
      BY <2>1, <2>2, AddMultiple
<1> DEFINE r     == place % BLOCK
           first == place - r
<1>10. r \in 0 .. BLOCK - 1 /\ r <= place
  <2> DEFINE n == (place \div BLOCK) * BLOCK
  <2>1. r \in 0 .. BLOCK - 1 /\ n \in Nat /\ place = n + r
      BY <1>1, <1>4, DivMod
  <2> HIDE DEF n, r
  <2>2. QED
      BY <2>1, <1>1
<1>11. first + BLOCK <= ss
    BY <1>1, <1>s, <1>4, BlockEndsBelow
<1>12. ((b + place) - r) + BLOCK <= end
  <2>1. b + place \in Nat /\ end \in Nat
      BY <1>2, <1>3, <1>4
  <2>2. ((b + place) - ((b + place) % BLOCK)) + BLOCK <= end
      BY <2>1, <1>1, <1>2, <1>4, BlockEndsBelow
  <2>3. QED
      BY <2>2, <1>9
<1>13. BlockOf(place) = first .. first + BLOCK - 1
    BY DEF BlockOf
<1> HIDE DEF r, ss, unit
<1>14. ASSUME NEW q \in BlockOf(place)
       PROVE  /\ q + 1 \in 1 .. ss
              /\ ZeroFilled(v, f)[q + 1] =
                  [tweak |-> Tweak(v, unit), place |-> q, plain |-> b + q]
  <2>1. q \in 0 .. ss - 1 /\ b + q < end
    <3>1. /\ place \in Nat /\ r \in Nat /\ BLOCK \in Nat /\ ss \in Nat /\ b \in Nat /\ end \in Nat
          /\ q \in place - r .. (place - r) + BLOCK - 1
        BY <1>1, <1>2, <1>3, <1>4, <1>10, <1>13
    <3>2. r <= place /\ (place - r) + BLOCK <= ss /\ ((b + place) - r) + BLOCK <= end
        BY <1>10, <1>11, <1>12
    <3>3. QED
        BY <3>1, <3>2, BlockIsInside
  <2>2. q + 1 \in 1 .. m
      BY <2>1, <1>1, <1>2, <1>3, <1>8
  <2>3. ZeroFilled(v, f)[q + 1] = f.ct[q + 1]
    <3>1. q + 1 \in 1 .. ss /\ q + 1 <= m
        BY <2>1, <2>2, <1>1, <1>3
    <3>2. QED
        BY <3>1 DEF ZeroFilled, ss, m
  <2>4. f.ct[q + 1] = OnDisk(v, v.payload_offset + b + q)
    <3>1. v.payload_offset + b + (q + 1) - 1 = v.payload_offset + b + q
        BY <2>1, <1>1, <1>3
    <3>2. QED
        BY <3>1, <2>2, <1>7
  <2>5. Tweak(v, unit) = v.iv_tweak + unit * (ss \div SECTOR)
      BY VolumeGeometry DEF Tweak, ss
  <2>6. OnDisk(v, v.payload_offset + b + q) =
            [tweak |-> v.iv_tweak + unit * (ss \div SECTOR), place |-> q, plain |-> b + q]
      BY <2>1, <1>s, <1>3, UnitOnDisk DEF b, ss
  <2>7. q + 1 \in 1 .. ss
      BY <2>1, <1>1
  <2>8. QED
      BY <2>3, <2>4, <2>5, <2>6, <2>7
<1>15. place \in BlockOf(place)
    BY <1>1, <1>4, <1>10, <1>13
<1> DEFINE tweak == Tweak(v, unit)
           cells == ZeroFilled(v, f)
<1>16. \A q \in BlockOf(place) :
           cells[q + 1] = [tweak |-> tweak, place |-> q, plain |-> b + q]
    BY <1>14
<1> HIDE DEF tweak, cells
<1>16d. ASSUME NEW q \in BlockOf(place) PROVE q + 1 \in DOMAIN cells
  <2>1. q + 1 \in 1 .. ss
      BY <1>14
  <2>2. QED
      BY <2>1 DEF cells, ZeroFilled, ss
<1>17. ASSUME NEW q \in BlockOf(place)
       PROVE  cells[q + 1].tweak = tweak /\ cells[q + 1].place = q
  <2>1. cells[q + 1] = [tweak |-> tweak, place |-> q, plain |-> b + q]
      BY <1>16
  <2>2. QED
      BY <2>1
<1>18. xts_decrypt_area(tweak, cells, place) = b + place
  <2>1. cells[place + 1] = [tweak |-> tweak, place |-> place, plain |-> b + place]
      BY <1>15, <1>16
  <2>2. cells[place + 1].plain = b + place
      BY <2>1
  <2>3. QED
      BY <2>2, <1>16d, <1>17 DEF xts_decrypt_area
<1>19. QED
    BY <1>18 DEF b, unit, ss, tweak, cells

LEMMA DecryptType ==
    ASSUME NEW v \in Volumes, NEW f, FrameOK(v, f), NEW tweak,
           NEW place \in 0 .. v.sector_size - 1
    PROVE  xts_decrypt_area(tweak, ZeroFilled(v, f), place) \in Int
<1>1. place + 1 \in 1 .. v.sector_size
    BY VolumeGeometry
<1>2. ZeroFilled(v, f)[place + 1] \in CipherCells
  <2>1. Zero \in CipherCells
      BY DEF Zero, Junk, CipherCells
  <2>2. place + 1 <= Len(f.ct) => f.ct[place + 1] \in CipherCells
    <3>1. f.ct \in Seq(CipherCells)
        BY DEF FrameOK, Frames
    <3>2. QED
        BY <3>1, <1>1, VolumeGeometry
  <2>3. QED
      BY <2>1, <2>2, <1>1 DEF ZeroFilled
<1>3. ZeroFilled(v, f)[place + 1].plain \in Int
    BY <1>2 DEF CipherCells
<1>4. QED
    BY <1>3 DEF xts_decrypt_area, Junk

(***************************************************************************)
(* Decrypting and copying: the next cells of the buffer, at least one and  *)
(* never more than asked for, are the plaintext of their addresses.        *)
(***************************************************************************)
LEMMA CopiedKeeps ==
    ASSUME NEW v \in Volumes, NEW f, NEW cursor, NEW later,
           FrameOK(v, f), CopiedIsPlain(v, f), UnitIsOnDisk(v, f, cursor),
           UnitRead(v, f, cursor)
    PROVE  /\ FrameOK(v, Copied(v, f))
           /\ CopiedIsPlain(v, Copied(v, f))
           /\ UnitIsOnDisk(v, Copied(v, f), later)
           /\ Len(Copied(v, f).buf) > Len(f.buf)
<1> DEFINE g    == Copied(v, f)
           take == Least(v.sector_size - Within(v, f), f.want - Len(f.buf))
           new  == Plain(v, f, take)
           n    == Len(f.buf)
<1>1. /\ n \in Nat /\ f.want \in Nat /\ n < f.want /\ f.offset \in Nat
      /\ v.sector_size \in Nat /\ Within(v, f) \in 0 .. v.sector_size - 1
      /\ f.buf \in Seq(Int) /\ f.stage = "fill"
  <2>1. /\ f.want \in Nat /\ f.offset \in 0 .. U64 - 1 /\ f.buf \in Seq(Int)
        /\ f.stage = "fill" /\ n < f.want
      BY DEF FrameOK, Frames, UnitRead
  <2>2. v.sector_size \in Nat /\ U64 \in Nat
      BY VolumeGeometry
  <2>3. n \in Nat /\ Within(v, f) \in 0 .. v.sector_size - 1
      BY FrameGeometry
  <2> HIDE DEF n
  <2>4. QED
      BY <2>1, <2>2, <2>3
<1>2. /\ take \in Nat /\ 0 < take
      /\ n + take <= f.want /\ Within(v, f) + take <= v.sector_size
  <2> HIDE DEF n
  <2> DEFINE left == v.sector_size - Within(v, f)
             rest == f.want - n
  <2>1. take = Least(left, rest)
      BY DEF n
  <2>2. left \in Nat \ {0} /\ rest \in Nat \ {0}
      BY <1>1
  <2> HIDE DEF take, left, rest
  <2>3. take \in Nat /\ 0 < take /\ take <= left /\ take <= rest
      BY <2>1, <2>2 DEF Least
  <2>4. QED
      BY <2>3, <1>1 DEF left, rest
<1>3. g = [f EXCEPT !.stage = "seek", !.ct = <<>>, !.buf = @ \o new]
    BY DEF Copied
<1> HIDE DEF take
<1>4. ASSUME NEW i \in 1 .. take
      PROVE  /\ Within(v, f) + i - 1 \in 0 .. v.sector_size - 1
             /\ new[i] = xts_decrypt_area(Tweak(v, Unit(v, f)), ZeroFilled(v, f), Within(v, f) + i - 1)
  <2>1. Within(v, f) + i - 1 \in 0 .. v.sector_size - 1
      BY <1>1, <1>2
  <2>2. QED
      BY <2>1 DEF Plain
<1>5. new \in Seq(Int) /\ Len(new) = take
  <2>1. \A i \in 1 .. take : new[i] \in Int
      BY <1>4, DecryptType
  <2>2. new \in [1 .. take -> Int]
      BY <2>1 DEF Plain
  <2>3. QED
      BY <2>2, <1>2
<1> HIDE DEF new
<1>6. /\ Len(f.buf \o new) = n + take
      /\ f.buf \o new \in Seq(Int)
      /\ \A j \in 1 .. n + take : (f.buf \o new)[j] = IF j <= n THEN f.buf[j] ELSE new[j - n]
  <2>1. \A s, t \in Seq(Int) :
            /\ s \o t \in Seq(Int)
            /\ Len(s \o t) = Len(s) + Len(t)
            /\ \A i \in 1 .. Len(s) + Len(t) :
                  (s \o t)[i] = IF i <= Len(s) THEN s[i] ELSE t[i - Len(s)]
      BY ConcatProperties
  <2>2. n = Len(f.buf) /\ f.buf \in Seq(Int) /\ new \in Seq(Int) /\ Len(new) = take
      BY <1>1, <1>5
  <2> HIDE DEF n
  <2>3. QED
      BY <2>1, <2>2
<1>7. <<>> \in Seq(CipherCells) /\ Len(<<>>) = 0
    BY EmptySeq
<1>8. /\ g \in Frames /\ g.offset = f.offset /\ g.want = f.want /\ g.stage = "seek"
      /\ g.ct = <<>> /\ g.buf = f.buf \o new
    BY <1>3, <1>6, <1>7 DEF FrameOK, Frames
<1> HIDE DEF g
<1>9. FrameOK(v, g)
    BY <1>1, <1>2, <1>6, <1>7, <1>8 DEF FrameOK
<1>10. ASSUME NEW j \in 1 .. n + take, f.offset + j - 1 < PlainEnd(v)
       PROVE  g.buf[j] = f.offset + j - 1
  <2>1. CASE j <= n
    <3>1. j \in 1 .. n
        BY <2>1, <1>1, <1>2
    <3>2. f.buf[j] = f.offset + j - 1
        BY <3>1, <1>10 DEF CopiedIsPlain
    <3>3. QED
        BY <3>2, <2>1, <1>6, <1>8
  <2>2. CASE j > n
    <3> DEFINE i == j - n
               place == Within(v, f) + i - 1
    <3>1. i \in 1 .. take /\ g.buf[j] = new[i]
      <4>1. n \in Nat /\ ~ (j <= n) /\ j - n \in 1 .. take
          BY <2>2, <1>1, <1>2
      <4> HIDE DEF n
      <4>2. QED
          BY <4>1, <1>6, <1>8
    <3>2. place \in 0 .. v.sector_size - 1
          /\ new[i] = xts_decrypt_area(Tweak(v, Unit(v, f)), ZeroFilled(v, f), place)
        BY <3>1, <1>4
    <3>3. Pos(f) = f.offset + n
      <4>1. PlainEnd(v) \in 0 .. U64 - 1 /\ U64 \in Nat \ {0}
          BY PlainEndIsAligned, VolumeGeometry
      <4>2. Pos(f) = (f.offset + n) % U64
          BY DEF Pos
      <4> DEFINE o == f.offset
                 e == PlainEnd(v)
      <4>3. /\ o \in Nat /\ n \in Nat /\ j \in Nat /\ e \in Nat /\ U64 \in Nat
            /\ n < j /\ o + j - 1 < e /\ e < U64
          BY <4>1, <2>2, <1>1, <1>2, <1>10
      <4> HIDE DEF n, o, e
      <4>4. o + n \in 0 .. U64 - 1
          BY <4>3, NoWrap
      <4>5. QED
          BY <4>1, <4>2, <4>4 DEF o
    <3>4. Unit(v, f) * v.sector_size + place = f.offset + j - 1
      <4>1. /\ Pos(f) = Unit(v, f) * v.sector_size + Within(v, f)
            /\ Unit(v, f) * v.sector_size \in Nat
          BY FrameGeometry
      <4> DEFINE u == Unit(v, f) * v.sector_size
                 w == Within(v, f)
                 o == f.offset
      <4>2. u \in Nat /\ w \in Nat /\ n \in Nat /\ o \in Nat /\ u + w = o + n
          BY <4>1, <3>3, <1>1
      <4> HIDE DEF n, u, w, o
      <4>3. u + (w + (j - n) - 1) = o + j - 1
          BY <4>2
      <4>4. QED
          BY <4>3 DEF u, w, o
    <3>5. Unit(v, f) * v.sector_size + place < PlainEnd(v)
        BY <3>4, <1>10
    <3> HIDE DEF place, i
    <3>6. QED
        BY <3>1, <3>2, <3>4, <3>5, DecryptsToPlain
  <2>3. QED
      BY <2>1, <2>2, <1>1, <1>2
<1>11. CopiedIsPlain(v, g)
    BY <1>6, <1>8, <1>10 DEF CopiedIsPlain
<1>12. UnitIsOnDisk(v, g, later)
    BY <1>8 DEF UnitIsOnDisk
<1>13. Len(g.buf) > n
    BY <1>1, <1>2, <1>6, <1>8
<1>14. QED
    BY <1>9, <1>11, <1>12, <1>13 DEF g, n

(***************************************************************************)
(* One of the steps is open to a frame at any time, or its read is done.   *)
(***************************************************************************)
LEMMA StepIsOpen ==
    ASSUME NEW v \in Volumes, NEW f, NEW cursor \in 0 .. U64 - 1, FrameOK(v, f)
    PROVE  \/ AtUnit(f) \/ Finished(f) \/ UnitRead(v, f, cursor)
           \/ f.stage = "fill" /\ Readable(v, f, cursor) # {}
<1>1. /\ f.stage \in {"seek", "fill"} /\ f.want \in Nat
      /\ Len(f.buf) <= f.want /\ Len(f.ct) <= v.sector_size
    BY DEF FrameOK, Frames
<1>2. Len(f.buf) \in Nat /\ Len(f.ct) \in Nat /\ v.sector_size \in Nat
    BY FrameGeometry, VolumeGeometry
<1>3. CASE f.stage = "seek"
    BY <1>1, <1>2, <1>3 DEF AtUnit, Finished
<1>4. CASE f.stage = "fill" /\ ~ UnitRead(v, f, cursor)
  <2> DEFINE room  == v.sector_size - Len(f.ct)
             avail == Available(v, cursor)
  <2>1. room \in Nat \ {0}
      BY <1>1, <1>2, <1>4 DEF UnitRead
  <2>2. avail \in Nat \ {0}
    <3>1. v.total_size \in Nat /\ cursor \in Nat
        BY VolumeGeometry
    <3>2. avail \in Nat
        BY <3>1 DEF Available
    <3>3. QED
        BY <3>2, <1>4 DEF UnitRead
  <2>3. Readable(v, f, cursor) = 1 .. Least(room, avail)
      BY DEF Readable
  <2> HIDE DEF room, avail
  <2>4. 1 \in 1 .. Least(room, avail)
      BY <2>1, <2>2 DEF Least
  <2>5. QED
      BY <2>3, <2>4, <1>4
<1>5. QED
    BY <1>1, <1>3, <1>4

(***************************************************************************)
(* Each of these steps keeps what the frame was called with.               *)
(***************************************************************************)
LEMMA StepKeepsCall ==
    ASSUME NEW v, NEW f, f \in Frames, NEW cursor, NEW n
    PROVE  /\ Sought(f).offset = f.offset /\ Sought(f).want = f.want
           /\ Filled(v, f, cursor, n).offset = f.offset /\ Filled(v, f, cursor, n).want = f.want
           /\ Copied(v, f).offset = f.offset /\ Copied(v, f).want = f.want
BY DEF Frames, Sought, Filled, Copied
=============================================================================
