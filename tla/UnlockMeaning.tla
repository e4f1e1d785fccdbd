--------------------------- MODULE UnlockMeaning ---------------------------
(***************************************************************************)
(* What an answer of an unlock means, said of the container and the        *)
(* passphrase alone: no loop, no clock, no order of evaluation beyond the  *)
(* order of the slots and the digests in the header.                       *)
(***************************************************************************)
EXTENDS LuksHeader

ParsedHeader(c) == IF c.version = 1 THEN Header1(c.body) ELSE Header2(c.body)

Readable(c) == (c.version = 1 /\ Parse1(c) = "Ok") \/ (c.version = 2 /\ Parse2(c) = "Ok")

(***************************************************************************)
(* No machine however fast derives a key of this slot.                     *)
(***************************************************************************)
KdfUnusable(s) ==
    \/ s.key_size > MAX_KEY_BYTES
    \/ s.kdf.type = "pbkdf2" /\ s.kdf.hash \notin Hashes
    \/ s.kdf.type # "pbkdf2" /\ (\/ s.kdf.memory > MAX_ARGON2_MEMORY_KIB
                                 \/ ~ Argon2Accepts(s.kdf, s.key_size))

(***************************************************************************)
(* The slot cannot be judged: it is refused whatever the passphrase.       *)
(***************************************************************************)
SlotUnusable(c, s) ==
    \/ KdfUnusable(s)
    \/ s.stripes > MAX_STRIPES
    \/ MaterialComplete(c, s) /\ ~ MaterialSupported(s)

DigestUnusable(d) == d.len > MAX_KEY_BYTES \/ d.hash \notin Hashes

(***************************************************************************)
(* The master key a slot yields to a passphrase, and the digests that have *)
(* a say on it.                                                            *)
(***************************************************************************)
Yields(s, p) == Merged(s, p, HeaderRounds(s.kdf))

Judges(h, s) == {e \in 1 .. Len(h.digests) : References(h.digests[e], s)}

Confirms(d, k) == DigestMatches(d, k, Rounds(d.iterations))

(***************************************************************************)
(* The slot says no: it can be judged, and its material is cut off or no   *)
(* digest confirms what it yields.                                         *)
(***************************************************************************)
Declines(c, h, s, p) ==
    s.active =>
        /\ ~ SlotUnusable(c, s)
        /\ MaterialComplete(c, s) =>
              \A e \in Judges(h, s) :
                  /\ ~ DigestUnusable(h.digests[e])
                  /\ ~ Confirms(h.digests[e], Yields(s, p))

(***************************************************************************)
(* The slot says yes: a digest confirms what it yields, and no digest      *)
(* before that one is unusable.                                            *)
(***************************************************************************)
Accepts(c, h, s, p) ==
    /\ s.active
    /\ ~ SlotUnusable(c, s)
    /\ MaterialComplete(c, s)
    /\ \E e \in Judges(h, s) :
          /\ Confirms(h.digests[e], Yields(s, p))
          /\ \A f \in Judges(h, s) : f <= e => ~ DigestUnusable(h.digests[f])

(***************************************************************************)
(* The slot cannot be judged: it is unusable, or a digest is that has its  *)
(* say before any confirms.                                                *)
(***************************************************************************)
Obstructs(c, h, s, p) ==
    /\ s.active
    /\ \/ SlotUnusable(c, s)
       \/ /\ MaterialComplete(c, s)
          /\ \E e \in Judges(h, s) :
                /\ DigestUnusable(h.digests[e])
                /\ \A f \in Judges(h, s) :
                      f < e => ~ Confirms(h.digests[f], Yields(s, p))

Reached(c, h, p, i) == \A j \in 1 .. i - 1 : Declines(c, h, h.keyslots[j], p)

(***************************************************************************)
(* The answers a call on container c with passphrase p may give.           *)
(*   - The key of the first slot that accepts, all before it declining.    *)
(*   - "Wrong passphrase" only when every slot declines.                   *)
(*   - A refusal of parameters only at a slot reached that has such.       *)
(*   - A parser's error only for a container it is true of.                *)
(*   - Running out of time and failing I/O, at any time.                   *)
(***************************************************************************)
Opened(c, p, k) ==
    /\ Readable(c)
    /\ LET h == ParsedHeader(c)
       IN \E i \in 1 .. Len(h.keyslots) :
              /\ Reached(c, h, p, i)
              /\ Accepts(c, h, h.keyslots[i], p)
              /\ k = Yields(h.keyslots[i], p)

WrongPassphrase(c, p) ==
    /\ Readable(c)
    /\ LET h == ParsedHeader(c) IN Reached(c, h, p, Len(h.keyslots) + 1)

ParametersRefused(c, p) ==
    /\ Readable(c)
    /\ LET h == ParsedHeader(c)
       IN \E i \in 1 .. Len(h.keyslots) :
              /\ Reached(c, h, p, i)
              /\ Obstructs(c, h, h.keyslots[i], p)

HeaderRefused(c, err) ==
    \/ err \in {Parse1(c), Parse2(c)} \ {"Ok"}
    \/ err = "NotLuks" /\ ~ c.magic
    \/ err = "UnsupportedVersion" /\ c.version \notin {1, 2}

Transient == {"Io", "UnlockBudgetExceeded", "DerivationBudgetExceeded"}

Refusals == {"Unsupported", "KeyLengthExceeded", "DerivationMemoryExceeded",
             "ImplausibleStripes"}

MayAnswer(c, p, r) ==
    \/ r.err = "Ok" /\ Opened(c, p, r.key)
    \/ r.err = "AuthenticationFailed" /\ WrongPassphrase(c, p)
    \/ r.err \in Refusals /\ ParametersRefused(c, p)
    \/ HeaderRefused(c, r.err)
    \/ r.err \in Transient
=============================================================================
