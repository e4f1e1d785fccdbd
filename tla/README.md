# luks-forensic: a TLA+ model

TLA+ modules for `luks-core` (`core/`) and `luks-forensic` (`forensic/`): parsing
a LUKS1 or LUKS2 header, auditing it, unlocking the container from a passphrase
within a time budget, reading the decrypted payload, sharing it between threads,
and the VFS layer around all of it. TLC checks the modules on small instances;
TLAPS proves what the checks show, liveness apart, for every value of the
constants; of liveness it proves the half that needs no fairness, that an unlock
and a read cannot go on for ever.

## 1. Inventory

| Part | State | Operations | Hard behaviour | What makes it correct |
|---|---|---|---|---|
| Key derivation (`crypto.rs`) | none | `derive_key_within`, `derive_key_argon2_within`, `xts_decrypt_area` | cost chosen by the header, speed by the machine; ceilings before work | refuse, never reduce; nothing is spent before a ceiling is checked |
| LUKS1 header (`header.rs`, `bytes.rs`) | none | `Luks1Header::parse`, `active_keyslots` | short and lying headers | a header is read as it lies on disk, or refused |
| LUKS2 header (`header2.rs`) | none | `Luks2Header::parse`, `crypt_segment`, `parse_*` | declared sizes; JSON objects dropped, fields defaulted or cut to 32 bits; ids ordered as strings | the same, object by object |
| AF splitter (`af.rs`) | none | `material_len`, `merge` | stripe count chosen by the header; short last chunk; material rounded to sectors | inverse of the split; a changed stripe gives another key; bounded |
| Unlock (`volume.rs`) | deadline, loop cursors, slot key, candidate | six `unlock*` entry points, `recover_master_key1/2`, `UnlockDeadline::remaining` | time passing between any two derivations; one slot of several failing; keys per slot | the right answer, within the budget, always |
| Decrypted payload (`volume.rs`) | reader cursor, position | `read_at`, `Read`, `Seek`, `payload_size` | short reads, errors in the middle, end of container in the middle of a unit, unit size against tweak, unit size chosen by the header | a volume is its plaintext |
| VFS source (`vfs.rs`) | Mutex, poison flag | `LuksSource::read_at`, `len` | threads sharing one cursor, panics under the guard | each reads at its own offset; one's failure is not another's |
| VFS layer (`vfs.rs`) | scheme, loop over candidates, last error | `LuksLayer::new`, `open` | several credentials, each with a budget; version detected twice; the peek may fail | an answer is true of the container and the candidate it stands for |
| Errors (`error.rs`) | none | `LuksError` | | an error says what happened |
| Audit (`forensic/`) | none | `audit1` | slots of which some are not in use | what it says is on the disk, and all of it |

An unlock calls the parsers, then per slot the derivation, the reader, the XTS
decryption, the merge and per digest the derivation again. A successful one
moves the reader into a `DecryptedPayload`; `LuksLayer::open` wraps that into a
`LuksSource`, whose threads call its `read_at` under a Mutex. Nothing is
persisted and there are no messages; the nondeterminism is the time things take, what
the reader answers, what the container says, and the threads of the VFS.

The hazards these behaviours expose the code to are listed at their lines in
`PROJECT.json`, with the properties that would catch them.

## 2. Modules

    Kdf            budgeted derivations                     crypto.rs
     └ LuksHeader  containers, outcome of both parsers      header.rs, header2.rs, af.rs
        ├ Unlock          one unlock call, step by step     volume.rs
        └ UnlockMeaning   which answers are right, without loop or clock
    UnlockPromise         one right answer, given once (abstract)
    UnlockRefinement      Unlock implements UnlockPromise
     └ Layer              LuksLayer around the whole unlock vfs.rs
    UnlockClaims, LayerClaims    statements of the docs the code does not keep
    MCUnlock, MCLayer            instances
    UnlockProofs ─ UnlockRefinementProofs ─ LayerProofs    theorems

    ReadAt         one read_at on a frame and a cursor      volume.rs, crypto.rs
     ├ Payload     DecryptedPayload with one caller         volume.rs
     └ Source      LuksSource with several threads          vfs.rs
    PlainView      a stream with a position (abstract)
    MCPayload, MCSource    instances
    ReadAtProofs ─ PayloadProofs, SourceProofs             lemmas, theorems

    Luks1Header    the LUKS1 header as bytes                bytes.rs, header.rs
     └ Audit       audit1 of a parsed header                forensic/src/lib.rs
    Luks2Header    the LUKS2 header as a JSON document      header2.rs
    Examine        parsers and audit on what is on disk
    MCExamine      instances
    ExamineProofs  theorems

    AfMerge        split, damage, material_len and merge    af.rs
    MCAfMerge      instances
    AfMergeProofs  theorems

**Kdf.** A derivation is an operator of its parameters, its budget and the time
`pass` of one calibration unit on this machine; it gives the error, the time
spent and the rounds really run. `cost` is PBKDF2's iteration count or Argon2's
time cost. Linearity in the rounds is assumed, as the code assumes it where it
projects (`crypto.rs:78`, `:186`). Key bytes are not modelled: a key is the
secret and the rounds it was derived with, and equals another only if both do.

**LuksHeader.** A container has the fields the code reads, plus what the bytes
it does not interpret stand for (which passphrase sealed a slot, which master
key it holds, of which a digest was taken). `Parse1`/`Parse2` give the outcome
of everything before the recovery loop; `Header1`/`Header2` bring both versions
into one shape, since the two loops are the same up to what they read. In LUKS1
one digest of 20 bytes lists every slot; in LUKS2 every parsed slot is active.
Decrypting and merging slot material gives the sealed key exactly when secret,
rounds and cipher are the ones it was sealed with, and `Junk` otherwise. This
idealises PBKDF2, XTS and the AF merge as free of collisions. A slot without
stripes is the exception: `af_merge` starts from zeros and merges nothing into
them (`af.rs:51-65`), so its candidate is `ZeroKey` under every passphrase. A
digest may be of `ZeroKey` like of any other key. It is one value for all key
lengths, since HMAC pads its key with zeros and zero keys of different lengths
have the same digest. The material of such a slot has no bytes, and is complete
wherever the header says it lies.

**Unlock.** State: the arguments, `elapsed` (time since `UnlockDeadline::new`),
`spent` (the latest derivation's), the header, the two loop cursors, slot key
and candidate, the answer. One action per stretch of code between two points
where time passes or the loop branches:

| Action | Code |
|---|---|
| `Detect` | `unlock_with_passphrase_within` |
| `ParseLuks1`, `ParseLuks2` | `unlock1_inner`, `unlock2_inner` up to the loop |
| `SkipInactive`, `OutOfSlots` | `active_keyslots()`, end of the outer loop |
| `OutOfTime` | `remaining(tried)?` before either derivation |
| `DeriveSlotKey` | the slot's derivation and its `?` |
| `RefuseStripes`, `LeaveSlot`, `RecoverCandidate` | `material_len?`, the short read's `continue`, `xts_decrypt_area?` and `merge?` |
| `SkipDigest`, `VerifyDigest`, `OutOfDigests` | the loop over digests |
| `IoError`, `Finish` | a failing seek or read; `seek(End)` and `Ok` |

**UnlockMeaning / UnlockPromise / UnlockRefinement.** The reference: from the
container and the passphrase alone, `MayAnswer` says which answers are right.
The first slot that accepts opens, if all before it decline; "wrong passphrase"
needs every slot to decline; a refusal needs a slot reached that is unusable;
time and I/O errors are allowed at any time. `KeepsPromise` is the refinement
`answer <- result`.

**ReadAt / Payload / PlainView.** Addresses count cells; `BLOCK` cells make a
cipher block. A ciphertext cell carries tweak and place, and decrypts to its
plaintext (its own address) only under that tweak, at that place and with its
whole block. `read_at` is a frame that goes through seek, reads of any length,
decryption and copy, unit by unit. The unit is what the header declares, from
one sector on: the code takes `.max(512)` of it and no more (`volume.rs:219`).
dm-crypt knows no unit that is not a number of sectors, so such a volume has no
plaintext to speak of (`PlainEnd`), but reading it must still keep to its bounds
and end. A unit buffer larger than `MAX_ALLOC` is not to be had: `Abort` ends
the process, as Rust's allocator does, and with it every thread of `Source`. One
beyond what a `Vec` may hold panics instead, which is among the failures. `u64` is `U64` values and sums wrap, as in a
build without overflow checks; the panic of a build with them is among the
failures. `PlainView` is the stream a caller may rely on, and `IsPlaintext`
says that `Payload` implements it. Its content is promised up to `known` only:
not of cells past the end nor of a cipher block the end cuts through. A seek to a target a `u64` holds
goes exactly there; one beyond is cut by `as u64` (`volume.rs:499`) and may land
anywhere, but its answer is the position the next read reads at.

**Source.** Threads, the Mutex and its poison flag, one shared cursor. A reader
that panics under the guard kills its thread, frees and poisons the Mutex.

**Layer.** `LuksLayer` as a caller of `Unlock`: every attempt is a whole run of
`Unlock`'s actions, and the variables of `Unlock` are that call's frame.
`New` is the peek at the version (which may fail: then the scheme is LUKS2),
`Open` asks the store for candidates, `SkipUnwired` passes a key file,
`Attempt`, `UnlockStep` and `Attempted` are one
`unlock_with_passphrase` with its own total budget, `Exhausted` maps the last
error. A process that aborts in an allocation of the unlock is a stage of its
own. Calls of `open` share nothing they write (`&self`, fresh cursors), so one
runs at a time, and any number one after the other.

**Luks1Header, Audit.** Bytes are bytes here, and the parser reads them at the
offsets of the code. Integers stay big-endian digits, since none is computed
with. `from_utf8_lossy` replaces a byte that stands alone. A finding of the audit
is its kind and evidence; wording is left out.

**Luks2Header.** A JSON value is what `get`, `as_str`, `as_u64` and base64 make
of it: absent, a text, a number, an array, something else. The members of the
nested objects `af`, `area` and `kdf` are fields of the keyslot. Of a byte string
its length is kept. `IdOrder` is the order of a `serde_json` map: strings, each
once. A `filter_map` over a map or an array is an `Option` per id or item, a
sequence of at most one, and the concatenation of them.

**Examine.** The composition without a passphrase. An image is what was written
and how many bytes of it there are; `OnDisk` lays the LUKS1 fields out by the
format's table, independently of the offsets in `parse1`. `ImagesAssumption`
gives each field its width (`DiskHeader`) and, of a JSON document, says that its ids
are among those of `IdOrder` and its arrays are sequences (`Document`): no
restriction, since the ids of finitely many documents are finitely many and have
an order. Actions: `ParseLuks1`,
`ParseLuks2`, `Audit1`. The unlock starts from `LuksHeader`'s abstract headers,
which are what these parsers answer, reduced to what the unlock looks at.

**AfMerge.** `Cells` with an exclusive or, and an arbitrary hash. `SplitStripe`
and `SplitLast` are the splitter of the tests (cryptsetup's, on real disks),
`Erase` overwrites one stripe, `Merge` takes any length up to `material_len`, as
the public `af_merge` does, and `MergeStripe`/`MergeLast` are its loop, in which a
stripe beyond the material contributes nothing.

## 3. Runs

Passing (every action of the next-state relations fires):

| Run | Instance | Shows |
|---|---|---|
| `unlock` | every parse outcome, every refusal, dear and cheap derivations, up to 3 slots and 3 digests; slots without stripes within the container and past its end, digests of the key of zeros; every pair of 7 LUKS1 slots; every pair of 8 LUKS2 slots with 6 x 2 digests; budgets 0, 3, 20; calibration unit 0..2; access 0..1 | `KeepsPromise`, `OpenedKeyIsGenuine`, `OverrunBounded`, `NoWorkAfterDeadline`, `CeilingRefusalIsFree`, `UnlockAdvances`, `Returns`, `TypeOK` |
| `payload` | 9 volumes: unit of one or two sectors, of one and a half, of more than the allocator has; whole and cut-off last units, empty payload, another mode; buffers to 5 cells | `IsPlaintext`, `ReadStaysInPayload`, `ReadAdvances`, `CallsReturn`, `TypeOK` |
| `source` | 2 threads, 2 calls each, 5 volumes, buffers to 3 cells | `ReadsAreSlices`, `GuardIsAlive`, `PanicStaysLocal`, `ReadsReturn`, `TypeOK` |
| `layer` | both versions, refusals, an abort, a foreign image; 6 stores with none, one, two, three candidates, key files between them, one store for LUKS1 only; budget 4; peeks that fail | `OpenIsHonest`, `OpenTimeBounded`, `DetectionsAgree`, `OpensReturn`, `LayerTypeOK` |
| `af_merge` | cells are bits; blocks of 3, digests of 2, sectors of 4 cells; 0, 1, 3 and 4 stripes under a ceiling of 3; every key, 3 fillers, every other content of one stripe | `RoundTrip`, `ErasureDestroys`, `MergeReturns`, `TypeOK` |
| `examine` | 1,273 images: LUKS1 texts with NULs at the start, inside, at the end and not at all, every pair of 6 slot kinds around a third; one field of one JSON object absent, of another type, zero, too large or unreadable; lengths on both sides of every boundary | `ParsedAsWritten`, `RefusedForCause`, `AuditIsTrue`, `JsonIsFaithful`, `SegmentIsFirst` |

The largest are `source` with 951,313 states and `unlock` with 355,189.

Why the bounds are enough. The recovery loop carries nothing from slot to slot
but time and its cursors, so two or three slots show every effect of an earlier
one on a later one; the theorems below remove the bound. Budgets are none,
that of one derivation (`DERIVATION_BUDGET = 3`) and more than a whole unlock
takes; in between, time runs out wherever the clock lets it. A
read of 5 cells spans three units of two; two threads are all an interleaving
of a seek with a read needs. `open` carries its last error and its clock from
candidate to candidate, and three show what a later one does to an earlier
one's. A block of 3 cells with a digest of 2 has a whole and a partial chunk,
and 3 stripes of 3 cells fill no whole number of sectors. The parsers take
objects and fields one by one, so one altered field per document is enough but
for what objects do to each other, and there are others beside it; `U32 = 8`
makes 9 and 17 overflow; the id "10" sorts before "2".

Refuted: each states what a document or comment says, and TLC shows that the
code does otherwise (`findings` in `PROJECT.json` quote both).

| Run | Statement |
|---|---|
| `claim_each_slot` | each slot is tried; a refused slot ends the unlock |
| `claim_aes_only` | another cipher is refused; the data segment's cipher name is never looked at |
| `claim_empty_digest` | a wrong key fails the digest; an empty digest confirms any |
| `claim_no_stripes` | a volume opens by a slot that matches the passphrase; a slot without stripes yields the key of zeros under any, and a digest of that key opens the volume |
| `claim_header_size` | the LUKS2 header size is checked before use; it sizes an allocation first |
| `claim_swallowed` | "Never swallow an error" (CONTRIBUTING.md:62); `open` keeps the last candidate's error only, so a timeout or I/O error of the right passphrase is reported as a wrong one |

Six more of the kind, met while modelling and left without a run. The sector size
of a LUKS2 segment is checked from below only and sizes a buffer for every unit
(`volume.rs:219`, `:451`), where SECURITY.md:44-49 says that a declared length
"cannot drive [...] an allocation bomb"; the first read of such a volume ends the
process (`Abort` fires in `payload` and `source`). `read_at` fills what it wants of
a unit the container does not have, or not all of, with the decryption of zeros,
where its comment says "bytes past the end read back as zero"
(`volume.rs:436-437`). Each ceiling
on time is exceeded by up to one calibration unit, which is measured before it
is projected; `OverrunBounded` states exactly that. `slots_tried` of a timeout
counts finished slots, so it is one short when time runs out before a digest.
The mode of a LUKS2
segment is not looked at during unlock either, so the error marked
"cov:unreachable" at `volume.rs:461` is reached by reading such a volume
(`RefuseMode` fires in `payload`). `payload_offset + unit * ss`
(`volume.rs:449`) is a plain `u64` sum with an offset the header chooses
(`Overflows` in ReadAt), where CONTRIBUTING.md:58-60 asks for checked arithmetic.

**Fairness.** `Unlock`: weak fairness of the whole step: a call runs on its
caller's thread and waits for no one. `Payload`: weak fairness of the steps of a
running call other than I/O errors, so it must return without the reader
failing; the abort of a unit no buffer is to be had for is such a step, since
the code has no other way on. `Source`: the same per thread. A std Mutex promises no order; each
thread makes boundedly many calls (`MaxCalls`), so weak fairness of `Lock`
suffices, and nothing is claimed of a thread overtaken for ever. `Layer`: weak
fairness of the steps of an open that was called, for the same reason as the
unlock, none of `New` and `Open`. `AfMerge`: the same of the merge's loop, none
of its caller. `Examine` has no fairness and no liveness: each parser is one step.

`CHECK_DEADLOCK FALSE` is set where the system may stop: an unlock that has
returned, threads that have made their calls, a process that has aborted
(`payload` too, in a large unit), a merge that has ended, a header that was audited.

## 4. Proofs

From the named assumptions (`KdfAssumption`, `NamesAssumption`,
`HeaderAssumption`, `UnlockAssumption`): the ceilings and times are natural
numbers, the derivation budget and the calibration count are not zero, `ZeroKey` is a
master key, master keys are
distinct from `Junk` and `NoKey`, and every container is well typed. Number and
size of containers, slots, digests and budgets are arbitrary.

`UnlockProofs`:

* `TypeCorrect`: `TypeOK` is inductive (`TypeStep`, one step per action). It
  includes the control facts the others use: which keys exist at which label.
* `Overrun`: `OverrunBounded` is not inductive, since a step from a state
  already past the total could go further. `TimeInv` adds how far the clock may
  be at each label: a derivation starts below the total and is granted at most
  what is left, so it ends within one calibration unit of it, and the only
  access that follows adds `MaxIo`.
* `DeadlineStopsWork` and `CeilingsAreFree` follow from `TypeOK` for each action.
  The first says that a call about to derive (`AtDerivation`) is refused with the
  timeout once the total is used up, and that any other step derives nothing
  and takes one access at most.
* `UnlockGoesForward`: every step goes down in one lexicographic order: the phase
  of the call, then the slots left, the turn within a slot, the digests left.
  `TypeOK` bounds all four, so an unlock has finitely many steps whatever the
  header says. `Returns` adds that it does not stop before its end.

`UnlockRefinementProofs`:

* `Refinement`: `MeaningInv` says that every slot passed declines, every digest
  passed of the current slot neither is unusable nor confirms, and slot key
  and candidate are what the current slot yields. Each answering action then
  maps to `Answer`, all others to a stutter.
* `GenuineKey`: with `GenuineInv`, for every header. The key comes from an active
  slot that the confirming digest lists. What else is true of it depends on what
  the header has: a digest with bytes was taken of that key, a slot with stripes
  then held it sealed under the caller's passphrase, and a slot without stripes
  yields `ZeroKey` and never asked for a passphrase. The two exceptions are real
  and have runs of their own, `claim_empty_digest` and `claim_no_stripes`.

`LayerProofs`, with `LayerAssumption` (the budget is one of the unlock's, stores
hold sequences of credentials):

* `LayerTypeCorrect`, `HonestOpen`, `OpenTakesItsTime` and `OneVersion` all follow
  from one inductive invariant, `LayerInv`. Inside an attempt it carries the
  unlock's own invariants (`TypeOK`, `TimeInv`, `MeaningInv`), for which the step
  lemmas of the two modules above are cited, not proved again; `Answered` adds
  that the answer a finished attempt holds is one `MayAnswer` allows. Between
  attempts, `Account` says that the last error is a true answer to the latest candidate passed
  that carries a passphrase (and that there was none if there is no error),
  `Tally` that the time so far is within one bound per candidate passed, and
  `Dispatched` that the unlock's branch is the one the container's version asks
  for. `OpenIsHonest` alone is not inductive: `Exhausted` turns what the loop
  remembers into an answer.

`AfMergeProofs`, from `AfAssumption` (sizes), `CellAssumption` (exclusive or),
`HashAssumption` (a hash has `DIGEST_SIZE` cells) and, for the last theorem only,
`CollisionFree`. The last is an idealisation: it takes the first m cells of the
hash of a chunk of m cells as injective, for a short last chunk too.

* `TypeCorrect`: `TypeOK` is inductive.
* `MergeInvertsSplit`: by `RoundInv`, for any hash of that length. On undamaged material the
  stripes take the split's accumulators from one to the next, the last stripe
  hides the key under the last one, and a merge of whole material has the
  split's accumulator at every stripe. `MaterialHoldsStripes` shows that
  `material_len`, rounded up to sectors, leaves no stripe out.
* `AnyStripeMatters`: by `MergeInv`, which turns these implications into
  equivalences. `Trail` says that a stripe takes one accumulator of the split to
  the next exactly if it is not damaged; `Hidden`, the same of the last stripe
  and the key; `InStep`, that the merge has the split's accumulator exactly as
  long as no damaged stripe was passed. This needs that diffusing is injective
  (`DiffuseInjective`), by the division of a block into chunks.

No induction over data is needed, since the state keeps every accumulator of the
split.

`ReadAtProofs`, from `ReadAtAssumption` (cipher blocks divide sectors, a unit has
at least one sector, a volume's unit, offset and size are each a `u64`): the lemmas on one `read_at`
that `Payload` and `Source` share. `FrameOK` types a frame at each label and
keeps its counters consistent, `UnitIsOnDisk` says that what was read of the
current unit is what the disk has there and that the cursor stands behind it,
`CopiedIsPlain` that what was copied out so far is plaintext. Each step of
`read_at` keeps the three (`SoughtKeeps`, `FilledKeeps`, `CopiedKeeps`), a read
gets at least one cell of the unit, and a copy at least one of the buffer.
`DecryptsToPlain` is the heart: every whole cipher block of a unit that was read
decrypts to its plaintext, since the tweak the code computes from the unit is
the one the disk was written with, for any number of sectors in a unit
(`UnitOnDisk`). For a unit that is not a number of sectors `PlainEnd` is 0 and
nothing is claimed of the content; the rest holds all the same.

`PayloadProofs`, with `PayloadAssumption` (offsets are `u64`, jumps are within it):

* `TypeCorrect`, `StaysInPayload` and `Refinement` follow from `PayloadInv`: the
  three invariants of the frame, and that the running call's frame is the whole
  of what its caller asked for, clamped if it is a `Read`. `IsPlaintext` says
  nothing until a call returns, so the refinement needs the invariant to carry,
  through every unit, short read and retry, what the returning step then claims.
  A returning call maps to a step of `PlainView`, any other step, the abort
  included, to a stutter.
* `ReadGoesForward`: every step of a running call copies more out, or begins the
  unit the next copy needs, or has more of it. `TypeCorrect` bounds what is
  copied by what was asked for and the ciphertext by the unit, so a call has
  finitely many steps, for any geometry and any sequence of short reads.

`SourceProofs`, with `SourceAssumption`; any set of threads, any number of calls:

* `TypeCorrect`, `MutualExclusion`, `HolderGoesOn`, `AnswersAreSlices` and
  `PanicIsLocal` follow from `SourceInv`, which says of each thread that it reads exactly while it holds
  the Mutex (`Guarded`), that its frame is one of a read of its own (`FrameInv`,
  `Clamped`), that its last answer was a slice (`IsSlice`), and that the shared
  cursor is where its own frame left it as long as it holds the Mutex
  (`CursorIsOwn`). The last is what
  sharing could break: with `Guarded` it is preserved because no thread moves
  the cursor without the Mutex, and a new holder seeks before it reads.
  `HolderGoesOn` is `Guarded` the other way round, with `StepIsOpen` of
  `ReadAtProofs`: the steps of `read_at` leave no frame without one.

`ExamineProofs`, from `ImagesAssumption` and `Luks2Assumption`; any content of
every field, any number of JSON objects and any length of the buffer:

* `ParsesAsWritten`: `Layout` follows the fields through the concatenation of
  `OnDisk` and finds each at its offset of the format's table, `SlotLayout` the
  same of a keyslot record; `ReadsWhatLies` says that the readers of `bytes.rs` at
  that offset give that field, and `CstrSpells` that a text ends at its first NUL
  (the least index with one, `LeastOf`) or its field's end.
* `RefusesForCause`: `Parse1Answers` and `Parse2Answers` give the answer of each
  parser case by case. A LUKS1 buffer is a prefix of what is on disk
  (`BufferIsPrefix`), so the magic and the version it shows are the disk's
  exactly if it is long enough; zeros read past its end are no magic.
* `AuditSaysAll`: `Tells` is the invariant of `audit1`'s loop, over the list as it
  grows: after k slots it has named exactly the low ones among them, in order
  (`TurnTells`, cited for each of the eight turns). `LowOnDisk`, `CountOnDisk` and
  `WeakOnDisk` carry the parsed header back to the disk; the last needs that a
  field spells one text only (`SpellsOnce`).

* `ObjectsAreFaithful` and `DecryptsFirstSegment`: `SlotRead`, `SegmentRead` and
  `DigestRead` say which objects parse and to what. What the concatenation of
  the options holds is an induction over the document, done without an induction
  theorem: `FlattenSeq` is a recursive function, whose recursion `FlattenExists`
  and `FlattenUnfolds` show to have a solution, and `FlattenPicks` takes the
  least prefix (`LeastOf`) that would be concatenated wrongly and refutes it by
  `PicksNext`. `Picks` is the relation it keeps: every item comes from an option
  that holds it, in order, and none is left out. `RowListed` states the result
  once for the three maps (`KeyslotsListed`, `SegmentsListed`, `DigestsListed`)
  and a digest's list of slots (`TextsNamed`).

Only model-checked: the liveness properties (`Returns`, `CallsReturn`,
`ReadsReturn`, `OpensReturn`, `MergeReturns`), since fairness and `ENABLED` are
beyond the prover. For the unlock and the read, `UnlockGoesForward` and
`ReadGoesForward` leave to TLC that some step is possible until the end; for the
threads, `HolderGoesOn` leaves the order in which the Mutex is given.

## 5. Not modelled

* JSON syntax, base64 and UTF-8 sequences of several bytes: a document either
  parses to values or does not, a text either decodes or does not.
* A digest's list of `segments`, which the code never parses: which digest
  confirms which segment's key makes a difference only during reencryption.
* The 64-bit overflow of `material_len`'s product: key lengths are checked
  against `MAX_KEY_BYTES` and stripes against `MAX_STRIPES` before.
* Hashes, ciphers and Argon2: external crates, by their outcome.
* `VolumeInfo`, `Display` texts, notes of findings: wording.
* The fuzz targets, oracle tests and CI.

## 6. Plan

Every safety invariant, action property and refinement that a passing run checks
is proved. Two extensions would say more. A model of reencryption would need
segments in digests and a second key, once the code reads them. For `LuksLayer`,
that an open goes forward through its candidates could be stated as
`UnlockAdvances` is for the unlock.
