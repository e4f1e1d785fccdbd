------------------------------ MODULE Payload ------------------------------
(***************************************************************************)
(* A DecryptedPayload in the hands of one caller: Read, Seek and read_at   *)
(* (core/src/volume.rs), over a reader that gives short reads and fails.   *)
(***************************************************************************)
EXTENDS ReadAt

CONSTANTS
    MaxLen,    \* longest buffer a caller passes, in cells
    Offsets,   \* offsets a caller passes to read_at and seek(Start)
    Jumps      \* offsets a caller passes to seek(End) and seek(Current)

ASSUME PayloadAssumption ==
    /\ MaxLen \in Nat
    /\ Offsets \subseteq 0 .. U64 - 1
    /\ Jumps \subseteq -U64 .. U64

VARIABLES
    vol,       \* the volume
    cursor,    \* the position of the underlying reader
    position,  \* DecryptedPayload.position
    call,      \* the operation whose read_at is running, and the caller's buffer,
               \* until the process is gone
    frame,     \* its frame
    reply      \* the answer to the latest call, until the next one

vars == <<vol, cursor, position, call, frame, reply>>

NoCall  == [op |-> "none", asked |-> 0]
Aborted == [op |-> "aborted", asked |-> 0]
InCall  == call \notin {NoCall, Aborted}

Answer(op, ok, from, asked, got) ==
    [op |-> op, ok |-> ok, from |-> from, asked |-> asked, got |-> got]

NoAnswer == Answer("none", TRUE, 0, 0, <<>>)

Init ==
    /\ vol \in Volumes
    /\ cursor = 0
    /\ position = 0
    /\ call = NoCall
    /\ frame = Frame(0, 0)
    /\ reply = NoAnswer

-----------------------------------------------------------------------------
(***************************************************************************)
(* Read::read: nothing at or past the end, else a read_at clamped to it.   *)
(* asked remembers the caller's buffer, of which read_at gets a prefix.    *)
(* Faulty: no clamp.                                                       *)
(***************************************************************************)
UnclampedRead(n) ==
    /\ call = NoCall
    /\ position < payload_size(vol)
    /\ frame' = Frame(position, n)
    /\ call' = [op |-> "read", asked |-> n]
    /\ reply' = NoAnswer
    /\ UNCHANGED <<vol, cursor, position>>

Read(n) ==
    /\ call = NoCall
    /\ \/ /\ position >= payload_size(vol)
          /\ reply' = Answer("read", TRUE, position, n, <<>>)
          /\ UNCHANGED <<call, frame>>
       \/ /\ position < payload_size(vol)
          /\ frame' = Frame(position, Least(n, payload_size(vol) - position))
          /\ call' = [op |-> "read", asked |-> n]
          /\ reply' = NoAnswer
    /\ UNCHANGED <<vol, cursor, position>>

read_at(offset, n) ==
    /\ call = NoCall
    /\ frame' = Frame(offset, n)
    /\ call' = [op |-> "read_at", asked |-> n]
    /\ reply' = NoAnswer
    /\ UNCHANGED <<vol, cursor, position>>

(***************************************************************************)
(* Seek::seek in i128, the result cut to u64; the answer is the position   *)
(* that was really set.                                                    *)
(***************************************************************************)
Seek(new) ==
    /\ call = NoCall
    /\ \/ /\ new < 0
          /\ reply' = Answer("seek", FALSE, position, new, <<>>)
          /\ UNCHANGED position
       \/ /\ new >= 0
          /\ position' = new % U64
          /\ reply' = Answer("seek", TRUE, position, new, <<position'>>)
    /\ UNCHANGED <<vol, cursor, call, frame>>

-----------------------------------------------------------------------------
(***************************************************************************)
(* The steps of the running read_at.                                       *)
(***************************************************************************)
SeekUnit ==
    /\ InCall
    /\ AtUnit(frame)
    /\ Fits(vol)
    /\ cursor' = Physical(vol, frame)
    /\ frame' = Sought(frame)
    /\ UNCHANGED <<vol, position, call, reply>>

(***************************************************************************)
(* A unit buffer the allocator cannot provide ends the process.            *)
(***************************************************************************)
Abort ==
    /\ InCall
    /\ AtUnit(frame)
    /\ ~ Fits(vol)
    /\ call' = Aborted
    /\ frame' = Frame(0, 0)
    /\ UNCHANGED <<vol, cursor, position, reply>>

Fill ==
    /\ InCall
    /\ frame.stage = "fill"
    /\ \E n \in Readable(vol, frame, cursor) :
          /\ frame' = Filled(vol, frame, cursor, n)
          /\ cursor' = cursor + n
    /\ UNCHANGED <<vol, position, call, reply>>

(***************************************************************************)
(* Faulty: a unit the end of the container cuts off is never decrypted.    *)
(***************************************************************************)
DecryptFullUnit ==
    /\ InCall
    /\ UnitRead(vol, frame, cursor)
    /\ vol.cipher_mode = "xts-plain64"
    /\ Len(frame.ct) = vol.sector_size
    /\ frame' = Copied(vol, frame)
    /\ UNCHANGED <<vol, cursor, position, call, reply>>

DecryptUnit ==
    /\ InCall
    /\ UnitRead(vol, frame, cursor)
    /\ vol.cipher_mode = "xts-plain64"
    /\ frame' = Copied(vol, frame)
    /\ UNCHANGED <<vol, cursor, position, call, reply>>

(***************************************************************************)
(* read_at is done: read moves the position, read_at itself does not.      *)
(***************************************************************************)
Return ==
    /\ InCall
    /\ Finished(frame)
    /\ reply' = Answer(call.op, TRUE, frame.offset, call.asked, frame.buf)
    /\ position' = IF call.op = "read" THEN position + frame.want ELSE position
    /\ call' = NoCall
    /\ frame' = Frame(0, 0)
    /\ UNCHANGED <<vol, cursor>>

(***************************************************************************)
(* Any `?` ends the call without moving the position: a seek or read that  *)
(* fails, and a mode xts_decrypt_area refuses.  So does a panic: of a      *)
(* checked build where a sum overflows, or at a unit buffer larger than    *)
(* any allocation may be.  Faulty: the position moves although nothing was *)
(* read.                                                                   *)
(***************************************************************************)
FailAndMove ==
    /\ reply' = Answer(call.op, FALSE, frame.offset, call.asked, <<>>)
    /\ call' = NoCall
    /\ frame' = Frame(0, 0)
    /\ position' = position + frame.want
    /\ UNCHANGED <<vol, cursor>>

Fail ==
    /\ reply' = Answer(call.op, FALSE, frame.offset, call.asked, <<>>)
    /\ call' = NoCall
    /\ frame' = Frame(0, 0)
    /\ UNCHANGED <<vol, cursor, position>>

IoError ==
    /\ InCall
    /\ AtUnit(frame) \/ (frame.stage = "fill" /\ Len(frame.ct) < vol.sector_size)
    /\ Fail

RefuseMode ==
    /\ InCall
    /\ UnitRead(vol, frame, cursor)
    /\ vol.cipher_mode # "xts-plain64"
    /\ Fail

Call ==
    \/ \E n \in 0 .. MaxLen : Read(n)
    \/ \E offset \in Offsets, n \in 0 .. MaxLen : read_at(offset, n)
    \/ \E o \in Offsets : Seek(o)
    \/ \E o \in Jumps : Seek(payload_size(vol) + o) \/ Seek(position + o)

Progress == SeekUnit \/ Abort \/ Fill \/ DecryptUnit \/ RefuseMode \/ Return

Next == Call \/ Progress \/ IoError

(***************************************************************************)
(* A call that was made runs on: the reader answers every seek and read,   *)
(* and does not answer Interrupted for ever.  It need never fail.          *)
(***************************************************************************)
Spec == Init /\ [][Next]_vars /\ WF_vars(Progress)

-----------------------------------------------------------------------------
(***************************************************************************)
(* Type invariant: the copied plaintext and the unit's ciphertext never    *)
(* outgrow what was asked for and the unit.                                *)
(***************************************************************************)
TypeOK ==
    /\ vol \in Volumes
    /\ cursor \in 0 .. U64 - 1
    /\ position \in 0 .. U64 - 1
    /\ Len(frame.buf) <= frame.want
    /\ Len(frame.ct) <= vol.sector_size
    /\ frame.stage \in {"seek", "fill"}

View == INSTANCE PlainView WITH size <- payload_size(vol), known <- PlainEnd(vol)

(***************************************************************************)
(* A volume is its plaintext: whatever the offset, the length, the unit    *)
(* size, the tweak base, the cut-off last unit and the short reads, what   *)
(* is read within the payload is the plaintext there, and a failed call    *)
(* leaves the position (read_at, Read, Seek, volume.rs:436-502).           *)
(***************************************************************************)
IsPlaintext == View!Spec

(***************************************************************************)
(* A Read never leaves the payload: no addition overflows and no unit is   *)
(* read that does not begin inside the payload, so a caller of Read never  *)
(* sees the header or wrapped addresses (the clamp, volume.rs:473-477).    *)
(***************************************************************************)
ReadStaysInPayload ==
    (call.op = "read" /\ AtUnit(frame)) =>
        /\ ~ Overflows(vol, frame)
        /\ Physical(vol, frame) \in vol.payload_offset .. vol.total_size - 1

(***************************************************************************)
(* A running read_at never goes round in circles, whatever the unit, the   *)
(* place the read begins in it and the lengths the reader gives (volume.rs:*)
(* 445-465, :512-526): every step of it copies more out, or with the same  *)
(* copied begins to fill the unit, or has more of the unit.  TypeOK ends   *)
(* all three, so a call has finitely many steps.                           *)
(***************************************************************************)
Advances ==
    InCall /\ InCall' =>
        \/ Len(frame'.buf) > Len(frame.buf)
        \/ /\ frame'.buf = frame.buf
           /\ frame'.stage = "fill"
           /\ frame.stage = "seek" \/ Len(frame'.ct) > Len(frame.ct)

ReadAdvances == [][Advances]_vars

(***************************************************************************)
(* Every call returns, at the end of the container too, where the reader   *)
(* gives less than a unit or nothing (read_available, volume.rs:512-526);  *)
(* or, where a unit buffer is too large, the process ends with it.         *)
(***************************************************************************)
CallsReturn == InCall ~> ~ InCall
=============================================================================
