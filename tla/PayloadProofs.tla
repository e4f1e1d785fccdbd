--------------------------- MODULE PayloadProofs ---------------------------
(***************************************************************************)
(* Proofs about Payload, for every set of volumes, width of u64, buffer    *)
(* length and offset: the type invariant, that a Read stays within the     *)
(* payload, that a running call goes forward, and that the volume          *)
(* implements PlainView, its plaintext.                                    *)
(***************************************************************************)
EXTENDS Payload, ReadAtProofs

(***************************************************************************)
(* The inductive invariant: besides what the frame's own steps keep, what  *)
(* a running call has in its frame.  A Read's frame begins at the position *)
(* and was clamped to the end; a read_at's is as long as its buffer.       *)
(***************************************************************************)
Running == [op : {"read", "read_at"}, asked : 0 .. MaxLen]

ReadIsClamped ==
    call.op = "read" =>
        /\ position < payload_size(vol)
        /\ frame.offset = position
        /\ frame.want = Least(call.asked, payload_size(vol) - position)

ReadAtIsWhole == call.op = "read_at" => frame.want = call.asked

Typed ==
    /\ vol \in Volumes
    /\ cursor \in 0 .. U64 - 1
    /\ position \in 0 .. U64 - 1
    /\ call \in {NoCall, Aborted} \cup Running

FrameInv ==
    /\ FrameOK(vol, frame)
    /\ CopiedIsPlain(vol, frame)
    /\ UnitIsOnDisk(vol, frame, cursor)

PayloadInv == Typed /\ FrameInv /\ ReadIsClamped /\ ReadAtIsWhole

-----------------------------------------------------------------------------
LEMMA Constants ==
    /\ U64 \in Nat \ {0} /\ BLOCK \in Nat \ {0} /\ MaxLen \in Nat
    /\ Offsets \subseteq 0 .. U64 - 1
    /\ Jumps \subseteq -U64 .. U64
BY ReadAtAssumption, PayloadAssumption

LEMMA SizeIsAddress ==
    ASSUME PayloadInv
    PROVE  payload_size(vol) \in 0 .. U64 - 1
<1>1. vol \in Volumes
    BY DEF PayloadInv, Typed
<1>2. payload_size(vol) \in 0 .. vol.total_size /\ vol.total_size \in 0 .. U64 - 1
    BY <1>1, VolumeGeometry
<1>3. QED
    BY <1>2, Constants

LEMMA InitInv == Init => PayloadInv
<1> SUFFICES ASSUME Init PROVE PayloadInv
    OBVIOUS
<1>1. 0 \in 0 .. U64 - 1 /\ 0 \in Nat
    BY Constants
<1>2. Typed
    BY <1>1 DEF Init, Typed
<1>3. FrameInv
    BY <1>1, NewFrame DEF Init, FrameInv
<1>4. ReadIsClamped /\ ReadAtIsWhole
    BY DEF Init, NoCall, ReadIsClamped, ReadAtIsWhole
<1>5. QED
    BY <1>2, <1>3, <1>4 DEF PayloadInv

(***************************************************************************)
(* A call begins with a new frame; a seek, or a Read at the end, has none. *)
(***************************************************************************)
LEMMA ReadInv ==
    ASSUME PayloadInv, NEW n \in 0 .. MaxLen, Read(n)
    PROVE  PayloadInv'
<1> USE DEF PayloadInv
<1>1. CASE position >= payload_size(vol) /\ UNCHANGED <<call, frame>>
    BY <1>1 DEF Read, Typed, FrameInv, ReadIsClamped, ReadAtIsWhole
<1>2. CASE /\ position < payload_size(vol)
           /\ frame' = Frame(position, Least(n, payload_size(vol) - position))
           /\ call' = [op |-> "read", asked |-> n]
  <2> DEFINE want == Least(n, payload_size(vol) - position)
  <2>1. want \in Nat
      BY <1>2, SizeIsAddress, Constants DEF Typed, Least
  <2>2. call' \in Running
      BY <1>2 DEF Running
  <2>3. Typed'
      BY <2>2 DEF Read, Typed
  <2>4. frame' = Frame(position, want) /\ vol' = vol /\ cursor' = cursor
      BY <1>2 DEF Read
  <2>5. FrameInv'
      BY <2>1, <2>4, NewFrame DEF FrameInv, Typed
  <2>6. ReadIsClamped' /\ ReadAtIsWhole'
      BY <1>2 DEF Read, Frame, ReadIsClamped, ReadAtIsWhole
  <2>7. QED
      BY <2>3, <2>5, <2>6
<1>3. QED
    BY <1>1, <1>2 DEF Read

LEMMA ReadAtInv ==
    ASSUME PayloadInv, NEW offset \in Offsets, NEW n \in 0 .. MaxLen, read_at(offset, n)
    PROVE  PayloadInv'
<1>1. offset \in 0 .. U64 - 1 /\ n \in Nat
    BY Constants
<1>2. call' \in Running
    BY DEF read_at, Running
<1>3. Typed'
    BY <1>2 DEF PayloadInv, Typed, read_at
<1>4. FrameInv'
    BY <1>1, NewFrame DEF PayloadInv, Typed, FrameInv, read_at
<1>5. ReadIsClamped' /\ ReadAtIsWhole'
    BY DEF read_at, Frame, ReadIsClamped, ReadAtIsWhole
<1>6. QED
    BY <1>3, <1>4, <1>5 DEF PayloadInv

LEMMA SeekInv ==
    ASSUME PayloadInv, NEW new \in Int, Seek(new)
    PROVE  PayloadInv' /\ position' \in 0 .. U64 - 1
<1>1. position' \in 0 .. U64 - 1
  <2>1. position \in 0 .. U64 - 1 /\ U64 \in Nat \ {0}
      BY Constants DEF PayloadInv, Typed
  <2>2. CASE new < 0
      BY <2>1, <2>2 DEF Seek, Answer
  <2>3. CASE new >= 0
    <3>1. new \in Nat /\ position' = new % U64
        BY <2>3 DEF Seek, Answer
    <3>2. QED
        BY <2>1, <3>1, DivMod
  <2>4. QED
      BY <2>2, <2>3
<1>2. Typed' /\ FrameInv'
    BY <1>1 DEF PayloadInv, Typed, FrameInv, Seek
<1>3. ReadIsClamped' /\ ReadAtIsWhole'
    BY DEF PayloadInv, Seek, NoCall, ReadIsClamped, ReadAtIsWhole
<1>4. QED
    BY <1>1, <1>2, <1>3 DEF PayloadInv

(***************************************************************************)
(* The steps of a running call change the frame and the cursor as ReadAt's *)
(* lemmas say, and neither the call's arguments nor the position.          *)
(***************************************************************************)
LEMMA FrameStepInv ==
    ASSUME PayloadInv, UNCHANGED <<vol, position, call>>, cursor' \in 0 .. U64 - 1, FrameInv',
           frame'.offset = frame.offset, frame'.want = frame.want
    PROVE  PayloadInv'
<1>1. Typed'
    BY DEF PayloadInv, Typed
<1>2. ReadIsClamped' /\ ReadAtIsWhole'
    BY DEF PayloadInv, ReadIsClamped, ReadAtIsWhole
<1>3. QED
    BY <1>1, <1>2 DEF PayloadInv

LEMMA SeekUnitInv == PayloadInv /\ SeekUnit => PayloadInv'
<1> SUFFICES ASSUME PayloadInv, SeekUnit PROVE PayloadInv'
    OBVIOUS
<1>1. /\ vol \in Volumes /\ FrameOK(vol, frame) /\ frame \in Frames
      /\ CopiedIsPlain(vol, frame) /\ AtUnit(frame)
    BY DEF PayloadInv, Typed, FrameInv, SeekUnit, FrameOK
<1>2. /\ frame' = Sought(frame) /\ cursor' = Physical(vol, frame)
      /\ UNCHANGED <<vol, position, call>>
    BY DEF SeekUnit
<1>3. FrameInv'
    BY <1>1, <1>2, SoughtKeeps DEF FrameInv
<1>4. cursor' \in 0 .. U64 - 1
    BY <1>1, <1>2, FrameGeometry
<1>5. frame'.offset = frame.offset /\ frame'.want = frame.want
    BY <1>1, <1>2, StepKeepsCall
<1>6. QED
    BY <1>2, <1>3, <1>4, <1>5, FrameStepInv

LEMMA FillInv == PayloadInv /\ Fill => PayloadInv'
<1> SUFFICES ASSUME PayloadInv, Fill PROVE PayloadInv'
    OBVIOUS
<1>1. /\ vol \in Volumes /\ cursor \in 0 .. U64 - 1
      /\ FrameOK(vol, frame) /\ frame \in Frames /\ frame.stage = "fill"
      /\ CopiedIsPlain(vol, frame) /\ UnitIsOnDisk(vol, frame, cursor)
    BY DEF PayloadInv, Typed, FrameInv, Fill, FrameOK
<1>2. PICK n \in Readable(vol, frame, cursor) :
          frame' = Filled(vol, frame, cursor, n) /\ cursor' = cursor + n
    BY DEF Fill
<1>3. UNCHANGED <<vol, position, call>>
    BY DEF Fill
<1> DEFINE g == Filled(vol, frame, cursor, n)
<1>4. /\ FrameOK(vol, g) /\ CopiedIsPlain(vol, g) /\ UnitIsOnDisk(vol, g, cursor + n)
      /\ cursor + n \in 0 .. U64 - 1
    BY <1>1, FilledKeeps
<1>5. FrameInv' /\ cursor' \in 0 .. U64 - 1
    BY <1>2, <1>3, <1>4 DEF FrameInv
<1>6. frame'.offset = frame.offset /\ frame'.want = frame.want
    BY <1>1, <1>2 DEF Frames, Filled
<1>7. QED
    BY <1>3, <1>5, <1>6, FrameStepInv

LEMMA DecryptUnitInv == PayloadInv /\ DecryptUnit => PayloadInv'
<1> SUFFICES ASSUME PayloadInv, DecryptUnit PROVE PayloadInv'
    OBVIOUS
<1>1. /\ vol \in Volumes /\ cursor \in 0 .. U64 - 1
      /\ FrameOK(vol, frame) /\ frame \in Frames /\ UnitRead(vol, frame, cursor)
      /\ CopiedIsPlain(vol, frame) /\ UnitIsOnDisk(vol, frame, cursor)
    BY DEF PayloadInv, Typed, FrameInv, DecryptUnit, FrameOK
<1>2. frame' = Copied(vol, frame) /\ UNCHANGED <<vol, cursor, position, call>>
    BY DEF DecryptUnit
<1>3. FrameInv'
    BY <1>1, <1>2, CopiedKeeps DEF FrameInv
<1>4. frame'.offset = frame.offset /\ frame'.want = frame.want
    BY <1>1, <1>2, StepKeepsCall
<1>5. QED
    BY <1>1, <1>2, <1>3, <1>4, FrameStepInv

(***************************************************************************)
(* A call ends with an empty frame, and a Read has moved the position no   *)
(* further than to the end of the payload.  So it does with the process.   *)
(***************************************************************************)
LEMMA EndInv ==
    ASSUME PayloadInv, call' \in {NoCall, Aborted}, frame' = Frame(0, 0), UNCHANGED <<vol, cursor>>,
           position' \in 0 .. U64 - 1
    PROVE  PayloadInv'
<1>1. 0 \in 0 .. U64 - 1 /\ 0 \in Nat
    BY Constants
<1>2. Typed'
    BY DEF PayloadInv, Typed
<1>3. FrameInv'
    BY <1>1, NewFrame DEF PayloadInv, Typed, FrameInv
<1>4. ReadIsClamped' /\ ReadAtIsWhole'
    BY DEF NoCall, Aborted, ReadIsClamped, ReadAtIsWhole
<1>5. QED
    BY <1>2, <1>3, <1>4 DEF PayloadInv

LEMMA ReturnInv == PayloadInv /\ Return => PayloadInv'
<1> SUFFICES ASSUME PayloadInv, Return PROVE PayloadInv'
    OBVIOUS
<1>1. /\ call' = NoCall /\ frame' = Frame(0, 0) /\ UNCHANGED <<vol, cursor>>
      /\ position' = IF call.op = "read" THEN position + frame.want ELSE position
    BY DEF Return
<1>2. position \in 0 .. U64 - 1
    BY DEF PayloadInv, Typed
<1>3. ASSUME call.op = "read" PROVE position + frame.want \in 0 .. U64 - 1
  <2> DEFINE size == payload_size(vol)
  <2>1. position < size /\ frame.want = Least(call.asked, size - position)
      BY <1>3 DEF PayloadInv, ReadIsClamped
  <2>2. call.asked \in 0 .. MaxLen
      BY <1>3 DEF PayloadInv, Typed, NoCall, Aborted, Running
  <2>3. size \in 0 .. U64 - 1 /\ MaxLen \in Nat /\ U64 \in Nat
      BY SizeIsAddress, Constants
  <2> HIDE DEF size
  <2>4. QED
      BY <2>1, <2>2, <2>3, <1>2 DEF Least
<1>4. position' \in 0 .. U64 - 1
    BY <1>1, <1>2, <1>3
<1>5. QED
    BY <1>1, <1>4, EndInv

LEMMA FailInv == PayloadInv /\ Fail => PayloadInv'
BY EndInv DEF Fail, PayloadInv, Typed

LEMMA AbortInv == PayloadInv /\ Abort => PayloadInv'
BY EndInv DEF Abort, PayloadInv, Typed

(***************************************************************************)
(* The seeks a caller makes: any of them has a target no further than a    *)
(* u64 from the u64s.                                                      *)
(***************************************************************************)
LEMMA SeekTargets ==
    ASSUME PayloadInv
    PROVE  /\ \A o \in Offsets : o \in -U64 .. 2 * U64
           /\ \A o \in Jumps : /\ payload_size(vol) + o \in -U64 .. 2 * U64
                               /\ position + o \in -U64 .. 2 * U64
<1>1. payload_size(vol) \in 0 .. U64 - 1 /\ position \in 0 .. U64 - 1
    BY SizeIsAddress DEF PayloadInv, Typed
<1>2. QED
    BY <1>1, Constants

LEMMA NextInv == PayloadInv /\ [Next]_vars => PayloadInv'
<1> SUFFICES ASSUME PayloadInv, [Next]_vars PROVE PayloadInv'
    OBVIOUS
<1>1. ASSUME NEW n \in 0 .. MaxLen, Read(n) PROVE PayloadInv'
    BY <1>1, ReadInv
<1>2. ASSUME NEW offset \in Offsets, NEW n \in 0 .. MaxLen, read_at(offset, n) PROVE PayloadInv'
    BY <1>2, ReadAtInv
<1>3. ASSUME NEW target \in -U64 .. 2 * U64, Seek(target) PROVE PayloadInv'
    BY <1>3, SeekInv
<1>4. Call => PayloadInv'
    BY <1>1, <1>2, <1>3, SeekTargets DEF Call
<1>5. Progress \/ IoError => PayloadInv'
    BY SeekUnitInv, AbortInv, FillInv, DecryptUnitInv, ReturnInv, FailInv
    DEF Progress, IoError, RefuseMode
<1>6. CASE UNCHANGED vars
    BY <1>6 DEF vars, PayloadInv, Typed, FrameInv, ReadIsClamped, ReadAtIsWhole
<1>7. QED
    BY <1>4, <1>5, <1>6 DEF Next

LEMMA SpecInv == Spec => []PayloadInv
BY InitInv, NextInv, PTL DEF Spec

-----------------------------------------------------------------------------
(***************************************************************************)
(* The type invariant: the copied plaintext never outgrows what was asked  *)
(* for, nor the ciphertext its unit (read_at, volume.rs:436-466).          *)
(***************************************************************************)
THEOREM TypeCorrect == Spec => []TypeOK
<1>1. PayloadInv => TypeOK
    BY DEF PayloadInv, Typed, FrameInv, FrameOK, Frames, TypeOK
<1>2. QED
    BY <1>1, SpecInv, PTL

(***************************************************************************)
(* A Read never leaves the payload, whatever the volume's geometry: the    *)
(* clamp is enough for no addition of read_at to overflow and no unit to   *)
(* begin outside (volume.rs:473-477).                                      *)
(***************************************************************************)
THEOREM StaysInPayload == Spec => []ReadStaysInPayload
<1>1. PayloadInv => ReadStaysInPayload
  <2> SUFFICES ASSUME PayloadInv, call.op = "read", AtUnit(frame)
               PROVE  /\ ~ Overflows(vol, frame)
                      /\ Physical(vol, frame) \in vol.payload_offset .. vol.total_size - 1
      BY DEF ReadStaysInPayload
  <2> DEFINE size == payload_size(vol)
             n    == Len(frame.buf)
             u    == Unit(vol, frame) * vol.sector_size
             w    == Within(vol, frame)
  <2>1. vol \in Volumes /\ FrameOK(vol, frame) /\ position \in 0 .. U64 - 1
      BY DEF PayloadInv, Typed, FrameInv
  <2>2. /\ vol.payload_offset \in 0 .. U64 - 1 /\ vol.total_size \in 0 .. U64 - 1
        /\ size > 0 => vol.payload_offset + size = vol.total_size
        /\ vol.sector_size \in Nat
      BY <2>1, VolumeGeometry
  <2>3. size \in 0 .. U64 - 1 /\ U64 \in Nat \ {0} /\ MaxLen \in Nat
      BY SizeIsAddress, Constants
  <2>4. call.asked \in 0 .. MaxLen
      BY DEF PayloadInv, Typed, NoCall, Aborted, Running
  <2>5. /\ position < size /\ frame.offset = position
        /\ frame.want = Least(call.asked, size - position)
      BY DEF PayloadInv, ReadIsClamped
  <2>6. n \in Nat /\ n < frame.want
      BY <2>1, FrameGeometry DEF AtUnit
  <2>7. u \in Nat /\ w \in 0 .. vol.sector_size - 1 /\ Pos(frame) = u + w
      BY <2>1, FrameGeometry
  <2>8. Pos(frame) = (frame.offset + n) % U64
      BY DEF Pos
  <2>9. /\ Overflows(vol, frame) <=> frame.offset + n >= U64 \/ vol.payload_offset + u >= U64
        /\ Physical(vol, frame) = (vol.payload_offset + u) % U64
      BY DEF Overflows, Physical
  <2> HIDE DEF size, n, u, w
  <2>10. frame.offset + n \in 0 .. size - 1
      BY <2>1, <2>3, <2>4, <2>5, <2>6 DEF Least
  <2>11. Pos(frame) = frame.offset + n
      BY <2>3, <2>8, <2>10
  <2>12. u < size
      BY <2>2, <2>3, <2>7, <2>10, <2>11
  <2>13. vol.payload_offset + u \in vol.payload_offset .. vol.total_size - 1
      BY <2>2, <2>3, <2>7, <2>12
  <2>14. vol.payload_offset + u \in 0 .. U64 - 1
      BY <2>2, <2>3, <2>13
  <2>15. Physical(vol, frame) = vol.payload_offset + u
      BY <2>3, <2>9, <2>14
  <2>16. QED
      BY <2>3, <2>9, <2>10, <2>13, <2>14, <2>15
<1>2. QED
    BY <1>1, SpecInv, PTL

-----------------------------------------------------------------------------
(***************************************************************************)
(* A running call goes forward.  Its three steps do, by ReadAt's lemmas;   *)
(* every other step begins a call or ends one.                             *)
(***************************************************************************)
LEMMA SeekUnitAdvances == PayloadInv /\ SeekUnit => Advances
<1> SUFFICES ASSUME PayloadInv, SeekUnit PROVE Advances
    OBVIOUS
<1>1. frame \in Frames /\ frame.stage = "seek" /\ frame' = Sought(frame)
    BY DEF PayloadInv, FrameInv, FrameOK, SeekUnit, AtUnit
<1>2. frame'.buf = frame.buf /\ frame'.stage = "fill"
    BY <1>1 DEF Frames, Sought
<1>3. QED
    BY <1>1, <1>2 DEF Advances

LEMMA FillAdvances == PayloadInv /\ Fill => Advances
<1> SUFFICES ASSUME PayloadInv, Fill PROVE Advances
    OBVIOUS
<1>1. /\ vol \in Volumes /\ cursor \in 0 .. U64 - 1
      /\ FrameOK(vol, frame) /\ frame.stage = "fill"
      /\ CopiedIsPlain(vol, frame) /\ UnitIsOnDisk(vol, frame, cursor)
    BY DEF PayloadInv, Typed, FrameInv, Fill
<1>2. PICK n \in Readable(vol, frame, cursor) : frame' = Filled(vol, frame, cursor, n)
    BY DEF Fill
<1>3. frame'.buf = frame.buf /\ frame'.stage = "fill" /\ Len(frame'.ct) > Len(frame.ct)
    BY <1>1, <1>2, FilledKeeps
<1>4. QED
    BY <1>3 DEF Advances

LEMMA DecryptUnitAdvances == PayloadInv /\ DecryptUnit => Advances
<1> SUFFICES ASSUME PayloadInv, DecryptUnit PROVE Advances
    OBVIOUS
<1>1. /\ vol \in Volumes /\ FrameOK(vol, frame) /\ UnitRead(vol, frame, cursor)
      /\ CopiedIsPlain(vol, frame) /\ UnitIsOnDisk(vol, frame, cursor)
    BY DEF PayloadInv, Typed, FrameInv, DecryptUnit
<1>2. frame' = Copied(vol, frame)
    BY DEF DecryptUnit
<1>3. Len(frame'.buf) > Len(frame.buf)
    BY <1>1, <1>2, CopiedKeeps
<1>4. QED
    BY <1>3 DEF Advances

LEMMA NextAdvances == PayloadInv /\ [Next]_vars => [Advances]_vars
<1> SUFFICES ASSUME PayloadInv, Next PROVE Advances
    OBVIOUS
<1>1. Call => Advances
    BY DEF Call, Read, read_at, Seek, InCall, Advances
<1>2. Return \/ RefuseMode \/ IoError \/ Abort => Advances
    BY DEF Return, RefuseMode, IoError, Fail, Abort, InCall, Advances
<1>3. QED
    BY <1>1, <1>2, SeekUnitAdvances, FillAdvances, DecryptUnitAdvances DEF Next, Progress

(***************************************************************************)
(* A running read_at never goes round in circles: every step copies more   *)
(* out of the volume, or brings the unit it is in closer to its copy,      *)
(* whatever the geometry and the short reads (volume.rs:445-465, :512-526).*)
(* With TypeCorrect, no call takes infinitely many steps.                  *)
(***************************************************************************)
THEOREM ReadGoesForward == Spec => ReadAdvances
BY SpecInv, NextAdvances, PTL DEF Spec, ReadAdvances

-----------------------------------------------------------------------------
(***************************************************************************)
(* The refinement, step by step.  Only the calls that answer at once and   *)
(* the ends of the running ones are steps of the view; a call that begins  *)
(* takes up the next question, and the steps between are not seen.         *)
(***************************************************************************)
ViewVars == <<payload_size(vol), PlainEnd(vol), position, reply>>

LEMMA InitMaps == Init => View!Init
<1> SUFFICES ASSUME Init PROVE View!Init
    OBVIOUS
<1>1. payload_size(vol) \in Nat /\ PlainEnd(vol) \in 0 .. payload_size(vol)
    BY InitInv, SizeIsAddress, PlainEndIsAligned, Constants DEF Init
<1>2. QED
    BY <1>1 DEF Init, NoAnswer, Answer, View!Init, View!NoAnswer, View!Answer

LEMMA SizeStays ==
    ASSUME vol' = vol
    PROVE  payload_size(vol)' = payload_size(vol) /\ PlainEnd(vol)' = PlainEnd(vol)
BY DEF payload_size, PlainEnd

LEMMA AskMaps ==
    ASSUME reply' = NoAnswer, UNCHANGED <<vol, position>>
    PROVE  View!Next
<1>1. View!Ask
    BY DEF View!Ask, NoAnswer, Answer, View!NoAnswer, View!Answer
<1>2. QED
    BY <1>1, SizeStays DEF View!Next

LEMMA ReadMaps ==
    ASSUME PayloadInv, NEW n \in 0 .. MaxLen, Read(n)
    PROVE  View!Next
<1>1. CASE position >= payload_size(vol) /\ reply' = Answer("read", TRUE, position, n, <<>>)
  <2>1. vol' = vol /\ position' = position
      BY DEF Read
  <2>2. /\ reply' = View!Answer("read", reply'.ok, position, n, reply'.got)
        /\ reply'.ok = TRUE /\ reply'.got = <<>>
      BY <1>1 DEF Answer, View!Answer
  <2>3. View!Count(position, n) = 0
      BY <1>1 DEF View!Count
  <2>4. View!IsSlice(<<>>, position)
      BY DEF View!IsSlice
  <2>5. position' = position + 0 /\ Len(<<>>) = 0
      BY <2>1, Constants DEF PayloadInv, Typed
  <2>6. View!Read(n)
      BY <2>2, <2>3, <2>4, <2>5 DEF View!Read
  <2>7. QED
      BY <2>1, <2>6, SizeStays DEF View!Next
<1>2. CASE reply' = NoAnswer
    BY <1>2, AskMaps DEF Read
<1>3. QED
    BY <1>1, <1>2 DEF Read

LEMMA SeekMaps ==
    ASSUME PayloadInv, NEW target \in -U64 .. 2 * U64, Seek(target)
    PROVE  View!Next
<1>1. vol' = vol /\ position \in 0 .. U64 - 1 /\ position' \in 0 .. U64 - 1
      /\ target \in Int /\ U64 \in Nat \ {0}
  <2>1. target \in Int /\ U64 \in Nat \ {0}
      BY Constants
  <2>2. position' \in 0 .. U64 - 1
      BY <2>1, SeekInv
  <2>3. QED
      BY <2>1, <2>2 DEF Seek, PayloadInv, Typed
<1>2. View!Seek(target)
  <2>1. CASE target < 0
    <3>1. position' = position /\ reply' = Answer("seek", FALSE, position, target, <<>>)
        BY <2>1, <1>1 DEF Seek, Answer
    <3>2. (target >= 0) = FALSE
        BY <2>1, <1>1
    <3>3. target \notin 0 .. U64 - 1
        BY <2>1, <1>1
    <3>4. reply' = View!Answer("seek", target >= 0, position, target,
                               IF target >= 0 THEN <<position'>> ELSE <<>>)
        BY <3>1, <3>2, Zenon DEF Answer, View!Answer
    <3>5. QED
        BY <3>1, <3>3, <3>4, <1>1 DEF View!Seek
  <2>2. CASE target >= 0
    <3>1. position' = target % U64 /\ reply' = Answer("seek", TRUE, position, target, <<position'>>)
        BY <2>2, <1>1 DEF Seek, Answer
    <3>2. target \in 0 .. U64 - 1 => target % U64 = target
        BY <1>1
    <3>3. (target >= 0 <=> TRUE) /\ ~ (target < 0)
        BY <2>2, <1>1
    <3>4. QED
        BY <3>1, <3>2, <3>3, <1>1 DEF View!Seek, Answer, View!Answer
  <2>3. QED
      BY <2>1, <2>2, <1>1
<1>3. QED
    BY <1>1, <1>2, SizeStays DEF View!Next

(***************************************************************************)
(* A finished frame holds all that was wanted, and it is the plaintext.    *)
(***************************************************************************)
LEMMA FinishedIsSlice ==
    ASSUME PayloadInv, Finished(frame)
    PROVE  Len(frame.buf) = frame.want /\ View!IsSlice(frame.buf, frame.offset)
<1>1. frame.buf \in Seq(Int) /\ CopiedIsPlain(vol, frame)
    BY DEF PayloadInv, FrameInv, FrameOK, Frames
<1>2. DOMAIN frame.buf = 1 .. Len(frame.buf)
    BY <1>1
<1>3. QED
    BY <1>1, <1>2 DEF Finished, CopiedIsPlain, View!IsSlice

LEMMA ReturnMaps == PayloadInv /\ Return => View!Next
<1> SUFFICES ASSUME PayloadInv, Return PROVE View!Next
    OBVIOUS
<1>1. call \in Running /\ vol' = vol
    BY DEF PayloadInv, Typed, Return, InCall
<1>2. call.asked \in 0 .. MaxLen /\ (call.op = "read" \/ call.op = "read_at")
    BY <1>1 DEF Running
<1>3. reply' = Answer(call.op, TRUE, frame.offset, call.asked, frame.buf)
    BY DEF Return
<1>4. /\ reply' = View!Answer(call.op, reply'.ok, frame.offset, call.asked, reply'.got)
      /\ reply'.ok = TRUE /\ reply'.got = frame.buf
    BY <1>3 DEF Answer, View!Answer
<1>5. Len(frame.buf) = frame.want /\ View!IsSlice(frame.buf, frame.offset)
    BY FinishedIsSlice DEF Return
<1>6. CASE call.op = "read"
  <2> DEFINE size == payload_size(vol)
  <2>1. /\ position < size /\ frame.offset = position
        /\ frame.want = Least(call.asked, size - position)
      BY <1>6 DEF PayloadInv, ReadIsClamped
  <2>2. size \in Nat /\ position \in Nat
      BY SizeIsAddress, Constants DEF PayloadInv, Typed
  <2>3. View!Count(position, call.asked) = frame.want
      BY <2>1, <2>2 DEF View!Count, Least
  <2>4. position' = position + frame.want
      BY <1>6 DEF Return
  <2>5. View!Read(call.asked)
      BY <1>4, <1>5, <1>6, <2>1, <2>3, <2>4 DEF View!Read
  <2>6. QED
      BY <2>5, <1>1, <1>2, SizeStays DEF View!Next
<1>7. CASE call.op = "read_at"
  <2>1. frame.want = call.asked /\ position' = position /\ frame.offset \in 0 .. U64 - 1
      BY <1>7 DEF PayloadInv, ReadAtIsWhole, FrameInv, FrameOK, Frames, Return
  <2>2. View!ReadAt(frame.offset, call.asked)
      BY <1>4, <1>5, <1>7, <2>1 DEF View!ReadAt
  <2>3. QED
      BY <2>1, <2>2, <1>1, <1>2, SizeStays DEF View!Next
<1>8. QED
    BY <1>2, <1>6, <1>7

LEMMA FailMaps ==
    ASSUME PayloadInv, InCall, Fail
    PROVE  View!Next
<1>1. call \in Running /\ vol' = vol /\ position' = position
    BY DEF PayloadInv, Typed, Fail, InCall
<1>2. call.asked \in 0 .. MaxLen /\ (call.op = "read" \/ call.op = "read_at")
    BY <1>1 DEF Running
<1>3. reply' = Answer(call.op, FALSE, frame.offset, call.asked, <<>>)
    BY DEF Fail
<1>4. /\ reply' = View!Answer(call.op, reply'.ok, frame.offset, call.asked, reply'.got)
      /\ reply'.ok = FALSE
    BY <1>3 DEF Answer, View!Answer
<1>5. CASE call.op = "read"
  <2>1. frame.offset = position
      BY <1>5 DEF PayloadInv, ReadIsClamped
  <2>2. View!Read(call.asked)
      BY <1>1, <1>4, <1>5, <2>1 DEF View!Read
  <2>3. QED
      BY <2>2, <1>1, <1>2, SizeStays DEF View!Next
<1>6. CASE call.op = "read_at"
  <2>1. frame.offset \in 0 .. U64 - 1
      BY DEF PayloadInv, FrameInv, FrameOK, Frames
  <2>2. View!ReadAt(frame.offset, call.asked)
      BY <1>1, <1>4, <1>6 DEF View!ReadAt
  <2>3. QED
      BY <2>1, <2>2, <1>1, <1>2, SizeStays DEF View!Next
<1>7. QED
    BY <1>2, <1>5, <1>6

LEMMA NextMaps == PayloadInv /\ [Next]_vars => [View!Next]_ViewVars
<1> SUFFICES ASSUME PayloadInv, [Next]_vars PROVE [View!Next]_ViewVars
    OBVIOUS
<1>1. ASSUME NEW n \in 0 .. MaxLen, Read(n) PROVE View!Next
    BY <1>1, ReadMaps
<1>2. ASSUME NEW offset \in Offsets, NEW n \in 0 .. MaxLen, read_at(offset, n) PROVE View!Next
    BY <1>2, AskMaps DEF read_at
<1>3. ASSUME NEW target \in -U64 .. 2 * U64, Seek(target) PROVE View!Next
    BY <1>3, SeekMaps
<1>4. Call => View!Next
    BY <1>1, <1>2, <1>3, SeekTargets DEF Call
<1>5. Return => View!Next
    BY ReturnMaps
<1>6. RefuseMode \/ IoError => View!Next
    BY FailMaps DEF RefuseMode, IoError
<1>7. SeekUnit \/ Abort \/ Fill \/ DecryptUnit \/ UNCHANGED vars => UNCHANGED ViewVars
    BY SizeStays DEF SeekUnit, Abort, Fill, DecryptUnit, vars, ViewVars
<1>8. QED
    BY <1>4, <1>5, <1>6, <1>7 DEF Next, Progress

(***************************************************************************)
(* A volume is its plaintext: whatever the geometry, the short reads, the  *)
(* failures and the calls, what a caller of read, seek and read_at sees    *)
(* of it is one stream of known size (volume.rs:436-502).                  *)
(***************************************************************************)
THEOREM Refinement == Spec => IsPlaintext
<1>1. Spec => View!Init
    BY InitMaps, PTL DEF Spec
<1>2. Spec => [][View!Next]_ViewVars
    BY SpecInv, NextMaps, PTL DEF Spec
<1>3. QED
    BY <1>1, <1>2, PTL DEF IsPlaintext, View!Spec, ViewVars
=============================================================================
