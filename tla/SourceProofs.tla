---------------------------- MODULE SourceProofs ----------------------------
(***************************************************************************)
(* Proofs about Source, for any number of threads, volumes and calls: the  *)
(* type invariant, that the Mutex excludes and its holder can go on, that  *)
(* an answered read is the plaintext at its own offset, and that a panic   *)
(* does not spread.                                                        *)
(***************************************************************************)
EXTENDS Source, ReadAtProofs

(***************************************************************************)
(* The inductive invariant.  Of each thread: it reads exactly while it     *)
(* holds the Mutex, so nobody else moves the cursor and the unit it reads  *)
(* stays where it sought it; a waiting thread has not begun a unit; its    *)
(* frame was clamped to the end; its answer is a slice of the plaintext.   *)
(***************************************************************************)
Answers == [ok : BOOLEAN, from : 0 .. U64 - 1, asked : 0 .. MaxLen, got : Seq(Int)]

Typed ==
    /\ vol \in Volumes
    /\ cursor \in 0 .. U64 - 1
    /\ holder \in Threads \cup {NoThread}
    /\ poisoned \in BOOLEAN
    /\ pc \in [Threads -> {"idle", "waiting", "reading", "dead", "aborted"}]
    /\ frame \in [Threads -> Frames]
    /\ asked \in [Threads -> 0 .. MaxLen]
    /\ calls \in [Threads -> 0 .. MaxCalls]
    /\ answer \in [Threads -> Answers]

Guarded(t) == pc[t] = "reading" <=> holder = t

FrameInv(t) ==
    /\ FrameOK(vol, frame[t])
    /\ CopiedIsPlain(vol, frame[t])
    /\ frame[t].want <= MaxLen

CursorIsOwn(t) ==
    /\ pc[t] = "waiting" => frame[t].stage = "seek"
    /\ pc[t] = "reading" => UnitIsOnDisk(vol, frame[t], cursor)

Clamped(t) ==
    pc[t] \in {"waiting", "reading"} =>
        /\ frame[t].offset < len
        /\ frame[t].want = Least(asked[t], len - frame[t].offset)

IsSlice(a) ==
    a.ok => /\ Len(a.got) = IF a.from >= len THEN 0 ELSE Least(a.asked, len - a.from)
            /\ \A i \in DOMAIN a.got :
                  a.from + i - 1 < PlainEnd(vol) => a.got[i] = a.from + i - 1

ThreadInv(t) ==
    Guarded(t) /\ FrameInv(t) /\ CursorIsOwn(t) /\ Clamped(t) /\ IsSlice(answer[t])

SourceInv == Typed /\ \A t \in Threads : ThreadInv(t)

-----------------------------------------------------------------------------
LEMMA Constants ==
    /\ U64 \in Nat \ {0} /\ MaxLen \in Nat /\ MaxCalls \in Nat
    /\ Offsets \subseteq 0 .. U64 - 1
    /\ NoThread \notin Threads
BY ReadAtAssumption, SourceAssumption

LEMMA LenIsAddress ==
    ASSUME Typed
    PROVE  len \in 0 .. U64 - 1
<1>1. payload_size(vol) \in 0 .. vol.total_size /\ vol.total_size \in 0 .. U64 - 1
    BY VolumeGeometry DEF Typed
<1>2. QED
    BY <1>1, Constants DEF len

(***************************************************************************)
(* Nothing is a slice of the plaintext from its end on, and from anywhere  *)
(* when nothing is asked for.                                              *)
(***************************************************************************)
LEMMA NothingIsSlice ==
    ASSUME Typed, NEW a, a.got = <<>>, a.from \in Nat, a.from >= len \/ a.asked = 0
    PROVE  IsSlice(a)
<1>1. len \in Nat
    BY LenIsAddress, Constants
<1>2. Len(a.got) = 0 /\ DOMAIN a.got = {}
    OBVIOUS
<1>3. (IF a.from >= len THEN 0 ELSE Least(a.asked, len - a.from)) = 0
    BY <1>1 DEF Least
<1>4. QED
    BY <1>2, <1>3 DEF IsSlice

LEMMA NoAnswerInv ==
    ASSUME Typed
    PROVE  NoAnswer \in Answers /\ IsSlice(NoAnswer)
<1>1. 0 \in 0 .. U64 - 1 /\ 0 \in 0 .. MaxLen /\ <<>> \in Seq(Int)
    BY Constants, EmptySeq
<1>2. NoAnswer \in Answers
    BY <1>1 DEF NoAnswer, Answers
<1>3. NoAnswer.got = <<>> /\ NoAnswer.from \in Nat /\ NoAnswer.asked = 0
    BY DEF NoAnswer
<1>4. QED
    BY <1>2, <1>3, NothingIsSlice

LEMMA InitInv == Init => SourceInv
<1> SUFFICES ASSUME Init PROVE SourceInv
    OBVIOUS
<1>1. 0 \in 0 .. U64 - 1 /\ 0 \in Nat /\ 0 \in 0 .. MaxLen /\ 0 \in 0 .. MaxCalls
    BY Constants
<1>2. vol \in Volumes
    BY DEF Init
<1>3. FrameOK(vol, Frame(0, 0)) /\ CopiedIsPlain(vol, Frame(0, 0)) /\ Frame(0, 0) \in Frames
    BY <1>1, <1>2, NewFrame DEF FrameOK
<1>4. NoAnswer \in Answers
    BY <1>1, EmptySeq DEF NoAnswer, Answers
<1>5. Typed
    BY <1>1, <1>3, <1>4 DEF Init, Typed
<1>6. ASSUME NEW t \in Threads PROVE ThreadInv(t)
  <2>1. pc[t] = "idle" /\ holder # t /\ frame[t] = Frame(0, 0) /\ answer[t] = NoAnswer
      BY Constants DEF Init
  <2>2. Guarded(t) /\ CursorIsOwn(t) /\ Clamped(t)
      BY <2>1 DEF Guarded, CursorIsOwn, Clamped
  <2>3. FrameInv(t)
    <3>1. Frame(0, 0).want = 0 /\ 0 <= MaxLen
        BY Constants DEF Frame
    <3>2. QED
        BY <3>1, <2>1, <1>3 DEF FrameInv
  <2>4. IsSlice(answer[t])
      BY <2>1, <1>5, NoAnswerInv
  <2>5. QED
      BY <2>2, <2>3, <2>4 DEF ThreadInv
<1>7. QED
    BY <1>5, <1>6 DEF SourceInv

(***************************************************************************)
(* The threads a step does not touch.  Only the thread that holds the      *)
(* Mutex moves the cursor, and then no other is reading.                   *)
(***************************************************************************)
LEMMA OthersKeep ==
    ASSUME SourceInv, NEW s \in Threads, vol' = vol,
           pc'[s] = pc[s], frame'[s] = frame[s], asked'[s] = asked[s], answer'[s] = answer[s],
           holder' = s <=> holder = s,
           cursor' = cursor \/ holder # s
    PROVE  ThreadInv(s)'
<1>1. ThreadInv(s) /\ len' = len
    BY DEF SourceInv, len
<1>2. Guarded(s)' /\ FrameInv(s)' /\ Clamped(s)'
    BY <1>1 DEF ThreadInv, Guarded, FrameInv, Clamped
<1>3. CursorIsOwn(s)'
    BY <1>1 DEF ThreadInv, Guarded, CursorIsOwn
<1>4. IsSlice(answer[s])'
    BY <1>1 DEF ThreadInv, IsSlice
<1>5. QED
    BY <1>2, <1>3, <1>4 DEF ThreadInv

-----------------------------------------------------------------------------
(***************************************************************************)
(* A call: nothing from the end on, else a new frame, clamped.             *)
(***************************************************************************)
LEMMA ReadNothingInv ==
    ASSUME SourceInv, NEW t \in Threads, NEW offset \in Offsets, NEW n \in 0 .. MaxLen,
           ReadNothing(t, offset, n)
    PROVE  SourceInv'
<1> DEFINE a == [NoAnswer EXCEPT !.from = offset, !.asked = n]
<1>1. Typed /\ ThreadInv(t)
    BY DEF SourceInv
<1>2. /\ answer' = [answer EXCEPT ![t] = a] /\ calls' = [calls EXCEPT ![t] = @ + 1]
      /\ UNCHANGED <<vol, cursor, holder, poisoned, pc, frame, asked>>
      /\ calls[t] < MaxCalls /\ offset >= len
    BY DEF ReadNothing, mutex
<1>3. offset \in 0 .. U64 - 1 /\ offset \in Nat
    BY Constants
<1>4. a \in Answers /\ a.got = <<>> /\ a.from = offset
    BY <1>3, EmptySeq DEF NoAnswer, Answers
<1>5. IsSlice(a)
    BY <1>1, <1>2, <1>3, <1>4, NothingIsSlice
<1> HIDE DEF a
<1>6. calls' \in [Threads -> 0 .. MaxCalls]
    BY <1>1, <1>2, Constants DEF Typed
<1>7. Typed'
    BY <1>1, <1>2, <1>4, <1>6 DEF Typed
<1>8. ThreadInv(t)'
  <2>1. answer'[t] = a /\ len' = len
      BY <1>1, <1>2 DEF Typed, len
  <2>2. IsSlice(answer[t])'
      BY <2>1, <1>2, <1>5 DEF IsSlice
  <2>3. QED
      BY <2>1, <2>2, <1>1, <1>2 DEF ThreadInv, Guarded, FrameInv, CursorIsOwn, Clamped
<1>9. ASSUME NEW s \in Threads, s # t PROVE ThreadInv(s)'
  <2>1. answer'[s] = answer[s]
      BY <1>1, <1>2, <1>9 DEF Typed
  <2>2. QED
      BY <2>1, <1>2, OthersKeep
<1>10. QED
    BY <1>7, <1>8, <1>9 DEF SourceInv

LEMMA ReadAtInv ==
    ASSUME SourceInv, NEW t \in Threads, NEW offset \in Offsets, NEW n \in 0 .. MaxLen,
           read_at(t, offset, n)
    PROVE  SourceInv'
<1> DEFINE want == Least(n, len - offset)
           f    == Frame(offset, want)
<1>1. Typed /\ ThreadInv(t) /\ vol \in Volumes
    BY DEF SourceInv, Typed
<1>2. /\ frame' = [frame EXCEPT ![t] = f]
      /\ asked' = [asked EXCEPT ![t] = n]
      /\ calls' = [calls EXCEPT ![t] = @ + 1]
      /\ answer' = [answer EXCEPT ![t] = NoAnswer]
      /\ pc' = [pc EXCEPT ![t] = "waiting"]
      /\ UNCHANGED <<vol, cursor, holder, poisoned>>
      /\ pc[t] = "idle" /\ calls[t] < MaxCalls /\ offset < len
    BY DEF read_at, mutex
<1>3. offset \in 0 .. U64 - 1 /\ want \in Nat /\ want <= MaxLen
    BY <1>1, <1>2, LenIsAddress, Constants DEF Least
<1>4. f.offset = offset /\ f.want = want /\ f.stage = "seek"
    BY DEF Frame
<1>5. FrameOK(vol, f) /\ CopiedIsPlain(vol, f) /\ f \in Frames
    BY <1>1, <1>3, NewFrame DEF FrameOK
<1>6. NoAnswer \in Answers /\ IsSlice(NoAnswer)
    BY <1>1, NoAnswerInv
<1> HIDE DEF f, want
<1>7. calls' \in [Threads -> 0 .. MaxCalls]
    BY <1>1, <1>2, Constants DEF Typed
<1>8. Typed'
    BY <1>1, <1>2, <1>5, <1>6, <1>7 DEF Typed
<1>9. ThreadInv(t)'
  <2>1. /\ frame'[t] = f /\ asked'[t] = n /\ answer'[t] = NoAnswer /\ pc'[t] = "waiting"
        /\ len' = len
      BY <1>1, <1>2 DEF Typed, len
  <2>2. Guarded(t)' /\ CursorIsOwn(t)'
      BY <2>1, <1>1, <1>2, <1>4 DEF ThreadInv, Guarded, CursorIsOwn
  <2>3. FrameInv(t)'
      BY <2>1, <1>2, <1>3, <1>4, <1>5 DEF FrameInv
  <2>4. Clamped(t)'
      BY <2>1, <1>2, <1>4 DEF Clamped, want
  <2>5. IsSlice(answer[t])'
      BY <2>1, <1>2, <1>6 DEF IsSlice
  <2>6. QED
      BY <2>2, <2>3, <2>4, <2>5 DEF ThreadInv
<1>10. ASSUME NEW s \in Threads, s # t PROVE ThreadInv(s)'
  <2>1. /\ pc'[s] = pc[s] /\ frame'[s] = frame[s] /\ asked'[s] = asked[s]
        /\ answer'[s] = answer[s]
      BY <1>1, <1>2, <1>10 DEF Typed
  <2>2. QED
      BY <2>1, <1>2, OthersKeep
<1>11. QED
    BY <1>8, <1>9, <1>10 DEF SourceInv

(***************************************************************************)
(* The Mutex is taken, poisoned or not, by one that has not begun a unit.  *)
(***************************************************************************)
LEMMA LockInv ==
    ASSUME SourceInv, NEW t \in Threads, Lock(t)
    PROVE  SourceInv'
<1>1. Typed /\ ThreadInv(t)
    BY DEF SourceInv
<1>2. /\ pc' = [pc EXCEPT ![t] = "reading"] /\ holder' = t /\ holder = NoThread
      /\ pc[t] = "waiting"
      /\ UNCHANGED <<vol, cursor, poisoned, frame, asked, calls, answer>>
    BY DEF Lock
<1>3. Typed'
    BY <1>1, <1>2 DEF Typed
<1>4. ThreadInv(t)'
  <2>1. pc'[t] = "reading" /\ len' = len
      BY <1>1, <1>2 DEF Typed, len
  <2>2. Guarded(t)' /\ FrameInv(t)' /\ Clamped(t)'
      BY <2>1, <1>1, <1>2 DEF ThreadInv, Guarded, FrameInv, Clamped
  <2>3. CursorIsOwn(t)'
      BY <2>1, <1>1, <1>2 DEF ThreadInv, CursorIsOwn, UnitIsOnDisk
  <2>4. IsSlice(answer[t])'
      BY <2>1, <1>1, <1>2 DEF ThreadInv, IsSlice
  <2>5. QED
      BY <2>2, <2>3, <2>4 DEF ThreadInv
<1>5. ASSUME NEW s \in Threads, s # t PROVE ThreadInv(s)'
  <2>1. pc'[s] = pc[s] /\ holder # s /\ holder' # s
      BY <1>1, <1>2, <1>5, Constants DEF Typed
  <2>2. QED
      BY <2>1, <1>2, OthersKeep
<1>6. QED
    BY <1>3, <1>4, <1>5 DEF SourceInv

-----------------------------------------------------------------------------
(***************************************************************************)
(* The steps of a read_at under the guard, on the frame and the cursor.    *)
(***************************************************************************)
LEMMA UnitStepInv ==
    ASSUME SourceInv, NEW t \in Threads, pc[t] = "reading",
           NEW f, frame' = [frame EXCEPT ![t] = f], cursor' \in 0 .. U64 - 1,
           UNCHANGED <<vol, mutex, pc, asked, calls, answer>>,
           FrameOK(vol, f), CopiedIsPlain(vol, f), UnitIsOnDisk(vol, f, cursor'),
           f.offset = frame[t].offset, f.want = frame[t].want
    PROVE  SourceInv'
<1>1. Typed /\ ThreadInv(t)
    BY DEF SourceInv
<1>2. UNCHANGED <<vol, holder, poisoned, pc, asked, calls, answer>> /\ holder = t
    BY <1>1 DEF mutex, ThreadInv, Guarded
<1>3. f \in Frames
    BY DEF FrameOK
<1>4. Typed'
    BY <1>1, <1>2, <1>3 DEF Typed
<1>5. ThreadInv(t)'
  <2>1. frame'[t] = f /\ len' = len
      BY <1>1, <1>2 DEF Typed, len
  <2>2. Guarded(t)' /\ FrameInv(t)' /\ Clamped(t)'
      BY <2>1, <1>1, <1>2 DEF ThreadInv, Guarded, FrameInv, Clamped
  <2>3. CursorIsOwn(t)'
      BY <2>1, <1>2 DEF CursorIsOwn
  <2>4. IsSlice(answer[t])'
      BY <2>1, <1>1, <1>2 DEF ThreadInv, IsSlice
  <2>5. QED
      BY <2>2, <2>3, <2>4 DEF ThreadInv
<1>6. ASSUME NEW s \in Threads, s # t PROVE ThreadInv(s)'
  <2>1. frame'[s] = frame[s]
      BY <1>1, <1>6 DEF Typed
  <2>2. QED
      BY <2>1, <1>2, <1>6, OthersKeep
<1>7. QED
    BY <1>4, <1>5, <1>6 DEF SourceInv

LEMMA ReadingFrame ==
    ASSUME SourceInv, NEW t \in Threads, pc[t] = "reading"
    PROVE  /\ vol \in Volumes /\ cursor \in 0 .. U64 - 1
           /\ FrameOK(vol, frame[t]) /\ frame[t] \in Frames
           /\ CopiedIsPlain(vol, frame[t]) /\ UnitIsOnDisk(vol, frame[t], cursor)
BY DEF SourceInv, Typed, ThreadInv, FrameInv, CursorIsOwn, FrameOK

LEMMA SeekUnitInv ==
    ASSUME SourceInv, NEW t \in Threads, SeekUnit(t)
    PROVE  SourceInv'
<1> DEFINE f == Sought(frame[t])
<1>1. pc[t] = "reading" /\ AtUnit(frame[t])
    BY DEF SeekUnit
<1>2. /\ frame' = [frame EXCEPT ![t] = f] /\ cursor' = Physical(vol, frame[t])
      /\ UNCHANGED <<vol, mutex, pc, asked, calls, answer>>
    BY DEF SeekUnit
<1>3. FrameOK(vol, f) /\ CopiedIsPlain(vol, f) /\ UnitIsOnDisk(vol, f, cursor')
    BY <1>1, <1>2, ReadingFrame, SoughtKeeps
<1>4. cursor' \in 0 .. U64 - 1
    BY <1>1, <1>2, ReadingFrame, FrameGeometry
<1>5. f.offset = frame[t].offset /\ f.want = frame[t].want
    BY <1>1, ReadingFrame DEF Frames, Sought
<1> HIDE DEF f
<1>6. QED
    BY <1>1, <1>2, <1>3, <1>4, <1>5, UnitStepInv

LEMMA FillInv ==
    ASSUME SourceInv, NEW t \in Threads, Fill(t)
    PROVE  SourceInv'
<1>1. pc[t] = "reading" /\ frame[t].stage = "fill"
    BY DEF Fill
<1>2. PICK n \in Readable(vol, frame[t], cursor) :
          /\ frame' = [frame EXCEPT ![t] = Filled(vol, frame[t], cursor, n)]
          /\ cursor' = cursor + n
    BY DEF Fill
<1>3. UNCHANGED <<vol, mutex, pc, asked, calls, answer>>
    BY DEF Fill
<1> DEFINE f == Filled(vol, frame[t], cursor, n)
<1>4. /\ FrameOK(vol, f) /\ CopiedIsPlain(vol, f) /\ UnitIsOnDisk(vol, f, cursor + n)
      /\ cursor + n \in 0 .. U64 - 1
    BY <1>1, ReadingFrame, FilledKeeps
<1>5. f.offset = frame[t].offset /\ f.want = frame[t].want
    BY <1>1, ReadingFrame DEF Frames, Filled
<1>6. frame' = [frame EXCEPT ![t] = f]
    BY <1>2
<1> HIDE DEF f
<1>7. QED
    BY <1>1, <1>2, <1>3, <1>4, <1>5, <1>6, UnitStepInv

LEMMA DecryptUnitInv ==
    ASSUME SourceInv, NEW t \in Threads, DecryptUnit(t)
    PROVE  SourceInv'
<1> DEFINE f == Copied(vol, frame[t])
<1>1. pc[t] = "reading" /\ UnitRead(vol, frame[t], cursor)
    BY DEF DecryptUnit
<1>2. /\ frame' = [frame EXCEPT ![t] = f] /\ cursor' = cursor
      /\ UNCHANGED <<vol, mutex, pc, asked, calls, answer>>
    BY DEF DecryptUnit
<1>3. /\ FrameOK(vol, f) /\ CopiedIsPlain(vol, f) /\ UnitIsOnDisk(vol, f, cursor')
      /\ cursor' \in 0 .. U64 - 1
    BY <1>1, <1>2, ReadingFrame, CopiedKeeps
<1>4. f.offset = frame[t].offset /\ f.want = frame[t].want
    BY <1>1, ReadingFrame DEF Frames, Copied
<1> HIDE DEF f
<1>5. QED
    BY <1>1, <1>2, <1>3, <1>4, UnitStepInv

-----------------------------------------------------------------------------
(***************************************************************************)
(* The ways out: each of them gives the Mutex back.                        *)
(***************************************************************************)
LEMMA LeaveInv ==
    ASSUME SourceInv, NEW t \in Threads, pc[t] = "reading",
           NEW where \in {"idle", "dead"}, NEW a \in Answers, IsSlice(a),
           pc' = [pc EXCEPT ![t] = where], answer' = [answer EXCEPT ![t] = a],
           holder' = NoThread, poisoned' \in BOOLEAN,
           UNCHANGED <<vol, cursor, frame, asked, calls>>
    PROVE  SourceInv'
<1>1. Typed /\ ThreadInv(t)
    BY DEF SourceInv
<1>2. holder = t /\ NoThread \notin Threads
    BY <1>1, Constants DEF ThreadInv, Guarded
<1>3. Typed'
    BY <1>1 DEF Typed
<1>4. ThreadInv(t)'
  <2>1. pc'[t] = where /\ answer'[t] = a /\ len' = len
      BY <1>1 DEF Typed, len
  <2>2. Guarded(t)' /\ FrameInv(t)' /\ CursorIsOwn(t)' /\ Clamped(t)'
      BY <2>1, <1>1, <1>2 DEF ThreadInv, Guarded, FrameInv, CursorIsOwn, Clamped
  <2>3. IsSlice(answer[t])'
      BY <2>1 DEF IsSlice
  <2>4. QED
      BY <2>2, <2>3 DEF ThreadInv
<1>5. ASSUME NEW s \in Threads, s # t PROVE ThreadInv(s)'
  <2>1. pc'[s] = pc[s] /\ answer'[s] = answer[s] /\ holder # s /\ holder' # s
      BY <1>1, <1>2, <1>5 DEF Typed
  <2>2. QED
      BY <2>1, OthersKeep
<1>6. QED
    BY <1>3, <1>4, <1>5 DEF SourceInv

LEMMA FailInv ==
    ASSUME SourceInv, NEW t \in Threads, pc[t] = "reading", Fail(t)
    PROVE  SourceInv'
<1>1. Failed(t) \in Answers
  <2>1. frame[t].offset \in 0 .. U64 - 1 /\ asked[t] \in 0 .. MaxLen /\ <<>> \in Seq(Int)
      BY EmptySeq DEF SourceInv, Typed, Frames
  <2>2. QED
      BY <2>1 DEF Failed, Answers
<1>2. IsSlice(Failed(t))
    BY DEF Failed, IsSlice
<1>3. QED
    BY <1>1, <1>2, LeaveInv DEF Fail, SourceInv, Typed

LEMMA ReturnInv ==
    ASSUME SourceInv, NEW t \in Threads, Return(t)
    PROVE  SourceInv'
<1> DEFINE f == frame[t]
           a == Got(t, f.buf)
<1>1. pc[t] = "reading" /\ Len(f.buf) = f.want
    BY DEF Return, Finished
<1>2. /\ f.offset \in 0 .. U64 - 1 /\ asked[t] \in 0 .. MaxLen /\ f.buf \in Seq(Int)
      /\ CopiedIsPlain(vol, f)
    BY <1>1, ReadingFrame DEF SourceInv, Typed, Frames
<1>3. f.offset < len /\ f.want = Least(asked[t], len - f.offset)
    BY <1>1 DEF SourceInv, ThreadInv, Clamped
<1>4. a.ok /\ a.from = f.offset /\ a.asked = asked[t] /\ a.got = f.buf /\ a \in Answers
    BY <1>2 DEF Got, Answers
<1>5. len \in Nat /\ f.offset \in Nat
    BY <1>2, LenIsAddress, Constants DEF SourceInv
<1>6. ~ (f.offset >= len)
    BY <1>3, <1>5
<1>7. \A i \in DOMAIN f.buf :
          f.offset + i - 1 < PlainEnd(vol) => f.buf[i] = f.offset + i - 1
  <2>1. DOMAIN f.buf = 1 .. Len(f.buf)
      BY <1>2
  <2>2. QED
      BY <2>1, <1>2 DEF CopiedIsPlain
<1> HIDE DEF f, a
<1>8. IsSlice(a)
    BY <1>1, <1>3, <1>4, <1>6, <1>7 DEF IsSlice
<1>9. /\ pc' = [pc EXCEPT ![t] = "idle"] /\ answer' = [answer EXCEPT ![t] = a]
      /\ holder' = NoThread /\ poisoned' \in BOOLEAN
      /\ UNCHANGED <<vol, cursor, frame, asked, calls>>
    BY DEF Return, SourceInv, Typed, a, f
<1>10. QED
    BY <1>1, <1>4, <1>8, <1>9, LeaveInv

LEMMA PanicInv ==
    ASSUME SourceInv, NEW t \in Threads, Panic(t)
    PROVE  SourceInv'
<1>1. pc[t] = "reading" /\ answer[t] \in Answers /\ IsSlice(answer[t])
    BY DEF Panic, AtReader, SourceInv, Typed, ThreadInv
<1>2. answer' = [answer EXCEPT ![t] = answer[t]]
    BY DEF Panic, SourceInv, Typed
<1>3. QED
    BY <1>1, <1>2, LeaveInv DEF Panic

(***************************************************************************)
(* The end of the process: nobody reads any more, or holds the Mutex.      *)
(***************************************************************************)
LEMMA AbortInv ==
    ASSUME SourceInv, NEW t \in Threads, Abort(t)
    PROVE  SourceInv'
<1>1. /\ pc' = [s \in Threads |-> "aborted"] /\ holder' = NoThread
      /\ UNCHANGED <<vol, cursor, poisoned, frame, asked, calls, answer>>
    BY DEF Abort
<1>2. Typed'
    BY <1>1 DEF SourceInv, Typed
<1>3. ASSUME NEW s \in Threads PROVE ThreadInv(s)'
  <2>1. ThreadInv(s) /\ pc'[s] = "aborted" /\ holder' # s /\ len' = len
      BY <1>1, Constants DEF SourceInv, len
  <2>2. Guarded(s)' /\ CursorIsOwn(s)' /\ Clamped(s)'
      BY <2>1 DEF Guarded, CursorIsOwn, Clamped
  <2>3. FrameInv(s)' /\ IsSlice(answer[s])'
      BY <2>1, <1>1 DEF ThreadInv, FrameInv, IsSlice
  <2>4. QED
      BY <2>2, <2>3 DEF ThreadInv
<1>4. QED
    BY <1>2, <1>3 DEF SourceInv

LEMMA NextInv == SourceInv /\ [Next]_vars => SourceInv'
<1> SUFFICES ASSUME SourceInv, [Next]_vars PROVE SourceInv'
    OBVIOUS
<1>1. ASSUME NEW t \in Threads, Call(t) PROVE SourceInv'
    BY <1>1, ReadNothingInv, ReadAtInv DEF Call
<1>2. ASSUME NEW t \in Threads, Progress(t) PROVE SourceInv'
    BY <1>2, LockInv, SeekUnitInv, AbortInv, FillInv, DecryptUnitInv, ReturnInv, FailInv
    DEF Progress, RefuseMode
<1>3. ASSUME NEW t \in Threads, IoError(t) \/ Panic(t) PROVE SourceInv'
    BY <1>3, FailInv, PanicInv DEF IoError, AtReader
<1>4. CASE UNCHANGED vars
  <2>1. /\ UNCHANGED <<vol, cursor, holder, poisoned, pc, frame, asked, calls, answer>>
      BY <1>4 DEF vars, mutex, thread
  <2>2. QED
      BY <2>1, OthersKeep DEF SourceInv, Typed
<1>5. QED
    BY <1>1, <1>2, <1>3, <1>4 DEF Next

LEMMA SpecInv == Spec => []SourceInv
BY InitInv, NextInv, PTL DEF Spec

-----------------------------------------------------------------------------
(***************************************************************************)
(* The type invariant, for any number of threads: no thread's frame        *)
(* outgrows its buffer and its unit (vfs.rs:127-139).                      *)
(***************************************************************************)
THEOREM TypeCorrect == Spec => []TypeOK
<1>1. SourceInv => TypeOK
    BY DEF SourceInv, Typed, ThreadInv, FrameInv, FrameOK, TypeOK
<1>2. QED
    BY <1>1, SpecInv, PTL

(***************************************************************************)
(* The Mutex excludes: at most one thread is between a seek and the reads  *)
(* of the shared reader, through errors and panics (vfs.rs:136-138).       *)
(***************************************************************************)
OneReader == \A s, t \in Threads : pc[s] = "reading" /\ pc[t] = "reading" => s = t

THEOREM MutualExclusion == Spec => []OneReader
<1>1. SourceInv => OneReader
    BY DEF SourceInv, ThreadInv, Guarded, OneReader
<1>2. QED
    BY <1>1, SpecInv, PTL

(***************************************************************************)
(* Whoever holds the Mutex is alive and can go on, so a waiting thread     *)
(* waits for nobody who has failed, died or waits himself: every way out   *)
(* of the read drops the guard (vfs.rs:136-138).                           *)
(***************************************************************************)
THEOREM HolderGoesOn == Spec => []GuardIsAlive
<1>1. SourceInv => GuardIsAlive
  <2> SUFFICES ASSUME SourceInv, holder # NoThread
               PROVE  LET f == frame[holder]
                      IN /\ pc[holder] = "reading"
                         /\ \/ AtUnit(f) \/ Finished(f) \/ UnitRead(vol, f, cursor)
                            \/ f.stage = "fill" /\ Readable(vol, f, cursor) # {}
      BY DEF GuardIsAlive
  <2>1. holder \in Threads /\ vol \in Volumes /\ cursor \in 0 .. U64 - 1
      BY DEF SourceInv, Typed
  <2>2. pc[holder] = "reading" /\ FrameOK(vol, frame[holder])
      BY <2>1 DEF SourceInv, ThreadInv, Guarded, FrameInv
  <2>3. QED
      BY <2>1, <2>2, StepIsOpen
<1>2. QED
    BY <1>1, SpecInv, PTL

(***************************************************************************)
(* An answered read is the plaintext at its own offset, as long as asked   *)
(* for or as there is, whatever the other threads do in the meantime       *)
(* (LuksSource::read_at, vfs.rs:127-139).                                  *)
(***************************************************************************)
THEOREM AnswersAreSlices == Spec => []ReadsAreSlices
<1>1. SourceInv => ReadsAreSlices
    BY DEF SourceInv, ThreadInv, IsSlice, ReadsAreSlices
<1>2. QED
    BY <1>1, SpecInv, PTL

(***************************************************************************)
(* A panic under the guard kills the thread that read, and never one that  *)
(* waits: the poisoned Mutex is taken as it is (vfs.rs:136).               *)
(***************************************************************************)
THEOREM PanicIsLocal == Spec => PanicStaysLocal
<1> DEFINE Local == \A t \in Threads : pc[t] = "waiting" => pc'[t] # "dead"
<1>1. SourceInv /\ [Next]_vars => [Local]_vars
  <2> SUFFICES ASSUME SourceInv, Next, NEW s \in Threads, pc[s] = "waiting"
               PROVE  pc'[s] # "dead"
      OBVIOUS
  <2>1. pc \in [Threads -> {"idle", "waiting", "reading", "dead", "aborted"}]
      BY DEF SourceInv, Typed
  <2>2. PICK t \in Threads : Call(t) \/ Progress(t) \/ IoError(t) \/ Panic(t)
      BY DEF Next
  <2>3. Panic(t) => pc'[s] = pc[s]
      BY <2>1 DEF Panic, AtReader
  <2>4. Call(t) => pc'[s] # "dead"
      BY <2>1 DEF Call, ReadNothing, read_at
  <2>5. Progress(t) \/ IoError(t) => pc'[s] # "dead"
      BY <2>1 DEF Progress, Lock, SeekUnit, Abort, Fill, DecryptUnit, RefuseMode, Return,
                  IoError, Fail
  <2>6. QED
      BY <2>2, <2>3, <2>4, <2>5
<1>2. QED
    BY <1>1, SpecInv, PTL DEF Spec, PanicStaysLocal
=============================================================================
