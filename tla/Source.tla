------------------------------- MODULE Source -------------------------------
(***************************************************************************)
(* LuksSource (core/src/vfs.rs): one DecryptedPayload behind a Mutex, read *)
(* by several threads at offsets of their own.  What they share is the     *)
(* cursor of the one reader underneath, which read_at moves with a seek    *)
(* and several reads per encryption unit.                                  *)
(*                                                                         *)
(* The reader is the caller's: it may give short reads, fail, and panic,   *)
(* which poisons the Mutex as the guard is dropped.                        *)
(***************************************************************************)
EXTENDS ReadAt

CONSTANTS
    Threads,
    NoThread,  \* the Mutex is free
    Offsets,   \* offsets the threads read at
    MaxLen,    \* longest buffer, in cells
    MaxCalls   \* calls one thread makes

ASSUME SourceAssumption ==
    /\ NoThread \notin Threads
    /\ Offsets \subseteq 0 .. U64 - 1
    /\ MaxLen \in Nat /\ MaxCalls \in Nat

VARIABLES
    vol,       \* the volume
    cursor,    \* the position of the shared reader
    holder,    \* the thread that holds the Mutex
    poisoned,  \* its poison flag
    pc,        \* where each thread is
    frame,     \* the frame of its read_at on the payload
    asked,     \* the length of its buffer
    calls,     \* the calls it has made
    answer     \* the answer to its latest call, until the next one

mutex  == <<holder, poisoned>>
thread == <<pc, frame, asked, calls, answer>>
vars   == <<vol, cursor, mutex, thread>>

len == payload_size(vol)

NoAnswer       == [ok |-> TRUE, from |-> 0, asked |-> 0, got |-> <<>>]
Got(t, cells)  == [ok |-> TRUE, from |-> frame[t].offset, asked |-> asked[t], got |-> cells]
Failed(t)      == [ok |-> FALSE, from |-> frame[t].offset, asked |-> asked[t], got |-> <<>>]

Init ==
    /\ vol \in Volumes
    /\ cursor = 0
    /\ holder = NoThread
    /\ poisoned = FALSE
    /\ pc = [t \in Threads |-> "idle"]
    /\ frame = [t \in Threads |-> Frame(0, 0)]
    /\ asked = [t \in Threads |-> 0]
    /\ calls = [t \in Threads |-> 0]
    /\ answer = [t \in Threads |-> NoAnswer]

-----------------------------------------------------------------------------
(***************************************************************************)
(* ImageSource::read_at up to the lock: at or past the end there is        *)
(* nothing, before it the buffer is cut to what there is.                  *)
(***************************************************************************)
ReadNothing(t, offset, n) ==
    /\ pc[t] = "idle"
    /\ calls[t] < MaxCalls
    /\ offset >= len
    /\ answer' = [answer EXCEPT ![t] = [NoAnswer EXCEPT !.from = offset, !.asked = n]]
    /\ calls' = [calls EXCEPT ![t] = @ + 1]
    /\ UNCHANGED <<vol, cursor, mutex, pc, frame, asked>>

read_at(t, offset, n) ==
    /\ pc[t] = "idle"
    /\ calls[t] < MaxCalls
    /\ offset < len
    /\ frame' = [frame EXCEPT ![t] = Frame(offset, Least(n, len - offset))]
    /\ asked' = [asked EXCEPT ![t] = n]
    /\ calls' = [calls EXCEPT ![t] = @ + 1]
    /\ answer' = [answer EXCEPT ![t] = NoAnswer]
    /\ pc' = [pc EXCEPT ![t] = "waiting"]
    /\ UNCHANGED <<vol, cursor, mutex>>

(***************************************************************************)
(* lock().unwrap_or_else(into_inner): a poisoned Mutex is taken as it is.  *)
(* Faulty: lock().unwrap(), which panics on it.                            *)
(***************************************************************************)
UnwrapLock(t) ==
    /\ pc[t] = "waiting"
    /\ holder = NoThread
    /\ pc' = [pc EXCEPT ![t] = IF poisoned THEN "dead" ELSE "reading"]
    /\ holder' = IF poisoned THEN NoThread ELSE t
    /\ UNCHANGED <<vol, cursor, poisoned, frame, asked, calls, answer>>

Lock(t) ==
    /\ pc[t] = "waiting"
    /\ holder = NoThread
    /\ pc' = [pc EXCEPT ![t] = "reading"]
    /\ holder' = t
    /\ UNCHANGED <<vol, cursor, poisoned, frame, asked, calls, answer>>

-----------------------------------------------------------------------------
(***************************************************************************)
(* DecryptedPayload::read_at under the guard.  Faulty: the guard is given  *)
(* up between the seek and the reads.                                      *)
(***************************************************************************)
SeekUnguarded(t) ==
    /\ pc[t] = "reading"
    /\ AtUnit(frame[t])
    /\ Fits(vol)
    /\ cursor' = Physical(vol, frame[t])
    /\ frame' = [frame EXCEPT ![t] = Sought(@)]
    /\ holder' = NoThread
    /\ UNCHANGED <<vol, poisoned, pc, asked, calls, answer>>

SeekUnit(t) ==
    /\ pc[t] = "reading"
    /\ AtUnit(frame[t])
    /\ Fits(vol)
    /\ cursor' = Physical(vol, frame[t])
    /\ frame' = [frame EXCEPT ![t] = Sought(@)]
    /\ UNCHANGED <<vol, mutex, pc, asked, calls, answer>>

(***************************************************************************)
(* A unit buffer the allocator cannot provide ends the process, and with   *)
(* it every thread.                                                        *)
(***************************************************************************)
Abort(t) ==
    /\ pc[t] = "reading"
    /\ AtUnit(frame[t])
    /\ ~ Fits(vol)
    /\ pc' = [s \in Threads |-> "aborted"]
    /\ holder' = NoThread
    /\ UNCHANGED <<vol, cursor, poisoned, frame, asked, calls, answer>>

Fill(t) ==
    /\ pc[t] = "reading"
    /\ frame[t].stage = "fill"
    /\ \E n \in Readable(vol, frame[t], cursor) :
          /\ frame' = [frame EXCEPT ![t] = Filled(vol, @, cursor, n)]
          /\ cursor' = cursor + n
    /\ UNCHANGED <<vol, mutex, pc, asked, calls, answer>>

DecryptUnit(t) ==
    /\ pc[t] = "reading"
    /\ UnitRead(vol, frame[t], cursor)
    /\ vol.cipher_mode = "xts-plain64"
    /\ frame' = [frame EXCEPT ![t] = Copied(vol, @)]
    /\ UNCHANGED <<vol, cursor, mutex, pc, asked, calls, answer>>

(***************************************************************************)
(* The ways out, on each of which the guard is dropped: Ok(want), map_err  *)
(* with `?`, unwinding.  Faulty: an error leaves without the unlock.       *)
(***************************************************************************)
Return(t) ==
    /\ pc[t] = "reading"
    /\ Finished(frame[t])
    /\ answer' = [answer EXCEPT ![t] = Got(t, frame[t].buf)]
    /\ pc' = [pc EXCEPT ![t] = "idle"]
    /\ holder' = NoThread
    /\ UNCHANGED <<vol, cursor, poisoned, frame, asked, calls>>

FailLocked(t) ==
    /\ answer' = [answer EXCEPT ![t] = Failed(t)]
    /\ pc' = [pc EXCEPT ![t] = "idle"]
    /\ UNCHANGED <<vol, cursor, mutex, frame, asked, calls>>

Fail(t) ==
    /\ answer' = [answer EXCEPT ![t] = Failed(t)]
    /\ pc' = [pc EXCEPT ![t] = "idle"]
    /\ holder' = NoThread
    /\ UNCHANGED <<vol, cursor, poisoned, frame, asked, calls>>

AtReader(t) ==
    /\ pc[t] = "reading"
    /\ \/ AtUnit(frame[t])
       \/ frame[t].stage = "fill" /\ Len(frame[t].ct) < vol.sector_size

IoError(t) == AtReader(t) /\ Fits(vol) /\ Fail(t)

RefuseMode(t) ==
    /\ pc[t] = "reading"
    /\ UnitRead(vol, frame[t], cursor)
    /\ vol.cipher_mode # "xts-plain64"
    /\ Fail(t)

(***************************************************************************)
(* A panic of the reader, of a checked build where a sum overflows, or at  *)
(* a unit buffer larger than any allocation may be.                        *)
(***************************************************************************)
Panic(t) ==
    /\ AtReader(t)
    /\ pc' = [pc EXCEPT ![t] = "dead"]
    /\ holder' = NoThread
    /\ poisoned' = TRUE
    /\ UNCHANGED <<vol, cursor, frame, asked, calls, answer>>

-----------------------------------------------------------------------------
Call(t) ==
    \E offset \in Offsets, n \in 0 .. MaxLen :
        ReadNothing(t, offset, n) \/ read_at(t, offset, n)

Progress(t) ==
    \/ Lock(t) \/ SeekUnit(t) \/ Abort(t) \/ Fill(t) \/ DecryptUnit(t)
    \/ RefuseMode(t) \/ Return(t)

Next == \E t \in Threads : Call(t) \/ Progress(t) \/ IoError(t) \/ Panic(t)

(***************************************************************************)
(* Every thread is scheduled and the reader answers; with boundedly many   *)
(* calls no thread is overtaken at the Mutex for ever, whatever its order. *)
(***************************************************************************)
Spec == Init /\ [][Next]_vars /\ \A t \in Threads : WF_vars(Progress(t))

-----------------------------------------------------------------------------
(***************************************************************************)
(* Type invariant; a frame never outgrows its buffer and its unit.         *)
(***************************************************************************)
TypeOK ==
    /\ vol \in Volumes
    /\ cursor \in 0 .. U64 - 1
    /\ holder \in Threads \cup {NoThread}
    /\ poisoned \in BOOLEAN
    /\ pc \in [Threads -> {"idle", "waiting", "reading", "dead", "aborted"}]
    /\ asked \in [Threads -> 0 .. MaxLen]
    /\ calls \in [Threads -> 0 .. MaxCalls]
    /\ \A t \in Threads :
          /\ Len(frame[t].buf) <= frame[t].want /\ frame[t].want <= MaxLen
          /\ Len(frame[t].ct) <= vol.sector_size

(***************************************************************************)
(* Whatever the other threads read, fail at or die of in the meantime, an  *)
(* answered read is the plaintext at its own offset, as long as asked for  *)
(* or as there is (LuksSource::read_at, vfs.rs:127-139).                   *)
(***************************************************************************)
ReadsAreSlices ==
    \A t \in Threads :
        answer[t].ok =>
            LET a == answer[t]
            IN /\ Len(a.got) = IF a.from >= len THEN 0 ELSE Least(a.asked, len - a.from)
               /\ \A i \in DOMAIN a.got :
                     a.from + i - 1 < PlainEnd(vol) => a.got[i] = a.from + i - 1

(***************************************************************************)
(* A panic under the guard does not spread: a thread that waits for the    *)
(* Mutex gets to read, poisoned or not (vfs.rs:136).                       *)
(***************************************************************************)
PanicStaysLocal == [][\A t \in Threads : pc[t] = "waiting" => pc'[t] # "dead"]_vars

(***************************************************************************)
(* Nobody waits for a thread that will not come back: whoever holds the    *)
(* Mutex is in its read_at, whatever failed or panicked before, and a step *)
(* of that is open to it whatever the others do (vfs.rs:136-138).          *)
(***************************************************************************)
GuardIsAlive ==
    holder # NoThread =>
        LET f == frame[holder]
        IN /\ pc[holder] = "reading"
           /\ \/ AtUnit(f) \/ Finished(f) \/ UnitRead(vol, f, cursor)
              \/ f.stage = "fill" /\ Readable(vol, f, cursor) # {}

(***************************************************************************)
(* Every read returns, dies of its own panic or ends with the process: no  *)
(* way out of read_at leaves the Mutex locked (vfs.rs:136-138).            *)
(***************************************************************************)
ReadsReturn ==
    \A t \in Threads :
        pc[t] \in {"waiting", "reading"} ~> pc[t] \in {"idle", "dead", "aborted"}
=============================================================================
