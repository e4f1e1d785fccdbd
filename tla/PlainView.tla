----------------------------- MODULE PlainView -----------------------------
(***************************************************************************)
(* What a DecryptedPayload is to its caller: the plaintext of the volume   *)
(* as one stream of known size with a position.  Every call is one step,   *)
(* and so is taking up the next one.                                       *)
(*                                                                         *)
(* The plaintext cell at address a is a itself.  Nothing is promised of    *)
(* the cells from address "known" on: those of a cipher block the end of   *)
(* the stream cuts through, those a direct read_at asks for past the end.  *)
(***************************************************************************)
EXTENDS Integers, Sequences

CONSTANTS U64, MaxLen

VARIABLES size, known, position, reply

Answer(op, ok, from, asked, got) ==
    [op |-> op, ok |-> ok, from |-> from, asked |-> asked, got |-> got]

NoAnswer == Answer("none", TRUE, 0, 0, <<>>)

Count(from, n) ==
    IF from >= size THEN 0 ELSE IF n <= size - from THEN n ELSE size - from

(***************************************************************************)
(* The cells got from an address on are the stream's, where it is known.   *)
(***************************************************************************)
IsSlice(got, from) ==
    \A i \in DOMAIN got : from + i - 1 < known => got[i] = from + i - 1

Init == size \in Nat /\ known \in 0 .. size /\ position = 0 /\ reply = NoAnswer

Ask == reply' = NoAnswer /\ UNCHANGED position

(***************************************************************************)
(* read: as much as asked for and there is, and the position moves by what *)
(* was read; a failed read leaves the position where it was.               *)
(***************************************************************************)
Read(n) ==
    /\ reply' = Answer("read", reply'.ok, position, n, reply'.got)
    /\ IF reply'.ok
       THEN /\ Len(reply'.got) = Count(position, n)
            /\ IsSlice(reply'.got, position)
            /\ position' = position + Count(position, n)
       ELSE UNCHANGED position

(***************************************************************************)
(* read_at: all the cells asked for; the position is not touched.          *)
(***************************************************************************)
ReadAt(from, n) ==
    /\ reply' = Answer("read_at", reply'.ok, from, n, reply'.got)
    /\ reply'.ok => Len(reply'.got) = n /\ IsSlice(reply'.got, from)
    /\ UNCHANGED position

(***************************************************************************)
(* seek: anywhere from 0 on, past the end too.  A target no u64 holds may  *)
(* land anywhere, but never unnoticed: the answer is where the next read   *)
(* will read.                                                              *)
(***************************************************************************)
Seek(target) ==
    /\ reply' = Answer("seek", target >= 0, position, target,
                       IF target >= 0 THEN <<position'>> ELSE <<>>)
    /\ target < 0 => UNCHANGED position
    /\ target \in 0 .. U64 - 1 => position' = target
    /\ position' \in 0 .. U64 - 1

Next ==
    /\ \/ Ask
       \/ \E n \in 0 .. MaxLen : Read(n)
       \/ \E from \in 0 .. U64 - 1, n \in 0 .. MaxLen : ReadAt(from, n)
       \/ \E target \in -U64 .. 2 * U64 : Seek(target)
    /\ UNCHANGED <<size, known>>

Spec == Init /\ [][Next]_<<size, known, position, reply>>
=============================================================================
