----------------------------- MODULE MCAfMerge -----------------------------
(***************************************************************************)
(* Instances of AfMerge for TLC: a byte is a bit, and the hash a           *)
(* permutation of every chunk that depends on its number.                  *)
(***************************************************************************)
EXTENDS AfMerge

MCXor(a, b) == (a + b) % 2

MCHash(n, chunk) ==
    [k \in 1 .. DIGEST_SIZE |->
        (n + (IF k <= Len(chunk) THEN chunk[k] ELSE 0)
           + (IF k > 1 /\ k - 1 <= Len(chunk) THEN chunk[k - 1] ELSE 1)) % 2]

MCFillers == {<<0, 0, 0>>, <<1, 0, 1>>, <<0, 1, 1>>}
=============================================================================
