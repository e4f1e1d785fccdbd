-------------------------- MODULE UnlockRefinement --------------------------
(***************************************************************************)
(* The unlock of core/src/volume.rs keeps the promise of UnlockPromise.    *)
(***************************************************************************)
EXTENDS Unlock, UnlockMeaning

Promise == INSTANCE UnlockPromise WITH answer <- result, Allowed <- MayAnswer

(***************************************************************************)
(* The answer is a function of the container and the passphrase up to time *)
(* and I/O: however derivations and reads interleave with the deadline,    *)
(* the loops answer the key of the first slot that accepts, say "wrong     *)
(* passphrase" only when every active slot really declines, and refuse     *)
(* only what is unusable (recover_master_key1, recover_master_key2).       *)
(***************************************************************************)
KeepsPromise == Promise!Spec
=============================================================================
