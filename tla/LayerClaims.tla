---------------------------- MODULE LayerClaims ----------------------------
(***************************************************************************)
(* What the repository says of opening a layer and the code does not keep. *)
(***************************************************************************)
EXTENDS Layer

(***************************************************************************)
(* CONTRIBUTING.md:61-63: "Fail loud [...] Never swallow an error" -- an   *)
(* open that answers "wrong passphrase" does not hide that a candidate     *)
(* which opens the container ran out of time or met an I/O error.          *)
(***************************************************************************)
NoErrorSwallowed ==
    (opened.is = "Decode" /\ opened.err = "AuthenticationFailed") =>
        \A i \in 1 .. Len(Cands) :
            Carries(i) => WrongPassphrase(container, Cands[i].secret)
=============================================================================
