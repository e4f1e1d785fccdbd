--------------------------- MODULE UnlockPromise ---------------------------
(***************************************************************************)
(* What an unlock promises its caller: one answer, given once, and one     *)
(* that is allowed for the container and the passphrase of the call.  How  *)
(* the answer is found, and how long it takes, is not said here.           *)
(***************************************************************************)
CONSTANTS
    Containers, Passphrases,
    Pending,             \* no answer yet
    Allowed(_, _, _)     \* Allowed(c, p, r): r may be answered to p on c

VARIABLES container, passphrase, answer

Init ==
    /\ container \in Containers
    /\ passphrase \in Passphrases
    /\ answer = Pending

Answer ==
    /\ answer = Pending
    /\ answer' # Pending
    /\ Allowed(container, passphrase, answer')
    /\ UNCHANGED <<container, passphrase>>

Spec == Init /\ [][Answer]_<<container, passphrase, answer>>
=============================================================================
