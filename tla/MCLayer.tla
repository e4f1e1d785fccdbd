------------------------------ MODULE MCLayer ------------------------------
(***************************************************************************)
(* Instances of Layer for TLC.                                             *)
(***************************************************************************)
EXTENDS LayerClaims, MCUnlock

LayerContainers ==
    { Luks1(<<Slot1Of(p2, k1), Slot1Of(p1, k1)>>),
      Luks1(<<[Slot1Of(p1, k1) EXCEPT !.iterations = 5]>>),
      Luks1(<<Striped1>>),
      [Luks1(<<Slot1Of(p1, k1)>>) EXCEPT !.len = 7],
      [Luks1(<<Slot1Of(p1, k1)>>) EXCEPT !.magic = FALSE],
      Luks2(<<Slot2Of(0, p2, k1), Slot2Of(1, p1, k2)>>,
            <<DigestOf(k1, {0}), DigestOf(k2, {1})>>),
      [Plain2 EXCEPT !.hdr_size = 100000],
      [Plain2 EXCEPT !.body.keyslots = <<>>] } \cup Foreign

Cred(kind, secret) == [kind |-> kind, secret |-> secret]

(***************************************************************************)
(* One source has something for LUKS1 only, the others the same for both.  *)
(***************************************************************************)
Lists ==
    { <<>>,
      <<Cred("KeyFile", p1)>>,
      <<Cred("RecoveryKey", p1)>>,
      <<Cred("Password", p2), Cred("KeyBytes", p1)>>,
      <<Cred("Password", p1), Cred("KeyFile", p2), Cred("Password", p2)>> }

MCStores ==
    { [s \in Schemes |-> l] : l \in Lists } \cup
    { [s \in Schemes |-> IF s = "Luks1" THEN <<Cred("Password", p1)>> ELSE <<>>] }

LayerBudgets == {4}
=============================================================================
