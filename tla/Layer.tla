------------------------------- MODULE Layer -------------------------------
(***************************************************************************)
(* LuksLayer (core/src/vfs.rs): a container behind the EncryptionLayer     *)
(* contract of forensic_vfs.  new peeks at the version, open tries the     *)
(* credentials its caller's source has for that scheme.                    *)
(*                                                                         *)
(* Each attempt is a whole run of Unlock, on a fresh view of the container *)
(* and with a fresh total budget; the variables of Unlock are the frame of *)
(* that call and have their first values while none is running.  Calls of  *)
(* open share nothing they write, so one at a time is modelled, and any    *)
(* number one after the other.                                             *)
(***************************************************************************)
EXTENDS UnlockRefinement

CONSTANTS
    UNLOCK_BUDGET,  \* the total budget unlock_with_passphrase gives itself
    Stores          \* what credential sources may hold, scheme by scheme

Schemes == {"Luks1", "Luks2"}

Credential == [kind : {"Password", "RecoveryKey", "KeyBytes", "KeyFile"},
               secret : Passphrases]

ASSUME LayerAssumption ==
    /\ UNLOCK_BUDGET \in Budgets
    /\ Stores \subseteq [Schemes -> Seq(Credential)]

VARIABLES
    stage,      \* where the layer is
    peek,       \* the source's answer to the peek: are all eight bytes read
    scheme,     \* LuksLayer.scheme
    store,      \* the credential source
    cred,       \* cursor of the loop over the candidates
    last_err,   \* the error of the latest attempt
    open_time,  \* time the attempts before the running one took
    opened      \* the answer of open

frame == <<pc, passphrase, total, elapsed, spent, header, slot, tried, dig,
           slot_key, candidate, result>>
layer == <<stage, peek, scheme, store, cred, last_err, open_time, opened>>

layerVars == <<container, frame, layer>>

Answer(is, err, key) == [is |-> is, err |-> err, key |-> key]
NotYet               == Answer("NotYet", "None", NoKey)
NeedCredentials      == Answer("NeedCredentials", "None", NoKey)

(***************************************************************************)
(* No call of unlock is running.                                           *)
(***************************************************************************)
NoFrame == Init /\ pc = "detect" /\ total = UNLOCK_BUDGET

LayerInit ==
    /\ NoFrame
    /\ stage = "new"
    /\ peek \in BOOLEAN
    /\ container.len < 8 => ~ peek
    /\ scheme = "Luks2"
    /\ store \in Stores
    /\ cred = 1
    /\ last_err = "None"
    /\ open_time = 0
    /\ opened = NotYet

-----------------------------------------------------------------------------
(***************************************************************************)
(* LuksLayer::new.  A peek that fails or comes up short is LUKS2, like any *)
(* header that is not LUKS1.  Faulty: the version is not looked at.        *)
(***************************************************************************)
MagicOnly(c, whole) == IF whole /\ c.magic THEN "Luks1" ELSE "Luks2"

SchemeOf(c, whole) ==
    IF whole /\ c.magic /\ c.version = 1 THEN "Luks1" ELSE "Luks2"

New ==
    /\ stage = "new"
    /\ scheme' = SchemeOf(container, peek)
    /\ stage' = "idle"
    /\ UNCHANGED <<container, frame, peek, store, cred, last_err, open_time, opened>>

-----------------------------------------------------------------------------
(***************************************************************************)
(* The candidates, and which of them carry a passphrase.  Faulty: a        *)
(* recovery key is not wired.                                              *)
(***************************************************************************)
Cands == store[scheme]

NoRecoveryKey(c) == c.kind \in {"Password", "KeyBytes"}

Wired(c) == c.kind \in {"Password", "RecoveryKey", "KeyBytes"}

Return(answer) == stage' = "idle" /\ opened' = answer

(***************************************************************************)
(* EncryptionLayer::open.                                                  *)
(***************************************************************************)
Open ==
    /\ stage = "idle"
    /\ cred' = 1
    /\ last_err' = "None"
    /\ open_time' = 0
    /\ \/ Cands = <<>> /\ Return(NeedCredentials)
       \/ Cands # <<>> /\ stage' = "loop" /\ opened' = NotYet
    /\ UNCHANGED <<container, frame, peek, scheme, store>>

SkipUnwired ==
    /\ stage = "loop"
    /\ cred <= Len(Cands)
    /\ ~ Wired(Cands[cred])
    /\ cred' = cred + 1
    /\ UNCHANGED <<container, frame, stage, peek, scheme, store, last_err, open_time, opened>>

(***************************************************************************)
(* LuksVolume::unlock_with_passphrase over a fresh cursor: the call, its   *)
(* steps, and its return.                                                  *)
(***************************************************************************)
Attempt ==
    /\ stage = "loop"
    /\ cred <= Len(Cands)
    /\ Wired(Cands[cred])
    /\ passphrase' = Cands[cred].secret
    /\ stage' = "unlocking"
    /\ UNCHANGED <<container, pc, total, elapsed, spent, header, slot, tried, dig,
                   slot_key, candidate, result>>
    /\ UNCHANGED <<peek, scheme, store, cred, last_err, open_time, opened>>

UnlockStep ==
    /\ stage = "unlocking"
    /\ Next
    /\ UNCHANGED layer

(***************************************************************************)
(* A source is the answer of open, an error that of the attempt only, and  *)
(* the frame is gone.  Faulty: the first error is the one remembered; an   *)
(* attempt short of time or with an I/O error is made again; the deadline  *)
(* of one attempt is kept for the next.                                    *)
(***************************************************************************)
RememberFirst(err) ==
    /\ last_err' = IF last_err = "None" THEN err ELSE last_err
    /\ cred' = cred + 1

RetryTransient(err) ==
    /\ last_err' = err
    /\ cred' = IF err \in Transient THEN cred ELSE cred + 1

Remember(err) ==
    /\ last_err' = err
    /\ cred' = cred + 1

ClockRunsOn ==
    /\ pc' = "detect"
    /\ UNCHANGED <<elapsed, spent>>
    /\ header' = NoHeader
    /\ slot' = 1 /\ tried' = 0 /\ dig' = 1
    /\ slot_key' = NoSlotKey
    /\ candidate' = NoKey
    /\ result' = Pending

Gone ==
    /\ pc' = "detect"
    /\ elapsed' = 0 /\ spent' = 0
    /\ header' = NoHeader
    /\ slot' = 1 /\ tried' = 0 /\ dig' = 1
    /\ slot_key' = NoSlotKey
    /\ candidate' = NoKey
    /\ result' = Pending

Attempted ==
    /\ stage = "unlocking"
    /\ pc = "done"
    /\ \/ /\ result.err = "Ok"
          /\ Return(Answer("Source", "None", result.key))
          /\ UNCHANGED <<cred, last_err>>
       \/ /\ result.err = "Abort"
          /\ stage' = "aborted"
          /\ UNCHANGED <<cred, last_err, opened>>
       \/ /\ result.err \notin {"Ok", "Abort"}
          /\ Remember(result.err)
          /\ stage' = "loop"
          /\ UNCHANGED opened
    /\ open_time' = open_time + elapsed
    /\ Gone
    /\ UNCHANGED <<container, passphrase, total, peek, scheme, store>>

(***************************************************************************)
(* No candidate is left: map_luks_err of the last error, if there was one. *)
(* Faulty: the candidates are gone through again.                          *)
(***************************************************************************)
StartAgain ==
    /\ stage = "loop"
    /\ cred > Len(Cands)
    /\ cred' = 1
    /\ open_time' = 0
    /\ UNCHANGED <<container, frame, stage, peek, scheme, store, last_err, opened>>

Exhausted ==
    /\ stage = "loop"
    /\ cred > Len(Cands)
    /\ Return(IF last_err = "None" THEN NeedCredentials
              ELSE Answer("Decode", last_err, NoKey))
    /\ UNCHANGED <<container, frame, peek, scheme, store, cred, last_err, open_time>>

Progress == SkipUnwired \/ Attempt \/ UnlockStep \/ Attempted \/ Exhausted

LayerNext == New \/ Open \/ Progress

(***************************************************************************)
(* An open that was called runs on on its caller's thread.                 *)
(***************************************************************************)
LayerSpec == LayerInit /\ [][LayerNext]_layerVars /\ WF_layerVars(Progress)

-----------------------------------------------------------------------------
(***************************************************************************)
(* Type invariant.  Beyond the types: no call of unlock is half done while *)
(* the layer does anything else, and the one that runs is for the          *)
(* candidate under the cursor.                                             *)
(***************************************************************************)
LayerTypeOK ==
    /\ TypeOK
    /\ total = UNLOCK_BUDGET
    /\ stage \in {"new", "idle", "loop", "unlocking", "aborted"}
    /\ peek \in BOOLEAN
    /\ scheme \in Schemes
    /\ store \in Stores
    /\ cred \in 1 .. Len(Cands) + 1
    /\ last_err \in Errors \cup {"None"}
    /\ open_time \in Nat
    /\ opened \in [is : {"NotYet", "NeedCredentials", "Decode", "Source"},
                   err : Errors \cup {"None"}, key : MasterKeys \cup {Junk, NoKey}]
    /\ stage # "unlocking" => NoFrame
    /\ stage = "unlocking" => /\ cred <= Len(Cands)
                              /\ passphrase = Cands[cred].secret

(***************************************************************************)
(* What an answer of open means, said of the container and the candidates  *)
(* alone (vfs.rs:61-91).  NeedCredentials: no candidate carries a          *)
(* passphrase.  A source: some candidate opens the container, with this    *)
(* very key.  Decode: the error is a true answer to the last candidate     *)
(* that carries a passphrase.                                              *)
(***************************************************************************)
Carries(i) == Cands[i].kind # "KeyFile"

OpenIsHonest ==
    /\ opened.is = "NeedCredentials" => \A i \in 1 .. Len(Cands) : ~ Carries(i)
    /\ opened.is = "Source" =>
          \E i \in 1 .. Len(Cands) :
              Carries(i) /\ Opened(container, Cands[i].secret, opened.key)
    /\ opened.is = "Decode" =>
          \E i \in 1 .. Len(Cands) :
              /\ Carries(i)
              /\ \A j \in i + 1 .. Len(Cands) : ~ Carries(j)
              /\ MayAnswer(container, Cands[i].secret, opened)

(***************************************************************************)
(* The time an open may take: every candidate gets a budget of its own     *)
(* (vfs.rs:79), so the bound of one unlock holds once per candidate.       *)
(***************************************************************************)
OpenTimeBounded ==
    open_time + elapsed <= Len(Cands) * (UNLOCK_BUDGET + MaxPass + MaxIo)

(***************************************************************************)
(* The version is detected twice, by LuksLayer::new to ask for credentials *)
(* and by unlock_with_passphrase to open (volume.rs:78-96).  They agree,   *)
(* unless the peek failed: a LUKS2 unlock never runs with credentials for  *)
(* LUKS1, nor one that gets past the LUKS1 header with those for LUKS2.    *)
(***************************************************************************)
DetectionsAgree ==
    /\ pc = "parse2" => scheme = "Luks2"
    /\ (peek /\ pc \in {"slot", "material", "digest", "finish"}) =>
          scheme = IF container.version = 1 THEN "Luks1" ELSE "Luks2"

(***************************************************************************)
(* Every open returns, or the process ends in it.                          *)
(***************************************************************************)
OpensReturn == (stage = "loop") ~> (stage \in {"idle", "aborted"})
=============================================================================
