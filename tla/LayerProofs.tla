---------------------------- MODULE LayerProofs ----------------------------
(***************************************************************************)
(* Proofs about Layer, for every container, credential source and budget.  *)
(* What one attempt does is taken from the proofs about Unlock; this       *)
(* module adds up the attempts.                                            *)
(***************************************************************************)
EXTENDS Layer, UnlockRefinementProofs

-----------------------------------------------------------------------------
(***************************************************************************)
(* Before and between attempts.                                            *)
(***************************************************************************)
LEMMA FrameFacts ==
    NoFrame => TypeOK /\ TimeInv /\ MeaningInv /\ result = Pending /\ elapsed = 0 /\ pc = "detect"
<1> SUFFICES ASSUME NoFrame
             PROVE  TypeOK /\ TimeInv /\ MeaningInv /\ result = Pending /\ elapsed = 0 /\ pc = "detect"
    OBVIOUS
<1>1. Init /\ pc = "detect"
    BY DEF NoFrame
<1>2. TimeInv
    BY <1>1, KdfAssumption, UnlockAssumption DEF Init, TimeInv
<1>3. QED
    BY <1>1, <1>2, TypeInit, MeaningInit DEF Init

LEMMA FrameFactsNext ==
    NoFrame' => /\ TypeOK' /\ TimeInv' /\ MeaningInv'
                /\ (result = Pending)' /\ (elapsed = 0)' /\ (pc = "detect")'
BY FrameFacts, PTL

(***************************************************************************)
(* A step of an attempt leaves the arguments of the call alone.            *)
(***************************************************************************)
LEMMA CallKept ==
    ASSUME Next
    PROVE  UNCHANGED <<container, passphrase, total>>
BY DEF Next, Detect, ParseLuks1, ParseLuks2, SkipInactive, OutOfSlots, OutOfTime,
       DeriveSlotKey, RefuseStripes, LeaveSlot, RecoverCandidate, SkipDigest,
       OutOfDigests, VerifyDigest, IoError, Finish, call

-----------------------------------------------------------------------------
(***************************************************************************)
(* Typing of the candidates.                                               *)
(***************************************************************************)
Bound == UNLOCK_BUDGET + MaxPass + MaxIo

LEMMA BoundType == Bound \in Nat /\ UNLOCK_BUDGET \in Nat /\ MaxPass \in Nat /\ MaxIo \in Nat
BY LayerAssumption, UnlockAssumption, KdfAssumption DEF Bound

LEMMA CandTypes ==
    ASSUME NEW st \in Stores, NEW sch \in Schemes
    PROVE  /\ st[sch] \in Seq(Credential)
           /\ Len(st[sch]) \in Nat
           /\ \A k \in 1 .. Len(st[sch]) : st[sch][k] \in Credential
<1>1. st[sch] \in Seq(Credential)
    BY LayerAssumption
<1>2. QED
    BY <1>1

(***************************************************************************)
(* The inductive invariant.  Fresh: a new layer and a running open have no *)
(* answer yet, and only what carries a passphrase is tried.  Answered:     *)
(* what the running attempt has answered is right.                         *)
(* Tally: the candidates done with took at most a bound each.  Account:    *)
(* last_err stands for the latest candidate that carries a passphrase.     *)
(* Dispatched: the scheme is that of the container, as is the branch the   *)
(* attempt took.                                                           *)
(***************************************************************************)
Fresh ==
    /\ stage = "new" => cred = 1 /\ open_time = 0
    /\ stage \in {"new", "loop", "unlocking"} => opened = NotYet
    /\ stage = "unlocking" => Carries(cred)

Answered == result # Pending => MayAnswer(container, passphrase, result)

Tally ==
    /\ stage \in {"loop", "unlocking"} => open_time <= (cred - 1) * Bound
    /\ stage \in {"idle", "aborted"} => open_time <= Len(Cands) * Bound

Account ==
    stage \in {"loop", "unlocking"} =>
        /\ last_err = "None" => \A k \in 1 .. cred - 1 : ~ Carries(k)
        /\ last_err # "None" =>
              \E k \in 1 .. cred - 1 :
                  /\ Carries(k)
                  /\ \A j \in k + 1 .. cred - 1 : ~ Carries(j)
                  /\ MayAnswer(container, Cands[k].secret, Answer("Decode", last_err, NoKey))

Dispatched ==
    /\ stage # "new" => scheme = SchemeOf(container, peek)
    /\ pc = "parse2" => container.version = 2

LayerInv ==
    /\ LayerTypeOK /\ Fresh
    /\ TimeInv /\ MeaningInv /\ Answered
    /\ Tally /\ Account /\ Dispatched
    /\ OpenIsHonest

LEMMA LayerInvInit == LayerInit => LayerInv
<1> SUFFICES ASSUME LayerInit PROVE LayerInv
    OBVIOUS
<1>1. NoFrame
    BY DEF LayerInit
<1>2. TypeOK /\ TimeInv /\ MeaningInv /\ result = Pending /\ elapsed = 0 /\ pc = "detect"
    BY <1>1, FrameFacts
<1>3. scheme \in Schemes /\ store \in Stores
    BY DEF LayerInit, Schemes
<1>4. Cands \in Seq(Credential) /\ Len(Cands) \in Nat
    BY <1>3, CandTypes DEF Cands
<1>5. opened \in [is : {"NotYet", "NeedCredentials", "Decode", "Source"},
                  err : Errors \cup {"None"}, key : MasterKeys \cup {Junk, NoKey}]
    BY DEF LayerInit, NotYet, Answer
<1>6. LayerTypeOK
    BY <1>1, <1>2, <1>3, <1>4, <1>5 DEF LayerInit, LayerTypeOK, NoFrame
<1>7. Fresh /\ Tally /\ Account /\ Dispatched /\ Answered
    BY <1>2 DEF LayerInit, Fresh, Tally, Account, Dispatched, Answered
<1>8. OpenIsHonest
    BY DEF LayerInit, OpenIsHonest, NotYet, Answer
<1>9. QED
    BY <1>2, <1>6, <1>7, <1>8 DEF LayerInv
-----------------------------------------------------------------------------
(***************************************************************************)
(* Steps of the layer itself, between attempts.                            *)
(***************************************************************************)
LEMMA IdleFrame ==
    ASSUME LayerInv, stage # "unlocking", UNCHANGED <<container, frame>>
    PROVE  /\ NoFrame'
           /\ TypeOK' /\ TimeInv' /\ MeaningInv' /\ Answered'
           /\ total' = UNLOCK_BUDGET /\ pc' = "detect"
<1>1. NoFrame /\ total = UNLOCK_BUDGET
    BY DEF LayerInv, LayerTypeOK
<1>2. NoFrame'
    BY <1>1 DEF NoFrame, Init, frame
<1>3. total' = UNLOCK_BUDGET
    BY <1>1 DEF frame
<1>4. QED
    BY <1>2, <1>3, FrameFactsNext DEF Answered

LEMMA InvTypes ==
    ASSUME LayerInv
    PROVE  /\ store \in Stores /\ scheme \in Schemes
           /\ Cands \in Seq(Credential)
           /\ Len(Cands) \in Nat
           /\ \A k \in 1 .. Len(Cands) : Cands[k] \in Credential
           /\ cred \in 1 .. Len(Cands) + 1 /\ cred \in Nat
           /\ open_time \in Nat
BY CandTypes DEF LayerInv, LayerTypeOK, Cands

LEMMA WiredCarries ==
    ASSUME LayerInv, NEW k \in 1 .. Len(Cands)
    PROVE  Wired(Cands[k]) <=> Carries(k)
<1>1. Cands[k] \in Credential
    BY InvTypes
<1>2. QED
    BY <1>1 DEF Credential, Wired, Carries

LEMMA NewKeeps ==
    ASSUME LayerInv, New
    PROVE  LayerInv'
<1>1. stage = "new" /\ UNCHANGED <<container, frame>>
    BY DEF New
<1>2. /\ NoFrame'
      /\ TypeOK' /\ TimeInv' /\ MeaningInv' /\ Answered'
      /\ total' = UNLOCK_BUDGET /\ pc' = "detect"
    BY <1>1, IdleFrame
<1>3. cred' = 1 /\ open_time' = 0 /\ opened' = NotYet
    BY DEF New, LayerInv, Fresh
<1>4. scheme' \in Schemes /\ store' \in Stores
    BY DEF New, LayerInv, LayerTypeOK, SchemeOf, Schemes
<1>5. Len(Cands') \in Nat
    BY <1>4, CandTypes DEF Cands
<1>6. LayerTypeOK'
    BY <1>2, <1>3, <1>4, <1>5 DEF New, LayerInv, LayerTypeOK
<1>7. Fresh' /\ Account'
    BY <1>3 DEF New, Fresh, Account
<1>8. Tally'
  <2>1. 0 <= Len(Cands') * Bound
      BY <1>5, BoundType
  <2>2. Bound' = Bound
      BY DEF Bound
  <2>3. QED
      BY <2>1, <2>2, <1>3 DEF New, Tally
<1>9. Dispatched'
    BY <1>2 DEF New, Dispatched, SchemeOf
<1>10. OpenIsHonest'
    BY <1>3 DEF OpenIsHonest, NotYet, Answer
<1>11. QED
    BY <1>2, <1>6, <1>7, <1>8, <1>9, <1>10 DEF LayerInv

LEMMA OpenKeeps ==
    ASSUME LayerInv, Open
    PROVE  LayerInv'
<1>1. /\ stage = "idle" /\ UNCHANGED <<container, frame>>
      /\ scheme' = scheme /\ store' = store /\ peek' = peek /\ container' = container
      /\ cred' = 1 /\ last_err' = "None" /\ open_time' = 0
    BY DEF Open
<1>2. /\ NoFrame'
      /\ TypeOK' /\ TimeInv' /\ MeaningInv' /\ Answered'
      /\ total' = UNLOCK_BUDGET /\ pc' = "detect"
    BY <1>1, IdleFrame
<1>3. Cands' = Cands /\ Len(Cands) \in Nat
    BY <1>1, InvTypes DEF Cands
<1>4. \/ Cands = <<>> /\ stage' = "idle" /\ opened' = NeedCredentials
      \/ stage' = "loop" /\ opened' = NotYet
    BY DEF Open, Return
<1>5. LayerTypeOK'
    BY <1>1, <1>2, <1>3, <1>4 DEF LayerInv, LayerTypeOK, NeedCredentials, NotYet, Answer
<1>6. Fresh' /\ Account'
    BY <1>1, <1>4 DEF Fresh, Account
<1>7. Tally'
  <2>1. 0 <= Len(Cands) * Bound /\ (1 - 1) * Bound = 0
      BY <1>3, BoundType
  <2>2. Bound' = Bound
      BY DEF Bound
  <2>3. QED
      BY <2>1, <2>2, <1>1, <1>3 DEF Tally
<1>8. Dispatched'
    BY <1>1, <1>2 DEF LayerInv, Dispatched, SchemeOf
<1>9. OpenIsHonest'
  <2>1. CASE opened' = NotYet
      BY <2>1 DEF OpenIsHonest, NotYet, Answer
  <2>2. CASE Cands = <<>> /\ opened' = NeedCredentials
      BY <2>2, <1>3 DEF OpenIsHonest, NeedCredentials, Answer
  <2>3. QED
      BY <2>1, <2>2, <1>4
<1>10. QED
    BY <1>2, <1>5, <1>6, <1>7, <1>8, <1>9 DEF LayerInv

LEMMA SkipKeeps ==
    ASSUME LayerInv, SkipUnwired
    PROVE  LayerInv'
<1>1. /\ stage = "loop" /\ stage' = "loop" /\ UNCHANGED <<container, frame>>
      /\ scheme' = scheme /\ store' = store /\ peek' = peek /\ container' = container
      /\ cred' = cred + 1 /\ last_err' = last_err /\ open_time' = open_time /\ opened' = opened
      /\ cred <= Len(Cands) /\ ~ Wired(Cands[cred])
    BY DEF SkipUnwired
<1>2. /\ NoFrame'
      /\ TypeOK' /\ TimeInv' /\ MeaningInv' /\ Answered'
      /\ total' = UNLOCK_BUDGET /\ pc' = "detect"
    BY <1>1, IdleFrame
<1>3. /\ Cands' = Cands /\ Len(Cands) \in Nat /\ cred \in Nat /\ cred \in 1 .. Len(Cands)
      /\ open_time \in Nat
    BY <1>1, InvTypes DEF Cands
<1>4. ~ Carries(cred)
    BY <1>1, <1>3, WiredCarries
<1>5. LayerTypeOK'
    BY <1>1, <1>2, <1>3 DEF LayerInv, LayerTypeOK
<1>6. Fresh' /\ Dispatched'
    BY <1>1, <1>2 DEF LayerInv, Fresh, Dispatched, SchemeOf, NotYet, Answer
<1>7. Tally'
  <2>1. (cred - 1) * Bound <= ((cred + 1) - 1) * Bound
      BY <1>3, BoundType
  <2>2. open_time <= (cred - 1) * Bound
      BY <1>1 DEF LayerInv, Tally
  <2>3. (cred - 1) * Bound \in Int /\ ((cred + 1) - 1) * Bound \in Int
      BY <1>3, BoundType
  <2>4. Bound' = Bound
      BY DEF Bound
  <2>5. QED
      BY <2>1, <2>2, <2>3, <2>4, <1>1, <1>3 DEF Tally
<1>8. Account'
  <2>1. \A k : Carries(k)' <=> Carries(k)
      BY <1>3 DEF Carries
  <2>2. 1 .. (cred + 1) - 1 = (1 .. cred - 1) \cup {cred}
      BY <1>3
  <2>3. \A k \in 1 .. cred - 1 : k + 1 .. (cred + 1) - 1 = (k + 1 .. cred - 1) \cup {cred}
      BY <1>3
  <2>4. ASSUME last_err = "None"
        PROVE  \A k \in 1 .. (cred + 1) - 1 : ~ Carries(k)
      BY <2>2, <2>4, <1>1, <1>4 DEF LayerInv, Account
  <2>5. ASSUME last_err # "None"
        PROVE  \E k \in 1 .. (cred + 1) - 1 :
                  /\ Carries(k)
                  /\ \A j \in k + 1 .. (cred + 1) - 1 : ~ Carries(j)
                  /\ MayAnswer(container, Cands[k].secret, Answer("Decode", last_err, NoKey))
    <3>1. PICK k \in 1 .. cred - 1 :
                  /\ Carries(k)
                  /\ \A j \in k + 1 .. cred - 1 : ~ Carries(j)
                  /\ MayAnswer(container, Cands[k].secret, Answer("Decode", last_err, NoKey))
        BY <2>5, <1>1 DEF LayerInv, Account
    <3>2. \A j \in k + 1 .. (cred + 1) - 1 : ~ Carries(j)
        BY <3>1, <2>3, <1>4
    <3>3. k \in 1 .. (cred + 1) - 1
        BY <2>2
    <3>4. QED
        BY <3>1, <3>2, <3>3
  <2>6. QED
      BY <2>1, <2>4, <2>5, <1>1, <1>3 DEF Account
<1>9. OpenIsHonest'
    BY <1>1 DEF LayerInv, Fresh, OpenIsHonest, NotYet, Answer
<1>10. QED
    BY <1>2, <1>5, <1>6, <1>7, <1>8, <1>9 DEF LayerInv
LEMMA ExhaustedKeeps ==
    ASSUME LayerInv, Exhausted
    PROVE  LayerInv'
<1>1. /\ stage = "loop" /\ stage' = "idle" /\ UNCHANGED <<container, frame>>
      /\ scheme' = scheme /\ store' = store /\ peek' = peek /\ container' = container
      /\ cred' = cred /\ last_err' = last_err /\ open_time' = open_time
      /\ cred > Len(Cands)
      /\ opened' = IF last_err = "None" THEN NeedCredentials ELSE Answer("Decode", last_err, NoKey)
    BY DEF Exhausted, Return
<1>2. /\ NoFrame'
      /\ TypeOK' /\ TimeInv' /\ MeaningInv' /\ Answered'
      /\ total' = UNLOCK_BUDGET /\ pc' = "detect"
    BY <1>1, IdleFrame
<1>3. Cands' = Cands /\ Len(Cands) \in Nat /\ cred - 1 = Len(Cands)
    BY <1>1, InvTypes DEF Cands
<1>4. last_err \in Errors \cup {"None"}
    BY DEF LayerInv, LayerTypeOK
<1>5. LayerTypeOK'
  <2>1. opened' \in [is : {"NotYet", "NeedCredentials", "Decode", "Source"},
                     err : Errors \cup {"None"}, key : MasterKeys \cup {Junk, NoKey}]
      BY <1>1, <1>4 DEF NeedCredentials, Answer
  <2>2. QED
      BY <2>1, <1>1, <1>2, <1>3 DEF LayerInv, LayerTypeOK
<1>6. Fresh' /\ Dispatched' /\ Account'
    BY <1>1, <1>2 DEF LayerInv, Fresh, Dispatched, SchemeOf, Account
<1>7. Tally'
  <2>1. Bound' = Bound
      BY DEF Bound
  <2>2. QED
      BY <2>1, <1>1, <1>3 DEF LayerInv, Tally
<1>8. OpenIsHonest'
  <2>1. \A k : Carries(k)' <=> Carries(k)
      BY <1>3 DEF Carries
  <2>2. CASE last_err = "None"
    <3>1. \A k \in 1 .. Len(Cands) : ~ Carries(k)
        BY <2>2, <1>1, <1>3 DEF LayerInv, Account
    <3>2. opened'.is = "NeedCredentials"
        BY <2>2, <1>1 DEF NeedCredentials, Answer
    <3>3. QED
        BY <3>1, <3>2, <2>1, <1>3 DEF OpenIsHonest
  <2>3. CASE last_err # "None"
    <3>1. opened' = Answer("Decode", last_err, NoKey) /\ opened'.is = "Decode"
        BY <2>3, <1>1 DEF Answer
    <3>2. \E k \in 1 .. Len(Cands) :
              /\ Carries(k)
              /\ \A j \in k + 1 .. Len(Cands) : ~ Carries(j)
              /\ MayAnswer(container, Cands[k].secret, opened')
        BY <2>3, <3>1, <1>1, <1>3 DEF LayerInv, Account
    <3>3. QED
        BY <3>1, <3>2, <2>1, <1>1, <1>3 DEF OpenIsHonest
  <2>4. QED
      BY <2>2, <2>3
<1>9. QED
    BY <1>2, <1>5, <1>6, <1>7, <1>8 DEF LayerInv

-----------------------------------------------------------------------------
(***************************************************************************)
(* The attempt: its call, its steps and its return.                        *)
(***************************************************************************)
LEMMA AttemptKeeps ==
    ASSUME LayerInv, Attempt
    PROVE  LayerInv'
<1>1. /\ stage = "loop" /\ stage' = "unlocking"
      /\ scheme' = scheme /\ store' = store /\ peek' = peek /\ container' = container
      /\ cred' = cred /\ last_err' = last_err /\ open_time' = open_time /\ opened' = opened
      /\ cred <= Len(Cands) /\ passphrase' = Cands[cred].secret
    BY DEF Attempt
<1>2. Cands' = Cands /\ Len(Cands) \in Nat /\ cred \in 1 .. Len(Cands) /\ Cands[cred] \in Credential
    BY <1>1, InvTypes DEF Cands
<1>3. passphrase' \in Passphrases
    BY <1>1, <1>2 DEF Credential
<1>4. NoFrame'
  <2>1. NoFrame
      BY <1>1 DEF LayerInv, LayerTypeOK
  <2>2. QED
      BY <2>1, <1>1, <1>3 DEF Attempt, NoFrame, Init
<1>5. /\ TypeOK' /\ TimeInv' /\ MeaningInv' /\ Answered' /\ pc' = "detect"
      /\ total' = UNLOCK_BUDGET
  <2>1. total' = UNLOCK_BUDGET
      BY DEF LayerInv, LayerTypeOK, Attempt
  <2>2. QED
      BY <2>1, <1>4, FrameFactsNext DEF Answered
<1>6. LayerTypeOK'
    BY <1>1, <1>2, <1>5 DEF LayerInv, LayerTypeOK
<1>7. Fresh' /\ Dispatched'
  <2>1. Carries(cred)
      BY <1>2, WiredCarries DEF Attempt
  <2>2. Carries(cred)'
      BY <2>1, <1>1, <1>2 DEF Carries
  <2>3. QED
      BY <2>2, <1>1, <1>5 DEF LayerInv, Fresh, Dispatched, SchemeOf, NotYet, Answer
<1>8. Tally'
    BY <1>1, <1>2 DEF LayerInv, Tally, Bound
<1>9. Account'
  <2>1. \A k : Carries(k)' <=> Carries(k)
      BY <1>2 DEF Carries
  <2>2. QED
      BY <2>1, <1>1, <1>2 DEF LayerInv, Account
<1>10. OpenIsHonest'
    BY <1>1 DEF LayerInv, Fresh, OpenIsHonest, NotYet, Answer
<1>11. QED
    BY <1>5, <1>6, <1>7, <1>8, <1>9, <1>10 DEF LayerInv

LEMMA UnlockStepKeeps ==
    ASSUME LayerInv, UnlockStep
    PROVE  LayerInv'
<1>1. stage = "unlocking" /\ Next /\ UNCHANGED layer
    BY DEF UnlockStep
<1>2. /\ stage' = "unlocking"
      /\ scheme' = scheme /\ store' = store /\ peek' = peek /\ opened' = opened
      /\ cred' = cred /\ last_err' = last_err /\ open_time' = open_time
    BY <1>1 DEF layer
<1>3. container' = container /\ passphrase' = passphrase /\ total' = total
    BY <1>1, CallKept
<1>4. TypeOK /\ TimeInv /\ MeaningInv /\ Answered
    BY DEF LayerInv, LayerTypeOK
<1>5. TypeOK' /\ TimeInv' /\ MeaningInv'
    BY <1>1, <1>4, TypeStep, TimeStep, MeaningStep
<1>6. Answered'
    BY <1>1, <1>3, <1>4, AnswerAllowed DEF Answered
<1>7. Cands' = Cands
    BY <1>2 DEF Cands
<1>8. LayerTypeOK'
  <2>1. LayerTypeOK
      BY DEF LayerInv
  <2>2. (stage # "unlocking" => NoFrame)'
      BY <1>2
  <2>3. QED
      BY <2>1, <2>2, <1>1, <1>2, <1>3, <1>5, <1>7 DEF LayerTypeOK
<1>9. Fresh' /\ Tally'
    BY <1>1, <1>2, <1>7 DEF LayerInv, Fresh, Tally, Bound, NotYet, Answer, Carries
<1>10. Dispatched'
  <2>1. pc' = "parse2" => container.version = 2
      BY <1>1 DEF LayerInv, Dispatched, Next, Detect, ParseLuks1, ParseLuks2, SkipInactive,
                  OutOfSlots, OutOfTime, DeriveSlotKey, RefuseStripes, LeaveSlot, RecoverCandidate,
                  SkipDigest, OutOfDigests, VerifyDigest, IoError, Finish, Refuse, GoTo, NextSlot
  <2>2. QED
      BY <2>1, <1>1, <1>2, <1>3 DEF LayerInv, Dispatched, SchemeOf
<1>11. Account'
  <2>1. \A k : Carries(k)' <=> Carries(k)
      BY <1>7 DEF Carries
  <2>2. QED
      BY <2>1, <1>1, <1>2, <1>3, <1>7 DEF LayerInv, Account
<1>12. OpenIsHonest'
    BY <1>1, <1>2 DEF LayerInv, Fresh, OpenIsHonest, NotYet, Answer
<1>13. QED
    BY <1>5, <1>6, <1>8, <1>9, <1>10, <1>11, <1>12 DEF LayerInv

(***************************************************************************)
(* An attempt takes at most the bound, and its error is a true answer.     *)
(***************************************************************************)
LEMMA AttemptCost ==
    ASSUME LayerInv
    PROVE  elapsed \in Nat /\ elapsed <= Bound
<1>1. /\ TypeOK /\ TimeInv /\ total = UNLOCK_BUDGET
    BY DEF LayerInv, LayerTypeOK
<1>2. MaxIo \in Nat /\ MaxPass \in Nat /\ UNLOCK_BUDGET \in Nat
    BY BoundType
<1>3. elapsed \in Nat /\ pc \in Labels
    BY <1>1 DEF TypeOK
<1>4. QED
    BY <1>1, <1>2, <1>3 DEF TimeInv, Labels, Bound

LEMMA AttemptedKeeps ==
    ASSUME LayerInv, Attempted
    PROVE  LayerInv'
<1>1. /\ stage = "unlocking" /\ pc = "done"
      /\ scheme' = scheme /\ store' = store /\ peek' = peek /\ container' = container
      /\ passphrase' = passphrase /\ total' = total /\ open_time' = open_time + elapsed
    BY DEF Attempted
<1>2. \/ /\ result.err = "Ok" /\ stage' = "idle"
         /\ opened' = Answer("Source", "None", result.key)
         /\ cred' = cred /\ last_err' = last_err
      \/ /\ result.err = "Abort" /\ stage' = "aborted"
         /\ opened' = opened /\ cred' = cred /\ last_err' = last_err
      \/ /\ result.err \notin {"Ok", "Abort"} /\ stage' = "loop"
         /\ opened' = opened /\ cred' = cred + 1 /\ last_err' = result.err
    BY DEF Attempted, Return, Remember
<1>3. /\ Cands' = Cands /\ Len(Cands) \in Nat /\ cred \in Nat /\ cred \in 1 .. Len(Cands)
      /\ open_time \in Nat /\ passphrase = Cands[cred].secret
    BY <1>1, InvTypes DEF LayerInv, LayerTypeOK, Cands
<1>4. TypeOK /\ total = UNLOCK_BUDGET
    BY DEF LayerInv, LayerTypeOK
<1>5. NoFrame'
  <2>1. container \in Containers /\ passphrase \in Passphrases /\ UNLOCK_BUDGET \in Budgets
      BY <1>4, LayerAssumption DEF TypeOK
  <2>2. Gone
      BY DEF Attempted
  <2>3. QED
      BY <2>1, <2>2, <1>1, <1>4 DEF Gone, NoFrame, Init
<1>6. TypeOK' /\ TimeInv' /\ MeaningInv' /\ Answered' /\ pc' = "detect"
    BY <1>5, FrameFactsNext DEF Answered
<1>7. result.err \in Errors /\ result.key \in MasterKeys \cup {Junk, NoKey} /\ result.err # "Pending"
    BY <1>1, <1>4 DEF TypeOK
<1>8. MayAnswer(container, Cands[cred].secret, result)
    BY <1>3, <1>7 DEF LayerInv, Answered, Pending
<1>9. Carries(cred) /\ opened = NotYet
    BY <1>1 DEF LayerInv, Fresh
<1>10. \A k : Carries(k)' <=> Carries(k)
    BY <1>3 DEF Carries
<1>11. /\ open_time + elapsed \in Nat
       /\ open_time + elapsed <= ((cred + 1) - 1) * Bound
       /\ open_time + elapsed <= Len(Cands) * Bound
  <2>1. elapsed \in Nat /\ elapsed <= Bound /\ Bound \in Nat
      BY AttemptCost, BoundType
  <2>2. open_time <= (cred - 1) * Bound
      BY <1>1 DEF LayerInv, Tally
  <2>3. ((cred + 1) - 1) * Bound = (cred - 1) * Bound + Bound
      BY <1>3, <2>1
  <2>4. ((cred + 1) - 1) * Bound <= Len(Cands) * Bound
      BY <1>3, <2>1
  <2>5. (cred - 1) * Bound \in Int /\ Len(Cands) * Bound \in Int
      BY <1>3, <2>1
  <2>6. QED
      BY <2>1, <2>2, <2>3, <2>4, <2>5, <1>3
<1>12. LayerTypeOK'
  <2>1. opened' \in [is : {"NotYet", "NeedCredentials", "Decode", "Source"},
                     err : Errors \cup {"None"}, key : MasterKeys \cup {Junk, NoKey}]
    <3>1. opened \in [is : {"NotYet", "NeedCredentials", "Decode", "Source"},
                     err : Errors \cup {"None"}, key : MasterKeys \cup {Junk, NoKey}]
        BY DEF LayerInv, LayerTypeOK
    <3>2. QED
        BY <3>1, <1>2, <1>7 DEF Answer
  <2>2. cred' \in 1 .. Len(Cands) + 1 /\ last_err' \in Errors \cup {"None"}
      BY <1>2, <1>3, <1>7 DEF LayerInv, LayerTypeOK
  <2>3. stage' \in {"idle", "aborted", "loop"} /\ total' = UNLOCK_BUDGET
      BY <1>1, <1>2, <1>4
  <2>4. QED
      BY <2>1, <2>2, <2>3, <1>1, <1>3, <1>5, <1>6, <1>11 DEF LayerInv, LayerTypeOK
<1>13. Fresh' /\ Dispatched'
    BY <1>1, <1>2, <1>6, <1>9 DEF LayerInv, Fresh, Dispatched, SchemeOf, NotYet, Answer
<1>14. Tally'
    BY <1>1, <1>2, <1>3, <1>11 DEF Tally, Bound
<1>15. Account'
  <2>1. CASE stage' = "loop"
    <3>1. result.err \notin {"Ok", "Abort", "None"} /\ cred' = cred + 1 /\ last_err' = result.err
        BY <2>1, <1>2, <1>7 DEF Errors
    <3>2. MayAnswer(container, Cands[cred].secret, Answer("Decode", result.err, NoKey))
        BY <3>1, <1>8 DEF MayAnswer, Answer
    <3>3. cred \in 1 .. (cred + 1) - 1 /\ \A j \in cred + 1 .. (cred + 1) - 1 : FALSE
        BY <1>3
    <3>4. \E k \in 1 .. (cred + 1) - 1 :
              /\ Carries(k)
              /\ \A j \in k + 1 .. (cred + 1) - 1 : ~ Carries(j)
              /\ MayAnswer(container, Cands[k].secret, Answer("Decode", result.err, NoKey))
        BY <3>2, <3>3, <1>9
    <3>5. QED
        BY <3>1, <3>4, <1>1, <1>3, <1>10 DEF Account
  <2>2. CASE stage' # "loop"
      BY <2>2, <1>2 DEF Account
  <2>3. QED
      BY <2>1, <2>2
<1>16. OpenIsHonest'
  <2>1. CASE opened' = opened
      BY <2>1, <1>9 DEF OpenIsHonest, NotYet, Answer
  <2>2. CASE result.err = "Ok" /\ opened' = Answer("Source", "None", result.key)
    <3>1. Opened(container, Cands[cred].secret, result.key)
      <4>1. ~ HeaderRefused(container, "Ok")
          BY DEF HeaderRefused
      <4>2. QED
          BY <4>1, <2>2, <1>8 DEF MayAnswer, Refusals, Transient
    <3>2. opened'.is = "Source" /\ opened'.key = result.key
        BY <2>2 DEF Answer
    <3>3. QED
        BY <3>1, <3>2, <1>1, <1>3, <1>9, <1>10 DEF OpenIsHonest
  <2>3. QED
      BY <2>1, <2>2, <1>2
<1>17. QED
    BY <1>6, <1>12, <1>13, <1>14, <1>15, <1>16 DEF LayerInv

-----------------------------------------------------------------------------
LEMMA StutterKeeps ==
    ASSUME LayerInv, UNCHANGED layerVars
    PROVE  LayerInv'
<1>1. UNCHANGED vars /\ UNCHANGED layer /\ container' = container /\ UNCHANGED frame
    BY DEF layerVars, frame, layer, vars, call, clock, loop
<1>2. TypeOK /\ TimeInv /\ MeaningInv
    BY DEF LayerInv, LayerTypeOK
<1>3. TypeOK' /\ TimeInv' /\ MeaningInv'
    BY <1>1, <1>2, TypeStep, TimeStep, MeaningStep
<1>4. Answered'
    BY <1>1 DEF LayerInv, Answered, frame
<1>5. NoFrame' <=> NoFrame
    BY <1>1 DEF NoFrame, Init, frame
<1>6. Cands' = Cands /\ \A k : Carries(k)' <=> Carries(k)
    BY <1>1 DEF layer, Cands, Carries
<1>7. LayerTypeOK'
    BY <1>1, <1>3, <1>5, <1>6 DEF LayerInv, LayerTypeOK, layer, frame
<1>8. Fresh' /\ Tally' /\ Dispatched'
    BY <1>1, <1>6 DEF LayerInv, Fresh, Tally, Dispatched, layer, frame, Bound, NotYet, Answer, SchemeOf
<1>9. Account'
    BY <1>1, <1>6 DEF LayerInv, Account, layer
<1>10. OpenIsHonest'
    BY <1>1, <1>6 DEF LayerInv, OpenIsHonest, layer
<1>11. QED
    BY <1>3, <1>4, <1>7, <1>8, <1>9, <1>10 DEF LayerInv

LEMMA LayerInvStep == LayerInv /\ [LayerNext]_layerVars => LayerInv'
BY NewKeeps, OpenKeeps, SkipKeeps, AttemptKeeps, UnlockStepKeeps, AttemptedKeeps,
   ExhaustedKeeps, StutterKeeps DEF LayerNext, Progress

(***************************************************************************)
(* The type invariant of the layer: an attempt starts from a fresh call,   *)
(* with the secret of the candidate under the cursor (vfs.rs:72-79).       *)
(***************************************************************************)
THEOREM LayerTypeCorrect == LayerSpec => []LayerTypeOK
<1>1. LayerInv => LayerTypeOK
    BY DEF LayerInv
<1>2. QED
    BY <1>1, LayerInvInit, LayerInvStep, PTL DEF LayerSpec

(***************************************************************************)
(* Whatever candidates a source has and however attempts end: open         *)
(* answers NeedCredentials only when none carries a passphrase, a source   *)
(* only with the key one of them opens, and an error only if it is true of *)
(* the last one that carries a passphrase (vfs.rs:61-91).                  *)
(***************************************************************************)
THEOREM HonestOpen == LayerSpec => []OpenIsHonest
<1>1. LayerInv => OpenIsHonest
    BY DEF LayerInv
<1>2. QED
    BY <1>1, LayerInvInit, LayerInvStep, PTL DEF LayerSpec

(***************************************************************************)
(* An open takes at most its number of candidates times the bound of one   *)
(* unlock, for any number of candidates (vfs.rs:72-83).                    *)
(***************************************************************************)
THEOREM OpenTakesItsTime == LayerSpec => []OpenTimeBounded
<1>1. LayerInv => OpenTimeBounded
  <2> SUFFICES ASSUME LayerInv PROVE OpenTimeBounded
      OBVIOUS
  <2>1. /\ Len(Cands) \in Nat /\ cred \in Nat /\ open_time \in Nat /\ cred \in 1 .. Len(Cands) + 1
        /\ elapsed \in Nat /\ elapsed <= Bound /\ Bound \in Nat
      BY InvTypes, AttemptCost, BoundType
  <2>2. CASE stage = "unlocking"
    <3>1. cred <= Len(Cands) /\ open_time <= (cred - 1) * Bound
        BY <2>2 DEF LayerInv, LayerTypeOK, Tally
    <3>2. (cred - 1) * Bound + Bound = cred * Bound
        BY <2>1
    <3>3. cred * Bound <= Len(Cands) * Bound
        BY <2>1, <3>1
    <3>4. (cred - 1) * Bound \in Int /\ cred * Bound \in Int /\ Len(Cands) * Bound \in Int
        BY <2>1
    <3>5. open_time + elapsed <= Len(Cands) * Bound
        BY <3>1, <3>2, <3>3, <3>4, <2>1
    <3>6. QED
        BY <3>5 DEF OpenTimeBounded, Bound
  <2>3. CASE stage # "unlocking"
    <3>1. elapsed = 0
        BY <2>3, FrameFacts DEF LayerInv, LayerTypeOK
    <3>2. open_time <= Len(Cands) * Bound
      <4>1. CASE stage = "loop"
        <5>1. open_time <= (cred - 1) * Bound
            BY <4>1 DEF LayerInv, Tally
        <5>2. (cred - 1) * Bound <= Len(Cands) * Bound
            BY <2>1
        <5>3. (cred - 1) * Bound \in Int /\ Len(Cands) * Bound \in Int
            BY <2>1
        <5>4. QED
            BY <5>1, <5>2, <5>3, <2>1
      <4>2. CASE stage \in {"idle", "aborted"}
          BY <4>2 DEF LayerInv, Tally
      <4>3. CASE stage = "new"
        <5>1. open_time = 0
            BY <4>3 DEF LayerInv, Fresh
        <5>2. QED
            BY <5>1, <2>1
      <4>4. QED
          BY <4>1, <4>2, <4>3, <2>3 DEF LayerInv, LayerTypeOK
    <3>3. QED
        BY <3>1, <3>2, <2>1 DEF OpenTimeBounded, Bound
  <2>4. QED
      BY <2>2, <2>3
<1>2. QED
    BY <1>1, LayerInvInit, LayerInvStep, PTL DEF LayerSpec

(***************************************************************************)
(* LuksLayer::new and unlock_with_passphrase agree on the version of every *)
(* container, unless the peek failed (vfs.rs:38-47, volume.rs:78-92).      *)
(***************************************************************************)
THEOREM OneVersion == LayerSpec => []DetectionsAgree
<1>1. LayerInv => DetectionsAgree
  <2> SUFFICES ASSUME LayerInv PROVE DetectionsAgree
      OBVIOUS
  <2>1. pc # "detect" => scheme = SchemeOf(container, peek)
      BY FrameFacts DEF LayerInv, LayerTypeOK, Dispatched
  <2>2. pc = "parse2" => scheme = "Luks2"
      BY <2>1 DEF LayerInv, Dispatched, SchemeOf
  <2>3. ASSUME peek, pc \in {"slot", "material", "digest", "finish"}
        PROVE  scheme = IF container.version = 1 THEN "Luks1" ELSE "Luks2"
    <3>1. Readable(container)
        BY <2>3 DEF LayerInv, MeaningInv
    <3>2. container.version = 1 => container.magic
        BY <3>1 DEF Readable, Parse1
    <3>3. QED
        BY <3>2, <2>1, <2>3 DEF SchemeOf
  <2>4. QED
      BY <2>2, <2>3 DEF DetectionsAgree
<1>2. QED
    BY <1>1, LayerInvInit, LayerInvStep, PTL DEF LayerSpec
=============================================================================
