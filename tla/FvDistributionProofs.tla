------------------------ MODULE FvDistributionProofs ------------------------
(***************************************************************************)
(* What a participant takes over is fresh: proved for every medium that    *)
(* loses, repeats, delays and mixes signals, for every pace of the two     *)
(* loops, all periods and any number of requests.                          *)
(***************************************************************************)
EXTENDS FvDistribution, NatLemmas

(* Signatures over a value the server had after the challenge was issued.  *)
Signed ==
  {mac \in [challenge : challengeSignal, fv : Fv] :
     issuedAt[mac.challenge] <= mac.fv /\ mac.fv <= serverFv}

(* Every signature on its way or received is one of those; the medium has  *)
(* nothing to deliver that the server did not send.                        *)
FreshInv ==
  /\ serverFv \in Fv
  /\ challengeSignal \subseteq Challenge
  /\ issuedAt \in [challengeSignal -> Fv]
  /\ \A c \in challengeSignal : issuedAt[c] <= serverFv
  /\ mResponsePendingChallenges \in [{Ecu} -> challengeSignal \cup {Empty}]
  /\ valueSignal \in [{Ecu} -> SUBSET Fv]
  /\ signatureSignal \in [{Ecu} -> SUBSET Signed]
  /\ mCrAuthFvAndMac \in [first : Fv \cup {Empty}, second : Signed \cup {Empty}]
  /\ mCurrentFvState = "ProcessFV" =>
       mCrAuthFvAndMac.first # Empty /\ mCrAuthFvAndMac.second # Empty

LEMMA EmptyIsNotSigned ==
  ASSUME challengeSignal \subseteq Challenge
  PROVE  Empty \notin Signed
  BY DistributionAssumption DEF Signed

(* What was signed in time remains so. *)
LEMMA SignedGrows ==
  ASSUME FreshInv,
         challengeSignal \subseteq challengeSignal',
         \A c \in challengeSignal : issuedAt'[c] = issuedAt[c],
         serverFv' \in Fv, serverFv <= serverFv'
  PROVE  Signed \subseteq Signed'
<1> SUFFICES ASSUME NEW mac \in Signed PROVE mac \in Signed'
  OBVIOUS
<1>1. mac \in [challenge : challengeSignal', fv : Fv]
  BY DEF Signed
<1>2. mac.challenge \in challengeSignal
      /\ issuedAt[mac.challenge] <= mac.fv /\ mac.fv <= serverFv
      /\ mac.fv \in Nat /\ serverFv \in Nat /\ serverFv' \in Nat
  BY DistributionAssumption DEF Signed, FreshInv, Fv
<1> QED BY <1>1, <1>2 DEF Signed

LEMMA InitFreshInv == Init => FreshInv
<1> SUFFICES ASSUME Init PROVE FreshInv  OBVIOUS
<1>1. serverFv \in Fv /\ mResponsePendingChallenges = [client \in {Ecu} |-> Empty]
      /\ signatureSignal = [client \in {Ecu} |-> {}]
      /\ valueSignal = [client \in {Ecu} |-> {}]
  BY DistributionAssumption DEF Init, Server!Init
<1>2. challengeSignal = {} /\ mCrAuthFvAndMac = [first |-> Empty, second |-> Empty]
      /\ mCurrentFvState = "RequestFV"
  BY DEF Init, Participant!Init
<1>3. issuedAt \in [challengeSignal -> Fv]
  BY <1>2 DEF Init
<1> QED BY <1>1, <1>2, <1>3 DEF FreshInv

(* What MainFunction of the participant does to the received pair. *)
LEMMA MainKeepsPair ==
  ASSUME Participant!MainFunction
  PROVE  /\ \/ UNCHANGED mCrAuthFvAndMac
            \/ mCrAuthFvAndMac' = [first |-> Empty, second |-> Empty]
               /\ mCurrentFvState' # "ProcessFV"
         /\ mCurrentFvState' = "ProcessFV" =>
              mCurrentFvState = "ProcessFV" /\ UNCHANGED mCrAuthFvAndMac
         /\ \/ UNCHANGED challengeSignal
            \/ \E c \in Challenge : challengeSignal' = challengeSignal \cup {c}
<1>1. CASE Participant!requestAnAuthenticFv
  BY <1>1
  DEF Participant!requestAnAuthenticFv, Participant!requestFails,
      Participant!requestPublish, Participant!requestStore,
      Participant!transiteTo, Participant!mainVars
<1>2. CASE Participant!waitForAnAuthenticFv \/ Participant!requestTimeout
  BY <1>2
  DEF Participant!waitForAnAuthenticFv, Participant!requestTimeout,
      Participant!transiteTo
<1>3. CASE Participant!processAnAuthenticFv
  BY <1>3
  DEF Participant!processAnAuthenticFv, Participant!acceptAuthenticFv,
      Participant!acceptedToIdle, Participant!refuseAuthenticFv,
      Participant!clearPair, Participant!transiteTo, Participant!mainVars
<1>4. CASE Participant!processAnUnauthenticFv \/ Participant!idle
  BY <1>4
  DEF Participant!processAnUnauthenticFv, Participant!dropFv,
      Participant!droppedToRequest, Participant!keepFv, Participant!idle,
      Participant!transiteTo, Participant!mainVars
<1> QED BY <1>1, <1>2, <1>3, <1>4 DEF Participant!MainFunction

LEMMA StepFreshInv == FreshInv /\ [Next]_vars => FreshInv'
<1> SUFFICES ASSUME FreshInv, [Next]_vars PROVE FreshInv'  OBVIOUS
<1>1. CASE ParticipantMain
  <2>1. UNCHANGED <<serverFv, mResponsePendingChallenges, valueSignal, signatureSignal>>
    BY <1>1 DEF ParticipantMain, serverVars, answerVars
  <2>2. challengeSignal \subseteq challengeSignal' /\ challengeSignal' \subseteq Challenge
    BY <1>1, MainKeepsPair DEF ParticipantMain, FreshInv
  <2>3. issuedAt' = [c \in challengeSignal' |->
                       IF c \in challengeSignal THEN issuedAt[c] ELSE serverFv]
    BY <1>1 DEF ParticipantMain
  <2>4. /\ issuedAt' \in [challengeSignal' -> Fv]
        /\ \A c \in challengeSignal : issuedAt'[c] = issuedAt[c]
        /\ \A c \in challengeSignal' : issuedAt'[c] <= serverFv'
    BY <2>1, <2>2, <2>3, DistributionAssumption DEF FreshInv, Fv
  <2>5. Signed \subseteq Signed'
    BY <2>1, <2>2, <2>4, SignedGrows, DistributionAssumption DEF FreshInv, Fv
  <2>6. signatureSignal' \in [{Ecu} -> SUBSET Signed']
    BY <2>1, <2>5 DEF FreshInv
  <2>7. /\ mCrAuthFvAndMac' \in [first : Fv \cup {Empty}, second : Signed' \cup {Empty}]
        /\ mCurrentFvState' = "ProcessFV" =>
             mCrAuthFvAndMac'.first # Empty /\ mCrAuthFvAndMac'.second # Empty
    BY <1>1, <2>5, MainKeepsPair DEF ParticipantMain, FreshInv
  <2>8. mResponsePendingChallenges' \in [{Ecu} -> challengeSignal' \cup {Empty}]
    BY <2>1, <2>2 DEF FreshInv
  <2> QED BY <2>1, <2>2, <2>4, <2>6, <2>7, <2>8 DEF FreshInv
<1>2. CASE ServerMain
  <2>1. /\ UNCHANGED <<challengeSignal, issuedAt, mCrAuthFvAndMac, mCurrentFvState>>
    BY <1>2 DEF ServerMain, participantVars, historyVars
  <2>2. PICK published \in BOOLEAN, full \in SUBSET Server!Pending,
              half \in SUBSET Server!Pending :
          Server!MainFunction(published, full, half)
    BY <1>2 DEF ServerMain, Server!Main
  <2>3. serverFv' \in Fv /\ serverFv <= serverFv'
    <3>1. /\ Server!WithinBound(TRUE, serverClock, serverFv)
          /\ serverFv' = Server!NextFv(TRUE, serverClock, serverFv)
      BY <2>2 DEF Server!MainFunction, Server!incTimers
    <3>2. serverFv \in Nat /\ serverFv <= MaxFv /\ MaxFv \in Nat
      BY DistributionAssumption DEF FreshInv, Fv
    <3>3. CASE Server!Due(TRUE, serverClock)
      BY <3>1, <3>2, <3>3 DEF Server!NextFv, Server!WithinBound, Fv
    <3>4. CASE ~Server!Due(TRUE, serverClock)
      BY <3>1, <3>2, <3>4 DEF Server!NextFv, Fv
    <3> QED BY <3>3, <3>4
  <2>4. Signed \subseteq Signed'
    BY <2>1, <2>3, SignedGrows
  <2>5. \A c \in challengeSignal' : issuedAt'[c] <= serverFv'
    BY <2>1, <2>3, DistributionAssumption DEF FreshInv, Fv
  <2>6. Server!Trim(serverFv) = serverFv
    BY DistributionAssumption DEF FreshInv, Fv, Server!Trim
  <2>7. \A client \in Server!Pending :
          [challenge |-> mResponsePendingChallenges[client], fv |-> serverFv] \in Signed
    BY DistributionAssumption DEF Server!Pending, Signed, FreshInv, Fv
  <2>8. /\ mResponsePendingChallenges' \in [{Ecu} -> challengeSignal' \cup {Empty}]
        /\ valueSignal' \in [{Ecu} -> SUBSET Fv]
        /\ signatureSignal' \in [{Ecu} -> SUBSET Signed']
    <3>1. CASE mNeedToSendAuthFvResponses
      BY <2>1, <2>2, <2>4, <2>6, <2>7, <3>1
      DEF Server!MainFunction, Server!sendAuthenticFvResponses, FreshInv
    <3>2. CASE ~mNeedToSendAuthFvResponses
      BY <2>1, <2>2, <2>4, <3>2 DEF Server!MainFunction, FreshInv
    <3> QED BY <3>1, <3>2
  <2>9. mCrAuthFvAndMac' \in [first : Fv \cup {Empty}, second : Signed' \cup {Empty}]
    BY <2>1, <2>4 DEF FreshInv
  <2> QED BY <2>1, <2>3, <2>5, <2>8, <2>9 DEF FreshInv
<1>3. CASE DeliverChallenge
  <2>1. PICK c \in challengeSignal : Server!incomingAuthFvChallengeSignalsCb(Ecu, c)
    BY <1>3 DEF DeliverChallenge
  <2>2. /\ mResponsePendingChallenges' =
             [mResponsePendingChallenges EXCEPT ![Ecu] = c]
        /\ UNCHANGED <<serverFv, valueSignal, signatureSignal, challengeSignal,
                       issuedAt, mCrAuthFvAndMac, mCurrentFvState>>
    BY <1>3, <2>1
    DEF DeliverChallenge, Server!incomingAuthFvChallengeSignalsCb, Server!clockVars,
        participantVars, answerVars, historyVars
  <2>3. mResponsePendingChallenges' \in [{Ecu} -> challengeSignal' \cup {Empty}]
    BY <2>2 DEF FreshInv
  <2> QED BY <2>2, <2>3 DEF FreshInv, Signed
<1>4. CASE DeliverToParticipant
  <2>1. UNCHANGED <<serverFv, mResponsePendingChallenges, valueSignal,
                    signatureSignal, issuedAt>>
    BY <1>4 DEF DeliverToParticipant, serverVars, answerVars, historyVars
  <2> DEFINE PairKept ==
        /\ UNCHANGED challengeSignal
        /\ mCrAuthFvAndMac' \in [first : Fv \cup {Empty}, second : Signed \cup {Empty}]
        /\ mCurrentFvState' = "ProcessFV" =>
             mCrAuthFvAndMac'.first # Empty /\ mCrAuthFvAndMac'.second # Empty
  <2>2. PairKept
    <3>1. ASSUME NEW fv \in valueSignal[Ecu], Participant!incomingAuthFvValue(fv)
          PROVE  PairKept
      BY <3>1, DistributionAssumption
      DEF Participant!incomingAuthFvValue, Participant!receiveAuthentic,
          Participant!reactToFVRes, Participant!mainVars, FreshInv
    <3>2. ASSUME NEW mac \in signatureSignal[Ecu],
                 Participant!incomingAuthFvSignature(mac)
          PROVE  PairKept
      BY <3>2, EmptyIsNotSigned
      DEF Participant!incomingAuthFvSignature, Participant!receiveAuthentic,
          Participant!reactToFVRes, Participant!mainVars, FreshInv
    <3>3. ASSUME NEW fv \in broadcastSignal, Participant!incomingUnAuthFvSignalsCb(fv)
          PROVE  PairKept
      BY <3>3
      DEF Participant!incomingUnAuthFvSignalsCb, Participant!reactToUnauthenticFVRes,
          Participant!mainVars, FreshInv
    <3> QED BY <1>4, <3>1, <3>2, <3>3 DEF DeliverToParticipant
  <2> QED BY <2>1, <2>2 DEF FreshInv, Signed
<1>5. CASE UNCHANGED vars
  BY <1>5 DEF vars, participantVars, serverVars, answerVars, historyVars, FreshInv, Signed
<1> QED BY <1>1, <1>2, <1>3, <1>4, <1>5 DEF Next
-----------------------------------------------------------------------------
(* Below the modulus nothing is lost by leaving the first byte out.        *)
LEMMA TrimKeeps ==
  ASSUME NEW fv \in Fv
  PROVE  Participant!Trim(fv) = fv /\ Server!Trim(fv) = fv
  BY DistributionAssumption DEF Fv, Participant!Trim, Server!Trim

(* A participant that becomes synchronised has verified what it received.  *)
LEMMA TakesOverVerified ==
  ASSUME FreshInv, Participant!MainFunction, TakesOver
  PROVE  /\ pc = "ready" /\ pc' = "takenOver"
         /\ mCurrentFvState = "ProcessFV" /\ mCurrentFvState' = "ProcessFV"
         /\ UNCHANGED <<mActiveFvChallenge, challengeSignal>>
         /\ mCrAuthFvAndMac.second =
              [challenge |-> mActiveFvChallenge, fv |-> mCrAuthFvAndMac.first]
<1>1. CASE Participant!requestAnAuthenticFv
  BY <1>1
  DEF TakesOver, Participant!requestAnAuthenticFv, Participant!requestFails,
      Participant!requestPublish, Participant!requestStore, Participant!clockVars,
      Participant!incTimersOnly, Participant!incTimers
<1>2. CASE Participant!waitForAnAuthenticFv \/ Participant!requestTimeout
  BY <1>2
  DEF TakesOver, Participant!waitForAnAuthenticFv, Participant!requestTimeout,
      Participant!clockVars, Participant!incTimersOnly, Participant!incTimers
<1>3. CASE Participant!processAnAuthenticFv
  <2>1. Participant!acceptAuthenticFv
    BY <1>3
    DEF TakesOver, Participant!processAnAuthenticFv, Participant!acceptedToIdle,
        Participant!refuseAuthenticFv, Participant!incTimersOnly,
        Participant!incTimers
  <2>2. mCrAuthFvAndMac.first \in Fv
    BY <2>1 DEF Participant!acceptAuthenticFv, FreshInv
  <2> QED
    BY <2>1, <2>2, TrimKeeps
    DEF Participant!acceptAuthenticFv, Participant!Verified, Participant!MacVerify,
        Participant!requestVars
<1>4. CASE Participant!processAnUnauthenticFv \/ Participant!idle
  BY <1>4
  DEF TakesOver, Participant!processAnUnauthenticFv, Participant!dropFv,
      Participant!droppedToRequest, Participant!keepFv, Participant!invalidate,
      Participant!idle, Participant!incTimersOnly, Participant!incTimers
<1> QED BY <1>1, <1>2, <1>3, <1>4 DEF Participant!MainFunction

(* Nobody but the main thread of the participant makes the value valid.    *)
LEMMA OnlyMainTakesOver ==
  [Next]_vars /\ TakesOver => ParticipantMain
<1> SUFFICES ASSUME [Next]_vars, TakesOver, ~ParticipantMain PROVE FALSE
  OBVIOUS
<1>1. UNCHANGED mIsFvValid
  BY DEF Next, ServerMain, DeliverChallenge, DeliverToParticipant, vars,
         participantVars, Participant!incomingAuthFvValue,
         Participant!incomingAuthFvSignature, Participant!incomingUnAuthFvSignalsCb,
         Participant!receiveAuthentic, Participant!clockVars
<1> QED BY <1>1 DEF TakesOver

(***************************************************************************)
(* A value taken over is one the server had after it was asked for.        *)
(***************************************************************************)
THEOREM TakesOverFreshValues == Spec => TakenValueIsFresh
<1> DEFINE Fresh ==
      TakesOver =>
        /\ issuedAt[mActiveFvChallenge] <= mCrAuthFvAndMac.first
        /\ mCrAuthFvAndMac.first <= serverFv
<1>1. FreshInv /\ [Next]_vars => [Fresh]_vars
  <2> SUFFICES ASSUME FreshInv, [Next]_vars, TakesOver PROVE Fresh
    OBVIOUS
  <2>1. Participant!MainFunction
    BY OnlyMainTakesOver DEF ParticipantMain
  <2>2. /\ mCrAuthFvAndMac.second \in Signed
        /\ mCrAuthFvAndMac.second =
             [challenge |-> mActiveFvChallenge, fv |-> mCrAuthFvAndMac.first]
    BY <2>1, TakesOverVerified DEF FreshInv
  <2> QED BY <2>2 DEF Signed
<1> QED
  BY <1>1, InitFreshInv, StepFreshInv, PTL DEF Spec, TakenValueIsFresh

-----------------------------------------------------------------------------
(* A request in progress works with a challenge no value was taken for.    *)
OnceInv ==
  /\ taken \subseteq challengeSignal
  /\ mCurrentFvState \in {"FVInProgress", "ProcessFV"} /\ pc # "takenOver" =>
       mActiveFvChallenge \notin taken
  /\ pc = "published" =>
       /\ mCurrentFvState = "RequestFV"
       /\ genRes \in challengeSignal \ taken

LEMMA StepOnceInv == FreshInv /\ OnceInv /\ [Next]_vars => OnceInv'
<1> SUFFICES ASSUME FreshInv, OnceInv, [Next]_vars PROVE OnceInv'  OBVIOUS
<1> USE DEF OnceInv
<1>1. ASSUME ParticipantMain, TakesOver PROVE OnceInv'
  <2>1. /\ pc' = "takenOver"
        /\ UNCHANGED <<mActiveFvChallenge, challengeSignal>>
        /\ taken' = taken \cup {mActiveFvChallenge}
    BY <1>1, TakesOverVerified DEF ParticipantMain
  <2>2. mActiveFvChallenge \in challengeSignal
    <3>1. /\ mCrAuthFvAndMac.second \in Signed
          /\ mCrAuthFvAndMac.second.challenge = mActiveFvChallenge
      BY <1>1, TakesOverVerified DEF ParticipantMain, FreshInv
    <3> QED BY <3>1 DEF Signed
  <2> QED
    BY <2>1, <2>2
<1>2. ASSUME ParticipantMain, ~TakesOver PROVE OnceInv'
  <2>1. UNCHANGED taken
    BY <1>2 DEF ParticipantMain
  <2>2. CASE Participant!requestAnAuthenticFv
    BY <2>1, <2>2
    DEF Participant!requestAnAuthenticFv, Participant!requestFails,
        Participant!requestPublish, Participant!requestStore,
        Participant!recordRequest, Participant!transiteTo, Participant!requestVars,
        Participant!mainVars
  <2>3. CASE Participant!waitForAnAuthenticFv \/ Participant!requestTimeout
    BY <2>1, <2>3
    DEF Participant!waitForAnAuthenticFv, Participant!requestTimeout,
        Participant!transiteTo, Participant!requestVars
  <2>4. CASE \/ Participant!processAnAuthenticFv \/ Participant!processAnUnauthenticFv
             \/ Participant!idle
    BY <2>1, <2>4
    DEF Participant!processAnAuthenticFv, Participant!acceptAuthenticFv,
        Participant!acceptedToIdle, Participant!refuseAuthenticFv,
        Participant!processAnUnauthenticFv, Participant!dropFv,
        Participant!droppedToRequest, Participant!keepFv, Participant!idle,
        Participant!transiteTo, Participant!requestVars, Participant!mainVars
  <2> QED BY <1>2, <2>2, <2>3, <2>4 DEF ParticipantMain, Participant!MainFunction
<1>3. CASE ServerMain \/ DeliverChallenge
  BY <1>3 DEF ServerMain, DeliverChallenge, participantVars, historyVars
<1>4. CASE DeliverToParticipant
  BY <1>4
  DEF DeliverToParticipant, historyVars, Participant!incomingAuthFvValue,
      Participant!incomingAuthFvSignature, Participant!incomingUnAuthFvSignalsCb,
      Participant!receiveAuthentic, Participant!reactToFVRes,
      Participant!reactToUnauthenticFVRes, Participant!requestVars,
      Participant!mainVars
<1>5. CASE UNCHANGED vars
  BY <1>5 DEF vars, participantVars, historyVars
<1> QED BY <1>1, <1>2, <1>3, <1>4, <1>5 DEF Next

(***************************************************************************)
(* No answer is accepted twice, although its challenge is kept.            *)
(***************************************************************************)
THEOREM NoChallengeTakenTwice == Spec => ChallengeTakenOnce
<1> DEFINE Once == TakesOver => mActiveFvChallenge \notin taken
<1>1. Init => OnceInv
  BY DEF Init, Participant!Init, OnceInv
<1>2. FreshInv /\ OnceInv /\ [Next]_vars => [Once]_vars
  BY OnlyMainTakesOver, TakesOverVerified DEF ParticipantMain, OnceInv
<1> QED
  BY <1>1, <1>2, InitFreshInv, StepFreshInv, StepOnceInv, PTL
  DEF Spec, ChallengeTakenOnce
-----------------------------------------------------------------------------
(* Time.  One more call of incTimers takes a clock at most one period on,  *)
(* and exactly one if it does not miss the end of the increment.           *)

Millis(fv, clock) == fv * TimeIncrementPeriod + clock

LEMMA MillisOf ==
  ASSUME NEW fv \in Nat, NEW clock \in Nat
  PROVE  /\ Millis(fv, 0) \in Nat /\ Millis(fv, clock) \in Nat
         /\ Millis(fv, clock) = Millis(fv, 0) + clock
         /\ Millis(fv + 1, 0) = Millis(fv, 0) + TimeIncrementPeriod
<1> DEFINE product == fv * TimeIncrementPeriod
<1>1. TimeIncrementPeriod \in Nat /\ product \in Nat
  BY DistributionAssumption, ProductNotNegative
<1>2. (fv + 1) * TimeIncrementPeriod = product + TimeIncrementPeriod
  BY <1>1, OneMore
<1> HIDE DEF product
<1>3. Millis(fv, 0) = product + 0 /\ Millis(fv, clock) = product + clock
  BY DEF Millis, product
<1>4. Millis(fv + 1, 0) = product + TimeIncrementPeriod + 0
  BY <1>2 DEF Millis
<1> QED BY <1>1, <1>3, <1>4

(* Either ECU's incTimers on a valid value. *)
Rest == TimeIncrementPeriod + MainFunctionPeriod

TickedFv(fv, clock) ==
  IF clock + MainFunctionPeriod = TimeIncrementPeriod THEN fv + 1 ELSE fv

TickedClock(clock) ==
  IF clock + MainFunctionPeriod = TimeIncrementPeriod THEN 0
  ELSE IF clock + MainFunctionPeriod >= Rest THEN Rest
  ELSE clock + MainFunctionPeriod

LEMMA TickOfBoth ==
  ASSUME NEW fv, NEW clock
  PROVE  /\ Participant!NextFv(TRUE, clock, fv) = TickedFv(fv, clock)
         /\ Participant!NextClock(TRUE, clock) = TickedClock(clock)
         /\ Server!NextFv(TRUE, clock, fv) = TickedFv(fv, clock)
         /\ Server!NextClock(TRUE, clock) = TickedClock(clock)
  BY DEF Participant!NextFv, Participant!NextClock, Participant!Due,
         Participant!AtLeast, Participant!ClockRest, Server!NextFv,
         Server!NextClock, Server!Due, Server!AtLeast, Server!ClockRest,
         TickedFv, TickedClock, Rest

(* The participant's tick. *)
LEMMA ParticipantTick ==
  ASSUME NEW fv \in Nat, NEW clock \in Nat, NEW nextFv, NEW nextClock,
         nextFv = TickedFv(fv, clock), nextClock = TickedClock(clock)
  PROVE  /\ nextFv \in Nat /\ nextClock \in Nat
         /\ Millis(nextFv, nextClock) <= Millis(fv, clock) + MainFunctionPeriod
<1>1. MainFunctionPeriod \in Nat /\ TimeIncrementPeriod \in Nat
  BY DistributionAssumption
<1>2. CASE clock + MainFunctionPeriod = TimeIncrementPeriod
  <2>1. nextFv = fv + 1 /\ nextClock = 0
    BY <1>2 DEF TickedFv, TickedClock
  <2>2. /\ Millis(fv, clock) = Millis(fv, 0) + clock /\ Millis(fv, 0) \in Nat
        /\ Millis(nextFv, nextClock) = Millis(fv, 0) + TimeIncrementPeriod
    BY <2>1, MillisOf
  <2> QED BY <1>1, <1>2, <2>1, <2>2
<1>3. CASE clock + MainFunctionPeriod # TimeIncrementPeriod
  <2>1. nextFv = fv
    BY <1>3 DEF TickedFv
  <2>2. nextClock \in Nat /\ nextClock <= clock + MainFunctionPeriod
    BY <1>1, <1>3 DEF TickedClock, Rest
  <2>3. Millis(fv, clock) = Millis(fv, 0) + clock /\ Millis(fv, 0) \in Nat
    BY MillisOf
  <2>4. Millis(nextFv, nextClock) = Millis(fv, 0) + nextClock
    BY <2>1, <2>2, MillisOf
  <2> QED BY <1>1, <2>1, <2>2, <2>3, <2>4
<1> QED BY <1>2, <1>3

(* The counts of a clock that runs, as in FvmClock. *)
Running(clock) ==
  /\ clock \in Nat /\ clock < TimeIncrementPeriod
  /\ clock % MainFunctionPeriod = 0

LEMMA ServerTick ==
  ASSUME NEW fv \in Nat, NEW clock, Running(clock), NEW nextFv, NEW nextClock,
         nextFv = TickedFv(fv, clock), nextClock = TickedClock(clock)
  PROVE  /\ Running(nextClock)
         /\ Millis(nextFv, nextClock) = Millis(fv, clock) + MainFunctionPeriod
<1>0. /\ TimeIncrementPeriod % MainFunctionPeriod = 0
      /\ clock % MainFunctionPeriod = 0
  BY DistributionAssumption DEF Running
<1>1. /\ MainFunctionPeriod \in Nat \ {0} /\ TimeIncrementPeriod \in Nat \ {0}
      /\ clock \in Nat /\ clock < TimeIncrementPeriod
  BY DistributionAssumption DEF Running
<1>2. (clock + MainFunctionPeriod) % MainFunctionPeriod = 0
  BY <1>0, <1>1, NextMultiple
<1>3. clock + MainFunctionPeriod <= TimeIncrementPeriod
  BY <1>0, <1>1, NextMultipleIsNext
<1>4. CASE clock + MainFunctionPeriod = TimeIncrementPeriod
  <2>1. nextFv = fv + 1 /\ nextClock = 0
    BY <1>4 DEF TickedFv, TickedClock
  <2>2. Running(0)
    <3>1. MainFunctionPeriod * 0 = 0 /\ (MainFunctionPeriod * 0) % MainFunctionPeriod = 0
      BY <1>1, Multiple
    <3> QED BY <1>1, <3>1 DEF Running
  <2>3. Millis(nextFv, nextClock) = Millis(fv, 0) + TimeIncrementPeriod
    BY <1>1, <2>1, MillisOf
  <2>4. Millis(fv, clock) = Millis(fv, 0) + clock /\ Millis(fv, 0) \in Nat
    BY <1>1, MillisOf
  <2>5. Millis(nextFv, nextClock) = Millis(fv, clock) + MainFunctionPeriod
    BY <1>1, <1>4, <2>3, <2>4
  <2> QED BY <2>1, <2>2, <2>5
<1>5. CASE clock + MainFunctionPeriod < TimeIncrementPeriod
  <2>1. nextFv = fv
    BY <1>1, <1>5 DEF TickedFv
  <2>2. nextClock = clock + MainFunctionPeriod
    BY <1>1, <1>5 DEF TickedClock, Rest
  <2>3. nextClock \in Nat /\ nextClock < TimeIncrementPeriod
    BY <1>1, <1>5, <2>2
  <2>4. nextClock % MainFunctionPeriod = 0
    BY <1>2, <2>2, Zenon
  <2>5. Running(nextClock)
    BY <2>3, <2>4, Zenon DEF Running
  <2>6. Millis(fv, clock) = Millis(fv, 0) + clock /\ Millis(fv, 0) \in Nat
    BY <1>1, MillisOf
  <2>7. Millis(fv, nextClock) = Millis(fv, 0) + nextClock
    BY <2>3, MillisOf
  <2>8. Millis(nextFv, nextClock) = Millis(fv, clock) + MainFunctionPeriod
    BY <1>1, <2>1, <2>2, <2>6, <2>7
  <2> QED BY <2>5, <2>8
<1> QED BY <1>1, <1>3, <1>4, <1>5

(***************************************************************************)
(* An answer is a whole period old when it is published: incTimers of the  *)
(* server runs after the signals have been sent.  The participant, which   *)
(* counts that period when it takes the value over, is therefore not ahead.*)
(* It counts time only between the end of one request and the next.        *)
(***************************************************************************)
SentBefore(mac) == Millis(mac.fv, MainFunctionPeriod) <= ServerMillis

Allowance == (MaxLead - 1 - lead) * MainFunctionPeriod

(* The rest of the call that has taken a value over counts a period.       *)
Owed == IF pc = "takenOver" THEN MainFunctionPeriod ELSE 0

PaceInv ==
  /\ Running(serverClock)
  /\ lead \in -MaxLead..MaxLead
  /\ mIsFvValid \in BOOLEAN /\ mFV \in Nat /\ mClockCount \in Nat
  /\ \A mac \in signatureSignal[Ecu] : SentBefore(mac)
  /\ mCrAuthFvAndMac.second # Empty => SentBefore(mCrAuthFvAndMac.second)
  /\ mIsFvValid =>
       \/ mCurrentFvState \in {"Idle", "ProcessAnauthFV"} /\ pc = "ready"
       \/ mCurrentFvState = "ProcessFV" /\ pc = "takenOver"
  /\ pc = "published" => mCurrentFvState = "RequestFV"
  /\ mIsFvValid => ParticipantMillis + Owed <= ServerMillis + Allowance

LEMMA InitPaceInv == Init => PaceInv
<1> SUFFICES ASSUME Init PROVE PaceInv  OBVIOUS
<1>1. Running(0)
  <2>1. MainFunctionPeriod \in Nat \ {0} /\ TimeIncrementPeriod \in Nat \ {0}
    BY DistributionAssumption
  <2>2. MainFunctionPeriod * 0 = 0 /\ (MainFunctionPeriod * 0) % MainFunctionPeriod = 0
    BY <2>1, Multiple
  <2> QED BY <2>1, <2>2 DEF Running
<1>2. serverClock = 0 /\ signatureSignal[Ecu] = {}
  BY DEF Init, Server!Init
<1>3. /\ mFV = 0 /\ mClockCount = 0 /\ mIsFvValid = FALSE /\ pc = "ready"
      /\ mCrAuthFvAndMac = [first |-> Empty, second |-> Empty]
  BY DEF Init, Participant!Init
<1>4. lead \in -MaxLead..MaxLead
  BY LeadAssumption DEF Init
<1> QED BY <1>1, <1>2, <1>3, <1>4 DEF PaceInv

LEMMA IncTimersTicks ==
  ASSUME NEW valid \in BOOLEAN, NEW fv \in Nat, NEW clock \in Nat,
         Participant!incTimers(valid, fv, clock)
  PROVE  /\ mIsFvValid' = valid
         /\ mFV' \in Nat /\ mClockCount' \in Nat
         /\ valid => mFV' = TickedFv(fv, clock) /\ mClockCount' = TickedClock(clock)
<1> USE DistributionAssumption
<1>1. CASE valid = TRUE
  BY <1>1, ParticipantTick, TickOfBoth DEF Participant!incTimers
<1>2. CASE valid = FALSE
  BY <1>2
  DEF Participant!incTimers, Participant!NextFv, Participant!NextClock,
      Participant!Due, Participant!AtLeast, Participant!ClockRest
<1> QED BY <1>1, <1>2

(* The three ways in which the participant's main thread treats its clock. *)
ClockKept == UNCHANGED <<mIsFvValid, mFV, mClockCount>> /\ ~mIsFvValid

ClockTicked ==
  /\ mIsFvValid' \in BOOLEAN /\ mFV' \in Nat /\ mClockCount' \in Nat
  /\ mIsFvValid' => /\ mIsFvValid
                    /\ mFV' = TickedFv(mFV, mClockCount)
                    /\ mClockCount' = TickedClock(mClockCount)
                    /\ pc \in {"ready", "takenOver"} /\ pc' = "ready"
                    /\ mCurrentFvState' \in {"Idle", "ProcessAnauthFV"}

ClockStarted ==
  /\ mIsFvValid' = TRUE
  /\ mFV' = mCrAuthFvAndMac.first
  /\ mClockCount' = 0
  /\ mCurrentFvState' = "ProcessFV" /\ pc = "ready" /\ pc' = "takenOver"
  /\ mCrAuthFvAndMac.second # Empty
  /\ mCrAuthFvAndMac.second.fv = mCrAuthFvAndMac.first

LEMMA MainTreatsClock ==
  ASSUME FreshInv, PaceInv, Participant!MainFunction
  PROVE  /\ ClockKept \/ ClockTicked \/ ClockStarted
         /\ pc' = "published" => mCurrentFvState' = "RequestFV"
<1> DEFINE ValidTicks ==
      /\ mIsFvValid' = mIsFvValid
      /\ mFV' \in Nat /\ mClockCount' \in Nat
      /\ mIsFvValid => /\ mFV' = TickedFv(mFV, mClockCount)
                       /\ mClockCount' = TickedClock(mClockCount)
<1>0. Participant!incTimersOnly => ValidTicks
  BY IncTimersTicks DEF Participant!incTimersOnly, PaceInv
<1> HIDE DEF ValidTicks
<1>1. CASE Participant!requestAnAuthenticFv
  <2>1. CASE \E c \in Challenge : Participant!requestPublish(c)
    BY <2>1 DEF Participant!requestPublish, Participant!clockVars, ClockKept, PaceInv
  <2>2. CASE Participant!requestFails \/ Participant!requestStore
    <3>1. ValidTicks /\ ~mIsFvValid
      BY <1>0, <2>2 DEF Participant!requestFails, Participant!requestStore, PaceInv
    <3>2. pc' = "published" => mCurrentFvState' = "RequestFV"
      BY <2>2 DEF Participant!requestFails, Participant!requestStore,
                  Participant!mainVars
    <3> QED BY <3>1, <3>2 DEF ValidTicks, ClockTicked, PaceInv
  <2> QED BY <1>1, <2>1, <2>2 DEF Participant!requestAnAuthenticFv
<1>2. CASE Participant!waitForAnAuthenticFv \/ Participant!requestTimeout
  <2>1. ~mIsFvValid /\ pc' # "published"
    BY <1>2 DEF Participant!waitForAnAuthenticFv, Participant!requestTimeout, PaceInv
  <2>2. ValidTicks \/ UNCHANGED <<mIsFvValid, mFV, mClockCount>>
    BY <1>0, <1>2 DEF Participant!waitForAnAuthenticFv, Participant!requestTimeout,
                      Participant!clockVars
  <2> QED BY <2>1, <2>2 DEF ValidTicks, ClockTicked, ClockKept, PaceInv
<1>3. CASE Participant!acceptAuthenticFv
  <2>1. /\ mCurrentFvState = "ProcessFV" /\ pc = "ready" /\ pc' = "takenOver"
        /\ mCurrentFvState' = mCurrentFvState
        /\ mCrAuthFvAndMac.first \in Fv /\ mCrAuthFvAndMac.second # Empty
        /\ mIsFvValid' = TRUE /\ mFV' = mCrAuthFvAndMac.first /\ mClockCount' = 0
        /\ Participant!Verified
    BY <1>3 DEF Participant!acceptAuthenticFv, Participant!takeOver, FreshInv
  <2>2. mCrAuthFvAndMac.second.fv = mCrAuthFvAndMac.first
    BY <2>1, TrimKeeps DEF Participant!Verified, Participant!MacVerify
  <2> QED BY <2>1, <2>2 DEF ClockStarted
<1>4. CASE Participant!acceptedToIdle
  <2>1. ValidTicks
    BY <1>0, <1>4 DEF Participant!acceptedToIdle
  <2>2. pc = "takenOver" /\ pc' = "ready" /\ mCurrentFvState' = "Idle"
    BY <1>4 DEF Participant!acceptedToIdle, Participant!transiteTo
  <2> QED BY <2>1, <2>2 DEF ValidTicks, ClockTicked, PaceInv
<1>5. CASE Participant!refuseAuthenticFv \/ Participant!droppedToRequest
  <2>1. ValidTicks /\ ~mIsFvValid
    BY <1>0, <1>5 DEF Participant!refuseAuthenticFv, Participant!droppedToRequest, PaceInv
  <2>2. pc' = "ready"
    BY <1>5 DEF Participant!refuseAuthenticFv, Participant!droppedToRequest,
                Participant!mainVars
  <2> QED BY <2>1, <2>2 DEF ValidTicks, ClockTicked, PaceInv
<1>6. CASE Participant!dropFv
  <2>1. /\ mIsFvValid' = FALSE /\ pc' = "dropped"
        /\ UNCHANGED <<mFV, mClockCount>>
    BY <1>6 DEF Participant!dropFv, Participant!invalidate
  <2> QED BY <2>1 DEF ClockTicked, PaceInv
<1>7. CASE Participant!keepFv \/ Participant!idle
  <2>1. /\ pc = "ready" /\ pc' = "ready"
        /\ mCurrentFvState' \in {"Idle", "ProcessAnauthFV"}
    BY <1>7 DEF Participant!keepFv, Participant!idle, Participant!transiteTo,
                Participant!mainVars
  <2>2. ValidTicks
    BY <1>0, <1>7 DEF Participant!keepFv, Participant!idle
  <2> QED BY <2>1, <2>2 DEF ValidTicks, ClockTicked, PaceInv
<1> QED BY <1>1, <1>2, <1>3, <1>4, <1>5, <1>6, <1>7
        DEF Participant!MainFunction, Participant!processAnAuthenticFv,
            Participant!processAnUnauthenticFv

(* A step in which the server's clock stands still and nothing is signed. *)
LEMMA SentBeforeStays ==
  ASSUME PaceInv, UNCHANGED <<serverFv, serverClock, signatureSignal>>,
         \/ mCrAuthFvAndMac'.second \in signatureSignal[Ecu] \cup {Empty}
         \/ mCrAuthFvAndMac'.second = mCrAuthFvAndMac.second
  PROVE  /\ Running(serverClock')
         /\ \A mac \in signatureSignal'[Ecu] : SentBefore(mac)'
         /\ mCrAuthFvAndMac'.second # Empty => SentBefore(mCrAuthFvAndMac.second)'
         /\ ServerMillis' = ServerMillis
<1>1. ServerMillis' = ServerMillis
  BY DEF ServerMillis
<1>2. \A mac : SentBefore(mac)' <=> (Millis(mac.fv, MainFunctionPeriod) <= ServerMillis)
  BY <1>1 DEF SentBefore, Millis
<1>3. SentBefore(mCrAuthFvAndMac.second)' <=>
        (Millis(mCrAuthFvAndMac'.second.fv, MainFunctionPeriod) <= ServerMillis)
  BY <1>1 DEF SentBefore, Millis
<1> QED BY <1>1, <1>2, <1>3 DEF PaceInv, SentBefore

LEMMA AllowanceType ==
  ASSUME NEW l \in -MaxLead..(MaxLead - 1)
  PROVE  (MaxLead - 1 - l) * MainFunctionPeriod \in Nat
<1>1. (MaxLead - 1 - l) \in Nat /\ MainFunctionPeriod \in Nat
  BY LeadAssumption, DistributionAssumption
<1> QED BY <1>1, ProductNotNegative

(* The server's clock runs, and its time is a number. *)
LEMMA ServerMillisType ==
  ASSUME FreshInv, PaceInv
  PROVE  ServerMillis \in Nat /\ ServerMillis = Millis(serverFv, serverClock)
<1>1. serverFv \in Nat /\ serverClock \in Nat
  BY DEF FreshInv, PaceInv, Running, Fv
<1> QED BY <1>1, MillisOf DEF ServerMillis, Millis

(* A tick of a period p, on what was within the allowance with o to spare. *)
LEMMA TickWithin ==
  ASSUME NEW millis \in Nat, NEW next \in Nat, NEW o \in Nat, NEW server \in Nat,
         NEW allowed \in Int, NEW nextAllowed \in Int, NEW p \in Nat,
         next <= millis + p, millis + o <= server + allowed,
         o + nextAllowed = allowed + p
  PROVE  next <= server + nextAllowed
  OBVIOUS

LEMMA ParticipantKeepsPace ==
  ASSUME FreshInv, PaceInv, ParticipantMain
  PROVE  PaceInv'
<1>1. UNCHANGED <<serverFv, serverClock, signatureSignal>>
  BY DEF ParticipantMain, serverVars, answerVars
<1>2. \/ mCrAuthFvAndMac'.second = Empty
      \/ mCrAuthFvAndMac'.second = mCrAuthFvAndMac.second
  BY MainKeepsPair DEF ParticipantMain
<1>3. /\ Running(serverClock')
      /\ \A mac \in signatureSignal'[Ecu] : SentBefore(mac)'
      /\ mCrAuthFvAndMac'.second # Empty => SentBefore(mCrAuthFvAndMac.second)'
      /\ ServerMillis' = ServerMillis
  BY <1>1, <1>2, SentBeforeStays
<1>4. /\ lead \in Int /\ lead <= MaxLead /\ lead' \in Int
      /\ lead' \in -MaxLead..MaxLead
      /\ pc = "ready" => lead' = lead - 1 /\ lead' <= MaxLead - 1
      /\ pc # "ready" => lead' = lead
  BY LeadAssumption DEF ParticipantMain, PaceInv
<1>4a. pc # "ready" => Allowance' = Allowance
  BY <1>4 DEF Allowance
<1>5. ServerMillis \in Nat /\ MainFunctionPeriod \in Nat
  BY ServerMillisType, DistributionAssumption
<1>6. pc' = "published" => mCurrentFvState' = "RequestFV"
  BY MainTreatsClock DEF ParticipantMain
<1>7. pc = "ready" => Allowance' = Allowance + MainFunctionPeriod
  <2>1. ASSUME pc = "ready" PROVE Allowance' = Allowance + MainFunctionPeriod
    <3>1. MaxLead - 1 - lead' = (MaxLead - 1 - lead) + 1 /\ (MaxLead - 1 - lead) \in Int
      BY <1>4, <2>1, LeadAssumption
    <3>2. (MaxLead - 1 - lead') * MainFunctionPeriod =
            (MaxLead - 1 - lead) * MainFunctionPeriod + MainFunctionPeriod
      BY <1>5, <3>1, OneMore
    <3> QED BY <3>2 DEF Allowance
  <2> QED BY <2>1
<1>8. Allowance \in Int
  BY <1>4, <1>5, LeadAssumption DEF Allowance
<1>9. CASE ClockKept
  BY <1>3, <1>4, <1>6, <1>9 DEF ClockKept, PaceInv
<1>10. CASE ClockTicked
  <2>1. ASSUME mIsFvValid'
        PROVE  ParticipantMillis' + Owed' <= ServerMillis' + Allowance'
    <3>1. /\ pc \in {"ready", "takenOver"} /\ Owed' = 0
          /\ ParticipantMillis + Owed <= ServerMillis + Allowance
      BY <1>10, <2>1 DEF ClockTicked, PaceInv, Owed
    <3>2. ParticipantMillis = Millis(mFV, mClockCount) /\ ParticipantMillis \in Nat
      BY MillisOf DEF ParticipantMillis, PaceInv, Millis
    <3>3. /\ mFV' \in Nat /\ mClockCount' \in Nat
          /\ Millis(mFV', mClockCount') <= Millis(mFV, mClockCount) + MainFunctionPeriod
      BY <1>10, <2>1, ParticipantTick DEF ClockTicked, PaceInv
    <3>4. ParticipantMillis' = Millis(mFV', mClockCount') /\ ParticipantMillis' \in Nat
      BY <3>3, MillisOf DEF ParticipantMillis, Millis
    <3>5. Owed + Allowance' = Allowance + MainFunctionPeriod
      BY <1>4a, <1>5, <1>7, <1>8, <3>1 DEF Owed
    <3>6. Owed \in Nat
      BY <1>5 DEF Owed
    <3>7. Allowance' \in Int
      BY <1>5, <1>8, <3>5, <3>6, <1>4a, <1>7
    <3>8. ParticipantMillis' <= ParticipantMillis + MainFunctionPeriod
      BY <3>2, <3>3, <3>4
    <3>9. ParticipantMillis' <= ServerMillis + Allowance'
      <4>1. ParticipantMillis + Owed <= ServerMillis + Allowance
        BY <3>1
      <4>2. ParticipantMillis \in Nat /\ ParticipantMillis' \in Nat
        BY <3>2, <3>4
      <4> QED BY <1>5, <1>8, <3>5, <3>6, <3>7, <3>8, <4>1, <4>2, TickWithin
    <3> QED BY <1>3, <1>5, <3>1, <3>4, <3>7, <3>9
  <2>2. mIsFvValid' => /\ mCurrentFvState' \in {"Idle", "ProcessAnauthFV"}
                       /\ pc' = "ready"
    BY <1>10 DEF ClockTicked
  <2>3. mIsFvValid' \in BOOLEAN /\ mFV' \in Nat /\ mClockCount' \in Nat
    BY <1>10 DEF ClockTicked
  <2> QED BY <1>3, <1>4, <1>6, <2>1, <2>2, <2>3 DEF PaceInv
<1>11. CASE ClockStarted
  <2> DEFINE fv == mCrAuthFvAndMac.first
  <2>1. fv \in Nat /\ Millis(fv, MainFunctionPeriod) <= ServerMillis
    <3>1. mCrAuthFvAndMac.second # Empty /\ mCrAuthFvAndMac.second.fv = fv
      BY <1>11 DEF ClockStarted
    <3>2. mCrAuthFvAndMac.second \in Signed
      BY <3>1 DEF FreshInv
    <3>3. fv \in Nat
      BY <3>1, <3>2 DEF Signed, Fv
    <3>4. SentBefore(mCrAuthFvAndMac.second)
      BY <3>1 DEF PaceInv
    <3> QED BY <3>1, <3>3, <3>4 DEF SentBefore
  <2>2. Millis(fv, MainFunctionPeriod) = Millis(fv, 0) + MainFunctionPeriod
        /\ Millis(fv, 0) \in Nat
    BY <1>5, <2>1, MillisOf
  <2>3. ParticipantMillis' = Millis(fv, 0) /\ Owed' = MainFunctionPeriod
    BY <1>11 DEF ClockStarted, ParticipantMillis, Millis, Owed
  <2>4. Allowance' \in Nat
    <3>1. lead' \in -MaxLead..(MaxLead - 1)
      BY <1>4, <1>11, LeadAssumption DEF ClockStarted
    <3> QED BY <3>1, AllowanceType DEF Allowance
  <2>5. ParticipantMillis' + Owed' <= ServerMillis' + Allowance'
    BY <1>3, <1>5, <2>1, <2>2, <2>3, <2>4
  <2>6. 0 \in Nat
    OBVIOUS
  <2> QED BY <1>3, <1>4, <1>6, <1>11, <2>1, <2>5, <2>6 DEF ClockStarted, PaceInv
<1> QED BY <1>9, <1>10, <1>11, MainTreatsClock DEF ParticipantMain

LEMMA ServerKeepsPace ==
  ASSUME FreshInv, PaceInv, ServerMain
  PROVE  PaceInv'
<1>1. /\ UNCHANGED <<mCurrentFvState, mIsFvValid, mFV, mClockCount,
                      mCrAuthFvAndMac, pc>>
      /\ lead' = lead + 1 /\ lead' <= MaxLead
  BY DEF ServerMain, participantVars
<1>2. PICK published \in BOOLEAN, full \in SUBSET Server!Pending,
              half \in SUBSET Server!Pending :
        Server!MainFunction(published, full, half)
  BY DEF ServerMain, Server!Main
<1>3. /\ serverFv \in Nat /\ Running(serverClock)
      /\ serverFv' = TickedFv(serverFv, serverClock)
      /\ serverClock' = TickedClock(serverClock)
  <2>1. /\ serverFv' = Server!NextFv(TRUE, serverClock, serverFv)
        /\ serverClock' = Server!NextClock(TRUE, serverClock)
    BY <1>2 DEF Server!MainFunction, Server!incTimers
  <2>2. serverFv' = TickedFv(serverFv, serverClock) /\ serverClock' = TickedClock(serverClock)
    BY <2>1, TickOfBoth, Zenon
  <2>3. serverFv \in Nat /\ Running(serverClock)
    BY DEF PaceInv, FreshInv, Fv
  <2> QED BY <2>2, <2>3
<1>4. /\ Running(serverClock')
      /\ Millis(serverFv', serverClock')
           = Millis(serverFv, serverClock) + MainFunctionPeriod
  BY <1>3, ServerTick
<1>5. /\ ServerMillis \in Nat /\ MainFunctionPeriod \in Nat
      /\ ServerMillis' = ServerMillis + MainFunctionPeriod
  BY <1>4, ServerMillisType, DistributionAssumption DEF ServerMillis, Millis
<1>6. \A mac \in Signed : SentBefore(mac) => SentBefore(mac)'
  <2> SUFFICES ASSUME NEW mac \in Signed, SentBefore(mac)
               PROVE  Millis(mac.fv, MainFunctionPeriod) <= ServerMillis'
    BY DEF SentBefore, Millis
  <2>1. mac.fv \in Nat
    BY DEF Signed, Fv
  <2>2. Millis(mac.fv, MainFunctionPeriod) \in Nat
    BY <1>5, <2>1, MillisOf
  <2> QED BY <1>5, <2>2 DEF SentBefore
<1>7. \A mac : mac.fv = serverFv => SentBefore(mac)'
  <2>1. Millis(serverFv, MainFunctionPeriod) <= ServerMillis'
    <3>1. /\ Millis(serverFv, MainFunctionPeriod) = Millis(serverFv, 0) + MainFunctionPeriod
          /\ Millis(serverFv, 0) \in Nat
      BY <1>3, <1>5, MillisOf
    <3>2. ServerMillis = Millis(serverFv, 0) + serverClock /\ serverClock \in Nat
      BY <1>3, ServerMillisType, MillisOf DEF Running
    <3> QED BY <1>5, <3>1, <3>2
  <2> QED BY <2>1 DEF SentBefore, Millis
<1>8. \A mac \in signatureSignal'[Ecu] : SentBefore(mac)'
  <2>1. \A mac \in signatureSignal[Ecu] : SentBefore(mac)'
    BY <1>6 DEF PaceInv, FreshInv
  <2>2. CASE mNeedToSendAuthFvResponses
    <3>1. signatureSignal'[Ecu] \subseteq signatureSignal[Ecu] \cup
            {[challenge |-> mResponsePendingChallenges[Ecu],
              fv |-> Server!Trim(serverFv)]}
      BY <1>2, <2>2 DEF Server!MainFunction, Server!sendAuthenticFvResponses
    <3>2. Server!Trim(serverFv) = serverFv
      BY DistributionAssumption DEF FreshInv, Fv, Server!Trim
    <3> QED BY <1>7, <2>1, <3>1, <3>2
  <2>3. CASE ~mNeedToSendAuthFvResponses
    BY <1>2, <2>1, <2>3 DEF Server!MainFunction
  <2> QED BY <2>2, <2>3
<1>9. mCrAuthFvAndMac'.second # Empty => SentBefore(mCrAuthFvAndMac.second)'
  <2>1. mCrAuthFvAndMac.second # Empty => SentBefore(mCrAuthFvAndMac.second)'
    <3>1. SUFFICES ASSUME mCrAuthFvAndMac.second # Empty
                   PROVE  Millis(mCrAuthFvAndMac.second.fv, MainFunctionPeriod)
                            <= ServerMillis'
      BY <1>1 DEF SentBefore, Millis
    <3>2. /\ mCrAuthFvAndMac.second \in Signed
          /\ SentBefore(mCrAuthFvAndMac.second)
      BY <3>1 DEF FreshInv, PaceInv
    <3>3. mCrAuthFvAndMac.second.fv \in Nat
      BY <3>2 DEF Signed, Fv
    <3>4. Millis(mCrAuthFvAndMac.second.fv, MainFunctionPeriod) \in Nat
      BY <1>5, <3>3, MillisOf
    <3> QED BY <1>5, <3>2, <3>4 DEF SentBefore
  <2> QED BY <1>1, <2>1
<1>10. mIsFvValid' => ParticipantMillis' + Owed' <= ServerMillis' + Allowance'
  <2>1. lead \in Int /\ MaxLead \in Int /\ lead' = lead + 1
    BY <1>1, LeadAssumption DEF PaceInv
  <2>2. /\ (MaxLead - 1 - lead') \in Int
        /\ (MaxLead - 1 - lead) = (MaxLead - 1 - lead') + 1
    BY <2>1
  <2>3. Allowance = Allowance' + MainFunctionPeriod
    <3>1. (MaxLead - 1 - lead) * MainFunctionPeriod =
            (MaxLead - 1 - lead') * MainFunctionPeriod + MainFunctionPeriod
      BY <1>5, <2>2, OneMore
    <3> QED BY <3>1 DEF Allowance
  <2>4. Allowance' \in Int
    BY <1>5, <2>2 DEF Allowance
  <2>5. ParticipantMillis' = ParticipantMillis /\ ParticipantMillis \in Nat
    BY <1>1, MillisOf DEF ParticipantMillis, PaceInv, Millis
  <2>6. mIsFvValid' => ParticipantMillis + Owed <= ServerMillis + Allowance
    BY <1>1 DEF PaceInv
  <2>7. ServerMillis + Allowance = ServerMillis' + Allowance'
    BY <1>5, <2>3, <2>4
  <2>8. Owed' = Owed
    BY <1>1 DEF Owed
  <2> QED BY <2>5, <2>6, <2>7, <2>8
<1>11. lead' \in -MaxLead..MaxLead
  BY <1>1, LeadAssumption DEF PaceInv
<1> QED BY <1>1, <1>4, <1>8, <1>9, <1>10, <1>11 DEF PaceInv

LEMMA DeliveryKeepsPace ==
  ASSUME FreshInv, PaceInv,
         DeliverChallenge \/ DeliverToParticipant \/ UNCHANGED vars
  PROVE  PaceInv'
<1>1. UNCHANGED <<serverFv, serverClock, signatureSignal, lead>>
  BY DEF DeliverChallenge, DeliverToParticipant, vars, serverVars, answerVars,
         Server!incomingAuthFvChallengeSignalsCb, Server!clockVars
<1>2. UNCHANGED <<mIsFvValid, mFV, mClockCount, pc>>
  BY DEF DeliverChallenge, DeliverToParticipant, vars, participantVars,
         Participant!incomingAuthFvValue, Participant!incomingAuthFvSignature,
         Participant!incomingUnAuthFvSignalsCb, Participant!receiveAuthentic,
         Participant!clockVars, Participant!mainVars
<1>3. /\ mCurrentFvState = "RequestFV" => mCurrentFvState' = "RequestFV"
      /\ mCurrentFvState \in {"Idle", "ProcessAnauthFV"} =>
           mCurrentFvState' \in {"Idle", "ProcessAnauthFV"}
      /\ mCurrentFvState = "ProcessFV" => mCurrentFvState' = "ProcessFV"
  BY DEF DeliverChallenge, DeliverToParticipant, vars, participantVars,
         Participant!incomingAuthFvValue, Participant!incomingAuthFvSignature,
         Participant!incomingUnAuthFvSignalsCb, Participant!receiveAuthentic,
         Participant!reactToFVRes, Participant!reactToUnauthenticFVRes
<1>4. \/ mCrAuthFvAndMac'.second \in signatureSignal[Ecu] \cup {Empty}
      \/ mCrAuthFvAndMac'.second = mCrAuthFvAndMac.second
  BY DEF DeliverChallenge, DeliverToParticipant, vars, participantVars,
         Participant!incomingAuthFvValue, Participant!incomingAuthFvSignature,
         Participant!incomingUnAuthFvSignalsCb, Participant!receiveAuthentic,
         FreshInv
<1>5. /\ Running(serverClock')
      /\ \A mac \in signatureSignal'[Ecu] : SentBefore(mac)'
      /\ mCrAuthFvAndMac'.second # Empty => SentBefore(mCrAuthFvAndMac.second)'
      /\ ServerMillis' = ServerMillis
  BY <1>1, <1>4, SentBeforeStays
<1>6. ParticipantMillis' = ParticipantMillis /\ Allowance' = Allowance /\ Owed' = Owed
  BY <1>1, <1>2 DEF ParticipantMillis, Allowance, Owed
<1> QED BY <1>1, <1>2, <1>3, <1>5, <1>6 DEF PaceInv

LEMMA StepPaceInv == FreshInv /\ PaceInv /\ [Next]_vars => PaceInv'
  BY ParticipantKeepsPace, ServerKeepsPace, DeliveryKeepsPace DEF Next

(***************************************************************************)
(* A participant's time is never ahead of the server's but by what its     *)
(* loop has gained on the server's, for every bound on that.               *)
(***************************************************************************)
THEOREM ParticipantNeverAhead == Spec => []NeverAheadButByDrift
<1>1. FreshInv /\ PaceInv => NeverAheadButByDrift
  <2> SUFFICES ASSUME FreshInv, PaceInv, mIsFvValid
               PROVE  ParticipantMillis <= ServerMillis + Allowance
    BY DEF NeverAheadButByDrift, Allowance
  <2>1. ParticipantMillis \in Nat
    BY MillisOf DEF ParticipantMillis, PaceInv, Millis
  <2>2. ServerMillis \in Nat /\ MainFunctionPeriod \in Nat
    BY ServerMillisType, DistributionAssumption
  <2>3. Allowance \in Int
    BY <2>2, LeadAssumption DEF Allowance, PaceInv
  <2>4. ParticipantMillis + Owed <= ServerMillis + Allowance
    BY DEF PaceInv
  <2> QED BY <2>1, <2>2, <2>3, <2>4 DEF Owed
<1> QED
  BY <1>1, InitFreshInv, StepFreshInv, InitPaceInv, StepPaceInv, PTL DEF Spec

-----------------------------------------------------------------------------
(* Types, and what the two ECUs are to themselves.                         *)

TypesInv == Participant!TypeOK /\ Server!TypeOK

LEMMA InitTypesInv == Init => TypesInv
<1> SUFFICES ASSUME Init PROVE TypesInv  OBVIOUS
<1> USE DistributionAssumption
<1>1. Participant!TypeOK
  <2>1. /\ 0 \in Participant!Fv /\ 0 \in 0..Participant!ClockRest
        /\ Participant!NeverRequested \in Nat
    BY DEF Participant!Fv, Participant!ClockRest, Participant!NeverRequested
  <2> QED BY <2>1 DEF Init, Participant!Init, Participant!TypeOK,
             Participant!FreshnessValueState
<1>2. Server!TypeOK
  <2>1. /\ RandomFv \subseteq Server!Fv /\ 0 \in 0..Server!ClockRest
        /\ 0 \in 0..(TimeSend - 1)
    BY DEF Fv, Server!Fv, Server!ClockRest
  <2> QED BY <2>1 DEF Init, Server!Init, Server!TypeOK
<1> QED BY <1>1, <1>2 DEF TypesInv

(* The values both work with are the same. *)
LEMMA SameValues ==
  /\ Participant!Fv = Fv /\ Server!Fv = Fv
  /\ Participant!Mac = [challenge : Challenge, fv : Fv]
  /\ Participant!ClockRest = Rest /\ Server!ClockRest = Rest
<1>1. Participant!Fv = Fv /\ Server!Fv = Fv
  BY DEF Participant!Fv, Server!Fv, Fv
<1>2. {Participant!Trim(fv) : fv \in Fv} = Fv
  BY TrimKeeps
<1>3. Participant!ClockRest = Rest /\ Server!ClockRest = Rest
  BY DEF Participant!ClockRest, Server!ClockRest, Rest
<1> QED BY <1>1, <1>2, <1>3 DEF Participant!Mac

(***************************************************************************)
(* Whatever the distribution does is a step of the participant by itself,  *)
(* or none: the medium delivers only what it may receive.                  *)
(***************************************************************************)
LEMMA StepsOfParticipant ==
  ASSUME FreshInv, TypesInv, [Next]_vars
  PROVE  [Participant!Next]_(Participant!vars)
<1>1. CASE ParticipantMain
  BY <1>1 DEF ParticipantMain, Participant!Next
<1>2. CASE ServerMain \/ DeliverChallenge \/ UNCHANGED vars
  BY <1>2 DEF ServerMain, DeliverChallenge, vars, participantVars,
     Participant!vars, Participant!clockVars, Participant!requestVars,
     Participant!mainVars
<1>3. CASE DeliverToParticipant
  <2>1. /\ valueSignal[Ecu] \subseteq Participant!Fv
        /\ broadcastSignal \subseteq Participant!Fv
        /\ signatureSignal[Ecu] \subseteq Participant!Mac
    BY SameValues DEF FreshInv, Signed, TypesInv, Server!TypeOK
  <2>2. Participant!SignalCallback
    BY <1>3, <2>1 DEF DeliverToParticipant, Participant!SignalCallback
  <2> QED BY <2>2 DEF Participant!Next
<1> QED BY <1>1, <1>2, <1>3 DEF Next

(* And one of the server by itself, or none. *)
LEMMA StepsOfServer ==
  ASSUME FreshInv, [Next]_vars
  PROVE  [Server!Next]_(Server!vars)
<1>1. CASE ServerMain
  BY <1>1 DEF ServerMain, Server!Next
<1>2. CASE DeliverChallenge
  <2>1. \E c \in Challenge : Server!incomingAuthFvChallengeSignalsCb(Ecu, c)
    BY <1>2 DEF DeliverChallenge, FreshInv
  <2> QED BY <2>1 DEF Server!Next, Server!ChallengeArrives
<1>3. CASE ParticipantMain \/ DeliverToParticipant \/ UNCHANGED vars
  BY <1>3 DEF ParticipantMain, DeliverToParticipant, vars, serverVars, answerVars,
     Server!vars, Server!clockVars, Server!flagVars, Server!outVars
<1> QED BY <1>1, <1>2, <1>3 DEF Next

(* incTimers of either keeps the value and the count within their ranges. *)
LEMMA TimersOfParticipant ==
  ASSUME NEW valid \in BOOLEAN, NEW fv \in Fv, NEW clock \in 0..Rest,
         Participant!incTimers(valid, fv, clock)
  PROVE  mIsFvValid' \in BOOLEAN /\ mFV' \in Fv /\ mClockCount' \in 0..Rest
<1> USE DistributionAssumption
<1>1. mIsFvValid' \in BOOLEAN
  BY DEF Participant!incTimers
<1>2. mFV' \in Fv
  BY DEF Participant!incTimers, Participant!WithinBound, Participant!NextFv, Fv
<1>3. mClockCount' \in 0..Rest
  BY DEF Participant!incTimers, Participant!NextClock, Participant!AtLeast,
     Participant!ClockRest, Rest
<1> QED BY <1>1, <1>2, <1>3

MainThreadAt == {"ready", "published", "timedOut", "takenOver", "dropped"}

LEMMA ParticipantMainTypes ==
  ASSUME FreshInv, Participant!TypeOK, Participant!MainFunction
  PROVE  Participant!TypeOK'
<1>1. /\ mIsFvValid \in BOOLEAN /\ mFV \in Fv /\ mClockCount \in 0..Rest
      /\ mCurrentFvState \in Participant!FreshnessValueState
      /\ mTimeSinceAuthFvReq \in Nat
      /\ mActiveFvChallenge \in Challenge \cup {Empty}
      /\ mUnAuthFv \in Fv \cup {Empty}
      /\ mCrAuthFvAndMac \in
           [first : Fv \cup {Empty}, second : Participant!Mac \cup {Empty}]
      /\ pc \in MainThreadAt
      /\ genRes \in Challenge \cup {Empty}
      /\ challengeSignal \subseteq Challenge
  BY SameValues DEF Participant!TypeOK, MainThreadAt
<1> DEFINE ClockTyped ==
      mIsFvValid' \in BOOLEAN /\ mFV' \in Fv /\ mClockCount' \in 0..Rest
<1>2. Participant!incTimersOnly => ClockTyped
  BY <1>1, TimersOfParticipant DEF Participant!incTimersOnly
<1>4. UNCHANGED <<mIsFvValid, mFV, mClockCount>> => ClockTyped
  BY <1>1
<1>5. ASSUME Participant!processAnAuthenticFv PROVE ClockTyped
  <2>1. CASE Participant!acceptAuthenticFv
    <3>1. mCrAuthFvAndMac.first \in Fv /\ 0 \in 0..Rest
      BY <2>1, DistributionAssumption DEF Participant!acceptAuthenticFv, FreshInv, Rest
    <3> QED BY <2>1, <3>1 DEF Participant!acceptAuthenticFv, Participant!takeOver
  <2>2. CASE Participant!acceptedToIdle \/ Participant!refuseAuthenticFv
    BY <1>2, <2>2 DEF Participant!acceptedToIdle, Participant!refuseAuthenticFv
  <2> QED BY <1>5, <2>1, <2>2 DEF Participant!processAnAuthenticFv
<1> DEFINE RestTyped ==
      /\ mCurrentFvState' \in Participant!FreshnessValueState
      /\ mTimeSinceAuthFvReq' \in Nat
      /\ mActiveFvChallenge' \in Challenge \cup {Empty}
      /\ mUnAuthFv' \in Fv \cup {Empty}
      /\ mCrAuthFvAndMac' \in
           [first : Fv \cup {Empty}, second : Participant!Mac \cup {Empty}]
      /\ pc' \in MainThreadAt
      /\ genRes' \in Challenge \cup {Empty}
      /\ challengeSignal' \subseteq Challenge
<1> HIDE DEF ClockTyped
<1>6. CASE Participant!requestAnAuthenticFv
  <2>1. RestTyped
    BY <1>1, <1>6
    DEF Participant!requestAnAuthenticFv, Participant!requestFails,
        Participant!requestPublish, Participant!requestStore,
        Participant!recordRequest, Participant!transiteTo, Participant!requestVars,
        Participant!mainVars, Participant!FreshnessValueState, MainThreadAt
  <2>2. ClockTyped
    BY <1>2, <1>4, <1>6
    DEF Participant!requestAnAuthenticFv, Participant!requestFails,
        Participant!requestPublish, Participant!requestStore, Participant!clockVars
  <2> QED BY <2>1, <2>2, SameValues DEF ClockTyped, Participant!TypeOK, MainThreadAt
<1>7. CASE Participant!waitForAnAuthenticFv \/ Participant!requestTimeout
  <2>1. RestTyped
    BY <1>1, <1>7, DistributionAssumption
    DEF Participant!waitForAnAuthenticFv, Participant!requestTimeout,
        Participant!transiteTo, Participant!requestVars,
        Participant!FreshnessValueState, MainThreadAt
  <2>2. ClockTyped
    BY <1>2, <1>4, <1>7
    DEF Participant!waitForAnAuthenticFv, Participant!requestTimeout,
        Participant!clockVars
  <2> QED BY <2>1, <2>2, SameValues DEF ClockTyped, Participant!TypeOK, MainThreadAt
<1>8. CASE Participant!processAnAuthenticFv
  <2>1. RestTyped
    BY <1>1, <1>8
    DEF Participant!processAnAuthenticFv, Participant!acceptAuthenticFv,
        Participant!acceptedToIdle, Participant!refuseAuthenticFv,
        Participant!clearPair, Participant!transiteTo, Participant!requestVars,
        Participant!mainVars, Participant!FreshnessValueState, MainThreadAt
  <2> QED BY <1>5, <1>8, <2>1, SameValues DEF ClockTyped, Participant!TypeOK, MainThreadAt
<1>9. CASE Participant!processAnUnauthenticFv \/ Participant!idle
  <2>1. RestTyped
    BY <1>1, <1>9
    DEF Participant!processAnUnauthenticFv, Participant!dropFv,
        Participant!droppedToRequest, Participant!keepFv, Participant!idle,
        Participant!transiteTo, Participant!requestVars, Participant!mainVars,
        Participant!FreshnessValueState, MainThreadAt
  <2>2. ClockTyped
    BY <1>1, <1>2, <1>9
    DEF Participant!processAnUnauthenticFv, Participant!dropFv,
        Participant!droppedToRequest, Participant!keepFv, Participant!invalidate,
        Participant!idle, ClockTyped
  <2> QED BY <2>1, <2>2, SameValues DEF ClockTyped, Participant!TypeOK, MainThreadAt
<1> QED BY <1>6, <1>7, <1>8, <1>9 DEF Participant!MainFunction

LEMMA ParticipantTypes ==
  ASSUME FreshInv, Participant!TypeOK, [Participant!Next]_(Participant!vars)
  PROVE  Participant!TypeOK'
<1> USE DEF Participant!TypeOK, Participant!FreshnessValueState,
            Participant!clockVars, Participant!requestVars, Participant!mainVars
<1>1. ASSUME NEW pair \in
               [first : Participant!Fv \cup {Empty}, second : Participant!Mac \cup {Empty}],
             Participant!receiveAuthentic(pair)
      PROVE  Participant!TypeOK'
  BY <1>1 DEF Participant!receiveAuthentic, Participant!reactToFVRes
<1>2. ASSUME NEW fv \in Participant!Fv, Participant!incomingAuthFvValue(fv)
      PROVE  Participant!TypeOK'
  <2>1. [mCrAuthFvAndMac EXCEPT !.first = fv] \in
          [first : Participant!Fv \cup {Empty}, second : Participant!Mac \cup {Empty}]
    OBVIOUS
  <2> HIDE DEF Participant!TypeOK
  <2> QED BY <1>1, <1>2, <2>1 DEF Participant!incomingAuthFvValue
<1>3. ASSUME NEW mac \in Participant!Mac, Participant!incomingAuthFvSignature(mac)
      PROVE  Participant!TypeOK'
  <2>1. [mCrAuthFvAndMac EXCEPT !.second = mac] \in
          [first : Participant!Fv \cup {Empty}, second : Participant!Mac \cup {Empty}]
    OBVIOUS
  <2> HIDE DEF Participant!TypeOK
  <2> QED BY <1>1, <1>3, <2>1 DEF Participant!incomingAuthFvSignature
<1>4. ASSUME NEW fv \in Participant!Fv, Participant!incomingUnAuthFvSignalsCb(fv)
      PROVE  Participant!TypeOK'
  BY <1>4 DEF Participant!incomingUnAuthFvSignalsCb,
     Participant!reactToUnauthenticFVRes
<1>5. CASE UNCHANGED Participant!vars
  BY <1>5 DEF Participant!vars
<1> HIDE DEF Participant!TypeOK
<1> QED BY <1>2, <1>3, <1>4, <1>5, ParticipantMainTypes
        DEF Participant!Next, Participant!SignalCallback

(* The server's types; its value is never trimmed. *)
LEMMA ServerTypes ==
  ASSUME FreshInv, FreshInv', Server!TypeOK, [Server!Next]_(Server!vars)
  PROVE  Server!TypeOK'
<1>1. /\ serverFv' \in Fv /\ valueSignal' \in [{Ecu} -> SUBSET Fv]
      /\ mResponsePendingChallenges' \in [{Ecu} -> Challenge \cup {Empty}]
      /\ signatureSignal' \in [{Ecu} -> SUBSET [challenge : Challenge, fv : Fv]]
  BY DEF FreshInv, Signed
<1>2. /\ serverFv \in Fv /\ serverClock \in 0..Rest
      /\ serverTime \in 0..(TimeSend - 1)
      /\ mNeedToBroadcastFv \in BOOLEAN /\ mNeedToSendAuthFvResponses \in BOOLEAN
      /\ broadcastSignal \subseteq Fv
  BY SameValues DEF Server!TypeOK
<1> DEFINE TimersTyped ==
      /\ serverClock' \in 0..Rest /\ serverTime' \in 0..(TimeSend - 1)
      /\ mNeedToBroadcastFv' \in BOOLEAN /\ mNeedToSendAuthFvResponses' \in BOOLEAN
      /\ broadcastSignal' \subseteq Fv
<1>3. ASSUME NEW published \in BOOLEAN, Server!Main(published) PROVE TimersTyped
  <2>1. PICK full \in SUBSET Server!Pending, half \in SUBSET Server!Pending :
          Server!MainFunction(published, full, half)
    BY <1>3 DEF Server!Main
  <2>2. serverClock' \in 0..Rest
    <3>1. serverClock' = TickedClock(serverClock)
      BY <2>1, TickOfBoth DEF Server!MainFunction, Server!incTimers
    <3> QED BY <1>2, <3>1, DistributionAssumption DEF TickedClock, Rest
  <2>3. serverTime' \in 0..(TimeSend - 1)
    <3>1. serverTime + MainFunctionPeriod \in Nat /\ TimeSend \in Nat \ {0}
      BY <1>2, DistributionAssumption
    <3> QED BY <2>1, <3>1, Division DEF Server!MainFunction, Server!incTimers
  <2>4. mNeedToBroadcastFv' \in BOOLEAN /\ mNeedToSendAuthFvResponses' \in BOOLEAN
    BY <2>1 DEF Server!MainFunction, Server!AnswersDue
  <2>5. broadcastSignal' \subseteq Fv
    BY <1>2, <2>1 DEF Server!MainFunction, Server!unauthenticatedBroadcast
  <2> QED BY <2>2, <2>3, <2>4, <2>5
<1>4. ASSUME Server!ChallengeArrives \/ UNCHANGED Server!vars PROVE TimersTyped
  BY <1>2, <1>4 DEF Server!ChallengeArrives, Server!incomingAuthFvChallengeSignalsCb,
     Server!vars, Server!clockVars, Server!flagVars, Server!outVars
<1>5. TimersTyped
  BY <1>3, <1>4 DEF Server!Next
<1> QED BY <1>1, <1>5, SameValues DEF Server!TypeOK

LEMMA StepTypesInv == FreshInv /\ FreshInv' /\ TypesInv /\ [Next]_vars => TypesInv'
  BY StepsOfParticipant, StepsOfServer, ParticipantTypes, ServerTypes DEF TypesInv

LEMMA DistributionInvariant == Spec => [](FreshInv /\ OnceInv /\ PaceInv /\ TypesInv)
<1>1. Init => OnceInv
  BY DEF Init, Participant!Init, OnceInv
<1> QED
  BY <1>1, InitFreshInv, StepFreshInv, StepOnceInv, InitPaceInv, StepPaceInv,
     InitTypesInv, StepTypesInv, PTL DEF Spec

(***************************************************************************)
(* Connected, participant and server keep their types, and the history is  *)
(* of challenges that were published, whatever the medium does.            *)
(***************************************************************************)
THEOREM DistributionTypes == Spec => []TypeOK
<1>1. FreshInv /\ OnceInv /\ PaceInv /\ TypesInv => TypeOK
  BY DEF FreshInv, OnceInv, PaceInv, TypesInv, TypeOK
<1> QED BY <1>1, DistributionInvariant, PTL

(***************************************************************************)
(* Connected to a server by any medium, the participant behaves as by      *)
(* itself, and so does the server: what FvParticipantProofs and            *)
(* FvServerProofs prove for arbitrary signals holds for those the other    *)
(* side sends.                                                             *)
(***************************************************************************)
THEOREM ConnectedAsByThemselves == Spec => Participant!Spec /\ Server!Spec
<1>1. Init => Participant!Init /\ Server!Init
  BY DEF Init
<1>2. FreshInv /\ TypesInv /\ [Next]_vars =>
        [Participant!Next]_(Participant!vars) /\ [Server!Next]_(Server!vars)
  BY StepsOfParticipant, StepsOfServer
<1> QED BY <1>1, <1>2, DistributionInvariant, PTL
        DEF Spec, Participant!Spec, Server!Spec
=============================================================================
