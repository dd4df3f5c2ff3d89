---------------------------- MODULE SignInProofs ----------------------------
(* Proofs about SignIn, for any number of challenges, sessions, calls and  *)
(* devices.                                                                *)
EXTENDS SignIn, Integers, TLAPS

\* The sessions are what they are said to be.
SessionsShaped ==
  /\ session \in [Sessions -> {"fresh", "live", "ended"}]
  /\ passed \in [Sessions -> BOOLEAN]

(***************************************************************************)
(* What a step may do to sessions.  A session of one factor is issued by   *)
(* completeAuthentication only, and only while MFA is not required.        *)
(***************************************************************************)
SessionsKept == UNCHANGED <<mfa, session, passed>>

SingleFactor(s) == ~MfaRequired /\ mfa' = mfa /\ Issue(s, FALSE, {})

BothFactors(s) == mfa' = mfa /\ Issue(s, TRUE, {})

NewFactor(s) == mfa' = "enabled" /\ Issue(s, TRUE, Live)

AllEnd == /\ session' = [x \in Sessions |-> IF x \in Live THEN "ended" ELSE session[x]]
          /\ passed' = [x \in Sessions |-> FALSE]

SessionStep ==
  \/ SessionsKept \/ (mfa # "enabled" /\ mfa' # "enabled" /\ UNCHANGED <<session, passed>>)
  \/ \E s \in Sessions : SingleFactor(s) \/ BothFactors(s) \/ NewFactor(s)
  \/ AllEnd

LEMMA CompleteStep ==
  ASSUME NEW s \in Sessions, NEW c, NEW gone, Complete(s, c, gone), mfa' = mfa
  PROVE  SessionStep
  BY DEF Complete, SessionStep, SessionsKept, SingleFactor, BothFactors, sessions

LEMMA FirstStep ==
  ASSUME First
  PROVE  SessionStep
<1>1. ASSUME NEW s \in Sessions, NEW c \in Challenges, SignInFirst(s, c) PROVE SessionStep
  BY <1>1, CompleteStep DEF SignInFirst, record
<1>2. ASSUME NEW p \in Challenges, NEW s \in Sessions, NEW c \in Challenges, FinishPasswordless(p, s, c)
      PROVE  SessionStep
  BY <1>2, CompleteStep DEF FinishPasswordless, record
<1>3. ASSUME NEW s \in Sessions, NEW c \in Challenges, FinishPasskeyAuthentication(c, s)
      PROVE  SessionStep
  BY <1>3 DEF FinishPasskeyAuthentication, record, SessionStep, BothFactors
<1>4. ASSUME NEW c \in Challenges, StartPasswordless(c) \/ BeginPasskeyAuthentication(c)
      PROVE  SessionStep
  BY <1>4 DEF StartPasswordless, BeginPasskeyAuthentication, record, sessions, SessionStep, SessionsKept
<1> QED
  BY <1>1, <1>2, <1>3, <1>4 DEF First

LEMMA EnrolStep ==
  ASSUME Enrol
  PROVE  SessionStep
<1>1. ASSUME NEW x \in Credentials, BeginMfa(x) PROVE SessionStep
  BY <1>1 DEF BeginMfa, sessions, SessionStep
<1>2. ASSUME NEW v \in Calls, NEW x \in Credentials, StartConfirm(v, x) PROVE SessionStep
  BY <1>2 DEF StartConfirm, record, sessions, SessionStep, SessionsKept
<1>3. ASSUME NEW v \in Calls, NEW s \in Sessions, NEW step \in Window, FinishConfirm(v, s, step)
      PROVE  SessionStep
  BY <1>3 DEF FinishConfirm, SessionStep, NewFactor
<1> QED
  BY <1>1, <1>2, <1>3 DEF Enrol

LEMMA SecondStep ==
  ASSUME Second
  PROVE  SessionStep
<1>1. ASSUME NEW v \in Calls, NEW f \in Flows, NEW c \in Challenges, StartSecond(v, f, c)
      PROVE  SessionStep
  BY <1>1 DEF StartSecond, record, sessions, SessionStep, SessionsKept
<1>2. ASSUME NEW v \in Calls, Refused(v) PROVE SessionStep
  BY <1>2 DEF Refused, record, sessions, SessionStep, SessionsKept
<1>3. ASSUME NEW v \in Calls, NEW s \in Sessions, NEW step \in Window, VerifyMfa(v, s, step)
      PROVE  SessionStep
  BY <1>3 DEF VerifyMfa, SessionStep, BothFactors
<1>4. ASSUME NEW v \in Calls, NEW s \in Sessions, NEW k \in Codes, RecoverMfa(v, s, k)
      PROVE  SessionStep
  BY <1>4 DEF RecoverMfa, SessionStep, BothFactors
<1>5. ASSUME NEW c \in Challenges, RequestMfaCode(c) PROVE SessionStep
  BY <1>5 DEF RequestMfaCode, record, sessions, SessionStep, SessionsKept
<1>6. ASSUME NEW l \in Challenges, NEW c \in Challenges, BeginPasskeyMfa(l, c) PROVE SessionStep
  BY <1>6 DEF BeginPasskeyMfa, record, sessions, SessionStep, SessionsKept
<1>7. ASSUME NEW c \in Challenges, NEW s \in Sessions, FinishPasskeyMfa(c, s) PROVE SessionStep
  BY <1>7 DEF FinishPasskeyMfa, record, SessionStep, BothFactors
<1>8. ASSUME NEW x \in Sessions, NEW step \in Window, StepUp(x, step) PROVE SessionStep
  BY <1>8 DEF StepUp, sessions, SessionStep, SessionsKept
<1> QED
  BY <1>1, <1>2, <1>3, <1>4, <1>5, <1>6, <1>7, <1>8 DEF Second

LEMMA ChangeStep ==
  ASSUME Change
  PROVE  SessionStep
<1>1. ASSUME NEW x \in Sessions, NEW c \in Challenges,
             BeginPasskeyRegistration(x, c) \/ FinishPasskeyRegistration(x, c)
      PROVE  SessionStep
  BY <1>1 DEF BeginPasskeyRegistration, FinishPasskeyRegistration, record, sessions, SessionStep,
              SessionsKept
<1>2. ASSUME NEW x \in Sessions, DeletePasskey(x) \/ DisableMfa(x) PROVE SessionStep
  BY <1>2 DEF DeletePasskey, DisableMfa, Revoke, SessionStep, AllEnd
<1>3. CASE ChangePassword
  BY <1>3 DEF ChangePassword, Revoke, SessionStep, AllEnd
<1>4. CASE SetRequired
  BY <1>4 DEF SetRequired, record, sessions, SessionStep, SessionsKept
<1> QED
  BY <1>1, <1>2, <1>3, <1>4 DEF Change

LEMMA AnyStep ==
  ASSUME [Next]_vars
  PROVE  SessionStep
<1>1. CASE Tick
  BY <1>1 DEF Tick, record, sessions, SessionStep, SessionsKept
<1>2. CASE UNCHANGED vars
  BY <1>2 DEF vars, record, sessions, SessionStep, SessionsKept
<1> QED
  BY <1>1, <1>2, FirstStep, EnrolStep, SecondStep, ChangeStep DEF Next

(***************************************************************************)
(* While an authenticator is enabled every live session has passed MFA:    *)
(* enabling ends the others in its own transaction, and until it is        *)
(* disabled completeAuthentication issues none.                            *)
(***************************************************************************)
THEOREM NoSingleFactorLeft == Spec => []EnabledMeansPassed
<1>1. Init => SessionsShaped /\ EnabledMeansPassed
  BY DEF Init, SessionsShaped, EnabledMeansPassed, Live
<1>2. SessionsShaped /\ EnabledMeansPassed /\ [Next]_vars => (SessionsShaped /\ EnabledMeansPassed)'
  <2> SUFFICES ASSUME SessionsShaped, EnabledMeansPassed, [Next]_vars
               PROVE  (SessionsShaped /\ EnabledMeansPassed)'
    OBVIOUS
  <2> USE DEF SessionsShaped, EnabledMeansPassed, Live
  <2>1. SessionStep
    BY AnyStep
  <2>2. CASE SessionsKept
    BY <2>2 DEF SessionsKept
  <2>3. CASE mfa # "enabled" /\ mfa' # "enabled" /\ UNCHANGED <<session, passed>>
    BY <2>3
  <2>4. ASSUME NEW s \in Sessions, SingleFactor(s)
        PROVE  (SessionsShaped /\ EnabledMeansPassed)'
    BY <2>4 DEF SingleFactor, MfaRequired, Issue
  <2>5. ASSUME NEW s \in Sessions, BothFactors(s)
        PROVE  (SessionsShaped /\ EnabledMeansPassed)'
    BY <2>5 DEF BothFactors, Issue
  <2>6. ASSUME NEW s \in Sessions, NewFactor(s)
        PROVE  (SessionsShaped /\ EnabledMeansPassed)'
    BY <2>6 DEF NewFactor, Issue
  <2>7. CASE AllEnd
    BY <2>7 DEF AllEnd
  <2> QED
    BY <2>1, <2>2, <2>3, <2>4, <2>5, <2>6, <2>7 DEF SessionStep
<1> QED
  BY <1>1, <1>2, PTL DEF Spec

(***************************************************************************)
(* A change of factors leaves nothing of the person behind because what    *)
(* can still be used has a deadline of its own: a challenge not yet made   *)
(* has none, and the clock is past the one that forgotten devices carry.   *)
(***************************************************************************)
ChallengesDated ==
  /\ until \in [Challenges -> Nat]
  /\ \A c \in Challenges : purpose[c] = "fresh" => until[c] = 0

DevicesDated == device \in [Devices -> Nat]

ClockRuns == now \in Nat /\ now >= 1

Dated == ChallengesDated /\ DevicesDated /\ ClockRuns

LEMMA DeleteDated ==
  ASSUME ChallengesDated, NEW gone, DeleteChallenges(gone)
  PROVE  ChallengesDated'
  BY DEF ChallengesDated, DeleteChallenges, DeletedFrom

LEMMA ChallengeDated ==
  ASSUME Dated, NEW c \in Challenges, NEW p, p # "fresh", NEW l, NEW gone,
         Challenge(c, p, l, gone)
  PROVE  ChallengesDated'
<1> DEFINE left == DeletedFrom(gone, until, 0)
           kept == DeletedFrom(gone, purpose, "gone")
<1>1. now + Lifetime \in Nat
  BY ClockAssumption DEF Dated, ClockRuns
<1>2. left \in [Challenges -> Nat]
  BY DEF Dated, ChallengesDated, DeletedFrom
<1>3. \A x \in Challenges : kept[x] = "fresh" => left[x] = 0
  BY DEF Dated, ChallengesDated, DeletedFrom
<1>4. kept = [x \in Challenges |-> kept[x]]
  BY DEF DeletedFrom
<1>5. purpose' = [kept EXCEPT ![c] = p] /\ until' = [left EXCEPT ![c] = now + Lifetime]
  BY DEF Challenge
<1> HIDE DEF left, kept
<1>6. until' \in [Challenges -> Nat]
  BY <1>1, <1>2, <1>5
<1>7. ASSUME NEW x \in Challenges, purpose'[x] = "fresh" PROVE until'[x] = 0
  BY <1>2, <1>3, <1>4, <1>5, <1>7
<1> QED
  BY <1>6, <1>7 DEF ChallengesDated

LEMMA RememberDated ==
  ASSUME Dated, NEW forget \in BOOLEAN, Remember(forget)
  PROVE  DevicesDated'
<1>1. now + DeviceLifetime \in Nat
  BY ClockAssumption DEF Dated, ClockRuns
<1>2. PICK asked \in SUBSET {d \in Devices : device[d] = 0} :
        device' = [d \in Devices |-> IF d \in asked THEN now + DeviceLifetime
                                     ELSE IF forget /\ device[d] > 0 THEN 1 ELSE device[d]]
  BY DEF Remember
<1> QED
  BY <1>1, <1>2 DEF Dated, DevicesDated

LEMMA RevokeDated ==
  ASSUME Dated, Revoke
  PROVE  ChallengesDated' /\ DevicesDated'
<1>1. ChallengesDated'
  BY DeleteDated DEF Revoke, Dated
<1>2. DevicesDated'
  BY DEF Revoke, Dated, DevicesDated
<1> QED
  BY <1>1, <1>2

LEMMA CompleteDated ==
  ASSUME Dated, NEW s \in Sessions, NEW c \in Challenges, NEW gone, Complete(s, c, gone)
  PROVE  ChallengesDated'
  BY DeleteDated, ChallengeDated DEF Complete, Dated

LEMMA FirstDated ==
  ASSUME Dated, First
  PROVE  ChallengesDated' /\ UNCHANGED <<device, now, era>>
<1> DEFINE Rest == UNCHANGED <<device, now, era>>
<1>1. ASSUME NEW s \in Sessions, NEW c \in Challenges, SignInFirst(s, c) PROVE ChallengesDated' /\ Rest
  BY <1>1, CompleteDated DEF SignInFirst
<1>2. ASSUME NEW c \in Challenges, StartPasswordless(c) PROVE ChallengesDated' /\ Rest
  BY <1>2, ChallengeDated DEF StartPasswordless
<1>3. ASSUME NEW p \in Challenges, NEW s \in Sessions, NEW c \in Challenges, FinishPasswordless(p, s, c)
      PROVE  ChallengesDated' /\ Rest
  BY <1>3, CompleteDated DEF FinishPasswordless
<1>4. ASSUME NEW c \in Challenges, BeginPasskeyAuthentication(c) PROVE ChallengesDated' /\ Rest
  BY <1>4, ChallengeDated DEF BeginPasskeyAuthentication
<1>5. ASSUME NEW c \in Challenges, NEW s \in Sessions, FinishPasskeyAuthentication(c, s)
      PROVE  ChallengesDated' /\ Rest
  BY <1>5, DeleteDated DEF FinishPasskeyAuthentication, Dated
<1> QED
  BY <1>1, <1>2, <1>3, <1>4, <1>5 DEF First

LEMMA EnrolDated ==
  ASSUME Dated, Enrol
  PROVE  ChallengesDated' /\ DevicesDated' /\ now' = now
<1> USE DEF challenges
<1>1. ASSUME NEW x \in Credentials, BeginMfa(x)
      PROVE  ChallengesDated' /\ DevicesDated' /\ now' = now
  BY <1>1 DEF BeginMfa, Dated, ChallengesDated, DevicesDated
<1>2. ASSUME NEW v \in Calls, NEW x \in Credentials, StartConfirm(v, x)
      PROVE  ChallengesDated' /\ DevicesDated' /\ now' = now
  BY <1>2 DEF StartConfirm, Dated, ChallengesDated, DevicesDated
<1>3. ASSUME NEW v \in Calls, NEW s \in Sessions, NEW step \in Window, FinishConfirm(v, s, step)
      PROVE  ChallengesDated' /\ DevicesDated' /\ now' = now
  BY <1>3, DeleteDated, RememberDated DEF FinishConfirm, Dated
<1> QED
  BY <1>1, <1>2, <1>3 DEF Enrol

LEMMA SecondDated ==
  ASSUME Dated, Second
  PROVE  ChallengesDated' /\ DevicesDated' /\ UNCHANGED <<now, era>>
<1> DEFINE Goal == ChallengesDated' /\ DevicesDated' /\ UNCHANGED <<now, era>>
<1> USE DEF challenges, history
<1>1. ASSUME NEW v \in Calls, NEW f \in Flows, NEW c \in Challenges, StartSecond(v, f, c) PROVE Goal
  BY <1>1 DEF StartSecond, Dated, ChallengesDated, DevicesDated
<1>2. ASSUME NEW v \in Calls, Refused(v) PROVE Goal
  BY <1>2 DEF Refused, Dated, ChallengesDated, DevicesDated
<1>3. ASSUME NEW v \in Calls, NEW s \in Sessions, NEW step \in Window, VerifyMfa(v, s, step) PROVE Goal
  BY <1>3, DeleteDated, RememberDated DEF VerifyMfa, Dated
<1>4. ASSUME NEW v \in Calls, NEW s \in Sessions, NEW k \in Codes, RecoverMfa(v, s, k) PROVE Goal
  BY <1>4, DeleteDated DEF RecoverMfa, Dated, DevicesDated
<1>5. ASSUME NEW c \in Challenges, RequestMfaCode(c) PROVE Goal
  BY <1>5 DEF RequestMfaCode, Dated, ChallengesDated, DevicesDated
<1>6. ASSUME NEW l \in Challenges, NEW c \in Challenges, BeginPasskeyMfa(l, c) PROVE Goal
  BY <1>6, ChallengeDated DEF BeginPasskeyMfa, Dated, DevicesDated
<1>7. ASSUME NEW c \in Challenges, NEW s \in Sessions, FinishPasskeyMfa(c, s) PROVE Goal
  BY <1>7, DeleteDated, RememberDated DEF FinishPasskeyMfa, Dated
<1>8. ASSUME NEW x \in Sessions, NEW step \in Window, StepUp(x, step) PROVE Goal
  BY <1>8 DEF StepUp, Dated, ChallengesDated, DevicesDated
<1> QED
  BY <1>1, <1>2, <1>3, <1>4, <1>5, <1>6, <1>7, <1>8 DEF Second

LEMMA ChangeDated ==
  ASSUME Dated, Change
  PROVE  /\ ChallengesDated' /\ DevicesDated' /\ now' = now
         /\ era' = era \/ Revoke
<1> DEFINE Goal == /\ ChallengesDated' /\ DevicesDated' /\ now' = now
                   /\ era' = era \/ Revoke
<1> USE DEF challenges, history
<1>1. ASSUME NEW x \in Sessions, NEW c \in Challenges, BeginPasskeyRegistration(x, c) PROVE Goal
  BY <1>1, ChallengeDated DEF BeginPasskeyRegistration, Dated, DevicesDated
<1>2. ASSUME NEW x \in Sessions, NEW c \in Challenges, FinishPasskeyRegistration(x, c) PROVE Goal
  BY <1>2, DeleteDated DEF FinishPasskeyRegistration, Dated, DevicesDated
<1>3. ASSUME NEW x \in Sessions, DeletePasskey(x) PROVE Goal
  BY <1>3, RevokeDated DEF DeletePasskey
<1>4. ASSUME NEW x \in Sessions, DisableMfa(x) PROVE Goal
  BY <1>4, RevokeDated DEF DisableMfa
<1>5. CASE ChangePassword
  BY <1>5, RevokeDated DEF ChangePassword
<1>6. CASE SetRequired
  BY <1>6 DEF SetRequired, Dated, ChallengesDated, DevicesDated
<1> QED
  BY <1>1, <1>2, <1>3, <1>4, <1>5, <1>6 DEF Change

LEMMA StepDated ==
  ASSUME Dated, [Next]_vars
  PROVE  Dated'
<1>1. CASE First
  BY <1>1, FirstDated DEF Dated, DevicesDated, ClockRuns
<1>2. CASE Enrol
  BY <1>2, EnrolDated DEF Dated, ClockRuns
<1>3. CASE Second
  BY <1>3, SecondDated DEF Dated, ClockRuns
<1>4. CASE Change
  BY <1>4, ChangeDated DEF Dated, ClockRuns
<1>5. CASE Tick
  BY <1>5 DEF Tick, Dated, ChallengesDated, DevicesDated, ClockRuns, challenges
<1>6. CASE UNCHANGED vars
  BY <1>6 DEF vars, Dated, ChallengesDated, DevicesDated, ClockRuns, challenges
<1> QED
  BY <1>1, <1>2, <1>3, <1>4, <1>5, <1>6 DEF Next

\* What a change must leave behind.
Swept == /\ Live \cap Live' = {}
         /\ OpenNamed \cap OpenNamed' = {}
         /\ \A d \in Devices : Vouches(d) => device'[d] <= now

LEMMA PendingSwept ==
  ASSUME Dated, DeleteChallenges(Pending), now' = now
  PROVE  OpenNamed \cap OpenNamed' = {}
<1> SUFFICES ASSUME NEW c \in OpenNamed, c \in OpenNamed' PROVE FALSE
  OBVIOUS
<1> USE DEF OpenNamed
<1>1. purpose[c] \notin {"fresh", "passkey-discover"}
  BY DEF Dated, ChallengesDated, ClockRuns
<1>2. purpose'[c] = "gone"
  BY <1>1 DEF DeleteChallenges, DeletedFrom, Pending
<1> QED
  BY <1>2

LEMMA RevokeSweeps ==
  ASSUME Dated, Revoke, now' = now
  PROVE  Swept
<1>1. Live \cap Live' = {}
  BY DEF Revoke, Live
<1>2. OpenNamed \cap OpenNamed' = {}
  BY PendingSwept DEF Revoke
<1>3. ASSUME NEW d \in Devices, Vouches(d) PROVE device'[d] <= now
  BY <1>3 DEF Revoke, Vouches, Dated, DevicesDated, ClockRuns
<1> QED
  BY <1>1, <1>2, <1>3 DEF Swept

LEMMA ConfirmSweeps ==
  ASSUME Dated, NEW v \in Calls, NEW s \in Sessions, NEW step \in Window,
         FinishConfirm(v, s, step)
  PROVE  Swept
<1>1. Live \cap Live' = {}
  BY DEF FinishConfirm, Issue, Live
<1>2. OpenNamed \cap OpenNamed' = {}
  BY PendingSwept DEF FinishConfirm
<1>3. ASSUME NEW d \in Devices, Vouches(d) PROVE device'[d] <= now
  <2>1. PICK asked \in SUBSET {e \in Devices : device[e] = 0} :
          device' = [e \in Devices |-> IF e \in asked THEN now + DeviceLifetime
                                       ELSE IF TRUE /\ device[e] > 0 THEN 1 ELSE device[e]]
    BY DEF FinishConfirm, Remember
  <2>2. device[d] > 0
    BY <1>3 DEF Vouches, Dated, DevicesDated, ClockRuns
  <2>3. device'[d] = 1
    BY <2>1, <2>2 DEF Dated, DevicesDated
  <2> QED
    BY <2>3 DEF Dated, ClockRuns
<1> QED
  BY <1>1, <1>2, <1>3 DEF Swept

LEMMA ChangeSweeps ==
  ASSUME Dated, [Next]_vars, era' # era
  PROVE  Swept
<1>1. CASE First
  BY <1>1, FirstDated
<1>2. CASE Enrol
  <2>1. ASSUME NEW x \in Credentials, BeginMfa(x) PROVE FALSE
    BY <2>1 DEF BeginMfa
  <2>2. ASSUME NEW v \in Calls, NEW x \in Credentials, StartConfirm(v, x) PROVE FALSE
    BY <2>2 DEF StartConfirm, history
  <2> QED
    BY <1>2, <2>1, <2>2, ConfirmSweeps DEF Enrol
<1>3. CASE Second
  BY <1>3, SecondDated
<1>4. CASE Change
  BY <1>4, ChangeDated, RevokeSweeps
<1>5. CASE Tick
  BY <1>5 DEF Tick, history
<1>6. CASE UNCHANGED vars
  BY <1>6 DEF vars, history
<1> QED
  BY <1>1, <1>2, <1>3, <1>4, <1>5, <1>6 DEF Next

\* Whatever is enabled, disabled, removed or changed, no session, remembered
\* device or challenge that names the person (revokeIdentity finds challenges by
\* the person) from before is good after it.
THEOREM ChangeEndsWhatNamesThePerson == Spec => FreshAfterChange
<1>1. Init => Dated
  BY DEF Init, Dated, ChallengesDated, DevicesDated, ClockRuns
<1>2. Dated /\ [Next]_vars => Dated'
  BY StepDated
<1>3. Dated /\ [Next]_vars => (era' # era => Swept) \/ UNCHANGED vars
  BY ChangeSweeps
<1> QED
  BY <1>1, <1>2, <1>3, PTL DEF Spec, FreshAfterChange, Swept

(***************************************************************************)
(* The table of calls keeps its shape: a call that verifies or recovers    *)
(* holds a challenge, and one that confirms is seen to end.                *)
(***************************************************************************)
CallTable ==
  /\ call = [v \in Calls |-> call[v]]
  /\ \A v \in Calls : call[v].flow \in Flows => call[v].with \in Challenges

LEMMA StepCallTable ==
  ASSUME CallTable, [Next]_vars
  PROVE  CallTable'
<1> USE DEF counters
<1>1. ASSUME call' = call PROVE CallTable'
  BY <1>1 DEF CallTable
<1>2. ASSUME NEW v \in Calls, Return(v) PROVE CallTable'
  BY <1>2 DEF CallTable, Return, Idle, Flows
<1>3. CASE First
  BY <1>1, <1>3 DEF First, SignInFirst, StartPasswordless, FinishPasswordless, BeginPasskeyAuthentication,
                    FinishPasskeyAuthentication
<1>4. ASSUME NEW v \in Calls, NEW x \in Credentials, StartConfirm(v, x) PROVE CallTable'
  BY <1>4 DEF StartConfirm, CallTable, Flows
<1>5. CASE Enrol
  BY <1>1, <1>2, <1>4, <1>5 DEF Enrol, BeginMfa, FinishConfirm
<1>6. ASSUME NEW v \in Calls, NEW f \in Flows, NEW c \in Challenges, StartSecond(v, f, c) PROVE CallTable'
  BY <1>6 DEF StartSecond, CallTable
<1>7. CASE Second
  BY <1>1, <1>2, <1>6, <1>7 DEF Second, Refused, VerifyMfa, RecoverMfa, RequestMfaCode, BeginPasskeyMfa,
                                FinishPasskeyMfa, StepUp
<1>8. CASE Change
  BY <1>1, <1>8 DEF Change, BeginPasskeyRegistration, FinishPasskeyRegistration, DeletePasskey, DisableMfa,
                    ChangePassword, SetRequired
<1>9. CASE Tick \/ UNCHANGED vars
  BY <1>1, <1>9 DEF Tick, vars
<1> QED
  BY <1>3, <1>5, <1>7, <1>8, <1>9 DEF Next

\* A call enables an authenticator only as it ends, and next to a passkey only
\* for a session: the caller is judged again when it does.
Enables == mfa # "enabled" /\ mfa' = "enabled" /\ passkey
ForSession == \E v \in Calls : call[v].flow = "confirm" /\ call[v].with \in Sessions /\ call'[v] = Idle

LEMMA EnabledForSession ==
  ASSUME CallTable, [Next]_vars, Enables
  PROVE  ForSession
<1> USE DEF Enables, record
<1>1. CASE First
  BY <1>1 DEF First, SignInFirst, StartPasswordless, FinishPasswordless, BeginPasskeyAuthentication,
              FinishPasskeyAuthentication
<1>2. CASE Enrol
  <2>1. ASSUME NEW v \in Calls, NEW s \in Sessions, NEW step \in Window, FinishConfirm(v, s, step)
        PROVE  ForSession
    <3>1. call[v].flow = "confirm" /\ call[v].with \in Sessions
      BY <2>1 DEF FinishConfirm, StillActor, Actor
    <3>2. call'[v] = Idle
      BY <2>1 DEF FinishConfirm, Return, CallTable
    <3> QED
      BY <3>1, <3>2 DEF ForSession
  <2> QED
    BY <1>2, <2>1 DEF Enrol, BeginMfa, StartConfirm
<1>3. CASE Second
  BY <1>3 DEF Second, StartSecond, Refused, VerifyMfa, RecoverMfa, RequestMfaCode, BeginPasskeyMfa,
              FinishPasskeyMfa, StepUp
<1>4. CASE Change
  BY <1>4 DEF Change, BeginPasskeyRegistration, FinishPasskeyRegistration, DeletePasskey, DisableMfa,
              ChangePassword, SetRequired
<1>5. CASE Tick
  BY <1>5 DEF Tick
<1>6. CASE UNCHANGED vars
  BY <1>6 DEF vars
<1> QED
  BY <1>1, <1>2, <1>3, <1>4, <1>5, <1>6 DEF Next

\* The first factor alone adds no factor next to the one the person has.
THEOREM NoFactorOverAnother == Spec => NotOverAnother
<1>1. Init => CallTable
  BY DEF Init, CallTable, Idle, Flows
<1>2. CallTable /\ [Next]_vars => CallTable'
  BY StepCallTable
<1>3. CallTable /\ [Next]_vars => (Enables => ForSession) \/ UNCHANGED vars
  BY EnabledForSession
<1> QED
  BY <1>1, <1>2, <1>3, PTL DEF Spec, NotOverAnother, Enables, ForSession

(***************************************************************************)
(* No proof is accepted twice.  A challenge that was spent is gone, and an *)
(* id is never used again; a spent step of the authenticator is not after  *)
(* lastStep and a spent recovery code is not in the list, while the secret *)
(* they belong to is the one of the record.                                *)
(***************************************************************************)
Spent == DOMAIN uses

SpentOnce == uses = [x \in Spent |-> 1]

ChallengesSpent ==
  /\ purpose = [c \in Challenges |-> purpose[c]]
  /\ link = [c \in Challenges |-> link[c]]
  /\ \A c \in Challenges : <<"challenge", c>> \in Spent => purpose[c] = "gone"
  /\ \A c \in Challenges : purpose[c] = "passkey-mfa" => link[c] \in Challenges

SecretShaped ==
  /\ secrets \in Nat /\ secret \in 0..secrets /\ lastStep \in Int
  /\ mfa # "none" => secret # 0

StepsSpent ==
  \A n, step : <<"totp", n, step>> \in Spent =>
    n \in 1..secrets /\ step \in Int /\ (n = secret => step <= lastStep)

CodesSpent ==
  \A n, k : <<"recovery", n, k>> \in Spent =>
    n \in 1..secrets /\ (n = secret => mfa = "enabled" /\ k \notin codes)

Ledger == SpentOnce /\ ChallengesSpent /\ SecretShaped /\ StepsSpent /\ CodesSpent

LEMMA SpendNew ==
  ASSUME SpentOnce, NEW proofs, Spend(proofs), proofs \cap Spent = {}
  PROVE  SpentOnce' /\ Spent' = Spent \cup proofs
<1>1. uses' = uses (+) [x \in proofs |-> 1]
  BY DEF Spend, SetToBag
<1>2. uses' = [e \in Spent \cup proofs |->
                (IF e \in Spent THEN uses[e] ELSE 0) + (IF e \in proofs THEN 1 ELSE 0)]
  BY <1>1 DEF (+), Spent
<1>3. ASSUME NEW e \in Spent \cup proofs
      PROVE  (IF e \in Spent THEN uses[e] ELSE 0) + (IF e \in proofs THEN 1 ELSE 0) = 1
  <2>1. CASE e \in Spent
    BY <2>1 DEF SpentOnce
  <2>2. CASE e \in proofs
    BY <2>2
  <2> QED
    BY <2>1, <2>2
<1>4. uses' = [e \in Spent \cup proofs |-> 1]
  BY <1>2, <1>3
<1>5. Spent' = Spent \cup proofs
  BY <1>4 DEF Spent
<1> QED
  BY <1>4, <1>5 DEF SpentOnce

LEMMA DeleteSpent ==
  ASSUME ChallengesSpent, NEW gone, DeleteChallenges(gone), NEW proofs, Spent' = Spent \cup proofs,
         \A c \in Challenges : <<"challenge", c>> \in proofs => c \in gone
  PROVE  ChallengesSpent'
<1>1. purpose' = [x \in Challenges |-> IF x \in gone THEN "gone" ELSE purpose[x]]
  BY DEF DeleteChallenges, DeletedFrom
<1>2. link' = [x \in Challenges |-> IF x \in gone THEN None ELSE link[x]]
  BY DEF DeleteChallenges, DeletedFrom
<1>3. ASSUME NEW c \in Challenges, <<"challenge", c>> \in Spent' PROVE purpose'[c] = "gone"
  <2>1. CASE c \in gone
    BY <1>1, <2>1
  <2>2. CASE c \notin gone
    BY <1>1, <1>3, <2>2 DEF ChallengesSpent
  <2> QED
    BY <2>1, <2>2
<1>4. ASSUME NEW c \in Challenges, purpose'[c] = "passkey-mfa" PROVE link'[c] \in Challenges
  BY <1>1, <1>2, <1>4 DEF ChallengesSpent
<1> QED
  BY <1>1, <1>2, <1>3, <1>4 DEF ChallengesSpent

LEMMA ChallengeSpent ==
  ASSUME ChallengesSpent, NEW c \in Challenges, NEW p, NEW l, NEW gone, Challenge(c, p, l, gone),
         p = "passkey-mfa" => l \in Challenges,
         NEW proofs, Spent' = Spent \cup proofs,
         \A x \in Challenges : <<"challenge", x>> \in proofs => x \in gone /\ x # c
  PROVE  ChallengesSpent'
<1>1. purpose' = [x \in Challenges |-> IF x = c THEN p ELSE IF x \in gone THEN "gone" ELSE purpose[x]]
  BY DEF Challenge, DeletedFrom
<1>2. link' = [x \in Challenges |-> IF x = c THEN l ELSE IF x \in gone THEN None ELSE link[x]]
  BY DEF Challenge, DeletedFrom
<1>3. purpose[c] = "fresh"
  BY DEF Challenge
<1>4. ASSUME NEW x \in Challenges, <<"challenge", x>> \in Spent' PROVE purpose'[x] = "gone"
  <2>1. x # c
    BY <1>3, <1>4 DEF ChallengesSpent
  <2>2. x \in gone \/ purpose[x] = "gone"
    BY <1>4 DEF ChallengesSpent
  <2> QED
    BY <1>1, <2>1, <2>2
<1>5. ASSUME NEW x \in Challenges, purpose'[x] = "passkey-mfa" PROVE link'[x] \in Challenges
  BY <1>1, <1>2, <1>5 DEF ChallengesSpent
<1> QED
  BY <1>1, <1>2, <1>4, <1>5 DEF ChallengesSpent

\* Nothing is spent, but challenges are made or deleted.
LEMMA ChallengesMoved ==
  ASSUME ChallengesSpent, uses' = uses, NEW gone,
         \/ DeleteChallenges(gone)
         \/ \E c \in Challenges : \E p, l :
              Challenge(c, p, l, gone) /\ (p = "passkey-mfa" => l \in Challenges)
  PROVE  ChallengesSpent'
<1> DEFINE none == {}
<1>1. Spent' = Spent \cup none
  BY DEF Spent
<1>2. \A x \in Challenges : <<"challenge", x>> \notin none
  OBVIOUS
<1> HIDE DEF none
<1>3. CASE DeleteChallenges(gone)
  <2>1. \A x \in Challenges : <<"challenge", x>> \in none => x \in gone
    BY <1>2
  <2> QED
    BY <1>1, <1>3, <2>1, DeleteSpent
<1>4. ASSUME NEW c \in Challenges, NEW p, NEW l, Challenge(c, p, l, gone), p = "passkey-mfa" => l \in Challenges
      PROVE  ChallengesSpent'
  <2>1. \A x \in Challenges : <<"challenge", x>> \in none => x \in gone /\ x # c
    BY <1>2
  <2> QED
    BY <1>1, <1>4, <2>1, ChallengeSpent
<1> QED
  BY <1>3, <1>4

\* A proof that is a challenge leaves what is known of the others alone.
LEMMA RecordKept ==
  ASSUME SecretShaped, StepsSpent, CodesSpent, UNCHANGED <<record, secrets>>,
         NEW proofs, Spent' = Spent \cup proofs,
         \A n, x : <<"totp", n, x>> \notin proofs /\ <<"recovery", n, x>> \notin proofs
  PROVE  SecretShaped' /\ StepsSpent' /\ CodesSpent'
  BY DEF SecretShaped, StepsSpent, CodesSpent, record

\* A step of the window that is accepted was not spent.
LEMMA StepAccepted ==
  ASSUME SecretShaped, StepsSpent, CodesSpent, mfa # "none", NEW step \in Int, Accepted(step),
         lastStep' = step, secret' = secret, secrets' = secrets, mfa' # "none",
         \/ mfa' = mfa /\ codes' = codes
         \/ mfa = "pending",
         NEW proofs, Spent' = Spent \cup proofs, <<"totp", secret, step>> \in proofs,
         \A n, x : <<"totp", n, x>> \in proofs => n = secret /\ x = step,
         \A n, x : <<"recovery", n, x>> \notin proofs
  PROVE  /\ <<"totp", secret, step>> \notin Spent
         /\ SecretShaped' /\ StepsSpent' /\ CodesSpent'
<1> USE DEF SecretShaped, Accepted
<1>1. <<"totp", secret, step>> \notin Spent
  BY DEF StepsSpent
<1>2. secret \in 1..secrets
  OBVIOUS
<1>3. ASSUME NEW n, NEW x, <<"totp", n, x>> \in Spent'
      PROVE  n \in 1..secrets' /\ x \in Int /\ (n = secret' => x <= lastStep')
  <2>1. CASE <<"totp", n, x>> \in Spent
    BY <2>1 DEF StepsSpent
  <2>2. CASE <<"totp", n, x>> \in proofs
    BY <1>2, <2>2
  <2> QED
    BY <1>3, <2>1, <2>2
<1>4. ASSUME NEW n, NEW k, <<"recovery", n, k>> \in Spent'
      PROVE  n \in 1..secrets' /\ (n = secret' => mfa' = "enabled" /\ k \notin codes')
  <2>1. <<"recovery", n, k>> \in Spent
    BY <1>4
  <2> QED
    BY <2>1 DEF CodesSpent
<1> QED
  BY <1>1, <1>3, <1>4 DEF StepsSpent, CodesSpent

(***************************************************************************)
(* Each action keeps the ledger.                                           *)
(***************************************************************************)
LEMMA FirstLedger ==
  ASSUME Ledger, First
  PROVE  Ledger'
<1> USE DEF Ledger
<1>1. ASSUME UNCHANGED <<uses, record, secrets>>, ChallengesSpent' PROVE Ledger'
  <2>1. Spent' = Spent \cup {} /\ SpentOnce'
    BY <1>1 DEF Spent, SpentOnce
  <2>2. \A n, x : <<"totp", n, x>> \notin {} /\ <<"recovery", n, x>> \notin {}
    OBVIOUS
  <2> QED
    BY <1>1, <2>1, <2>2, RecordKept
<1>2. ASSUME NEW c \in Challenges, purpose[c] # "gone", Spend({<<"challenge", c>>}),
             UNCHANGED <<record, secrets>>,
             Spent' = Spent \cup {<<"challenge", c>>} => ChallengesSpent'
      PROVE  Ledger'
  <2> DEFINE proofs == {<<"challenge", c>>}
  <2>1. proofs \cap Spent = {}
    BY <1>2 DEF ChallengesSpent
  <2>2. SpentOnce' /\ Spent' = Spent \cup proofs
    BY <1>2, <2>1, SpendNew
  <2>3. \A n, x : <<"totp", n, x>> \notin proofs /\ <<"recovery", n, x>> \notin proofs
    OBVIOUS
  <2> QED
    BY <1>2, <2>2, <2>3, RecordKept
<1>3. ASSUME NEW c \in Challenges, NEW p, p # "passkey-mfa", NEW l, NEW gone, Challenge(c, p, l, gone),
             uses' = uses
      PROVE  ChallengesSpent'
  BY <1>3, ChallengesMoved
<1>4. ASSUME NEW s \in Sessions, NEW c \in Challenges, SignInFirst(s, c) PROVE Ledger'
  <2>1. UNCHANGED <<uses, record, secrets>>
    BY <1>4 DEF SignInFirst
  <2>2. ASSUME DeleteChallenges({}) PROVE ChallengesSpent'
    BY <2>1, <2>2, ChallengesMoved
  <2>3. ASSUME Challenge(c, "mfa-login", None, {}) PROVE ChallengesSpent'
    BY <2>1, <2>3, <1>3
  <2> QED
    BY <1>1, <1>4, <2>1, <2>2, <2>3 DEF SignInFirst, Complete
<1>5. ASSUME NEW c \in Challenges, StartPasswordless(c) PROVE Ledger'
  BY <1>1, <1>3, <1>5 DEF StartPasswordless
<1>6. ASSUME NEW p \in Challenges, NEW s \in Sessions, NEW c \in Challenges, FinishPasswordless(p, s, c)
      PROVE  Ledger'
  <2> USE <1>6 DEF FinishPasswordless
  <2>1. purpose[p] = "passwordless"
    BY DEF Readable
  <2>2. ASSUME Spent' = Spent \cup {<<"challenge", p>>} PROVE ChallengesSpent'
    <3>1. CASE DeleteChallenges({p})
      BY <2>2, <3>1, DeleteSpent
    <3>2. CASE Challenge(c, "mfa-login", None, {p})
      <4>1. p # c
        BY <2>1, <3>2 DEF Challenge
      <4> QED
        BY <2>2, <3>2, <4>1, ChallengeSpent
    <3> QED
      BY <3>1, <3>2 DEF Complete
  <2> QED
    BY <1>2, <2>1, <2>2
<1>7. ASSUME NEW c \in Challenges, BeginPasskeyAuthentication(c) PROVE Ledger'
  BY <1>1, <1>3, <1>7 DEF BeginPasskeyAuthentication
<1>8. ASSUME NEW c \in Challenges, NEW s \in Sessions, FinishPasskeyAuthentication(c, s) PROVE Ledger'
  <2> USE <1>8 DEF FinishPasskeyAuthentication
  <2>1. purpose[c] # "gone"
    BY DEF Readable
  <2>2. ASSUME Spent' = Spent \cup {<<"challenge", c>>} PROVE ChallengesSpent'
    BY <2>2, DeleteSpent
  <2> QED
    BY <1>2, <2>1, <2>2
<1> QED
  BY <1>4, <1>5, <1>6, <1>7, <1>8 DEF First

LEMMA EnrolLedger ==
  ASSUME Ledger, now \in Nat, Enrol
  PROVE  Ledger'
<1> USE DEF Ledger
<1>1. ASSUME NEW x \in Credentials, BeginMfa(x) PROVE Ledger'
  <2> USE <1>1 DEF BeginMfa
  <2>1. SpentOnce' /\ ChallengesSpent' /\ Spent' = Spent
    BY DEF Spent, SpentOnce, ChallengesSpent, challenges
  <2>2. secret' = secrets + 1 /\ secrets' = secrets + 1 /\ secrets \in Nat
    BY DEF SecretShaped
  <2>3. SecretShaped' /\ StepsSpent' /\ CodesSpent'
    BY <2>1, <2>2 DEF SecretShaped, StepsSpent, CodesSpent
  <2> QED
    BY <2>1, <2>3
<1>2. ASSUME NEW v \in Calls, NEW x \in Credentials, StartConfirm(v, x) PROVE Ledger'
  BY <1>2 DEF StartConfirm, Spent, SpentOnce, ChallengesSpent, SecretShaped, StepsSpent, CodesSpent,
              record, challenges, history
<1>3. ASSUME NEW v \in Calls, NEW s \in Sessions, NEW step \in Window, FinishConfirm(v, s, step)
      PROVE  Ledger'
  <2> USE <1>3 DEF FinishConfirm
  <2> DEFINE proofs == {<<"totp", secret, step>>}
  <2>1. step \in Int
    BY ClockAssumption DEF Window
  <2>2. ASSUME Spent' = Spent \cup proofs
        PROVE  /\ <<"totp", secret, step>> \notin Spent
               /\ SecretShaped' /\ StepsSpent' /\ CodesSpent'
    <3>1. \A n, x : <<"totp", n, x>> \in proofs => n = secret /\ x = step
      OBVIOUS
    <3>2. \A n, x : <<"recovery", n, x>> \notin proofs
      OBVIOUS
    <3> QED
      BY <2>1, <2>2, <3>1, <3>2, StepAccepted
  <2>3. <<"totp", secret, step>> \notin Spent
    BY <2>1 DEF SecretShaped, StepsSpent, Accepted
  <2>4. SpentOnce' /\ Spent' = Spent \cup proofs
    BY <2>3, SpendNew
  <2>5. ChallengesSpent'
    BY <2>4, DeleteSpent
  <2> QED
    BY <2>2, <2>4, <2>5
<1> QED
  BY <1>1, <1>2, <1>3 DEF Enrol

LEMMA SecondLedger ==
  ASSUME Ledger, CallTable, now \in Nat, Second
  PROVE  Ledger'
<1> USE DEF Ledger
<1>1. ASSUME UNCHANGED <<uses, record, secrets>>, ChallengesSpent' PROVE Ledger'
  <2>1. Spent' = Spent \cup {} /\ SpentOnce'
    BY <1>1 DEF Spent, SpentOnce
  <2>2. \A n, x : <<"totp", n, x>> \notin {} /\ <<"recovery", n, x>> \notin {}
    OBVIOUS
  <2> QED
    BY <1>1, <2>1, <2>2, RecordKept
<1>2. ASSUME UNCHANGED <<uses, purpose, link>> PROVE ChallengesSpent'
  BY <1>2 DEF ChallengesSpent, Spent
<1>3. ASSUME NEW v \in Calls, NEW f \in Flows, NEW c \in Challenges, StartSecond(v, f, c) PROVE Ledger'
  BY <1>1, <1>2, <1>3 DEF StartSecond, challenges, history
<1>4. ASSUME NEW v \in Calls, Refused(v) PROVE Ledger'
  BY <1>1, <1>2, <1>4 DEF Refused, challenges, history
<1>6. ASSUME NEW c \in Challenges, purpose[c] # "gone", Spend({<<"challenge", c>>}), DeleteChallenges({c}),
             UNCHANGED <<record, secrets>>
      PROVE  Ledger'
  <2> DEFINE proofs == {<<"challenge", c>>}
  <2>1. proofs \cap Spent = {}
    BY <1>6 DEF ChallengesSpent
  <2>2. SpentOnce' /\ Spent' = Spent \cup proofs
    BY <1>6, <2>1, SpendNew
  <2>3. ChallengesSpent'
    BY <1>6, <2>2, DeleteSpent
  <2>4. \A n, x : <<"totp", n, x>> \notin proofs /\ <<"recovery", n, x>> \notin proofs
    OBVIOUS
  <2> QED
    BY <1>6, <2>2, <2>3, <2>4, RecordKept
<1>5. ASSUME NEW v \in Calls, NEW s \in Sessions, NEW step \in Window, VerifyMfa(v, s, step) PROVE Ledger'
  <2> USE <1>5 DEF VerifyMfa
  <2> DEFINE c == call[v].with
             mail == {<<"challenge", c>>}
             totp == {<<"challenge", c>>, <<"totp", secret, step>>}
  <2>1. c \in Challenges /\ purpose[c] = "mfa-login"
    BY DEF CallTable, Readable, Flows
  <2>2. CASE mfa = "enabled" /\ Accepted(step) /\ lastStep' = step /\ Spend(totp)
    <3>1. step \in Int
      BY ClockAssumption DEF Window
    <3>2. \A n, x : <<"totp", n, x>> \in totp => n = secret /\ x = step
      OBVIOUS
    <3>3. \A n, x : <<"recovery", n, x>> \notin totp
      OBVIOUS
    <3>4. <<"totp", secret, step>> \notin Spent
      BY <2>2, <3>1 DEF SecretShaped, StepsSpent, Accepted
    <3>5. <<"challenge", c>> \notin Spent
      BY <2>1 DEF ChallengesSpent
    <3>6. SpentOnce' /\ Spent' = Spent \cup totp
      BY <2>2, <3>4, <3>5, SpendNew
    <3>7. SecretShaped' /\ StepsSpent' /\ CodesSpent'
      BY <2>2, <3>1, <3>2, <3>3, <3>6, StepAccepted
    <3>8. \A x \in Challenges : <<"challenge", x>> \in totp => x \in {c}
      OBVIOUS
    <3>9. ChallengesSpent'
      BY <3>6, <3>8, DeleteSpent
    <3> QED
      BY <3>6, <3>7, <3>9
  <2>3. CASE Spend(mail) /\ UNCHANGED lastStep
    BY <2>1, <2>3, <1>6 DEF record
  <2> QED
    BY <2>2, <2>3
<1>7. ASSUME NEW v \in Calls, NEW s \in Sessions, NEW k \in Codes, RecoverMfa(v, s, k) PROVE Ledger'
  <2> USE <1>7 DEF RecoverMfa
  <2> DEFINE c == call[v].with
             proofs == {<<"challenge", c>>, <<"recovery", secret, k>>}
  <2>1. c \in Challenges /\ purpose[c] = "mfa-login"
    BY DEF CallTable, Readable, Flows
  <2>2. <<"challenge", c>> \notin Spent /\ <<"recovery", secret, k>> \notin Spent
    BY <2>1 DEF ChallengesSpent, CodesSpent
  <2>3. SpentOnce' /\ Spent' = Spent \cup proofs
    BY <2>2, SpendNew
  <2>4. \A x \in Challenges : <<"challenge", x>> \in proofs => x \in {c}
    OBVIOUS
  <2>5. ChallengesSpent'
    BY <2>3, <2>4, DeleteSpent
  <2>6. SecretShaped' /\ StepsSpent'
    BY <2>3 DEF SecretShaped, StepsSpent
  <2>7. ASSUME NEW n, NEW x, <<"recovery", n, x>> \in Spent'
        PROVE  n \in 1..secrets' /\ (n = secret' => mfa' = "enabled" /\ x \notin codes')
    BY <2>3, <2>7 DEF CodesSpent, SecretShaped, Left
  <2> QED
    BY <2>3, <2>5, <2>6, <2>7 DEF CodesSpent
<1>8. ASSUME NEW c \in Challenges, RequestMfaCode(c) PROVE Ledger'
  BY <1>1, <1>2, <1>8 DEF RequestMfaCode, history
<1>9. ASSUME NEW l \in Challenges, NEW c \in Challenges, BeginPasskeyMfa(l, c) PROVE Ledger'
  <2> USE <1>9 DEF BeginPasskeyMfa
  <2>1. ChallengesSpent'
    BY ChallengesMoved
  <2> QED
    BY <1>1, <2>1
<1>10. ASSUME NEW c \in Challenges, NEW s \in Sessions, FinishPasskeyMfa(c, s) PROVE Ledger'
  <2> USE <1>10 DEF FinishPasskeyMfa
  <2> DEFINE proofs == {<<"challenge", c>>, <<"challenge", link[c]>>}
  <2>1. purpose[c] = "passkey-mfa" /\ link[c] \in Challenges /\ purpose[link[c]] = "mfa-login"
    BY DEF Readable, LoginOpen, ChallengesSpent
  <2>2. proofs \cap Spent = {}
    BY <2>1 DEF ChallengesSpent
  <2>3. SpentOnce' /\ Spent' = Spent \cup proofs
    BY <2>2, SpendNew
  <2>4. \A x \in Challenges : <<"challenge", x>> \in proofs => x \in {c, link[c]}
    OBVIOUS
  <2>5. ChallengesSpent'
    BY <2>3, <2>4, DeleteSpent
  <2>6. \A n, x : <<"totp", n, x>> \notin proofs /\ <<"recovery", n, x>> \notin proofs
    OBVIOUS
  <2>7. SecretShaped' /\ StepsSpent' /\ CodesSpent'
    BY <2>3, <2>6, RecordKept
  <2> QED
    BY <2>3, <2>5, <2>7
<1>11. ASSUME NEW x \in Sessions, NEW step \in Window, StepUp(x, step) PROVE Ledger'
  <2> USE <1>11 DEF StepUp
  <2> DEFINE proofs == {<<"totp", secret, step>>}
  <2>1. step \in Int
    BY ClockAssumption DEF Window
  <2>2. <<"totp", secret, step>> \notin Spent
    BY <2>1 DEF SecretShaped, StepsSpent, Accepted
  <2>3. SpentOnce' /\ Spent' = Spent \cup proofs
    BY <2>2, SpendNew
  <2>4. \A n, y : <<"totp", n, y>> \in proofs => n = secret /\ y = step
    OBVIOUS
  <2>5. \A n, y : <<"recovery", n, y>> \notin proofs
    OBVIOUS
  <2>6. SecretShaped' /\ StepsSpent' /\ CodesSpent'
    BY <2>1, <2>3, <2>4, <2>5, StepAccepted
  <2>7. ChallengesSpent'
    BY <2>3 DEF ChallengesSpent, challenges
  <2> QED
    BY <2>3, <2>6, <2>7
<1> QED
  BY <1>3, <1>4, <1>5, <1>7, <1>8, <1>9, <1>10, <1>11 DEF Second

LEMMA ChangeLedger ==
  ASSUME Ledger, Change
  PROVE  Ledger'
<1> USE DEF Ledger
<1>1. ASSUME UNCHANGED <<uses, record, secrets>>, ChallengesSpent' PROVE Ledger'
  <2>1. Spent' = Spent \cup {} /\ SpentOnce'
    BY <1>1 DEF Spent, SpentOnce
  <2>2. \A n, x : <<"totp", n, x>> \notin {} /\ <<"recovery", n, x>> \notin {}
    OBVIOUS
  <2> QED
    BY <1>1, <2>1, <2>2, RecordKept
<1>2. ASSUME Revoke, uses' = uses PROVE ChallengesSpent'
  BY <1>2, ChallengesMoved DEF Revoke
<1>3. ASSUME NEW x \in Sessions, NEW c \in Challenges, BeginPasskeyRegistration(x, c) PROVE Ledger'
  <2> USE <1>3 DEF BeginPasskeyRegistration
  <2>1. ChallengesSpent'
    BY ChallengesMoved
  <2> QED
    BY <1>1, <2>1
<1>4. ASSUME NEW x \in Sessions, NEW c \in Challenges, FinishPasskeyRegistration(x, c) PROVE Ledger'
  <2> USE <1>4 DEF FinishPasskeyRegistration
  <2> DEFINE proofs == {<<"challenge", c>>}
  <2>1. <<"challenge", c>> \notin Spent
    BY DEF Readable, ChallengesSpent
  <2>2. SpentOnce' /\ Spent' = Spent \cup proofs
    BY <2>1, SpendNew
  <2>3. ChallengesSpent'
    BY <2>2, DeleteSpent
  <2>4. \A n, y : <<"totp", n, y>> \notin proofs /\ <<"recovery", n, y>> \notin proofs
    OBVIOUS
  <2>5. SecretShaped' /\ StepsSpent' /\ CodesSpent'
    BY <2>2, <2>4, RecordKept
  <2> QED
    BY <2>2, <2>3, <2>5
<1>5. ASSUME NEW x \in Sessions, DeletePasskey(x) PROVE Ledger'
  BY <1>1, <1>2, <1>5 DEF DeletePasskey
<1>6. ASSUME NEW x \in Sessions, DisableMfa(x) PROVE Ledger'
  <2> USE <1>6 DEF DisableMfa
  <2>1. SpentOnce' /\ Spent' = Spent /\ ChallengesSpent'
    BY <1>2 DEF Spent, SpentOnce
  <2>2. SecretShaped' /\ StepsSpent' /\ CodesSpent'
    BY <2>1 DEF SecretShaped, StepsSpent, CodesSpent
  <2> QED
    BY <2>1, <2>2
<1>7. CASE ChangePassword
  BY <1>1, <1>2, <1>7 DEF ChangePassword
<1>8. CASE SetRequired
  BY <1>1, <1>8 DEF SetRequired, challenges, history, ChallengesSpent, Spent
<1> QED
  BY <1>3, <1>4, <1>5, <1>6, <1>7, <1>8 DEF Change

\* Nothing proves twice, whatever races.
THEOREM NothingProvesTwice == Spec => []ProofsUsedOnce
<1> DEFINE IInv == Ledger /\ CallTable /\ Dated
<1>1. Init => IInv
  <2> SUFFICES ASSUME Init PROVE IInv
    OBVIOUS
  <2>1. Spent = {}
    BY DEF Init, Spent, EmptyBag, SetToBag
  <2>2. SpentOnce
    BY DEF Init, Spent, SpentOnce, EmptyBag, SetToBag
  <2>3. ChallengesSpent /\ SecretShaped /\ StepsSpent /\ CodesSpent
    BY <2>1 DEF Init, ChallengesSpent, SecretShaped, StepsSpent, CodesSpent
  <2>4. CallTable
    BY DEF Init, CallTable, Idle, Flows
  <2>5. Dated
    BY DEF Init, Dated, ChallengesDated, DevicesDated, ClockRuns
  <2> QED
    BY <2>2, <2>3, <2>4, <2>5 DEF Ledger
<1>2. IInv /\ [Next]_vars => IInv'
  <2> SUFFICES ASSUME IInv, [Next]_vars PROVE Ledger'
    BY StepCallTable, StepDated
  <2>1. now \in Nat
    BY DEF Dated, ClockRuns
  <2>2. CASE Tick \/ UNCHANGED vars
    BY <2>2 DEF Tick, vars, Ledger, Spent, SpentOnce, ChallengesSpent, SecretShaped, StepsSpent, CodesSpent,
                record, challenges, history
  <2> QED
    BY <2>1, <2>2, FirstLedger, EnrolLedger, SecondLedger, ChangeLedger DEF Next
<1>3. IInv => ProofsUsedOnce
  BY DEF Ledger, SpentOnce, Spent, ProofsUsedOnce
<1> QED
  BY <1>1, <1>2, <1>3, PTL DEF Spec

(***************************************************************************)
(* No guess is free.  Counting reads the challenge before the transaction  *)
(* that compares reads it again, and in between a challenge that could not *)
(* be read then cannot become readable: it keeps its purpose and its       *)
(* deadline until it is gone, and an id is never used again.               *)
(***************************************************************************)
Aged(c) ==
  purpose[c] # "fresh" =>
    /\ purpose'[c] \in {purpose[c], "gone"}
    /\ purpose'[c] # "gone" => until'[c] = until[c]

Moves ==
  \/ UNCHANGED <<purpose, until>>
  \/ \E gone : DeleteChallenges(gone)
  \/ \E gone, p, l : \E c \in Challenges : Challenge(c, p, l, gone)

LEMMA MovesAge ==
  ASSUME Moves
  PROVE  \A c \in Challenges : Aged(c)
<1>1. CASE UNCHANGED <<purpose, until>>
  BY <1>1 DEF Aged
<1>2. ASSUME NEW gone, DeleteChallenges(gone)
      PROVE  \A c \in Challenges : Aged(c)
  BY <1>2 DEF Aged, DeleteChallenges, DeletedFrom
<1>3. ASSUME NEW gone, NEW p, NEW l, NEW d \in Challenges, Challenge(d, p, l, gone), NEW c \in Challenges
      PROVE  Aged(c)
  <2>1. /\ purpose[d] = "fresh"
        /\ c # d => /\ purpose'[c] = IF c \in gone THEN "gone" ELSE purpose[c]
                    /\ until'[c] = IF c \in gone THEN 0 ELSE until[c]
    BY <1>3 DEF Challenge, DeletedFrom
  <2> QED
    BY <2>1 DEF Aged
<1> QED
  BY <1>1, <1>2, <1>3 DEF Moves

LEMMA CompleteMoves ==
  ASSUME NEW s, NEW c \in Challenges, NEW gone, Complete(s, c, gone)
  PROVE  Moves
BY DEF Complete, Moves

LEMMA StepMoves ==
  ASSUME [Next]_vars
  PROVE  Moves
<1> USE DEF challenges
<1>1. CASE First
  <2>1. ASSUME NEW s \in Sessions, NEW c \in Challenges, SignInFirst(s, c) PROVE Moves
    BY <2>1, CompleteMoves DEF SignInFirst
  <2>2. ASSUME NEW p \in Challenges, NEW s \in Sessions, NEW c \in Challenges, FinishPasswordless(p, s, c)
        PROVE  Moves
    BY <2>2, CompleteMoves DEF FinishPasswordless
  <2>3. ASSUME NEW s \in Sessions, NEW c \in Challenges,
               \/ StartPasswordless(c) \/ BeginPasskeyAuthentication(c)
               \/ FinishPasskeyAuthentication(c, s)
        PROVE  Moves
    BY <2>3 DEF StartPasswordless, BeginPasskeyAuthentication, FinishPasskeyAuthentication, Moves
  <2> QED
    BY <1>1, <2>1, <2>2, <2>3 DEF First
<1>2. CASE Enrol
  BY <1>2 DEF Enrol, BeginMfa, StartConfirm, FinishConfirm, Moves
<1>3. CASE Second
  <2>1. ASSUME NEW v \in Calls, NEW f \in Flows, NEW c \in Challenges, StartSecond(v, f, c) PROVE Moves
    BY <2>1 DEF StartSecond, Moves
  <2>2. ASSUME NEW v \in Calls, Refused(v) PROVE Moves
    BY <2>2 DEF Refused, Moves
  <2>3. ASSUME NEW v \in Calls, NEW s \in Sessions, NEW step \in Window, VerifyMfa(v, s, step)
        PROVE  Moves
    BY <2>3 DEF VerifyMfa, Moves
  <2>4. ASSUME NEW v \in Calls, NEW s \in Sessions, NEW k \in Codes, RecoverMfa(v, s, k) PROVE Moves
    BY <2>4 DEF RecoverMfa, Moves
  <2>5. ASSUME NEW c \in Challenges, NEW l \in Challenges, RequestMfaCode(c) \/ BeginPasskeyMfa(l, c)
        PROVE  Moves
    BY <2>5 DEF RequestMfaCode, BeginPasskeyMfa, Moves
  <2>6. ASSUME NEW c \in Challenges, NEW s \in Sessions, FinishPasskeyMfa(c, s) PROVE Moves
    BY <2>6 DEF FinishPasskeyMfa, Moves
  <2>7. ASSUME NEW x \in Sessions, NEW step \in Window, StepUp(x, step) PROVE Moves
    BY <2>7 DEF StepUp, Moves
  <2> QED
    BY <1>3, <2>1, <2>2, <2>3, <2>4, <2>5, <2>6, <2>7 DEF Second
<1>4. CASE Change
  <2>1. ASSUME NEW x \in Sessions, NEW c \in Challenges,
               BeginPasskeyRegistration(x, c) \/ FinishPasskeyRegistration(x, c)
        PROVE  Moves
    BY <2>1 DEF BeginPasskeyRegistration, FinishPasskeyRegistration, Moves
  <2>2. CASE Revoke
    BY <2>2 DEF Revoke, Moves
  <2>3. CASE SetRequired
    BY <2>3 DEF SetRequired, Moves
  <2> QED
    BY <1>4, <2>1, <2>2, <2>3 DEF Change, DeletePasskey, DisableMfa, ChangePassword
<1>5. CASE Tick \/ UNCHANGED vars
  BY <1>5 DEF Tick, vars, Moves
<1> QED
  BY <1>1, <1>2, <1>3, <1>4, <1>5 DEF Next

\* A call that is to compare a code has counted the attempt, or holds a
\* challenge that cannot be read any more.
Outstanding(v) ==
  call[v].flow \in Flows =>
    /\ call[v].with \in Challenges /\ purpose[call[v].with] # "fresh"
    /\ Readable(call[v].with, "mfa-login") => call[v].paid

\* Only verifyMfa and recoverMfa begin such a call, and they count first.
Begun(v) ==
  /\ call'[v].with \in Challenges /\ purpose[call'[v].with] # "fresh"
  /\ call'[v].paid = Readable(call'[v].with, "mfa-login")
  /\ UNCHANGED <<purpose, until, now>>

LEMMA StepCalls ==
  ASSUME CallTable, [Next]_vars, NEW v \in Calls
  PROVE  call'[v] = call[v] \/ call'[v].flow \notin Flows \/ Begun(v)
<1> DEFINE Goal == call'[v] = call[v] \/ call'[v].flow \notin Flows \/ Begun(v)
<1> USE DEF counters
<1>1. ASSUME call' = call PROVE Goal
  BY <1>1
<1>2. ASSUME NEW u \in Calls, Return(u) PROVE Goal
  BY <1>2 DEF CallTable, Return, Idle, Flows
<1>3. CASE First
  BY <1>1, <1>3 DEF First, SignInFirst, StartPasswordless, FinishPasswordless, BeginPasskeyAuthentication,
                    FinishPasskeyAuthentication
<1>4. ASSUME NEW u \in Calls, NEW x \in Credentials, StartConfirm(u, x) PROVE Goal
  BY <1>4 DEF StartConfirm, CallTable, Flows
<1>5. CASE Enrol
  BY <1>1, <1>2, <1>4, <1>5 DEF Enrol, BeginMfa, FinishConfirm
<1>6. ASSUME NEW u \in Calls, NEW f \in Flows, NEW c \in Challenges, StartSecond(u, f, c) PROVE Goal
  <2>1. CASE u = v
    <3>1. call'[v] = [flow |-> f, with |-> c, paid |-> Readable(c, "mfa-login")]
      BY <1>6, <2>1 DEF StartSecond, CallTable, CountsPerson
    <3>2. purpose[c] # "fresh" /\ UNCHANGED <<purpose, until, now>>
      BY <1>6 DEF StartSecond, challenges
    <3> QED
      BY <3>1, <3>2 DEF Begun
  <2>2. CASE u # v
    BY <1>6, <2>2 DEF StartSecond, CallTable
  <2> QED
    BY <2>1, <2>2
<1>7. CASE Second
  BY <1>1, <1>2, <1>6, <1>7 DEF Second, Refused, VerifyMfa, RecoverMfa, RequestMfaCode, BeginPasskeyMfa,
                                FinishPasskeyMfa, StepUp
<1>8. CASE Change
  BY <1>1, <1>8 DEF Change, BeginPasskeyRegistration, FinishPasskeyRegistration, DeletePasskey, DisableMfa,
                    ChangePassword, SetRequired
<1>9. CASE Tick \/ UNCHANGED vars
  BY <1>1, <1>9 DEF Tick, vars
<1> QED
  BY <1>3, <1>5, <1>7, <1>8, <1>9 DEF Next

LEMMA ClockAdvances ==
  ASSUME Dated, [Next]_vars
  PROVE  now' >= now
<1>1. CASE First
  BY <1>1, FirstDated DEF Dated, ClockRuns
<1>2. CASE Enrol
  BY <1>2, EnrolDated DEF Dated, ClockRuns
<1>3. CASE Second
  BY <1>3, SecondDated DEF Dated, ClockRuns
<1>4. CASE Change
  BY <1>4, ChangeDated DEF Dated, ClockRuns
<1>5. CASE Tick \/ UNCHANGED vars
  BY <1>5 DEF Tick, vars, Dated, ClockRuns
<1> QED
  BY <1>1, <1>2, <1>3, <1>4, <1>5 DEF Next

\* verifyMfa and recoverMfa compare no code that was not counted against the
\* person (mfa.ts, rateChallengeIdentity), whatever becomes of the challenge
\* between the counter and the transaction.
THEOREM GuessesAreCounted == Spec => []GuessesPaid
<1> DEFINE Inv == Dated /\ CallTable /\ \A v \in Calls : Outstanding(v)
<1>1. Init => Inv
  BY DEF Init, Dated, ChallengesDated, DevicesDated, ClockRuns, CallTable, Outstanding, Idle, Flows
<1>2. Inv /\ [Next]_vars => Inv'
  <2> SUFFICES ASSUME Inv, [Next]_vars PROVE Inv'
    OBVIOUS
  <2>1. Dated' /\ CallTable'
    BY StepDated, StepCallTable
  <2>2. ASSUME NEW v \in Calls PROVE Outstanding(v)'
    <3>1. CASE call'[v] = call[v] /\ call[v].flow \in Flows
      <4>1. PICK c \in Challenges : c = call[v].with /\ purpose[c] # "fresh"
        BY <3>1 DEF Outstanding
      <4>2. Aged(c)
        BY StepMoves, MovesAge
      <4>3. Readable(c, "mfa-login")' => Readable(c, "mfa-login")
        BY <4>1, <4>2, <2>1, ClockAdvances DEF Aged, Readable, Dated, ClockRuns, ChallengesDated
      <4> QED
        BY <3>1, <4>1, <4>2, <4>3 DEF Outstanding, Aged
    <3>2. CASE Begun(v)
      BY <3>2 DEF Begun, Outstanding, Readable
    <3> QED
      BY <3>1, <3>2, StepCalls DEF Outstanding
  <2> QED
    BY <2>1, <2>2
<1>3. Inv => GuessesPaid
  BY DEF Outstanding, GuessesPaid
<1> HIDE DEF Inv
<1> QED
  BY <1>1, <1>2, <1>3, PTL DEF Spec
=============================================================================
