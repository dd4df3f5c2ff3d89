------------------------------- MODULE SignIn -------------------------------
(***************************************************************************)
(* Sign-in ceremonies of one person (packages/auth/src/service): the first *)
(* factor, passwordless codes, passkeys, enrolment and use of a second     *)
(* factor, recovery codes, remembered devices and what revokes them.       *)
(*                                                                         *)
(* Each action is a transaction; flows that count attempts do so before    *)
(* their transaction.  First factors are right when they are presented:    *)
(* hashes and signatures are taken for granted.  The clock counts TOTP     *)
(* steps, and the counters' window outlasts the behaviour.                 *)
(***************************************************************************)
EXTENDS Naturals, FiniteSets, Bags

CONSTANTS
  Challenges,     \* ids of challenges, never used twice
  Sessions,       \* ids of sessions, never used twice
  Calls,          \* calls of flows with several transactions
  Devices,        \* device tokens, never used twice
  Limit,          \* sensitiveAttempts
  Lifetime,       \* of a challenge
  DeviceLifetime,
  Drift,          \* steps an authenticator's clock may be off
  Codes,          \* recovery codes of an enrolment
  MaxSecrets,     \* bound on enrolments begun
  MaxTime,        \* bound on the clock
  MaxChanges,     \* bound on changes of factors and passwords
  None

ASSUME ClockAssumption == Lifetime \in Nat /\ DeviceLifetime \in Nat /\ Drift \in Nat

VARIABLES
  \* authMfa, the one row of the person
  mfa,       \* none, pending or enabled
  secret,    \* number of the enrolment whose secret it holds
  lastStep,  \* lastUsedStep
  codes,     \* recovery codes left
  enrolBy,   \* enrollmentCredential
  \* authChallenges
  purpose,   \* challenge -> fresh, its purpose, or gone
  until,     \* challenge -> expiresAt
  link,      \* challenge -> the login challenge or session it belongs to
  mailed,    \* challenge -> has a code been mailed for it?
  \* sessions, authDevices, authPasskeys, tenant policy
  session,   \* session -> fresh, live or ended
  passed,    \* session -> did it pass MFA?
  device,    \* device -> fresh, until when it vouches, or gone
  passkey,   \* has the person a passkey?
  required,  \* does the tenant require MFA?
  call,      \* call -> the flow and credential it has counted or checked
  counted,   \* flow -> attempts counted against the person
  now,
  \* history
  uses,      \* proofs accepted so far, as a bag
  secrets,   \* enrolments begun
  era        \* changes of factors and passwords so far

record == <<mfa, secret, lastStep, codes, enrolBy>>
challenges == <<purpose, until, link, mailed>>
sessions == <<session, passed>>
counters == <<call, counted>>
history == <<uses, secrets, era>>
vars == <<record, challenges, sessions, device, passkey, required, counters, now, history>>

Flows == {"verify", "recover"}
Credentials == Challenges \cup Sessions
Idle == [flow |-> "none", with |-> None, paid |-> FALSE]

Init ==
  /\ \/ mfa = "none" /\ secret = 0 /\ codes = {}
     \/ mfa = "enabled" /\ secret = 1 /\ codes = Codes
  /\ lastStep = 0 /\ enrolBy = None
  /\ purpose = [c \in Challenges |-> "fresh"]
  /\ until = [c \in Challenges |-> 0]
  /\ link = [c \in Challenges |-> None]
  /\ mailed = [c \in Challenges |-> FALSE]
  /\ session = [s \in Sessions |-> "fresh"]
  /\ passed = [s \in Sessions |-> FALSE]
  /\ device = [d \in Devices |-> 0]
  /\ passkey \in BOOLEAN
  /\ required \in BOOLEAN
  /\ call = [v \in Calls |-> Idle]
  /\ counted = [f \in Flows |-> 0]
  /\ now = 2
  /\ uses = EmptyBag /\ secrets = secret /\ era = 0

-----------------------------------------------------------------------------
(* What the flows are made of *)

\* Mutant of MfaRequired: only the tenant's policy counts.
MfaRequiredByPolicy == required

MfaRequired == mfa = "enabled" \/ required

\* authenticate: a live session that satisfies the requirement.
Authentic(s) == session[s] = "live" /\ (MfaRequired => passed[s])

\* readChallenge
Readable(c, p) == purpose[c] = p /\ until[c] > now

Spend(proofs) == uses' = uses (+) SetToBag(proofs)

\* What is left of the rows in challenges when those in gone are deleted.
DeletedFrom(gone, field, empty) ==
  [x \in Challenges |-> IF x \in gone THEN empty ELSE field[x]]

DeleteChallenges(gone) ==
  /\ purpose' = DeletedFrom(gone, purpose, "gone")
  /\ until' = DeletedFrom(gone, until, 0)
  /\ link' = DeletedFrom(gone, link, None)
  /\ mailed' = DeletedFrom(gone, mailed, FALSE)

\* A new challenge, with those in gone deleted.
Challenge(c, p, l, gone) ==
  /\ purpose[c] = "fresh"
  /\ purpose' = [DeletedFrom(gone, purpose, "gone") EXCEPT ![c] = p]
  /\ until' = [DeletedFrom(gone, until, 0) EXCEPT ![c] = now + Lifetime]
  /\ link' = [DeletedFrom(gone, link, None) EXCEPT ![c] = l]
  /\ mailed' = DeletedFrom(gone, mailed, FALSE)

\* issueSession, with the sessions in gone ended.
Issue(s, m, gone) ==
  /\ session[s] = "fresh"
  /\ session' = [x \in Sessions |-> IF x = s THEN "live" ELSE IF x \in gone THEN "ended" ELSE session[x]]
  /\ passed' = [x \in Sessions |-> IF x = s THEN m ELSE passed[x] /\ x \notin gone]

\* Mutant of Pending: challenges survive a revocation.
PendingNone == {}

\* The challenges revokeIdentity deletes: those that name the person.
Pending == {c \in Challenges : purpose[c] \notin {"fresh", "passkey-discover"}}

Live == {s \in Sessions : session[s] = "live"}

\* rememberDevice, if asked for; forget: the others are deleted.
Remember(forget) ==
  \E asked \in SUBSET {d \in Devices : device[d] = 0} :
    /\ Cardinality(asked) <= 1
    /\ device' = [d \in Devices |->
         IF d \in asked THEN now + DeviceLifetime
         ELSE IF forget /\ device[d] > 0 THEN 1 ELSE device[d]]

Changes == era < MaxChanges /\ era' = era + 1

\* revokeIdentity by itself.
Revoke ==
  /\ session' = [x \in Sessions |-> IF x \in Live THEN "ended" ELSE session[x]]
  /\ device' = [d \in Devices |-> IF device[d] > 0 THEN 1 ELSE device[d]]
  /\ DeleteChallenges(Pending)
  /\ Changes
  /\ passed' = [x \in Sessions |-> FALSE]

-----------------------------------------------------------------------------
(* The first factor *)

Vouches(d) == device[d] > now

\* completeAuthentication after a password, a code or a federated assertion;
\* the challenges in gone were consumed for it.
Complete(s, c, gone) ==
  \/ /\ ~MfaRequired
     /\ Issue(s, FALSE, {}) /\ DeleteChallenges(gone)
  \/ /\ MfaRequired /\ \E d \in Devices : Vouches(d)
     /\ Issue(s, TRUE, {}) /\ DeleteChallenges(gone)
  \/ /\ MfaRequired
     /\ Challenge(c, "mfa-login", None, gone)
     /\ UNCHANGED sessions

SignInFirst(s, c) ==
  /\ Complete(s, c, {})
  /\ UNCHANGED <<record, device, passkey, required, counters, now, uses, secrets, era>>

\* Only the newest code stays valid.
StartPasswordless(c) ==
  /\ Challenge(c, "passwordless", None, {x \in Challenges : purpose[x] = "passwordless"})
  /\ UNCHANGED <<record, sessions, device, passkey, required, counters, now, uses, secrets, era>>

FinishPasswordless(p, s, c) ==
  /\ Readable(p, "passwordless")
  /\ Complete(s, c, {p})
  /\ Spend({<<"challenge", p>>})
  /\ UNCHANGED <<record, device, passkey, required, counters, now, secrets, era>>

\* A passkey is both factors.  With the person's address the challenge names
\* them, if they have one; without, it names nobody ("passkey-discover" is
\* "passkey-authenticate" with discovery in its payload).
BeginPasskeyAuthentication(c) ==
  /\ \/ passkey /\ Challenge(c, "passkey-authenticate", None, {})
     \/ Challenge(c, "passkey-discover", None, {})
  /\ UNCHANGED <<record, sessions, device, passkey, required, counters, now, uses, secrets, era>>

\* A challenge that names nobody is finished with any passkey there is.
FinishPasskeyAuthentication(c, s) ==
  /\ passkey /\ (Readable(c, "passkey-authenticate") \/ Readable(c, "passkey-discover"))
  /\ Issue(s, TRUE, {}) /\ DeleteChallenges({c})
  /\ Spend({<<"challenge", c>>})
  /\ UNCHANGED <<record, device, passkey, required, counters, now, secrets, era>>

-----------------------------------------------------------------------------
(* Enrolment *)

\* mfaActor: a login challenge does, if there is no factor yet.
Actor(x) ==
  \/ x \in Sessions /\ Authentic(x)
  \/ x \in Challenges /\ Readable(x, "mfa-login") /\ mfa # "enabled" /\ ~passkey

BeginMfa(x) ==
  /\ Actor(x) /\ mfa # "enabled" /\ secrets < MaxSecrets
  /\ mfa' = "pending" /\ secret' = secrets + 1 /\ lastStep' = 0 /\ codes' = {} /\ enrolBy' = x
  /\ secrets' = secrets + 1
  /\ UNCHANGED <<challenges, sessions, device, passkey, required, counters, now, uses, era>>

\* The first transaction of confirmMfa, and its counter.
StartConfirm(v, x) ==
  /\ call[v] = Idle /\ Actor(x)
  /\ call' = [call EXCEPT ![v] = [flow |-> "confirm", with |-> x, paid |-> FALSE]]
  /\ UNCHANGED <<record, challenges, sessions, device, passkey, required, counted, now, history>>

\* Mutant of StillActor: the second transaction trusts the first.
StillActorUnchecked(x) == TRUE

StillActor(x) == Actor(x)

\* The enrolment is the caller's own.
Enrols(x) == enrolBy = x

\* Mutant of Accepted: the step before is good for another use.
AcceptedAgain(step) == step >= lastStep

\* checkTotp: a step of the window that was not used yet.
Accepted(step) == step > lastStep

Window == (now - Drift)..(now + Drift)

\* The call is over: done, or refused without a trace but its counters.
Return(v) == call' = [call EXCEPT ![v] = Idle]

FinishConfirm(v, s, step) ==
  /\ call[v].flow = "confirm" /\ StillActor(call[v].with)
  /\ mfa = "pending" /\ Enrols(call[v].with)
  /\ step \in Window /\ Accepted(step)
  /\ mfa' = "enabled" /\ lastStep' = step /\ codes' = Codes
  /\ Changes
  /\ Issue(s, TRUE, Live) /\ DeleteChallenges(Pending) /\ Remember(TRUE)
  /\ Return(v)
  /\ Spend({<<"totp", secret, step>>})
  /\ UNCHANGED <<secret, enrolBy, passkey, required, counted, now, secrets>>

\* Every other way a call ends: the credential or challenge has gone, expired
\* or is not for this, the code is wrong or used up.
Refused(v) ==
  /\ call[v] # Idle
  /\ Return(v)
  /\ UNCHANGED <<record, challenges, sessions, device, passkey, required, counted, now, history>>

-----------------------------------------------------------------------------
(* The second factor *)

\* Mutant of CountsPerson: only the challenge has a counter.
CountsPersonNever(c) == FALSE

\* rateChallengeIdentity: the person the challenge names, if it can be read.
CountsPerson(c) == Readable(c, "mfa-login")

\* The counters of verifyMfa and recoverMfa, before the transaction.  Whoever
\* calls has been given the challenge.
StartSecond(v, f, c) ==
  /\ call[v] = Idle
  /\ purpose[c] \notin {"fresh", "passwordless", "passkey-authenticate", "passkey-discover"}
  /\ IF CountsPerson(c)
       THEN counted[f] < Limit /\ counted' = [counted EXCEPT ![f] = @ + 1]
       ELSE UNCHANGED counted
  /\ call' = [call EXCEPT ![v] = [flow |-> f, with |-> c, paid |-> CountsPerson(c)]]
  /\ UNCHANGED <<record, challenges, sessions, device, passkey, required, now, history>>

\* The transaction of verifyMfa: a code of the authenticator, or without one
\* the code mailed for this challenge.
VerifyMfa(v, s, step) ==
  LET c == call[v].with
  IN  /\ call[v].flow = "verify" /\ Readable(c, "mfa-login")
      /\ \/ /\ mfa = "enabled" /\ step \in Window /\ Accepted(step)
            /\ lastStep' = step
            /\ Spend({<<"challenge", c>>, <<"totp", secret, step>>})
         \/ /\ mfa # "enabled" /\ mailed[c] /\ step = now
            /\ Spend({<<"challenge", c>>})
            /\ UNCHANGED lastStep
      /\ DeleteChallenges({c})
      /\ UNCHANGED era
      /\ Issue(s, TRUE, {}) /\ Remember(FALSE)
      /\ Return(v) 
  /\ UNCHANGED <<mfa, secret, codes, enrolBy, passkey, required, counted, now, secrets>>

\* requestMfaCode, where completeAuthentication offered it.
RequestMfaCode(c) ==
  /\ Readable(c, "mfa-login") /\ ~mailed[c] /\ mfa # "enabled"
  /\ mailed' = [mailed EXCEPT ![c] = TRUE]
  /\ UNCHANGED <<record, purpose, until, link, sessions, device, passkey, required, counters, now, history>>

\* Mutant of Left: a recovery code stays in the list.
LeftAll(k) == codes

Left(k) == codes \ {k}

RecoverMfa(v, s, k) ==
  LET c == call[v].with
  IN  /\ call[v].flow = "recover" /\ Readable(c, "mfa-login")
      /\ mfa = "enabled" /\ k \in codes
      /\ codes' = Left(k)
      /\ DeleteChallenges({c})
      /\ Issue(s, TRUE, {})
      /\ Return(v) 
      /\ Spend({<<"challenge", c>>, <<"recovery", secret, k>>})
  /\ UNCHANGED <<mfa, secret, lastStep, enrolBy, device, passkey, required, counted, now, secrets, era>>

BeginPasskeyMfa(l, c) ==
  /\ passkey /\ Readable(l, "mfa-login")
  /\ Challenge(c, "passkey-mfa", l, {})
  /\ UNCHANGED <<record, sessions, device, passkey, required, counters, now, uses, secrets, era>>

\* Mutant of LoginOpen: the login challenge is only deleted.
LoginOpenUnread(l) == TRUE

\* The login challenge must still be open.
LoginOpen(l) == Readable(l, "mfa-login")

FinishPasskeyMfa(c, s) ==
  /\ passkey /\ Readable(c, "passkey-mfa") /\ LoginOpen(link[c])
  /\ DeleteChallenges({c, link[c]})
  /\ UNCHANGED era
  /\ Issue(s, TRUE, {}) /\ Remember(FALSE)
  /\ Spend({<<"challenge", c>>, <<"challenge", link[c]>>})
  /\ UNCHANGED <<record, passkey, required, counters, now, secrets>>

\* verifyStepUpCode
StepUp(x, step) ==
  /\ Authentic(x) /\ mfa = "enabled" /\ step \in Window /\ Accepted(step)
  /\ lastStep' = step
  /\ Spend({<<"totp", secret, step>>})
  /\ UNCHANGED <<mfa, secret, codes, enrolBy, challenges, sessions, device, passkey, required, counters,
                 now, secrets, era>>

-----------------------------------------------------------------------------
(* Changes of factors *)

BeginPasskeyRegistration(x, c) ==
  /\ Authentic(x)
  /\ Challenge(c, "passkey-register", x, {})
  /\ UNCHANGED <<record, sessions, device, passkey, required, counters, now, uses, secrets, era>>

FinishPasskeyRegistration(x, c) ==
  /\ Authentic(x) /\ Readable(c, "passkey-register") /\ link[c] = x
  /\ passkey' = TRUE
  /\ DeleteChallenges({c})
  /\ Spend({<<"challenge", c>>})
  /\ UNCHANGED <<record, sessions, device, required, counters, now, secrets, era>>

DeletePasskey(x) ==
  /\ Authentic(x) /\ passkey
  /\ passkey' = FALSE
  /\ Revoke
  /\ UNCHANGED <<record, required, counters, now, uses, secrets>>

DisableMfa(x) ==
  /\ Authentic(x) /\ passed[x] /\ ~required /\ mfa # "none"
  /\ mfa' = "none" /\ secret' = 0 /\ lastStep' = 0 /\ codes' = {} /\ enrolBy' = None
  /\ Revoke
  /\ UNCHANGED <<passkey, required, counters, now, uses, secrets>>

\* changePassword, and resetPassword with the mailed link.
ChangePassword ==
  /\ Revoke
  /\ UNCHANGED <<record, passkey, required, counters, now, uses, secrets>>

\* tenants.setAuthPolicy
SetRequired ==
  /\ required' = ~required
  /\ UNCHANGED <<record, challenges, sessions, device, passkey, counters, now, history>>

Tick ==
  /\ now < MaxTime
  /\ now' = now + 1
  /\ UNCHANGED <<record, challenges, sessions, device, passkey, required, counters, history>>

First ==
  \E s \in Sessions, c \in Challenges :
    \/ SignInFirst(s, c) \/ StartPasswordless(c)
    \/ \E p \in Challenges : FinishPasswordless(p, s, c)
    \/ BeginPasskeyAuthentication(c) \/ FinishPasskeyAuthentication(c, s)

Enrol ==
  \/ \E x \in Credentials : BeginMfa(x)
  \/ \E v \in Calls, x \in Credentials : StartConfirm(v, x)
  \/ \E v \in Calls, s \in Sessions, step \in Window : FinishConfirm(v, s, step)

Second ==
  \/ \E v \in Calls, f \in Flows, c \in Challenges : StartSecond(v, f, c)
  \/ \E v \in Calls : Refused(v)
  \/ \E v \in Calls, s \in Sessions, step \in Window : VerifyMfa(v, s, step)
  \/ \E v \in Calls, s \in Sessions, k \in Codes : RecoverMfa(v, s, k)
  \/ \E c \in Challenges : RequestMfaCode(c)
  \/ \E l, c \in Challenges : BeginPasskeyMfa(l, c)
  \/ \E c \in Challenges, s \in Sessions : FinishPasskeyMfa(c, s)
  \/ \E x \in Sessions, step \in Window : StepUp(x, step)

Change ==
  \/ \E x \in Sessions, c \in Challenges : BeginPasskeyRegistration(x, c) \/ FinishPasskeyRegistration(x, c)
  \/ \E x \in Sessions : DeletePasskey(x) \/ DisableMfa(x)
  \/ ChangePassword \/ SetRequired

Next == First \/ Enrol \/ Second \/ Change \/ Tick

Spec == Init /\ [][Next]_vars

-----------------------------------------------------------------------------

\* Nothing proves twice: a challenge opens one session, a step of the
\* authenticator and a recovery code are accepted once, whichever calls race
\* and whether it is for a sign-in, a confirmation or a step-up.
ProofsUsedOnce == \A proof \in DOMAIN uses : uses[proof] = 1

\* "Each correct password mints a new challenge with a fresh budget"
\* (mfa.ts:186): counting and comparing are separate steps, and the challenge
\* is read in each; still no code is compared that was not counted against
\* the person.
GuessesPaid ==
  \A v \in Calls :
    call[v].flow \in Flows /\ Readable(call[v].with, "mfa-login") => call[v].paid

\* Once an authenticator is enabled no session of a single factor is left,
\* nor is one issued to whoever began to sign in before.
EnabledMeansPassed == mfa = "enabled" => \A s \in Live : passed[s]

\* The open challenges that name the person.
OpenNamed == {c \in Challenges : purpose[c] \notin {"gone", "passkey-discover"} /\ until[c] > now}

\* A change of factors or password sweeps away what came before it, whoever is
\* in the middle of what: no session, no remembered device and no challenge
\* that names the person outlives it.  So of the ceremonies begun before it only
\* one that names nobody ends after it, with a passkey the person then has.
FreshAfterChange ==
  [][era' # era => /\ Live \cap Live' = {}
                   /\ OpenNamed \cap OpenNamed' = {}
                   /\ \A d \in Devices : Vouches(d) => device'[d] <= now]_vars

\* The first factor alone never adds a factor over one the person has, not
\* even one that was registered between the steps of confirmMfa.
NotOverAnother ==
  [][mfa # "enabled" /\ mfa' = "enabled" /\ passkey =>
       \E v \in Calls : call[v].flow = "confirm" /\ call[v].with \in Sessions /\ call'[v] = Idle]_vars
=============================================================================
