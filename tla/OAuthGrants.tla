---------------------------- MODULE OAuthGrants ----------------------------
(***************************************************************************)
(* One consent of an account for one client in the OAuth provider: the     *)
(* grant, the IAM session it is bound to, and the family of single-use     *)
(* artifacts (codes and rotated refresh tokens) issued under it, as        *)
(* packages/oauth/src/adapter.ts stores them.                              *)
(*                                                                         *)
(* A token request is oidc-provider's: it finds an artifact and its grant, *)
(* consumes the artifact and stores the one that replaces it.  Consuming   *)
(* and storing are transactions of their own, and the process may stop     *)
(* between any two steps.  Reads inside a transaction see it (every        *)
(* adapter joins the open one), so that a transaction is one step.         *)
(* Expired artifacts are gone: the adapter returns none of them, and the   *)
(* retention sweep deletes them.                                           *)
(***************************************************************************)
EXTENDS Naturals, FiniteSets

CONSTANTS
  Artifacts,   \* the artifacts this family may come to have
  First,       \* the code issued with the first consent
  Requests,    \* token requests
  Sessions,    \* IAM sessions of the account
  MaxStops,    \* bound on the processes that stop half way
  Nobody       \* no artifact, no session

ASSUME OAuthAssumption == First \in Artifacts

VARIABLES
  artifact,    \* each artifact: "unused" identifier, "live", "consumed", "gone"
  grantRow,    \* the Grant artifact is stored
  revoked,     \* the grant has its row in oauthRevokedGrants
  binding,     \* the session in its oauthGrantSessions row, or Nobody
  ended,       \* the sessions that ended
  request,     \* each request: where it is, and the artifact presented to it
  consented,   \* a consent was saved and its code is not issued yet
  logout,      \* logoutEndedSessions: where it is, and the binding it read
  stops,       \* processes stopped so far
  winners,     \* history: the requests that consumed each artifact
  disowned     \* history: somebody was told that the family is dead

vars == <<artifact, grantRow, revoked, binding, ended, request, consented,
          logout, stops, winners, disowned>>

Idle == [step |-> "idle", presented |-> Nobody]

NoLogout == [step |-> "idle", read |-> Nobody]

Init ==
  /\ artifact = [a \in Artifacts |-> IF a = First THEN "live" ELSE "unused"]
  /\ grantRow = TRUE /\ revoked = FALSE
  /\ binding \in Sessions /\ ended = {}
  /\ request = [r \in Requests |-> Idle]
  /\ consented = FALSE /\ logout = NoLogout /\ stops = 0
  /\ winners = [a \in Artifacts |-> {}] /\ disowned = FALSE

----------------------------------------------------------------------------
Stored(a) == artifact[a] \in {"live", "consumed"}

\* validGrantSession, on every find and every upsert under the grant: no
\* marker, and a binding to a session that has not ended.
ValidGrantSession == ~revoked /\ binding # Nobody /\ binding \notin ended

\* find returns the artifact, consumed or not, and the provider its grant.
Usable(a) == Stored(a) /\ ValidGrantSession /\ grantRow

\* Mutant of Consumable: what find returned is taken for granted.
ConsumableAsFound(a) == Stored(a)

\* consume reads the row again in its transaction.
Consumable(a) == artifact[a] = "live"

Deleted == [a \in Artifacts |-> IF Stored(a) THEN "gone" ELSE artifact[a]]

\* Mutant of RevokeByGrantId: the artifacts go, nothing remembers that they did.
RevokeArtifactsOnly == artifact' = Deleted /\ UNCHANGED <<revoked, grantRow>>

\* One transaction: the marker, the family's artifacts, the grant itself.
RevokeByGrantId ==
  /\ revoked' = TRUE
  /\ artifact' = Deleted
  /\ grantRow' = FALSE

\* upsert of a new artifact under the grant.
Upsert ==
  IF ValidGrantSession
  THEN \E a \in Artifacts : /\ artifact[a] = "unused"
                            /\ artifact' = [artifact EXCEPT ![a] = "live"]
  ELSE UNCHANGED artifact

At(r, step) == request[r].step = step

Goto(r, step) == request' = [request EXCEPT ![r].step = step]

----------------------------------------------------------------------------
\* A client presents an artifact of the family.
Find(r, a) ==
  /\ At(r, "idle") /\ Usable(a)
  /\ request' = [request EXCEPT ![r] = [step |-> "found", presented |-> a]]
  /\ UNCHANGED <<artifact, grantRow, revoked, binding, ended, consented, logout,
                 stops, winners, disowned>>

\* Expired or deleted: refused.  Consumed before: the family has to go.
Consume(r) ==
  LET a == request[r].presented IN
  /\ At(r, "found")
  /\ \/ /\ Consumable(a)
        /\ artifact' = [artifact EXCEPT ![a] = "consumed"]
        /\ winners' = [winners EXCEPT ![a] = @ \cup {r}]
        /\ Goto(r, "consumed")
     \/ /\ ~Consumable(a)
        /\ Goto(r, IF artifact[a] = "consumed" THEN "replayed" ELSE "over")
        /\ UNCHANGED <<artifact, winners>>
  /\ UNCHANGED <<grantRow, revoked, binding, ended, consented, logout, stops, disowned>>

\* A transaction of its own, before the client is answered.
RevokeReplayed(r) ==
  /\ At(r, "replayed")
  /\ RevokeByGrantId
  /\ Goto(r, "over") /\ disowned' = TRUE
  /\ UNCHANGED <<binding, ended, consented, logout, stops, winners>>

Replace(r) ==
  /\ At(r, "consumed")
  /\ Upsert
  /\ Goto(r, "over")
  /\ UNCHANGED <<grantRow, revoked, binding, ended, consented, logout, stops,
                 winners, disowned>>

\* The process answering a request stops.
RequestStops(r) ==
  /\ request[r].step \in {"found", "consumed", "replayed"} /\ stops < MaxStops
  /\ Goto(r, "over") /\ stops' = stops + 1
  /\ UNCHANGED <<artifact, grantRow, revoked, binding, ended, consented, logout,
                 winners, disowned>>

Expire(a) ==
  /\ Stored(a)
  /\ artifact' = [artifact EXCEPT ![a] = "gone"]
  /\ UNCHANGED <<grantRow, revoked, binding, ended, request, consented, logout,
                 stops, winners, disowned>>

----------------------------------------------------------------------------
\* The account, or an administrator, revokes a grant that accountGrants lists.
RevokeGrant ==
  /\ grantRow /\ ValidGrantSession
  /\ RevokeByGrantId
  /\ disowned' = TRUE
  /\ UNCHANGED <<binding, ended, request, consented, logout, stops, winners>>

\* rotateClientSecret with revokeTokens, or updateClient narrowing the client.
PurgeClientArtifacts ==
  /\ grantRow
  /\ artifact' = Deleted /\ grantRow' = FALSE
  /\ disowned' = TRUE
  /\ UNCHANGED <<revoked, binding, ended, request, consented, logout, stops, winners>>

EndSession(s) ==
  /\ s \notin ended
  /\ ended' = ended \cup {s}
  /\ UNCHANGED <<artifact, grantRow, revoked, binding, request, consented, logout,
                 stops, winners, disowned>>

\* completeInteraction extends the grant it finds and binds it to the session
\* that consents now; without a valid one it makes another grant.
CompleteInteraction(s) ==
  /\ s \notin ended /\ grantRow /\ ValidGrantSession /\ ~consented
  /\ binding' = s /\ consented' = TRUE
  /\ UNCHANGED <<artifact, grantRow, revoked, ended, request, logout, stops,
                 winners, disowned>>

\* The provider resumes and issues the code.
IssueCode ==
  /\ consented /\ consented' = FALSE
  /\ Upsert
  /\ UNCHANGED <<grantRow, revoked, binding, ended, request, logout, stops,
                 winners, disowned>>

----------------------------------------------------------------------------
\* logoutEndedSessions reads the bindings, then their sessions and the Grant
\* rows, outside of a transaction ...
LogoutRead ==
  /\ logout.step = "idle" /\ binding # Nobody
  /\ logout' = [step |-> "judge", read |-> binding]
  /\ UNCHANGED <<artifact, grantRow, revoked, binding, ended, request, consented,
                 stops, winners, disowned>>

\* Mutant of LogoutJudge: an ended binding whose grant is gone is left alone.
LogoutJudgeGranted ==
  /\ logout.step = "judge"
  /\ logout' = IF logout.read \notin ended \/ ~grantRow THEN NoLogout
               ELSE [logout EXCEPT !.step = "revoke"]
  /\ UNCHANGED <<artifact, grantRow, revoked, binding, ended, request, consented,
                 stops, winners, disowned>>

LogoutJudge ==
  /\ logout.step = "judge"
  /\ logout' = IF logout.read \notin ended THEN NoLogout
               ELSE [logout EXCEPT !.step = IF grantRow THEN "revoke" ELSE "unbind"]
  /\ UNCHANGED <<artifact, grantRow, revoked, binding, ended, request, consented,
                 stops, winners, disowned>>

\* ... revokes those grants one by one, and deletes the bindings at the end.
LogoutRevoke ==
  /\ logout.step = "revoke"
  /\ RevokeByGrantId
  /\ logout' = [logout EXCEPT !.step = "unbind"]
  /\ UNCHANGED <<binding, ended, request, consented, stops, winners, disowned>>

LogoutUnbind ==
  /\ logout.step = "unbind"
  /\ binding' = Nobody /\ logout' = NoLogout
  /\ disowned' = TRUE
  /\ UNCHANGED <<artifact, grantRow, revoked, ended, request, consented, stops, winners>>

LogoutStops ==
  /\ logout.step # "idle" /\ stops < MaxStops
  /\ logout' = NoLogout /\ stops' = stops + 1
  /\ UNCHANGED <<artifact, grantRow, revoked, binding, ended, request, consented,
                 winners, disowned>>

----------------------------------------------------------------------------
Logout == LogoutRead \/ LogoutJudge \/ LogoutRevoke \/ LogoutUnbind

Next ==
  \/ \E r \in Requests : Consume(r) \/ RevokeReplayed(r) \/ Replace(r) \/ RequestStops(r)
  \/ \E r \in Requests, a \in Artifacts : Find(r, a)
  \/ \E a \in Artifacts : Expire(a)
  \/ \E s \in Sessions : EndSession(s) \/ CompleteInteraction(s)
  \/ RevokeGrant \/ PurgeClientArtifacts \/ IssueCode
  \/ Logout \/ LogoutStops

Spec == Init /\ [][Next]_vars

\* A host runs logoutEndedSessions on a schedule.
FairSpec == Spec /\ WF_vars(Logout)

----------------------------------------------------------------------------
\* However many requests present a code or refresh token at once, one of them
\* gets its successor.
ConsumedOnce == \A a \in Artifacts : Cardinality(winners[a]) <= 1

\* Once a replay was refused, or the grant revoked, or the client's tokens, or
\* the ended session logged out, nothing of the family works again: not even
\* what a request that was already under way stores afterwards.
DisownedStaysDead == disowned => \A a \in Artifacts : ~Usable(a)

\* A session that ended loses its grant: the logout gets there even when it
\* stopped half way, and a consent that moved the grant meanwhile does not
\* keep it.
EndedIsLoggedOut == (binding \in ended) ~> (binding \notin ended)

=============================================================================
