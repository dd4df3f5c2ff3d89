--------------------------- MODULE SessionProofs ----------------------------
(***************************************************************************)
(* What somebody ended stays ended, for any number of sessions, people,    *)
(* tenants and clock ticks.                                                *)
(*                                                                         *)
(* EndedStayEnded is not inductive: a session token whose row is still     *)
(* there is refused only because its source is gone, and a role assumed    *)
(* from that token only because the source of its source is.  The          *)
(* invariant says so (Over), together with what makes it last: ids are     *)
(* never used twice, so a row that is gone does not come back, and a       *)
(* stored row keeps its kind and its source.                               *)
(*                                                                         *)
(* From the section on the tenant tree onwards: nobody is stranded under   *)
(* an inactive tenant, so derived credentials need their sources, and      *)
(* nobody has more sessions than the cap.                                  *)
(***************************************************************************)
EXTENDS SessionProperties, FiniteSetTheorems, TLAPS

Derived == {"session-token", "role", "impersonation"}

\* What may be the source of what.
SourceKinds(k) ==
  CASE k = "impersonation" -> {"user"}
    [] k = "session-token" -> {"user", "api-key"}
    [] k = "role" -> {"user", "api-key", "session-token"}
    [] OTHER -> {}

\* A session that is over for good.
Over(s) ==
  \/ row[s] # "stored"
  \/ kind[s] \in Derived /\ row[source[s]] # "stored"
  \/ /\ kind[s] = "role" /\ kind[source[s]] = "session-token"
     /\ row[source[source[s]]] # "stored"

\* A stored row is complete, and its source existed and was of a kind that
\* may be one.
RowsSound ==
  \A s \in Sessions : row[s] = "stored" =>
    /\ kind[s] \in Derived =>
         /\ source[s] \in Sessions /\ row[source[s]] # "unused"
         /\ row[source[s]] = "stored" => kind[source[s]] \in SourceKinds(kind[s])
    /\ kind[s] \in {"user", "api-key"} => source[s] = None
    /\ kind[s] # None

EndedOver == \A s \in ended : row[s] # "unused" /\ Over(s)

Inv == TypeOK /\ RowsSound /\ EndedOver

-----------------------------------------------------------------------------
(* The shape of a write *)

\* The new row: none, or a fresh id with a source it may have.
Newcomer(s, k, i, src, exp, m) ==
  \/ s = None
  \/ /\ s \in Sessions /\ row[s] = "unused"
     /\ k \in Kinds /\ i \in Identities /\ exp \in Nat /\ m \in BOOLEAN
     /\ IF k \in Derived
        THEN src \in Sessions /\ row[src] = "stored" /\ kind[src] \in SourceKinds(k)
        ELSE src = None

\* Rows that may be deleted: stored ones, and the newcomer.
Removable(s, gone) ==
  gone \subseteq Sessions /\ \A x \in gone : row[x] = "stored" \/ x = s

\* The part of TypeOK that a write can disturb.
RowTypes ==
  /\ row \in [Sessions -> {"unused", "stored", "deleted"}]
  /\ kind \in [Sessions -> Kinds \cup {None}]
  /\ who \in [Sessions -> Identities \cup {None}]
  /\ source \in [Sessions -> Sessions \cup {None}]
  /\ created \in [Sessions -> Nat]
  /\ expires \in [Sessions -> Nat]
  /\ mfa \in [Sessions -> BOOLEAN]
  /\ \A s \in Sessions : row[s] = "stored" <=> who[s] # None
  /\ \A s \in Sessions : row[s] # "stored" => expires[s] = 0

\* A write keeps the fields of the session rows well-typed.
LEMMA WriteTypes ==
  ASSUME NEW s, NEW k, NEW i, NEW src, NEW exp, NEW m, NEW gone,
         RowTypes, now \in Nat,
         Newcomer(s, k, i, src, exp, m), Removable(s, gone),
         Write(s, k, i, src, exp, m, gone)
  PROVE  RowTypes'
<1>1. None \notin Sessions /\ None \notin Identities
  BY SessionsAssumption DEF Identities
<1>2. row' \in [Sessions -> {"unused", "stored", "deleted"}]
  BY DEF RowTypes, Write
<1>3. kind' \in [Sessions -> Kinds \cup {None}]
  BY <1>1 DEF RowTypes, Write, Newcomer
<1>4. who' \in [Sessions -> Identities \cup {None}]
  BY <1>1 DEF RowTypes, Write, Newcomer
<1>5. source' \in [Sessions -> Sessions \cup {None}]
  BY <1>1 DEF RowTypes, Write, Newcomer
<1>6. created' \in [Sessions -> Nat] /\ expires' \in [Sessions -> Nat]
  BY <1>1 DEF RowTypes, Write, Newcomer
<1>7. mfa' \in [Sessions -> BOOLEAN]
  <2>1. \A x \in Sessions : x = s => m \in BOOLEAN
    BY <1>1 DEF Newcomer
  <2> QED BY <2>1 DEF RowTypes, Write
<1>8. \A x \in Sessions : row'[x] = "stored" <=> who'[x] # None
  BY <1>1 DEF RowTypes, Write, Newcomer
<1>9. \A x \in Sessions : row'[x] # "stored" => expires'[x] = 0
  BY <1>1 DEF RowTypes, Write, Newcomer
<1> QED BY <1>2, <1>3, <1>4, <1>5, <1>6, <1>7, <1>8, <1>9 DEF RowTypes

\* A write leaves every stored row sound: what was stored keeps its kind and
\* source, and a source that goes was there.
LEMMA WriteSound ==
  ASSUME NEW s, NEW k, NEW i, NEW src, NEW exp, NEW m, NEW gone,
         RowTypes, RowsSound,
         Newcomer(s, k, i, src, exp, m), Removable(s, gone),
         Write(s, k, i, src, exp, m, gone)
  PROVE  RowsSound'
<1> SUFFICES ASSUME NEW x \in Sessions, row'[x] = "stored"
             PROVE  /\ kind'[x] \in Derived =>
                         /\ source'[x] \in Sessions /\ row'[source'[x]] # "unused"
                         /\ row'[source'[x]] = "stored"
                              => kind'[source'[x]] \in SourceKinds(kind'[x])
                    /\ kind'[x] \in {"user", "api-key"} => source'[x] = None
                    /\ kind'[x] # None
  BY DEF RowsSound
<1>1. None \notin Sessions
  BY SessionsAssumption
<1>2. x \notin gone
  BY DEF Write
<1>3. \A y \in Sessions : row[y] # "unused" => row'[y] # "unused"
  BY DEF Write
<1>4. \A y \in Sessions : row'[y] = "stored" /\ y # s =>
        row[y] = "stored" /\ kind'[y] = kind[y] /\ source'[y] = source[y]
  BY DEF Write
<1>5. CASE x # s
  <2>1. row[x] = "stored" /\ kind'[x] = kind[x] /\ source'[x] = source[x]
    BY <1>4, <1>5
  <2>2. ASSUME kind[x] \in Derived
        PROVE  /\ source[x] \in Sessions /\ row'[source[x]] # "unused"
               /\ row'[source[x]] = "stored" => kind'[source[x]] \in SourceKinds(kind[x])
    <3>1. source[x] \in Sessions /\ row[source[x]] # "unused"
      BY <2>1, <2>2 DEF RowsSound
    <3>2. source[x] # s
      BY <1>1, <3>1 DEF Newcomer
    <3> QED BY <1>3, <1>4, <2>1, <2>2, <3>1, <3>2 DEF RowsSound
  <2> QED BY <2>1, <2>2 DEF RowsSound
<1>6. CASE x = s
  <2>1. kind'[x] = k /\ source'[x] = src /\ k \in Kinds
    BY <1>1, <1>2, <1>6 DEF Write, Newcomer
  <2>2. ASSUME k \in Derived
        PROVE  /\ src \in Sessions /\ row'[src] # "unused"
               /\ row'[src] = "stored" => kind'[src] \in SourceKinds(k)
    <3>1. src \in Sessions /\ row[src] = "stored" /\ kind[src] \in SourceKinds(k)
      BY <1>1, <1>6, <2>2 DEF Newcomer
    <3>2. src # s
      BY <1>1, <3>1 DEF Newcomer
    <3> QED BY <1>3, <1>4, <3>1, <3>2
  <2>3. k # None
    BY SessionsAssumption, <1>1, <1>6 DEF Newcomer, Kinds
  <2>4. k \in {"user", "api-key"} => src = None
    BY <1>1, <1>6 DEF Newcomer, Derived
  <2> QED BY <2>1, <2>2, <2>3, <2>4
<1> QED BY <1>5, <1>6

\* What is over stays over through a write.
LEMMA OverStable ==
  ASSUME NEW s, NEW k, NEW i, NEW src, NEW exp, NEW m, NEW gone,
         RowTypes, RowsSound,
         Newcomer(s, k, i, src, exp, m), Removable(s, gone),
         Write(s, k, i, src, exp, m, gone),
         NEW x \in Sessions, row[x] # "unused", Over(x)
  PROVE  row'[x] # "unused" /\ Over(x)'
<1>1. x # s
  BY SessionsAssumption DEF Newcomer
<1>2. \A y \in Sessions : row[y] # "unused" => y # s /\ row'[y] # "unused"
  BY SessionsAssumption DEF Newcomer, Write
<1>3. \A y \in Sessions : row[y] # "unused" /\ row'[y] = "stored" =>
        row[y] = "stored" /\ kind'[y] = kind[y] /\ source'[y] = source[y]
  BY <1>2 DEF Write
<1>4. CASE row'[x] # "stored"
  BY <1>2, <1>4 DEF Over
<1>5. CASE row'[x] = "stored"
  <2>1. row[x] = "stored" /\ kind'[x] = kind[x] /\ source'[x] = source[x]
    BY <1>3, <1>5
  <2>2. kind[x] \in Derived
    BY <2>1 DEF Over, Derived
  <2>3. source[x] \in Sessions /\ row[source[x]] # "unused"
    BY <2>1, <2>2 DEF RowsSound
  <2>4. CASE row'[source[x]] # "stored"
    BY <1>2, <2>1, <2>2, <2>4 DEF Over
  <2>5. CASE row'[source[x]] = "stored"
    <3> DEFINE y == source[x]
    <3>1. row[y] = "stored" /\ kind'[y] = kind[y] /\ source'[y] = source[y]
      BY <1>3, <2>3, <2>5
    <3>2. kind[x] = "role" /\ kind[y] = "session-token" /\ row[source[y]] # "stored"
      BY <2>1, <3>1 DEF Over
    <3>3. source[y] \in Sessions /\ row[source[y]] # "unused"
      BY <2>3, <3>1, <3>2 DEF RowsSound, Derived
    <3>4. row'[source[y]] # "stored"
      BY <1>3, <3>2, <3>3
    <3> QED BY <1>2, <2>1, <3>1, <3>2, <3>4 DEF Over
  <2> QED BY <2>4, <2>5
<1> QED BY <1>4, <1>5

\* A write that deletes S ends everything derived from S.
LEMMA WriteEnds ==
  ASSUME NEW s, NEW k, NEW i, NEW src, NEW exp, NEW m, NEW gone, NEW S,
         RowTypes, RowsSound, EndedOver, ended \subseteq Sessions,
         Newcomer(s, k, i, src, exp, m), Removable(s, gone),
         Write(s, k, i, src, exp, m, gone),
         S \subseteq gone, ended' = ended \cup Family(S)
  PROVE  EndedOver' /\ ended' \subseteq Sessions
<1>1. None \notin Sessions
  BY SessionsAssumption
<1>2. S \subseteq Sessions /\ \A x \in S : row'[x] = "deleted"
  BY DEF Removable, Write
<1>3. \A T : From(T) = {x \in Sessions : row[x] = "stored" /\ source[x] \in T}
  BY DEF From, Rows, Stored
<1>4. Family(S) \subseteq Sessions
  BY <1>2, <1>3 DEF Family
<1>5. \A y \in Sessions : row[y] = "stored" =>
        /\ y # s /\ row'[y] \in {"stored", "deleted"}
        /\ row'[y] = "stored" => kind'[y] = kind[y] /\ source'[y] = source[y]
  BY <1>1 DEF Newcomer, Write
<1>6. ASSUME NEW x \in From(S)
      PROVE  row'[x] # "unused" /\ Over(x)' /\ kind[x] \in Derived /\ x \in Sessions
  <2>1. x \in Sessions /\ row[x] = "stored" /\ source[x] \in S
    BY <1>3, <1>6
  <2>2. kind[x] \in Derived
    <3>1. source[x] # None
      BY <1>1, <1>2, <2>1
    <3>2. kind[x] \in Kinds
      BY <2>1 DEF RowTypes, RowsSound
    <3> QED BY <2>1, <3>1, <3>2 DEF RowsSound, Kinds, Derived
  <2> QED BY <1>2, <1>5, <2>1, <2>2 DEF Over
<1>7. ASSUME NEW x \in From(From(S))
      PROVE  row'[x] # "unused" /\ Over(x)'
  <2> DEFINE y == source[x]
  <2>1. x \in Sessions /\ row[x] = "stored" /\ y \in From(S)
    BY <1>3, <1>7
  <2>2. y \in Sessions /\ row[y] = "stored" /\ source[y] \in S /\ kind[y] \in Derived
    BY <1>3, <1>6, <2>1
  <2>3. kind[x] \in Derived
    <3>1. y # None
      BY <1>1, <2>2
    <3>2. kind[x] \in Kinds
      BY <2>1 DEF RowTypes, RowsSound
    <3> QED BY <2>1, <3>1, <3>2 DEF RowsSound, Kinds, Derived
  <2>4. kind[x] = "role" /\ kind[y] = "session-token"
    BY <2>1, <2>2, <2>3 DEF RowsSound, SourceKinds, Derived
  <2>5. row'[source[y]] = "deleted"
    BY <1>2, <2>2
  <2> QED BY <1>5, <2>1, <2>2, <2>3, <2>4, <2>5 DEF Over
<1>8. ASSUME NEW x \in ended
      PROVE  row'[x] # "unused" /\ Over(x)'
  BY <1>8, OverStable DEF EndedOver
<1>9. ASSUME NEW x \in S
      PROVE  row'[x] # "unused" /\ Over(x)'
  BY <1>2, <1>9 DEF Over
<1> QED BY <1>4, <1>6, <1>7, <1>8, <1>9 DEF EndedOver, Family

-----------------------------------------------------------------------------
(* Steps *)

\* The part of TypeOK that no write of rows disturbs.
OtherTypes ==
  /\ parent \in [Tenants -> Tenants]
  /\ tenantStatus \in [Tenants -> TenantStatuses]
  /\ requireMfa \in [Tenants -> MfaPolicies]
  /\ allowImpersonation \in [Tenants -> BOOLEAN]
  /\ identityStatus \in [Identities -> {"active", "disabled", "deleted"}]
  /\ watermark \in Nat /\ trustRevoked \in BOOLEAN
  /\ now \in Nat /\ changes \in 0..MaxChanges
  /\ refused \subseteq Sessions

LEMMA TypeParts == TypeOK <=> OtherTypes /\ RowTypes /\ ended \subseteq Sessions
  BY DEF TypeOK, OtherTypes, RowTypes

\* A write that deletes S and ends S preserves the invariant.
LEMMA EndingWrite ==
  ASSUME NEW s, NEW k, NEW i, NEW src, NEW exp, NEW m, NEW gone, NEW S,
         Inv, OtherTypes',
         Newcomer(s, k, i, src, exp, m), Removable(s, gone),
         Write(s, k, i, src, exp, m, gone),
         S \subseteq gone, ended' = ended \cup Family(S)
  PROVE  Inv'
<1>1. RowTypes /\ RowsSound /\ EndedOver /\ ended \subseteq Sessions /\ now \in Nat
  BY TypeParts DEF Inv, OtherTypes
<1>2. RowTypes'
  BY <1>1, WriteTypes
<1>3. RowsSound'
  BY <1>1, WriteSound
<1>4. EndedOver' /\ ended' \subseteq Sessions
  BY <1>1, WriteEnds
<1>5. TypeOK'
  BY <1>2, <1>4, TypeParts DEF TypeOK, OtherTypes, RowTypes
<1> QED BY <1>3, <1>4, <1>5 DEF Inv

\* A write that ends nothing preserves it too.
LEMMA PlainWrite ==
  ASSUME NEW s, NEW k, NEW i, NEW src, NEW exp, NEW m, NEW gone,
         Inv, OtherTypes',
         Newcomer(s, k, i, src, exp, m), Removable(s, gone),
         Write(s, k, i, src, exp, m, gone), ended' = ended
  PROVE  Inv'
<1>1. Family({}) = {}
  BY DEF Family, From, Rows
<1>2. ended' = ended \cup Family({})
  BY <1>1
<1> QED BY <1>2, EndingWrite

\* Deleting stored rows is a write without a newcomer.
LEMMA Deletion ==
  ASSUME NEW gone, Inv, OtherTypes', Delete(gone),
         gone \subseteq {x \in Sessions : row[x] = "stored"},
         NEW S, S \subseteq gone, ended' = ended \cup Family(S)
  PROVE  Inv'
<1>1. Newcomer(None, None, None, None, 0, FALSE) /\ Removable(None, gone)
  BY DEF Newcomer, Removable
<1> QED BY <1>1, EndingWrite DEF Delete

\* The same, ending a set of sessions with their impersonations.
LEMMA Ending ==
  ASSUME NEW S, Inv, OtherTypes', EndSessions(S),
         S \subseteq {x \in Sessions : row[x] = "stored"}
  PROVE  Inv'
<1>1. Ended(S) \subseteq {x \in Sessions : row[x] = "stored"} /\ S \subseteq Ended(S)
  BY DEF Ended, From, Rows, Stored
<1> QED BY <1>1, Deletion DEF EndSessions, Ends

\* Steps that leave the rows alone.
LEMMA RowsAlone ==
  ASSUME Inv, OtherTypes', UNCHANGED <<rows, ended>>
  PROVE  Inv'
  BY TypeParts DEF Inv, TypeOK, OtherTypes, RowTypes, RowsSound, EndedOver, Over, rows, fields

\* What acceptance says of a source.
LEMMA Sources ==
  ASSUME Inv, NEW a
  PROVE  /\ UserAccepted(a) => a \in Sessions /\ row[a] = "stored" /\ kind[a] = "user"
         /\ InOwnRight(a) =>
              a \in Sessions /\ row[a] = "stored" /\ kind[a] \in {"user", "api-key"}
         /\ TokenAccepted(a) =>
              a \in Sessions /\ row[a] = "stored" /\ kind[a] = "session-token"
  BY DEF InOwnRight, UserAccepted, KeyAccepted, TokenAccepted, Live, Stored

LEMMA EarlierType == \A a, b \in Nat : Earlier(a, b) \in Nat
  BY DEF Earlier

\* What a derived credential takes over from its source a.
LEMMA Inherited ==
  ASSUME Inv, NEW a \in Sessions, NEW d \in Durations
  PROVE  Earlier(expires[a], now + d) \in Nat /\ mfa[a] \in BOOLEAN
<1>1. d \in Nat
  BY SessionsAssumption
<1>2. now \in Nat /\ expires[a] \in Nat
  BY TypeParts DEF Inv, OtherTypes, RowTypes
<1>3. mfa[a] \in BOOLEAN
  <2>1. mfa \in [Sessions -> BOOLEAN]
    BY TypeParts DEF Inv, RowTypes
  <2> QED BY <2>1
<1>4. now + d \in Nat
  BY <1>1, <1>2
<1> QED BY <1>2, <1>3, <1>4, EarlierType

LEMMA OthersAlone ==
  OtherTypes /\ UNCHANGED <<admin, trust, now, refused>> => OtherTypes'
  BY DEF OtherTypes, admin, tenancy, trust

\* Every way to issue preserves the invariant.
LEMMA IssueInv ==
  ASSUME Inv, Issue
  PROVE  Inv'
<1>1. PICK s \in Sessions :
        \/ \E i \in Users, m \in BOOLEAN : IssueSession(s, i, m)
        \/ \E a \in Sessions, i \in Users, d \in Durations : IssueImpersonationSession(s, a, i, d)
        \/ \E src \in Sessions, d \in Durations : IssueSessionToken(s, src, d)
        \/ \E src \in Sessions, d \in Durations : AssumeRole(s, src, d)
        \/ \E i \in Machines, d \in Durations : CreateKey(s, i, d)
        \/ \E old \in Sessions : RotateKey(old, s)
  BY DEF Issue
<1>2. OtherTypes /\ RowTypes
  BY TypeParts DEF Inv
<1>3. now \in Nat /\ Durations \subseteq Nat /\ Lifetime \in Nat
  BY <1>2, SessionsAssumption DEF OtherTypes
<1>4. UNCHANGED <<admin, trust, now, refused>> => OtherTypes'
  BY <1>2, OthersAlone
<1>5. ASSUME NEW i \in Users, NEW m \in BOOLEAN, IssueSession(s, i, m) PROVE Inv'
  <2>1. PICK old \in SUBSET Sessions :
          /\ Evicted(s, i, old)
          /\ Write(s, "user", i, None, now + Lifetime, m, Ended(old))
          /\ Ends(old)
    BY <1>5 DEF IssueSession
  <2>2. row[s] = "unused" /\ OtherTypes'
    BY <1>4, <1>5 DEF IssueSession, Fresh, admin
  <2>3. Newcomer(s, "user", i, None, now + Lifetime, m)
    BY <1>3, <2>2 DEF Newcomer, Kinds, Derived, Identities
  <2>4. Removable(s, Ended(old)) /\ old \subseteq Ended(old)
    <3>1. \A x \in old : row[x] = "stored" \/ x = s
      BY <2>1 DEF Evicted, Rows, Stored
    <3> QED BY <3>1 DEF Removable, Ended, From, Rows, Stored
  <2> QED BY <2>1, <2>2, <2>3, <2>4, EndingWrite DEF Ends
<1>6. ASSUME NEW a \in Sessions, NEW i \in Users, NEW d \in Durations,
             IssueImpersonationSession(s, a, i, d)
      PROVE  Inv'
  <2> DEFINE exp == Earlier(expires[a], now + d)
  <2>1. /\ row[s] = "unused" /\ OtherTypes' /\ ended' = ended
        /\ row[a] = "stored" /\ kind[a] = "user"
        /\ Write(s, "impersonation", i, a, exp, mfa[a], {})
    BY <1>4, <1>6, Sources DEF IssueImpersonationSession, Fresh
  <2>2. exp \in Nat /\ mfa[a] \in BOOLEAN
    BY Inherited
  <2>3. Newcomer(s, "impersonation", i, a, exp, mfa[a])
    BY <2>1, <2>2 DEF Newcomer, Kinds, Derived, SourceKinds, Identities
  <2>4. Removable(s, {})
    BY DEF Removable
  <2> QED BY <2>1, <2>3, <2>4, PlainWrite
<1>7. ASSUME NEW src \in Sessions, NEW d \in Durations, IssueSessionToken(s, src, d)
      PROVE  Inv'
  <2> DEFINE exp == Earlier(expires[src], now + d)
             dead == {x \in Rows(LAMBDA x : kind[x] = "session-token" /\ who[x] = who[src]) : Dead(x)}
  <2>1. /\ row[s] = "unused" /\ OtherTypes' /\ ended' = ended
        /\ row[src] = "stored" /\ kind[src] \in {"user", "api-key"}
        /\ Write(s, "session-token", who[src], src, exp, mfa[src], dead)
    BY <1>4, <1>7, Sources DEF IssueSessionToken, Fresh
  <2>2. exp \in Nat /\ mfa[src] \in BOOLEAN /\ who[src] \in Identities
    BY <1>2, <2>1, Inherited DEF RowTypes
  <2>3. Newcomer(s, "session-token", who[src], src, exp, mfa[src])
    BY <2>1, <2>2 DEF Newcomer, Kinds, Derived, SourceKinds
  <2>4. Removable(s, dead)
    BY DEF Removable, Rows, Stored
  <2> QED BY <2>1, <2>3, <2>4, PlainWrite
<1>8. ASSUME NEW src \in Sessions, NEW d \in Durations, AssumeRole(s, src, d)
      PROVE  Inv'
  <2> DEFINE exp == Earlier(expires[src], now + d)
  <2>1. /\ row[s] = "unused" /\ OtherTypes' /\ ended' = ended
        /\ row[src] = "stored" /\ kind[src] \in {"user", "api-key", "session-token"}
        /\ Write(s, "role", Trusted, src, exp, mfa[src], {})
    BY <1>4, <1>8, Sources DEF AssumeRole, Fresh
  <2>2. exp \in Nat /\ mfa[src] \in BOOLEAN /\ Trusted \in Identities
    BY Inherited, SessionsAssumption
  <2>3. Newcomer(s, "role", Trusted, src, exp, mfa[src])
    BY <2>1, <2>2 DEF Newcomer, Kinds, Derived, SourceKinds
  <2>4. Removable(s, {})
    BY DEF Removable
  <2> QED BY <2>1, <2>3, <2>4, PlainWrite
<1>9. ASSUME NEW i \in Machines, NEW d \in Durations, CreateKey(s, i, d) PROVE Inv'
  <2>1. /\ row[s] = "unused" /\ OtherTypes' /\ ended' = ended
        /\ Write(s, "api-key", i, None, now + d, FALSE, {})
    BY <1>4, <1>9 DEF CreateKey, Fresh
  <2>2. Newcomer(s, "api-key", i, None, now + d, FALSE) /\ Removable(s, {})
    BY <1>3, <2>1 DEF Newcomer, Removable, Kinds, Derived, Identities
  <2> QED BY <2>1, <2>2, PlainWrite
<1>10. ASSUME NEW old \in Sessions, RotateKey(old, s) PROVE Inv'
  <2>1. /\ row[s] = "unused" /\ row[old] = "stored" /\ OtherTypes'
        /\ Write(s, "api-key", who[old], None, expires[old], FALSE, {old})
        /\ ended' = ended \cup Family({old})
    BY <1>4, <1>10 DEF RotateKey, Fresh, Stored, Ends
  <2>2. who[old] \in Identities /\ expires[old] \in Nat
    BY <1>2, <2>1 DEF RowTypes
  <2>3. Newcomer(s, "api-key", who[old], None, expires[old], FALSE) /\ Removable(s, {old})
    BY <2>1, <2>2 DEF Newcomer, Removable, Kinds, Derived
  <2> QED BY <2>1, <2>3, EndingWrite
<1> QED BY <1>1, <1>5, <1>6, <1>7, <1>8, <1>9, <1>10

\* Every way to end sessions preserves the invariant.
LEMMA RevokeInv ==
  ASSUME Inv, Revoke
  PROVE  Inv'
<1> DEFINE stored == {x \in Sessions : row[x] = "stored"}
<1>1. OtherTypes
  BY TypeParts DEF Inv
<1>2. UNCHANGED <<admin, trust, now, refused>> => OtherTypes'
  BY <1>1, OthersAlone
<1>3. ASSUME NEW s \in Sessions, RevokeKey(s) PROVE Inv'
  <2>1. OtherTypes' /\ Delete({s}) /\ {s} \subseteq stored /\ ended' = ended \cup Family({s})
    BY <1>2, <1>3 DEF RevokeKey, Stored, Ends
  <2> QED BY <2>1, Deletion
<1>4. ASSUME NEW s \in Sessions, SignOut(s) PROVE Inv'
  <2>1. OtherTypes' /\ EndSessions({s}) /\ {s} \subseteq stored
    BY <1>2, <1>4 DEF SignOut, UserAccepted, ImpersonationAccepted, Live, Stored
  <2> QED BY <2>1, Ending
<1>5. ASSUME NEW c \in Sessions, RevokeOtherSessions(c) PROVE Inv'
  <2> DEFINE S == Rows(LAMBDA s : kind[s] \in {"user", "impersonation"} /\ who[s] = who[c]) \ {c}
  <2>1. OtherTypes' /\ EndSessions(S) /\ S \subseteq stored
    BY <1>2, <1>5 DEF RevokeOtherSessions, Rows, Stored
  <2> QED BY <2>1, Ending
<1>6. ASSUME NEW i \in Identities, NEW keepApiKeys \in BOOLEAN, RevokeSessions(i, keepApiKeys)
      PROVE  Inv'
  <2> DEFINE S == Rows(LAMBDA s : who[s] = i /\ ~(keepApiKeys /\ kind[s] = "api-key"))
  <2>1. OtherTypes' /\ EndSessions(S) /\ S \subseteq stored
    BY <1>2, <1>6 DEF RevokeSessions, Rows, Stored
  <2> QED BY <2>1, Ending
<1>7. ASSUME NEW t \in Tenants, NEW keep \in Sessions \cup {None}, RevokeTenantSessions(t, keep)
      PROVE  Inv'
  <2> DEFINE S == Rows(LAMBDA s : t \in {TenantOf(s), Home[who[s]]}) \ {keep}
  <2>1. OtherTypes' /\ EndSessions(S) /\ S \subseteq stored
    BY <1>2, <1>7 DEF RevokeTenantSessions, Rows, Stored
  <2> QED BY <2>1, Ending
<1>8. ASSUME NEW before \in 0..MaxTime + 1, RevokeRoleSessions(before) PROVE Inv'
  <2> DEFINE S == Rows(LAMBDA s : kind[s] = "role" /\ created[s] < before)
             gone == Rows(LAMBDA s : kind[s] = "role" /\ created[s] < NextWatermark(before))
  <2>1. /\ watermark' = NextWatermark(before) /\ Delete(gone) /\ ended' = ended \cup Family(S)
        /\ UNCHANGED <<admin, trustRevoked, now, refused>>
    BY <1>8 DEF RevokeRoleSessions, Ends
  <2>2. before \in Nat /\ watermark \in Nat /\ \A s \in Sessions : created[s] \in Nat
    BY <1>1, SessionsAssumption, TypeParts DEF Inv, OtherTypes, RowTypes
  <2>3. NextWatermark(before) \in Nat /\ before <= NextWatermark(before)
    BY <2>2 DEF NextWatermark
  <2>4. OtherTypes'
    BY <1>1, <2>1, <2>3 DEF OtherTypes, admin, tenancy
  <2>5. gone \subseteq stored
    BY DEF Rows, Stored
  <2>6. S \subseteq gone
    <3>1. \A s \in Sessions : created[s] < before => created[s] < NextWatermark(before)
      BY <2>2, <2>3
    <3> QED BY <3>1 DEF Rows, Stored
  <2> QED BY <2>1, <2>4, <2>5, <2>6, Deletion
<1>9. CASE RevokeTrust
  <2> DEFINE S == Rows(LAMBDA s : kind[s] = "role")
  <2>1. /\ trustRevoked' = TRUE /\ Delete(S) /\ ended' = ended \cup Family(S)
        /\ UNCHANGED <<admin, watermark, now, refused>>
    BY <1>9 DEF RevokeTrust, Ends
  <2>2. OtherTypes'
    BY <1>1, <2>1 DEF OtherTypes, admin, tenancy
  <2>3. S \subseteq stored
    BY DEF Rows, Stored
  <2> QED BY <2>1, <2>2, <2>3, Deletion
<1>10. ASSUME NEW i \in Identities, NEW status \in {"active", "disabled"}, SetStatus(i, status)
       PROVE  Inv'
  <2> DEFINE S == Rows(LAMBDA s : who[s] = i)
  <2>1. OtherTypes'
    BY <1>1, <1>10, SessionsAssumption DEF SetStatus, Change, OtherTypes, tenancy, trust
  <2>2. CASE status = "active"
    BY <1>10, <2>1, <2>2, RowsAlone DEF SetStatus
  <2>3. CASE status # "active"
    <3>1. EndSessions(S) /\ S \subseteq stored
      BY <1>10, <2>3 DEF SetStatus, Rows, Stored
    <3> QED BY <2>1, <3>1, Ending
  <2> QED BY <2>2, <2>3
<1>11. ASSUME NEW i \in Identities, DeleteIdentity(i) PROVE Inv'
  <2> DEFINE S == Rows(LAMBDA s : who[s] = i)
  <2>1. OtherTypes'
    BY <1>1, <1>11, SessionsAssumption DEF DeleteIdentity, Change, OtherTypes, tenancy, trust
  <2>2. EndSessions(S) /\ S \subseteq stored
    BY <1>11 DEF DeleteIdentity, Rows, Stored
  <2> QED BY <2>1, <2>2, Ending
<1>12. ASSUME NEW c \in Sessions, NEW s \in Sessions, RevokeSession(c, s) PROVE Inv'
  <2>1. {s} \subseteq stored
    BY <1>12 DEF RevokeSession, Stored
  <2> QED BY <1>2, <1>12, <2>1, Ending DEF RevokeSession
<1> QED
  BY <1>3, <1>4, <1>5, <1>6, <1>7, <1>8, <1>9, <1>10, <1>11, <1>12 DEF Revoke

\* So does everything that happens to tenants.
LEMMA AdministerInv ==
  ASSUME Inv, Administer
  PROVE  Inv'
<1> DEFINE stored == {x \in Sessions : row[x] = "stored"}
<1>1. OtherTypes
  BY TypeParts DEF Inv
<1>2. ASSUME NEW t \in Tenants, NEW status \in {"active", "suspended", "deleted"},
             SetTenantStatus(t, status)
      PROVE  Inv'
  <2> DEFINE S == Rows(LAMBDA s : {TenantOf(s), Home[who[s]]} \cap Subtree(t) # {})
  <2>1. tenantStatus' \in [Tenants -> TenantStatuses]
    BY <1>1, <1>2 DEF SetTenantStatus, OtherTypes, TenantStatuses
  <2>2. OtherTypes'
    BY <1>1, <1>2, <2>1, SessionsAssumption DEF SetTenantStatus, Change, OtherTypes, trust
  <2>3. CASE status = "active"
    BY <1>2, <2>2, <2>3, RowsAlone DEF SetTenantStatus
  <2>4. CASE status # "active"
    <3>1. Delete(S) /\ ended' = ended \cup Family(S)
      BY <1>2, <2>4 DEF SetTenantStatus, Ends
    <3>2. S \subseteq stored
      BY DEF Rows, Stored
    <3> QED BY <2>2, <3>1, <3>2, Deletion
  <2> QED BY <2>3, <2>4
<1>3. ASSUME NEW t \in Tenants, NEW p \in Tenants, Reparent(t, p) PROVE Inv'
  <2>1. OtherTypes'
    BY <1>1, <1>3, SessionsAssumption DEF Reparent, Change, OtherTypes, trust
  <2> QED BY <1>3, <2>1, RowsAlone DEF Reparent
<1>4. ASSUME NEW t \in Tenants, NEW require \in MfaPolicies, NEW allow \in BOOLEAN,
             SetAuthPolicy(t, require, allow)
      PROVE  Inv'
  <2>1. allowImpersonation' \in [Tenants -> BOOLEAN]
    BY <1>1, <1>4 DEF SetAuthPolicy, OtherTypes
  <2>2. OtherTypes'
    BY <1>1, <1>4, <2>1, SessionsAssumption DEF SetAuthPolicy, Change, OtherTypes, trust
  <2> QED BY <1>4, <2>2, RowsAlone DEF SetAuthPolicy
<1>5. ASSUME NEW t \in Tenants, Purge(t) PROVE Inv'
  <2> DEFINE S == Rows(LAMBDA s : {TenantOf(s), Home[who[s]]} \cap Subtree(t) # {})
  <2>1. OtherTypes'
    BY <1>1, <1>5, SessionsAssumption DEF Purge, Change, OtherTypes, trust, TenantStatuses
  <2>2. Delete(S) /\ ended' = ended \cup Family(S)
    BY <1>5 DEF Purge, Ends
  <2>3. S \subseteq stored
    BY DEF Rows, Stored
  <2> QED BY <2>1, <2>2, <2>3, Deletion
<1> QED BY <1>2, <1>3, <1>4, <1>5 DEF Administer

-----------------------------------------------------------------------------
(* The theorems *)

LEMMA InitInv == Init => Inv
<1> SUFFICES ASSUME Init PROVE Inv
  OBVIOUS
<1>1. OtherTypes
  <2>1. changes \in 0..MaxChanges
    BY SessionsAssumption DEF Init
  <2>2. /\ parent \in [Tenants -> Tenants] /\ tenantStatus \in [Tenants -> TenantStatuses]
        /\ requireMfa \in [Tenants -> MfaPolicies]
        /\ identityStatus \in [Identities -> {"active", "disabled", "deleted"}]
    BY SessionsAssumption DEF Init, TenantStatuses
  <2>3. allowImpersonation \in [Tenants -> BOOLEAN]
    BY DEF Init
  <2>4. trustRevoked \in BOOLEAN
    BY DEF Init
  <2>5. watermark \in Nat /\ now \in Nat /\ refused \subseteq Sessions
    BY DEF Init
  <2> QED BY <2>1, <2>2, <2>3, <2>4, <2>5 DEF OtherTypes
<1>2. RowTypes
  BY SessionsAssumption DEF Init, RowTypes
<1>3. RowsSound /\ EndedOver /\ ended \subseteq Sessions
  BY DEF Init, RowsSound, EndedOver
<1> QED BY <1>1, <1>2, <1>3, TypeParts DEF Inv

LEMMA NextInv == Inv /\ [Next]_vars => Inv'
<1> SUFFICES ASSUME Inv, [Next]_vars PROVE Inv'
  OBVIOUS
<1>1. OtherTypes /\ RowTypes
  BY TypeParts DEF Inv
<1>2. CASE Issue
  BY <1>2, IssueInv
<1>3. CASE Revoke
  BY <1>3, RevokeInv
<1>4. CASE Administer
  BY <1>4, AdministerInv
<1>5. ASSUME NEW s \in Sessions, NEW d \in Durations, UpdateKey(s, d) PROVE Inv'
  <2>1. now + d \in Nat
    BY <1>1, SessionsAssumption DEF OtherTypes
  <2>2. row[s] = "stored" /\ expires' = [expires EXCEPT ![s] = now + d]
    BY <1>5 DEF UpdateKey, Stored
  <2>3. UNCHANGED <<admin, row, kind, who, source, created, mfa, trust, now, ended, refused>>
    BY <1>5 DEF UpdateKey
  <2>4. OtherTypes'
    BY <1>1, <2>3, OthersAlone
  <2>5. RowTypes'
    <3>1. expires' \in [Sessions -> Nat]
      BY <1>1, <2>1, <2>2 DEF RowTypes
    <3>2. \A x \in Sessions : row[x] # "stored" => expires'[x] = 0
      BY <1>1, <2>2 DEF RowTypes
    <3> QED BY <1>1, <2>3, <3>1, <3>2 DEF RowTypes
  <2>6. (RowsSound /\ EndedOver /\ ended \subseteq Sessions)'
    BY <2>3, TypeParts DEF Inv, RowsSound, EndedOver, Over
  <2>7. TypeOK'
    BY <2>4, <2>5, <2>6 DEF TypeOK, OtherTypes, RowTypes
  <2> QED BY <2>6, <2>7 DEF Inv
<1>6. ASSUME NEW s \in Sessions, RefuseImpersonation(s) PROVE Inv'
  <2>1. OtherTypes'
    BY <1>1, <1>6 DEF RefuseImpersonation, OtherTypes, admin, tenancy, trust
  <2> QED BY <1>6, <2>1, RowsAlone DEF RefuseImpersonation
<1>7. ASSUME NEW s \in Sessions, Sweep(s) PROVE Inv'
  <2>1. OtherTypes'
    BY <1>1, <1>7, OthersAlone DEF Sweep
  <2>2. Newcomer(None, None, None, None, 0, FALSE) /\ Removable(None, {s})
    BY <1>7 DEF Newcomer, Removable, Sweep, Stored
  <2> QED BY <1>7, <2>1, <2>2, PlainWrite DEF Sweep, Delete
<1>8. CASE Tick
  <2>1. OtherTypes'
    BY <1>1, <1>8 DEF Tick, OtherTypes, admin, tenancy, trust
  <2> QED BY <1>8, <2>1, RowsAlone DEF Tick
<1>9. CASE UNCHANGED vars
  <2>1. OtherTypes'
    BY <1>1, <1>9, OthersAlone DEF vars
  <2> QED BY <1>9, <2>1, RowsAlone DEF vars
<1> QED BY <1>2, <1>3, <1>4, <1>5, <1>6, <1>7, <1>8, <1>9 DEF Next

\* What is over is not accepted: validation follows the sources of a
\* credential to the end.
LEMMA OverRefused ==
  ASSUME Inv, NEW s \in ended
  PROVE  ~Accepted(s)
<1>1. Over(s)
  BY DEF Inv, EndedOver
<1>2. CASE row[s] # "stored"
  BY <1>2 DEF Accepted, InOwnRight, UserAccepted, KeyAccepted, ImpersonationAccepted,
              TokenAccepted, RoleAccepted, Live, Stored
<1>3. CASE kind[s] \in Derived /\ row[source[s]] # "stored"
  BY <1>3 DEF Derived, Accepted, InOwnRight, UserAccepted, KeyAccepted, ImpersonationAccepted,
              ImpersonationSource, TokenAccepted, TokenSource, RoleAccepted, Live, Stored
<1>4. CASE /\ kind[s] = "role" /\ kind[source[s]] = "session-token"
           /\ row[source[source[s]]] # "stored"
  BY <1>4 DEF Accepted, InOwnRight, UserAccepted, KeyAccepted, ImpersonationAccepted,
              TokenAccepted, TokenSource, RoleAccepted, Live, Stored
<1> QED BY <1>1, <1>2, <1>3, <1>4 DEF Over

(* Every reachable state has the shape TypeOK describes, and a deleted row *)
(* leaves nothing behind.                                                  *)
THEOREM TypeCorrect == Spec => []TypeOK
<1>1. Inv => TypeOK
  BY DEF Inv
<1> QED BY InitInv, NextInv, <1>1, PTL DEF Spec

(* What somebody ended is never accepted again, and neither is anything    *)
(* derived from it, whatever is re-enabled, reactivated, moved or renewed  *)
(* afterwards (the validation in principals.ts against every revocation).  *)
THEOREM EndedForGood == Spec => []EndedStayEnded
<1>1. Inv => EndedStayEnded
  BY OverRefused DEF EndedStayEnded
<1> QED BY InitInv, NextInv, <1>1, PTL DEF Spec

-----------------------------------------------------------------------------
(* The tenant tree *)

\* Ancestry is the least set with t in it that is closed under parent.
LEMMA Ancestors ==
  ASSUME parent \in [Tenants -> Tenants], NEW t \in Tenants
  PROVE  /\ Ancestry(t) \subseteq Tenants /\ t \in Ancestry(t)
         /\ \A v \in Ancestry(t) : parent[v] \in Ancestry(t)
         /\ \A S \in SUBSET Tenants :
              t \in S /\ (\A v \in S : parent[v] \in S) => Ancestry(t) \subseteq S
  BY DEF Ancestry

\* What is above an ancestor is an ancestor.
LEMMA AncestorsOfAncestors ==
  ASSUME parent \in [Tenants -> Tenants], NEW t \in Tenants, NEW u \in Ancestry(t)
  PROVE  Ancestry(u) \subseteq Ancestry(t)
<1>1. u \in Tenants /\ Ancestry(t) \in SUBSET Tenants
  BY Ancestors
<1>2. \A v \in Ancestry(t) : parent[v] \in Ancestry(t)
  BY Ancestors
<1> QED BY <1>1, <1>2, Ancestors

ActiveTenants == {t \in Tenants : Active(t)}

\* Nothing but the tenants decides which of them are active.
LEMMA TenancyAlone ==
  UNCHANGED <<parent, tenantStatus>> => ActiveTenants' = ActiveTenants
  BY DEF ActiveTenants, Active, Ancestry

\* A change of status below t leaves alone who is not below t.
LEMMA StatusBelow ==
  ASSUME parent \in [Tenants -> Tenants], parent' = parent, NEW t \in Tenants,
         \A u \in Tenants \ Subtree(t) : tenantStatus'[u] = tenantStatus[u]
  PROVE  ActiveTenants \ Subtree(t) \subseteq ActiveTenants'
<1> SUFFICES ASSUME NEW u \in Tenants, Active(u), u \notin Subtree(t)
             PROVE  u \in ActiveTenants'
  BY DEF ActiveTenants
<1>1. t \notin Ancestry(u)
  BY DEF Subtree
<1>2. \A v \in Ancestry(u) : v \in Tenants \ Subtree(t)
  <2> TAKE v \in Ancestry(u)
  <2>1. v \in Tenants /\ Ancestry(v) \subseteq Ancestry(u)
    BY Ancestors, AncestorsOfAncestors
  <2> QED BY <1>1, <2>1 DEF Subtree
<1>3. \A v \in Ancestry(u) : tenantStatus'[v] = "active"
  BY <1>2 DEF Active
<1>4. Ancestry(u)' = Ancestry(u)
  BY DEF Ancestry
<1> QED BY <1>3, <1>4 DEF ActiveTenants, Active

\* Under an active parent, whoever was active stays so.
LEMMA MovedUnderActive ==
  ASSUME parent \in [Tenants -> Tenants], NEW t \in Tenants, NEW p \in Tenants,
         Active(p), parent' = [parent EXCEPT ![t] = p], tenantStatus' = tenantStatus
  PROVE  ActiveTenants \subseteq ActiveTenants'
<1> SUFFICES ASSUME NEW u \in Tenants, Active(u)
             PROVE  u \in ActiveTenants'
  BY DEF ActiveTenants
<1> DEFINE S == Ancestry(u) \cup Ancestry(p)
<1>1. S \in SUBSET Tenants /\ u \in S /\ p \in S /\ \A v \in S : parent[v] \in S
  BY Ancestors
<1>2. \A v \in S : parent'[v] \in S
  BY <1>1
<1>3. Ancestry(u)' \subseteq S
  <2>1. ASSUME NEW T \in SUBSET Tenants, u \in T, \A v \in T : parent'[v] \in T
        PROVE  Ancestry(u)' \subseteq T
    BY <2>1 DEF Ancestry
  <2> HIDE DEF S
  <2> QED BY <1>1, <1>2, <2>1
<1>4. \A v \in S : tenantStatus'[v] = "active"
  BY DEF Active
<1> QED BY <1>3, <1>4 DEF ActiveTenants, Active

-----------------------------------------------------------------------------
(* Steps that issue nothing *)

\* Every row that is stored afterwards was stored before.
Shrinks ==
  \A x \in Sessions : row'[x] = "stored" =>
    /\ row[x] = "stored" /\ kind'[x] = kind[x] /\ who'[x] = who[x]
    /\ kind[x] = "user" => expires'[x] = expires[x]

LEMMA DeleteShrinks ==
  ASSUME NEW gone, Delete(gone)
  PROVE  Shrinks /\ \A x \in Sessions : x \in gone => row'[x] # "stored"
<1>1. None \notin Sessions
  BY SessionsAssumption
<1> QED BY <1>1 DEF Delete, Write, Shrinks

LEMMA KeepShrinks == UNCHANGED rows => Shrinks
  BY DEF rows, fields, Shrinks

LEMMA RevokeShrinks ==
  ASSUME Revoke
  PROVE  Shrinks /\ UNCHANGED <<parent, tenantStatus, now>>
<1>1. ASSUME NEW S, EndSessions(S) PROVE Shrinks
  BY <1>1, DeleteShrinks DEF EndSessions
<1>2. ASSUME NEW s \in Sessions, RevokeKey(s) \/ SignOut(s) \/ RevokeOtherSessions(s)
      PROVE  Shrinks /\ UNCHANGED <<parent, tenantStatus, now>>
  BY <1>1, <1>2, DeleteShrinks DEF RevokeKey, SignOut, RevokeOtherSessions, admin, tenancy
<1>3. ASSUME NEW c \in Sessions, NEW s \in Sessions, RevokeSession(c, s)
      PROVE  Shrinks /\ UNCHANGED <<parent, tenantStatus, now>>
  BY <1>1, <1>3 DEF RevokeSession, admin, tenancy
<1>4. ASSUME NEW i \in Identities, NEW keepApiKeys \in BOOLEAN, RevokeSessions(i, keepApiKeys)
      PROVE  Shrinks /\ UNCHANGED <<parent, tenantStatus, now>>
  BY <1>1, <1>4 DEF RevokeSessions, admin, tenancy
<1>5. ASSUME NEW t \in Tenants, NEW keep \in Sessions \cup {None}, RevokeTenantSessions(t, keep)
      PROVE  Shrinks /\ UNCHANGED <<parent, tenantStatus, now>>
  BY <1>1, <1>5 DEF RevokeTenantSessions, admin, tenancy
<1>6. ASSUME NEW before \in 0..MaxTime + 1, RevokeRoleSessions(before)
      PROVE  Shrinks /\ UNCHANGED <<parent, tenantStatus, now>>
  BY <1>6, DeleteShrinks DEF RevokeRoleSessions, admin, tenancy
<1>7. ASSUME RevokeTrust PROVE Shrinks /\ UNCHANGED <<parent, tenantStatus, now>>
  BY <1>7, DeleteShrinks DEF RevokeTrust, admin, tenancy
<1>8. ASSUME NEW i \in Identities, NEW status \in {"active", "disabled"}, SetStatus(i, status)
      PROVE  Shrinks /\ UNCHANGED <<parent, tenantStatus, now>>
  BY <1>1, <1>8, KeepShrinks DEF SetStatus, tenancy
<1>9. ASSUME NEW i \in Identities, DeleteIdentity(i)
      PROVE  Shrinks /\ UNCHANGED <<parent, tenantStatus, now>>
  BY <1>1, <1>9 DEF DeleteIdentity, tenancy
<1> QED BY <1>2, <1>3, <1>4, <1>5, <1>6, <1>7, <1>8, <1>9 DEF Revoke

LEMMA AdministerShrinks ==
  ASSUME Administer
  PROVE  Shrinks /\ now' = now
<1>1. ASSUME NEW t \in Tenants, NEW status \in {"active", "suspended", "deleted"},
             SetTenantStatus(t, status)
      PROVE  Shrinks /\ now' = now
  BY <1>1, DeleteShrinks, KeepShrinks DEF SetTenantStatus
<1>2. ASSUME NEW t \in Tenants, NEW p \in Tenants, Reparent(t, p)
      PROVE  Shrinks /\ now' = now
  BY <1>2, KeepShrinks DEF Reparent
<1>3. ASSUME NEW t \in Tenants, NEW require \in MfaPolicies, NEW allow \in BOOLEAN,
             SetAuthPolicy(t, require, allow)
      PROVE  Shrinks /\ now' = now
  BY <1>3, KeepShrinks DEF SetAuthPolicy
<1>4. ASSUME NEW t \in Tenants, Purge(t) PROVE Shrinks /\ now' = now
  BY <1>4, DeleteShrinks DEF Purge
<1> QED BY <1>1, <1>2, <1>3, <1>4 DEF Administer

\* All other steps: use, time and the sweep.
LEMMA UseShrinks ==
  ASSUME Inv, [Next]_vars, ~Issue, ~Revoke, ~Administer
  PROVE  Shrinks /\ UNCHANGED <<parent, tenantStatus>> /\ now <= now'
<1>1. now \in Nat
  BY TypeParts DEF Inv, OtherTypes
<1>2. ASSUME NEW s \in Sessions, NEW d \in Durations, UpdateKey(s, d)
      PROVE  Shrinks /\ UNCHANGED <<parent, tenantStatus>> /\ now <= now'
  <2>1. kind[s] = "api-key" /\ expires' = [expires EXCEPT ![s] = now + d]
    BY <1>2 DEF UpdateKey
  <2>2. \A x \in Sessions : kind[x] = "user" => expires'[x] = expires[x]
    <3>1. expires \in [Sessions -> Nat]
      BY TypeParts DEF Inv, RowTypes
    <3> QED BY <2>1, <3>1
  <2> QED BY <1>1, <1>2, <2>2 DEF UpdateKey, Shrinks, admin, tenancy
<1>3. ASSUME NEW s \in Sessions, RefuseImpersonation(s)
      PROVE  Shrinks /\ UNCHANGED <<parent, tenantStatus>> /\ now <= now'
  BY <1>1, <1>3, KeepShrinks DEF RefuseImpersonation, admin, tenancy
<1>4. ASSUME NEW s \in Sessions, Sweep(s)
      PROVE  Shrinks /\ UNCHANGED <<parent, tenantStatus>> /\ now <= now'
  BY <1>1, <1>4, DeleteShrinks DEF Sweep, admin, tenancy
<1>5. ASSUME Tick PROVE Shrinks /\ UNCHANGED <<parent, tenantStatus>> /\ now <= now'
  BY <1>1, <1>5, KeepShrinks DEF Tick, admin, tenancy
<1>6. ASSUME UNCHANGED vars PROVE Shrinks /\ UNCHANGED <<parent, tenantStatus>> /\ now <= now'
  BY <1>1, <1>6, KeepShrinks DEF vars, admin, tenancy
<1> QED BY <1>2, <1>3, <1>4, <1>5, <1>6 DEF Next

-----------------------------------------------------------------------------
(* Nobody is stranded under an inactive tenant *)

Housed ==
  \A s \in Sessions : row[s] = "stored" /\ kind[s] # "api-key" =>
    Home[who[s]] \in ActiveTenants /\ TenantOf(s) \in ActiveTenants

\* A step without a new row keeps everybody housed whose tenants stay active.
LEMMA ShrinkHoused ==
  ASSUME Housed, Shrinks,
         \A s \in Sessions : row'[s] = "stored" =>
           \A t \in {Home[who[s]], TenantOf(s)} : t \in ActiveTenants => t \in ActiveTenants'
  PROVE  Housed'
  BY DEF Housed, Shrinks, TenantOf

\* A new row needs active tenants, unless it is an API key.
LEMMA IssueHoused ==
  ASSUME Inv, Housed, UNCHANGED <<parent, tenantStatus>>,
         NEW s \in Sessions, NEW k, NEW i, NEW src, NEW exp, NEW m, NEW gone,
         Write(s, k, i, src, exp, m, gone), row[s] = "unused",
         k # "api-key" =>
           Home[i] \in ActiveTenants /\ (k = "role" => RoleTenant \in ActiveTenants)
  PROVE  Housed'
<1> SUFFICES ASSUME NEW x \in Sessions, row'[x] = "stored", kind'[x] # "api-key"
             PROVE  Home[who'[x]] \in ActiveTenants' /\ TenantOf(x)' \in ActiveTenants'
  BY DEF Housed
<1>1. ActiveTenants' = ActiveTenants
  BY TenancyAlone
<1>2. CASE x = s
  <2>1. kind'[x] = k /\ who'[x] = i
    BY <1>2 DEF Write
  <2> QED BY <1>1, <2>1 DEF TenantOf
<1>3. CASE x # s
  <2>1. row[x] = "stored" /\ kind'[x] = kind[x] /\ who'[x] = who[x]
    BY <1>3 DEF Write
  <2> QED BY <1>1, <2>1 DEF Housed, TenantOf
<1> QED BY <1>2, <1>3

LEMMA HomesAreTenants ==
  ASSUME Inv, NEW s \in Sessions, row[s] = "stored"
  PROVE  who[s] \in Identities /\ Home[who[s]] \in Tenants /\ TenantOf(s) \in Tenants
<1>1. who[s] \in Identities
  BY TypeParts DEF Inv, RowTypes
<1> QED BY <1>1, SessionsAssumption DEF TenantOf

\* Whoever issues a credential is housed already, or is checked to be.
LEMMA IssueKeepsHoused ==
  ASSUME Inv, Housed, Issue
  PROVE  Housed'
<1>1. PICK s \in Sessions :
        \/ \E i \in Users, m \in BOOLEAN : IssueSession(s, i, m)
        \/ \E a \in Sessions, i \in Users, d \in Durations : IssueImpersonationSession(s, a, i, d)
        \/ \E src \in Sessions, d \in Durations : IssueSessionToken(s, src, d)
        \/ \E src \in Sessions, d \in Durations : AssumeRole(s, src, d)
        \/ \E i \in Machines, d \in Durations : CreateKey(s, i, d)
        \/ \E old \in Sessions : RotateKey(old, s)
  BY DEF Issue
<1>2. \A i \in Identities : Home[i] \in Tenants
  BY SessionsAssumption
<1>3. ASSUME NEW i \in Users, NEW m \in BOOLEAN, IssueSession(s, i, m) PROVE Housed'
  <2>1. PICK old \in SUBSET Sessions :
          Write(s, "user", i, None, now + Lifetime, m, Ended(old))
    BY <1>3 DEF IssueSession
  <2>2. row[s] = "unused" /\ Home[i] \in ActiveTenants /\ UNCHANGED <<parent, tenantStatus>>
    BY <1>2, <1>3 DEF IssueSession, Fresh, ActiveTenants, Identities, admin, tenancy
  <2> QED BY <2>1, <2>2, IssueHoused
<1>4. ASSUME NEW a \in Sessions, NEW i \in Users, NEW d \in Durations,
             IssueImpersonationSession(s, a, i, d)
      PROVE  Housed'
  <2>1. Write(s, "impersonation", i, a, Earlier(expires[a], now + d), mfa[a], {})
    BY <1>4 DEF IssueImpersonationSession
  <2>2. row[s] = "unused" /\ Home[i] \in ActiveTenants /\ UNCHANGED <<parent, tenantStatus>>
    BY <1>2, <1>4 DEF IssueImpersonationSession, Fresh, ActiveTenants, Identities, admin, tenancy
  <2> QED BY <2>1, <2>2, IssueHoused
<1>5. ASSUME NEW src \in Sessions, NEW d \in Durations, IssueSessionToken(s, src, d)
      PROVE  Housed'
  <2>1. PICK dead : Write(s, "session-token", who[src], src, Earlier(expires[src], now + d), mfa[src], dead)
    BY <1>5 DEF IssueSessionToken
  <2>2. row[s] = "unused" /\ InOwnRight(src) /\ UNCHANGED <<parent, tenantStatus>>
    BY <1>5 DEF IssueSessionToken, Fresh, admin, tenancy
  <2>3. row[src] = "stored" /\ Active(Home[who[src]])
    BY <2>2 DEF InOwnRight, UserAccepted, KeyAccepted, Live, Stored
  <2>4. Home[who[src]] \in ActiveTenants
    BY <2>3, HomesAreTenants DEF ActiveTenants
  <2> QED BY <2>1, <2>2, <2>4, IssueHoused
<1>6. ASSUME NEW src \in Sessions, NEW d \in Durations, AssumeRole(s, src, d)
      PROVE  Housed'
  <2>1. Write(s, "role", Trusted, src, Earlier(expires[src], now + d), mfa[src], {})
    BY <1>6 DEF AssumeRole
  <2>2. /\ row[s] = "unused" /\ (InOwnRight(src) \/ TokenAccepted(src))
        /\ who[src] = Trusted /\ Active(RoleTenant)
        /\ UNCHANGED <<parent, tenantStatus>>
    BY <1>6 DEF AssumeRole, Fresh, admin, tenancy
  <2>3. row[src] = "stored" /\ Active(Home[who[src]])
    BY <2>2 DEF InOwnRight, UserAccepted, KeyAccepted, TokenAccepted, Live, Stored
  <2>4. Home[Trusted] \in ActiveTenants /\ RoleTenant \in ActiveTenants
    BY <2>2, <2>3, HomesAreTenants, SessionsAssumption DEF ActiveTenants
  <2> QED BY <2>1, <2>2, <2>4, IssueHoused
<1>7. ASSUME NEW i \in Machines, NEW d \in Durations, CreateKey(s, i, d) PROVE Housed'
  <2>1. /\ row[s] = "unused" /\ Write(s, "api-key", i, None, now + d, FALSE, {})
        /\ UNCHANGED <<parent, tenantStatus>>
    BY <1>7 DEF CreateKey, Fresh, admin, tenancy
  <2> QED BY <2>1, IssueHoused
<1>8. ASSUME NEW old \in Sessions, RotateKey(old, s) PROVE Housed'
  <2>1. /\ row[s] = "unused" /\ Write(s, "api-key", who[old], None, expires[old], FALSE, {old})
        /\ UNCHANGED <<parent, tenantStatus>>
    BY <1>8 DEF RotateKey, Fresh, admin, tenancy
  <2> QED BY <2>1, IssueHoused
<1> QED BY <1>1, <1>3, <1>4, <1>5, <1>6, <1>7, <1>8

\* A change to the tree takes the sessions along that it would strand.
LEMMA AdministerKeepsHoused ==
  ASSUME Inv, Housed, Administer
  PROVE  Housed'
<1>1. parent \in [Tenants -> Tenants]
  BY TypeParts DEF Inv, OtherTypes
<1>2. Shrinks
  BY AdministerShrinks
<1>3. ASSUME NEW t \in Tenants, parent' = parent,
             Delete(Rows(LAMBDA s : {TenantOf(s), Home[who[s]]} \cap Subtree(t) # {})),
             \A u \in Tenants \ Subtree(t) : tenantStatus'[u] = tenantStatus[u]
      PROVE  Housed'
  <2>1. ActiveTenants \ Subtree(t) \subseteq ActiveTenants'
    BY <1>1, <1>3, StatusBelow
  <2>2. \A s \in Sessions : row'[s] = "stored" => {TenantOf(s), Home[who[s]]} \cap Subtree(t) = {}
    BY <1>2, <1>3, DeleteShrinks DEF Rows, Stored, Shrinks
  <2> QED BY <1>2, <2>1, <2>2, ShrinkHoused
<1>4. ASSUME NEW t \in Tenants, NEW status \in {"active", "suspended", "deleted"},
             SetTenantStatus(t, status)
      PROVE  Housed'
  <2>1. CASE status = "active"
    <3>1. parent' = parent /\ tenantStatus' = [tenantStatus EXCEPT ![t] = "active"]
      BY <1>4, <2>1 DEF SetTenantStatus
    <3>2. ActiveTenants \subseteq ActiveTenants'
      <4>1. tenantStatus \in [Tenants -> TenantStatuses]
        BY TypeParts DEF Inv, OtherTypes
      <4>2. \A u \in Tenants : tenantStatus[u] = "active" => tenantStatus'[u] = "active"
        BY <3>1, <4>1
      <4> QED BY <3>1, <4>2 DEF ActiveTenants, Active, Ancestry
    <3> QED BY <1>2, <3>2, ShrinkHoused
  <2>2. CASE status # "active"
    <3>1. /\ parent' = parent
          /\ Delete(Rows(LAMBDA s : {TenantOf(s), Home[who[s]]} \cap Subtree(t) # {}))
      BY <1>4, <2>2 DEF SetTenantStatus
    <3>2. t \in Subtree(t)
      BY <1>1, Ancestors DEF Subtree
    <3>3. \A u \in Tenants \ Subtree(t) : tenantStatus'[u] = tenantStatus[u]
      BY <1>4, <2>2, <3>2 DEF SetTenantStatus
    <3> QED BY <1>3, <3>1, <3>3
  <2> QED BY <2>1, <2>2
<1>5. ASSUME NEW t \in Tenants, NEW p \in Tenants, Reparent(t, p) PROVE Housed'
  <2>1. ActiveTenants \subseteq ActiveTenants'
    BY <1>1, <1>5, MovedUnderActive DEF Reparent
  <2> QED BY <1>2, <2>1, ShrinkHoused
<1>6. ASSUME NEW t \in Tenants, NEW require \in MfaPolicies, NEW allow \in BOOLEAN,
             SetAuthPolicy(t, require, allow)
      PROVE  Housed'
  BY <1>2, <1>6, TenancyAlone, ShrinkHoused DEF SetAuthPolicy
<1>7. ASSUME NEW t \in Tenants, Purge(t) PROVE Housed'
  <2>1. /\ parent' = parent
        /\ Delete(Rows(LAMBDA s : {TenantOf(s), Home[who[s]]} \cap Subtree(t) # {}))
        /\ \A u \in Tenants \ Subtree(t) : tenantStatus'[u] = tenantStatus[u]
    BY <1>7 DEF Purge
  <2> QED BY <1>3, <2>1
<1> QED BY <1>4, <1>5, <1>6, <1>7 DEF Administer

LEMMA NextHoused ==
  ASSUME Inv, Housed, [Next]_vars
  PROVE  Housed'
<1>1. CASE Issue
  BY <1>1, IssueKeepsHoused
<1>2. CASE Revoke
  BY <1>2, RevokeShrinks, TenancyAlone, ShrinkHoused
<1>3. CASE Administer
  BY <1>3, AdministerKeepsHoused
<1>4. CASE ~Issue /\ ~Revoke /\ ~Administer
  BY <1>4, UseShrinks, TenancyAlone, ShrinkHoused
<1> QED BY <1>1, <1>2, <1>3, <1>4

LEMMA HousedMeans == Inv /\ Housed => NoStrandedSessions
  BY DEF Housed, NoStrandedSessions, ActiveTenants, Stored

LEMMA InitHoused == Init => Housed
  BY DEF Init, Housed

(* Suspension, deletion and purging reach the sessions of the whole        *)
(* subtree, and no move of tenants brings one under an inactive tenant.    *)
THEOREM NobodyStranded == Spec => []NoStrandedSessions
  BY InitInv, NextInv, InitHoused, NextHoused, HousedMeans, PTL DEF Spec

(* Session tokens and assumed roles are worth nothing without their        *)
(* source; an impersonation, which validates only parts of it, does not    *)
(* outlive the administrator's session either, because that session's      *)
(* tenants cannot have become inactive without its end.                    *)
THEOREM SourcesStand == Spec => []DerivedNeedsSource
<1>1. ASSUME Inv, Housed PROVE DerivedNeedsSource
  <2> SUFFICES ASSUME NEW s \in Sessions, Accepted(s), source[s] # None
               PROVE  IF kind[s] = "impersonation" THEN Live(source[s]) ELSE Accepted(source[s])
    BY DEF DerivedNeedsSource
  <2>1. row[s] = "stored" /\ kind[s] \notin {"user", "api-key"}
    BY <1>1 DEF Accepted, InOwnRight, UserAccepted, KeyAccepted, ImpersonationAccepted,
                TokenAccepted, RoleAccepted, Live, Stored, Inv, RowsSound
  <2>2. CASE ImpersonationAccepted(s)
    <3> DEFINE a == source[s]
    <3>1. /\ a \in Sessions /\ row[a] = "stored" /\ kind[a] = "user" /\ expires[a] > now
          /\ identityStatus[who[a]] = "active" /\ kind[s] = "impersonation"
      BY <2>2 DEF ImpersonationAccepted, ImpersonationSource, Stored
    <3>2. Active(Home[who[a]]) /\ Active(TenantOf(a))
      BY <1>1, <3>1 DEF Housed, ActiveTenants
    <3> QED BY <3>1, <3>2 DEF Live, Stored
  <2>3. CASE TokenAccepted(s)
    BY <2>3 DEF TokenAccepted, TokenSource, Accepted
  <2>4. CASE RoleAccepted(s)
    BY <2>4 DEF RoleAccepted, Accepted
  <2>5. ~InOwnRight(s)
    BY <2>1 DEF InOwnRight, UserAccepted, KeyAccepted
  <2> QED BY <2>2, <2>3, <2>4, <2>5 DEF Accepted
<1> QED BY InitInv, NextInv, InitHoused, NextHoused, <1>1, PTL DEF Spec

-----------------------------------------------------------------------------
(* The cap on sessions *)

LiveOf(i) ==
  {s \in Sessions : row[s] = "stored" /\ kind[s] = "user" /\ who[s] = i /\ expires[s] > now}

Capped == \A i \in Users : Cardinality(LiveOf(i)) <= MaxSessions

LEMMA FewerStayCapped ==
  ASSUME Capped, \A i \in Users : LiveOf(i)' \subseteq LiveOf(i)
  PROVE  Capped'
<1> SUFFICES ASSUME NEW i \in Users PROVE Cardinality(LiveOf(i)') <= MaxSessions
  BY DEF Capped
<1>1. IsFiniteSet(LiveOf(i))
  BY SessionsAssumption, FS_Subset DEF LiveOf
<1>2. Cardinality(LiveOf(i)') <= Cardinality(LiveOf(i))
  BY <1>1, FS_Subset
<1>3. Cardinality(LiveOf(i)) \in Nat /\ Cardinality(LiveOf(i)') \in Nat
  BY <1>1, FS_Subset, FS_CardinalityType
<1> QED BY <1>2, <1>3, SessionsAssumption DEF Capped

LEMMA ShrinkCapped ==
  ASSUME Inv, Inv', Capped, Shrinks, now <= now'
  PROVE  Capped'
<1>1. expires \in [Sessions -> Nat] /\ now \in Nat /\ now' \in Nat
  BY TypeParts DEF Inv, TypeOK, RowTypes, OtherTypes
<1>2. \A i \in Users : LiveOf(i)' \subseteq LiveOf(i)
  BY <1>1 DEF LiveOf, Shrinks
<1> QED BY <1>2, FewerStayCapped

\* A new credential of another kind takes no place.
LEMMA OthersTakeNoPlace ==
  ASSUME Capped, now' = now,
         NEW s \in Sessions, NEW k, NEW i, NEW src, NEW exp, NEW m, NEW gone,
         Write(s, k, i, src, exp, m, gone), k # "user"
  PROVE  Capped'
<1>1. \A j \in Users : LiveOf(j)' \subseteq LiveOf(j)
  BY DEF LiveOf, Write
<1> QED BY <1>1, FewerStayCapped

\* A sign-in makes room for itself.
LEMMA SignInMakesRoom ==
  ASSUME Inv, Capped, NEW s \in Sessions, NEW i \in Users, NEW m, IssueSession(s, i, m)
  PROVE  Capped'
<1>1. PICK old \in SUBSET Sessions :
        Evicted(s, i, old) /\ Write(s, "user", i, None, now + Lifetime, m, Ended(old))
  BY DEF IssueSession
<1>2. now' = now /\ old \subseteq Ended(old) /\ row[s] = "unused"
  BY DEF IssueSession, Ended, Fresh
<1> DEFINE live == LiveOf(i) \cup {s}
<1>3. old \subseteq live /\ Cardinality(old) = Excess(Cardinality(live))
  <2>1. live = {s} \cup Rows(LAMBDA x : kind[x] = "user" /\ who[x] = i /\ expires[x] > now)
    BY DEF LiveOf, Rows, Stored
  <2> QED BY <1>1, <2>1 DEF Evicted
<1>4. IsFiniteSet(live) /\ IsFiniteSet(live \ old)
  BY SessionsAssumption, FS_Subset DEF LiveOf
<1>5. Cardinality(live \ old) <= MaxSessions
  <2>1. Cardinality(live \ old) = Cardinality(live) - Cardinality(live \cap old)
    BY <1>4, FS_Difference
  <2>2. live \cap old = old
    BY <1>3
  <2>3. Cardinality(live) \in Nat
    BY <1>4, FS_CardinalityType
  <2>4. \A n \in Nat : n - Excess(n) <= MaxSessions
    BY SessionsAssumption DEF Excess
  <2>5. Cardinality(live \ old) = Cardinality(live) - Excess(Cardinality(live))
    BY <1>3, <2>1, <2>2
  <2> HIDE DEF live
  <2> QED BY <2>3, <2>4, <2>5
<1>6. \A x \in Sessions : row'[x] = "stored" =>
        /\ x \notin old
        /\ x # s => row[x] = "stored" /\ kind'[x] = kind[x] /\ who'[x] = who[x]
                    /\ expires'[x] = expires[x]
        /\ x = s => who'[x] = i
  BY <1>1, <1>2 DEF Write
<1>7. LiveOf(i)' \subseteq live \ old
  BY <1>2, <1>6 DEF LiveOf
<1>8. \A j \in Users \ {i} : LiveOf(j)' \subseteq LiveOf(j)
  BY <1>2, <1>6 DEF LiveOf
<1>9. Cardinality(LiveOf(i)') <= MaxSessions
  <2>1. Cardinality(LiveOf(i)') <= Cardinality(live \ old)
    BY <1>4, <1>7, FS_Subset
  <2>2. Cardinality(LiveOf(i)') \in Nat /\ Cardinality(live \ old) \in Nat
    BY <1>4, <1>7, FS_Subset, FS_CardinalityType
  <2> QED BY <1>5, <2>1, <2>2, SessionsAssumption
<1>10. ASSUME NEW j \in Users \ {i} PROVE Cardinality(LiveOf(j)') <= MaxSessions
  <2>1. IsFiniteSet(LiveOf(j))
    BY SessionsAssumption, FS_Subset DEF LiveOf
  <2>2. /\ Cardinality(LiveOf(j)') <= Cardinality(LiveOf(j))
        /\ Cardinality(LiveOf(j)') \in Nat /\ Cardinality(LiveOf(j)) \in Nat
    BY <1>8, <2>1, FS_Subset, FS_CardinalityType
  <2> QED BY <2>2, SessionsAssumption DEF Capped
<1> QED BY <1>9, <1>10 DEF Capped

LEMMA IssueKeepsCapped ==
  ASSUME Inv, Capped, Issue
  PROVE  Capped'
<1>1. PICK s \in Sessions :
        \/ \E i \in Users, m \in BOOLEAN : IssueSession(s, i, m)
        \/ \E a \in Sessions, i \in Users, d \in Durations : IssueImpersonationSession(s, a, i, d)
        \/ \E src \in Sessions, d \in Durations : IssueSessionToken(s, src, d)
        \/ \E src \in Sessions, d \in Durations : AssumeRole(s, src, d)
        \/ \E i \in Machines, d \in Durations : CreateKey(s, i, d)
        \/ \E old \in Sessions : RotateKey(old, s)
  BY DEF Issue
<1>2. ASSUME NEW i \in Users, NEW m \in BOOLEAN, IssueSession(s, i, m) PROVE Capped'
  BY <1>2, SignInMakesRoom
<1>3. ASSUME NEW a \in Sessions, NEW i \in Users, NEW d \in Durations,
             IssueImpersonationSession(s, a, i, d)
      PROVE  Capped'
  BY <1>3, OthersTakeNoPlace DEF IssueImpersonationSession
<1>4. ASSUME NEW src \in Sessions, NEW d \in Durations, IssueSessionToken(s, src, d)
      PROVE  Capped'
  BY <1>4, OthersTakeNoPlace DEF IssueSessionToken
<1>5. ASSUME NEW src \in Sessions, NEW d \in Durations, AssumeRole(s, src, d)
      PROVE  Capped'
  BY <1>5, OthersTakeNoPlace DEF AssumeRole
<1>6. ASSUME NEW i \in Machines, NEW d \in Durations, CreateKey(s, i, d) PROVE Capped'
  BY <1>6, OthersTakeNoPlace DEF CreateKey
<1>7. ASSUME NEW old \in Sessions, RotateKey(old, s) PROVE Capped'
  BY <1>7, OthersTakeNoPlace DEF RotateKey
<1> QED BY <1>1, <1>2, <1>3, <1>4, <1>5, <1>6, <1>7

LEMMA NextCapped ==
  ASSUME Inv, Inv', Capped, [Next]_vars
  PROVE  Capped'
<1>1. now \in Nat
  BY TypeParts DEF Inv, OtherTypes
<1>2. CASE Issue
  BY <1>2, IssueKeepsCapped
<1>3. CASE Revoke
  BY <1>1, <1>3, RevokeShrinks, ShrinkCapped
<1>4. CASE Administer
  BY <1>1, <1>4, AdministerShrinks, ShrinkCapped
<1>5. CASE ~Issue /\ ~Revoke /\ ~Administer
  BY <1>5, UseShrinks, ShrinkCapped
<1> QED BY <1>2, <1>3, <1>4, <1>5

LEMMA InitCapped == Init => Capped
<1> SUFFICES ASSUME Init, NEW i \in Users PROVE Cardinality(LiveOf(i)) <= MaxSessions
  BY DEF Capped
<1>1. LiveOf(i) = {}
  BY DEF Init, LiveOf
<1> QED BY <1>1, FS_EmptySet, SessionsAssumption

LEMMA CappedMeans == Capped => SessionsWithinCap
<1> SUFFICES ASSUME Capped, NEW i \in Users
             PROVE  Cardinality(Rows(LAMBDA s : kind[s] = "user" /\ who[s] = i /\ expires[s] > now))
                      <= MaxSessions
  BY DEF SessionsWithinCap
<1>1. LiveOf(i) = Rows(LAMBDA s : kind[s] = "user" /\ who[s] = i /\ expires[s] > now)
  BY DEF LiveOf, Rows, Stored
<1> QED BY <1>1 DEF Capped

(* Nobody has more live sessions of their own than maxSessions: a sign-in  *)
(* evicts the oldest (issueSession), nothing else makes one, and none      *)
(* comes back to life.                                                     *)
THEOREM SignInsWithinCap == Spec => []SessionsWithinCap
  BY InitInv, NextInv, InitCapped, NextCapped, CappedMeans, PTL DEF Spec
=============================================================================
