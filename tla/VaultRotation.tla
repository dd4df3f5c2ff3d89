--------------------------- MODULE VaultRotation ---------------------------
(***************************************************************************)
(* The versions of one static secret of the vault whose check-outs rotate  *)
(* it when they end: packages/server/src/vault.ts and api/vault.ts.  A     *)
(* rotation stages a version as pending in one transaction, hands it to    *)
(* the rotator outside of any, and promotes it in another; meanwhile the   *)
(* versions and their labels may be edited, the secret checked out,        *)
(* rotated again, deleted and restored.                                    *)
(*                                                                         *)
(* A version's value is left out; it has an author, the one who chose it.  *)
(* The secret has no schedule of its own, so that what rotateDue does is   *)
(* to retry; when a retry comes due, or a check-out lapses, is any time.   *)
(* Custom labels are left out: they only keep a version from being pruned. *)
(***************************************************************************)
EXTENDS Naturals, FiniteSets

CONSTANTS
  Latest,       \* bound on the number of a version
  MaxVersions,  \* versions that are kept without a label
  Checkouts,    \* identifiers, each of another holder than those that are live
  Rotations,    \* calls that rotate the secret
  MaxEdits,     \* bound on the edits of versions and labels
  MaxMishaps,   \* bound on failed rotations and stopped processes
  NotOut

ASSUME VaultRotationAssumption ==
  /\ Latest \in Nat \ {0} /\ MaxVersions \in Nat \ {0}
  /\ MaxEdits \in Nat /\ MaxMishaps \in Nat
  /\ NotOut \notin [version : 1..Latest, lapsed : BOOLEAN]

Numbers == 1..Latest

VARIABLES
  standing,         \* "active", or "pending" deletion
  latest,           \* latestVersion
  version,          \* number -> state of the version, "none" if there is none
  author,           \* number -> who chose its value
  stages,           \* the numbers labelled current, previous and pending, or 0
  rotationPending,  \* the version a rotation staged, or 0
  retry,            \* nextRotationAt: "none", "waiting" or "due"
  checkout,         \* id -> the version checked out and whether it lapsed, or NotOut
  rotation,         \* the calls under way
  edits, mishaps,
  returned,         \* history: somebody returned the version that is current, and
                    \* the secret was not restored since
  unheard           \* history: a rotation ended without a word, see Complete

rotationVars == <<standing, latest, version, author, stages, rotationPending, retry,
          checkout, rotation, edits, mishaps, returned, unheard>>

NoRotation == [step |-> "idle", version |-> 0, ok |-> TRUE]

RotationInit ==
  /\ standing = "active" /\ latest = 1 /\ rotationPending = 0 /\ retry = "none"
  /\ version = [n \in Numbers |-> IF n = 1 THEN "enabled" ELSE "none"]
  /\ author = [n \in Numbers |-> IF n = 1 THEN "writer" ELSE "nobody"]
  /\ stages = [current |-> 1, previous |-> 0, pending |-> 0]
  /\ checkout = [c \in Checkouts |-> NotOut]
  /\ rotation = [r \in Rotations |-> NoRotation]
  /\ edits = 0 /\ mishaps = 0 /\ returned = FALSE /\ unheard = FALSE

----------------------------------------------------------------------------
\* pruneVersions: past the newest ones, what has no label is deleted.
Pruned(versions, labels) ==
  [n \in Numbers |->
     IF /\ Cardinality({m \in Numbers : m > n /\ versions[m] # "none"}) >= MaxVersions
        /\ n \notin {labels.current, labels.previous, labels.pending}
     THEN "none" ELSE versions[n]]

\* The labels when v becomes current.
Labels(v) ==
  LET older == IF stages.current \notin {0, v} THEN stages.current ELSE stages.previous
  IN  [current  |-> v,
       previous |-> IF older = v THEN 0 ELSE older,
       pending  |-> IF stages.pending = v THEN 0 ELSE stages.pending]

\* promoteVersion.  A newer value, or a rotation, starts the clock again.
PromoteVersion(v, versions, rotated) ==
  LET labels == Labels(v) IN
  /\ stages' = labels
  /\ rotationPending' = IF labels.pending = rotationPending THEN rotationPending ELSE 0
  /\ retry' = IF rotated \/ v > stages.current THEN "none" ELSE retry
  /\ version' = Pruned(versions, labels)
  /\ returned' = (returned /\ stages.current = v)

\* addVersion
Added(state) == [version EXCEPT ![latest + 1] = state]

AddedBy(who) ==
  /\ latest < Latest /\ latest' = latest + 1
  /\ author' = [author EXCEPT ![latest + 1] = who]

----------------------------------------------------------------------------
\* Active in the records, and live: not lapsed yet.
Out == {c \in Checkouts : checkout[c] # NotOut}
Holding == {c \in Out : ~checkout[c].lapsed}

\* checkout hands out the current version.
CheckOut(c) ==
  /\ standing = "active" /\ c \notin Out /\ version[stages.current] = "enabled"
  /\ checkout' = [checkout EXCEPT ![c] = [version |-> stages.current, lapsed |-> FALSE]]
  /\ UNCHANGED <<standing, latest, version, author, stages, rotationPending, retry,
                 rotation, edits, mishaps, returned, unheard>>

CheckOutLapses(c) ==
  /\ c \in Holding
  /\ checkout' = [checkout EXCEPT ![c].lapsed = TRUE]
  /\ UNCHANGED <<standing, latest, version, author, stages, rotationPending, retry,
                 rotation, edits, mishaps, returned, unheard>>

\* A check-out ends, and rotateReturned is about to run.
Return(c, r) ==
  /\ c \in Out /\ rotation[r] = NoRotation
  /\ checkout' = [checkout EXCEPT ![c] = NotOut]
  /\ rotation' = [rotation EXCEPT ![r].step = "returned"]
  /\ returned' = (returned \/ checkout[c].version = stages.current)
  /\ UNCHANGED <<standing, latest, version, author, stages, rotationPending, retry,
                 edits, mishaps, unheard>>

\* checkin while it lasts, revokeLease in any case, expireLeases afterwards.
Checkin(c, r) == c \in Holding /\ Return(c, r)
RevokeCheckOut(c, r) == Return(c, r)
ExpireCheckOut(c, r) == c \notin Holding /\ Return(c, r)

----------------------------------------------------------------------------
\* Mutant of Retried: whatever is labelled pending.
RetriedAnyPending == stages.pending # 0 /\ version[stages.pending] = "enabled"

\* The version that a rotation staged before, and whose attempt failed, is
\* used again.
Retried ==
  /\ stages.pending # 0 /\ version[stages.pending] = "enabled"
  /\ rotationPending = stages.pending

\* stageRotation; fresh if the caller chooses the value, for which they need
\* the rights to write and to reveal.
StageRotation(r, fresh) ==
  /\ \/ /\ ~fresh /\ Retried
        /\ rotation' = [rotation EXCEPT ![r] =
                          [step |-> "rotator", version |-> stages.pending, ok |-> TRUE]]
        /\ UNCHANGED <<latest, version, author, stages, rotationPending>>
     \/ /\ fresh \/ ~Retried
        /\ AddedBy("rotation") /\ version' = Added("enabled")
        /\ stages' = [stages EXCEPT !.pending = latest + 1]
        /\ rotationPending' = latest + 1
        /\ rotation' = [rotation EXCEPT ![r] =
                          [step |-> "rotator", version |-> latest + 1, ok |-> TRUE]]
  /\ UNCHANGED <<retry, mishaps>>

\* Mutant of RecordFailure: a failure is recorded, and not retried.
RecordFailureOnly(r) == retry' = retry /\ rotation' = [rotation EXCEPT ![r] = NoRotation]

\* recordRotationFailure: the retry is scheduled, and the call ends.
RecordFailure(r) == retry' = "waiting" /\ rotation' = [rotation EXCEPT ![r] = NoRotation]

\* Staging fails before the rotator runs: the key of the tenant is disabled.
StagingFails(r) ==
  /\ mishaps < MaxMishaps /\ mishaps' = mishaps + 1
  /\ RecordFailure(r)
  /\ UNCHANGED <<latest, version, author, stages, rotationPending>>

\* rotateReturned: once the last holder returned it.
RotateReturned(r) ==
  /\ rotation[r].step = "returned"
  /\ IF standing = "active" /\ Holding = {}
     THEN StageRotation(r, FALSE) \/ StagingFails(r)
     ELSE /\ rotation' = [rotation EXCEPT ![r] = NoRotation]
          /\ UNCHANGED <<latest, version, author, stages, rotationPending, retry, mishaps>>
  /\ UNCHANGED <<standing, checkout, edits, returned, unheard>>

\* rotateDue: not while it is checked out.
RotateDue(r) ==
  /\ rotation[r] = NoRotation /\ retry = "due" /\ standing = "active" /\ Holding = {}
  /\ StageRotation(r, FALSE) \/ StagingFails(r)
  /\ UNCHANGED <<standing, checkout, edits, returned, unheard>>

\* rotate, by hand
Rotate(r, fresh) ==
  /\ rotation[r] = NoRotation /\ standing = "active"
  /\ StageRotation(r, fresh)
  /\ UNCHANGED <<standing, checkout, edits, returned, unheard>>

\* The rotator applies the version, or fails.
Rotator(r) ==
  /\ rotation[r].step = "rotator"
  /\ \/ rotation' = [rotation EXCEPT ![r].step = "complete"] /\ UNCHANGED mishaps
     \/ /\ mishaps < MaxMishaps /\ mishaps' = mishaps + 1
        /\ rotation' = [rotation EXCEPT ![r].step = "complete", ![r].ok = FALSE]
  /\ UNCHANGED <<standing, latest, version, author, stages, rotationPending, retry,
                 checkout, edits, returned, unheard>>

\* Mutant of Promotable: nobody may have touched the version meanwhile.
PromotableByLabel(v) == v \in {stages.pending, stages.current}

\* It still is pending, or current already, and neither disabled nor destroyed.
Promotable(v) == v \in {stages.pending, stages.current} /\ version[v] = "enabled"

\* completeRotation.  When the version was taken out of its hands, or the
\* secret, it ends without recording a failure; when another call promoted it
\* before, it drops the retry of whatever failed since.
Complete(r) ==
  LET v == rotation[r].version
      ends == rotation' = [rotation EXCEPT ![r] = NoRotation]
  IN
  /\ rotation[r].step = "complete"
  /\ \/ /\ standing = "active" /\ ~rotation[r].ok
        /\ RecordFailure(r)
        /\ UNCHANGED <<version, stages, rotationPending, returned, unheard>>
     \/ /\ standing = "active" /\ rotation[r].ok /\ Promotable(v)
        /\ PromoteVersion(v, version, TRUE) /\ ends
        /\ unheard' = (unheard \/ (stages.current = v /\ retry # "none"))
     \/ /\ standing # "active" \/ (rotation[r].ok /\ ~Promotable(v))
        /\ ends /\ unheard' = TRUE
        /\ UNCHANGED <<version, stages, rotationPending, retry, returned>>
  /\ UNCHANGED <<standing, latest, author, checkout, edits, mishaps>>

----------------------------------------------------------------------------
Edit == edits < MaxEdits /\ edits' = edits + 1

PutCurrent ==
  /\ Edit /\ standing = "active" /\ AddedBy("writer")
  /\ PromoteVersion(latest + 1, Added("enabled"), FALSE)
  /\ UNCHANGED <<standing, checkout, rotation, mishaps, unheard>>

PutPending ==
  /\ Edit /\ standing = "active" /\ AddedBy("writer")
  /\ stages' = [stages EXCEPT !.pending = latest + 1]
  /\ version' = Pruned(Added("enabled"), stages')
  /\ UNCHANGED <<standing, rotationPending, retry, checkout, rotation, mishaps, returned, unheard>>

\* promote, of an enabled version
Promote(v) ==
  /\ Edit /\ standing = "active" /\ version[v] = "enabled"
  /\ PromoteVersion(v, version, FALSE)
  /\ UNCHANGED <<standing, latest, author, checkout, rotation, mishaps, unheard>>

\* setStage, of pending; without a version it removes the label
SetPending(v) ==
  /\ Edit /\ standing = "active"
  /\ v # 0 => version[v] \in {"enabled", "disabled"}
  /\ stages' = [stages EXCEPT !.pending = v]
  /\ version' = Pruned(version, stages')
  /\ UNCHANGED <<standing, latest, author, rotationPending, retry, checkout, rotation,
                 mishaps, returned, unheard>>

\* Mutant of Spared: the current version may be disabled or destroyed.
SparedAny(v) == TRUE

Spared(v) == v # stages.current

SetVersionState(v) ==
  /\ Edit
  /\ \/ version[v] = "enabled" /\ Spared(v) /\ version' = [version EXCEPT ![v] = "disabled"]
     \/ version[v] = "disabled" /\ version' = [version EXCEPT ![v] = "enabled"]
  /\ UNCHANGED <<standing, latest, author, stages, rotationPending, retry, checkout,
                 rotation, mishaps, returned, unheard>>

DestroyVersion(v) ==
  /\ Edit /\ version[v] # "none" /\ Spared(v)
  /\ version' = [version EXCEPT ![v] = "destroyed"]
  /\ stages' = [s \in DOMAIN stages |-> IF stages[s] = v THEN 0 ELSE stages[s]]
  /\ UNCHANGED <<standing, latest, author, rotationPending, retry, checkout, rotation,
                 mishaps, returned, unheard>>

\* delete ends the check-outs that are live, and they do not rotate it.
DeleteSecret ==
  /\ Edit /\ standing = "active" /\ standing' = "pending"
  /\ checkout' = [c \in Checkouts |-> IF c \in Holding THEN NotOut ELSE checkout[c]]
  /\ UNCHANGED <<latest, version, author, stages, rotationPending, retry, rotation,
                 mishaps, returned, unheard>>

RestoreSecret ==
  /\ standing = "pending" /\ standing' = "active" /\ returned' = FALSE
  /\ UNCHANGED <<latest, version, author, stages, rotationPending, retry, checkout,
                 rotation, edits, mishaps, unheard>>

----------------------------------------------------------------------------
\* A process stops in the middle of a rotation.
RotationStops(r) ==
  /\ rotation[r] # NoRotation /\ mishaps < MaxMishaps /\ mishaps' = mishaps + 1
  /\ rotation' = [rotation EXCEPT ![r] = NoRotation]
  /\ unheard' = TRUE
  /\ UNCHANGED <<standing, latest, version, author, stages, rotationPending, retry,
                 checkout, edits, returned>>

RotationDue ==
  /\ retry = "waiting" /\ retry' = "due"
  /\ UNCHANGED <<standing, latest, version, author, stages, rotationPending, checkout,
                 rotation, edits, mishaps, returned, unheard>>

RotationNext ==
  \/ \E c \in Checkouts : CheckOut(c) \/ CheckOutLapses(c)
  \/ \E c \in Checkouts, r \in Rotations : Checkin(c, r) \/ RevokeCheckOut(c, r) \/ ExpireCheckOut(c, r)
  \/ \E r \in Rotations : \/ RotateReturned(r) \/ RotateDue(r) \/ Rotator(r)
                          \/ Complete(r) \/ RotationStops(r)
  \/ \E r \in Rotations, fresh \in BOOLEAN : Rotate(r, fresh)
  \/ PutCurrent \/ PutPending \/ DeleteSecret \/ RestoreSecret \/ RotationDue
  \/ \E v \in Numbers : Promote(v) \/ SetVersionState(v) \/ DestroyVersion(v)
  \/ \E v \in Numbers \cup {0} : SetPending(v)

RotationSpec == RotationInit /\ [][RotationNext]_rotationVars

----------------------------------------------------------------------------
RotationTypeOK ==
  LET some == Numbers \cup {0} IN
  /\ standing \in {"active", "pending"} /\ latest \in Numbers
  /\ version \in [Numbers -> {"none", "enabled", "disabled", "destroyed"}]
  /\ author \in [Numbers -> {"nobody", "writer", "rotation"}]
  /\ stages \in [current : Numbers, previous : some, pending : some]
  /\ rotationPending \in some /\ retry \in {"none", "waiting", "due"}
  /\ checkout \in [Checkouts -> {NotOut} \cup [version : Numbers, lapsed : BOOLEAN]]
  /\ rotation \in [Rotations -> [step : {"idle", "returned", "rotator", "complete"},
                                 version : some, ok : BOOLEAN]]
  /\ returned \in BOOLEAN /\ unheard \in BOOLEAN

\* The current version can be read, whatever was disabled, destroyed, promoted
\* or pruned while a rotator ran; and the other labels name versions there are.
CurrentIsUsable ==
  /\ version[stages.current] = "enabled"
  /\ \A label \in {"previous", "pending"} :
       stages[label] # 0 => version[stages[label]] \in {"enabled", "disabled"}

\* iam:vault:write cannot choose the credential that a rotator sets: whatever
\* labels a writer moves, the rotator gets what a rotation chose.
RotatorsGetTheirOwn ==
  \A r \in Rotations : rotation[r].step = "rotator" => author[rotation[r].version] = "rotation"

\* A version that its last holder returned is about to be rotated away, by a
\* call or by a retry, however the check-outs ended and the rotations went; but
\* after one that ended without a word.
ReturnsAreFollowedUp ==
  returned /\ Out = {} /\ standing = "active" /\ rotation = [r \in Rotations |-> NoRotation]
    => retry # "none" \/ unheard

\* Both of what is said of versions.
VersionsHold == CurrentIsUsable /\ RotatorsGetTheirOwn
=============================================================================
