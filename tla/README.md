# Better IAM in TLA+

A verification development for Better IAM (`src/`), the embeddable TypeScript
platform for authentication, identity provisioning and access management. It
consists of TLA+ modules translated from the source, TLC configurations that
check them on small instances, and proofs that TLAPS checks for every value of
the constants.

1. [The system](#1-the-system): inventory of components, state, hard behaviours
2. [Plan](#2-plan): what is modelled now, what comes next
3. [Modules](#3-modules): how state and actions correspond to the code
4. [Runs](#4-runs): what TLC checks, under which bounds and fairness
5. [Findings](#5-findings): where the code and its comments disagree
6. [Proofs](#6-proofs): theorems, assumptions, inductive invariants
7. [Limits](#7-limits): abstractions, only model-checked, not modelled

## 1. The system

`betterIam(options)` composes an authentication service (`packages/auth`), a
server with about forty API groups (`packages/server`) and protocol packages
(`oauth`, `scim`, `saml`, `ldap`, `mcp`, `a2a`) over a record store
(`packages/core`, adapters for SQLite, libSQL and PostgreSQL). All durable state
is in the store's collections. Several processes may share one database; they
communicate through it alone. Every mutating call runs through
`operations.operation`: authenticate in one transaction, then re-validate the
credential, authorize, mutate, append an audit event and enqueue deliveries in a
second one.

| Component | State it keeps | Operations | What is hard | What makes it correct |
|---|---|---|---|---|
| Delivery outbox (`auth/src/outbox.ts`) | `outbox` rows: attempts, lease, leaseUntil, deliveredAt, failedAt | enqueue in the caller's transaction; `dispatchOutbox` scans, claims, calls back, records | several dispatchers over one stale list; callback outlasting its lease; crash between effect and record | at-least-once; bounded attempts; every message settles |
| Webhooks and events (`server/src/events.ts`, `api/webhooks.ts`) | `webhooks`, `auditHooks` | fan-out in the audit transaction, signing, delivery, post-commit dispatch to subscribers | subscription paused or removed while its message is in flight | nothing is sent for a removed subscription; its rows do not come back |
| Audit chain (`core/src/audit.ts`) | `audit`, `auditChains` | append, verify | head and event in one transaction; prunes | the stored chain always verifies |
| Audit archive (`server/src/audit-archive.ts`) | `auditArchiveCursors` (position and lease), external sink | claim, read, write, advance, release | overlapping runs, lost leases, failed writes, crashes | only archived events may leave; the cursor never moves back or ahead of the sink |
| Retention (`server/src/retention.ts`, `lifecycle.ts`) | expiry fields of most collections | `sweepExpired`, `pruneAudit`, `purgeDeleted` | racing the readers of what is deleted | deletes nothing still needed |
| Sessions (`auth/src/service`) | `sessions` | sign in, impersonate, sign out, revoke others, caps | sessions that depend on others; ending while in use | ended is over for good; caps hold |
| Principals (`server/src/principals.ts`) | none; reads `sessions`, `identities`, `tenants`, `trusts`, `roles` | re-validation of every credential, recursively through its source | rows that outlive their source | a derived credential is worth nothing without its source |
| STS, roles, API keys (`api/sts.ts`, `flows.ts`, `api/roles.ts`, `api/trust.ts`, `api/service-accounts.ts`) | `sessions`, `trusts`, `roles` (watermark) | mint, assume, rotate, revoke, revoke older | same-instant issue and revocation; caps over suspended tokens | revocation is final |
| Tenant tree and identities (`api/tenants.ts`, `api/identities.ts`) | `tenants`, `identities` | status, move, policy, purge; status, deletion | effects over a subtree that is being moved | no session under an inactive tenant |
| Record store (`core/src/storage.ts`, adapters) | all collections | get, find, insert, put, delete, transaction | nested transactions join; a failed nested call dooms the whole; one connection shared by a process; an advisory lock across processes | as if each transaction ran at one instant, all or nothing |
| Event dispatch (`server/src/events.ts`) | `auditHooks` | queue with the audit record, dispatch after the commit or by the job, mark | subscribers that throw, several dispatchers, processes that differ in their subscribers | marked only when handled; every event handled in the end |
| Rate limiting (`auth/src/rate-limit.ts`) | `authRateLimits`, or a Map in memory | consume, reset, sweeps | concurrent attempts, a sweep working off a list that is old | never more than the limit per window |
| Network blocks (`api/security.ts`, `service/base.ts`) | `networkBlocks`, a cache per process | block, unblock, check, sweep | a cache filled while a block commits | no promised block is undone; stale no longer than the window |
| Sign-in ceremonies (`auth/src/service/account.ts`, `mfa.ts`, `passkeys.ts`, `passwordless.ts`) | `authChallenges`, `authMfa`, `authPasskeys`, `authDevices` | first factor, codes, passkeys, enrolment, verification, recovery, step-up, revocation | flows that read, count and write in three transactions; changes of factors half way | a proof counts once, a change leaves nothing of before that names the person |
| Policy evaluation (`core/src/policy.ts`, `server/src/decisions.ts`) | none | decide, batch, reverse queries | inheritance, authority ceilings, denies carried by bindings that lapsed | a deny always wins; a grant never exceeds its author |
| Privileged access (`api/bindings.ts`, `api/roles.ts`, `api/policies.ts`, `api/identities.ts`) | bindings, authorities, owner | grant, revoke, edit, promote, demote, offboard | rights resting on the authority of somebody who leaves | revoking only takes; the tenant keeps an owner |
| Delegations and agents (`server/src/delegations.ts`, `api/delegations.ts`) | delegations, sessions, confirmations | grant, request, approve, revoke, assume, hand off, confirm | a chain of agents, keys and sponsors, each ending by itself | ends with any of its links; one call per approval |
| OAuth/OIDC provider (`packages/oauth`) | `oauthArtifacts`, `oauthRevokedGrants`, `oauthGrantSessions` | codes, refresh rotation, replay, revocation, logout job | requests racing on one token, a process stopping between two writes | one successor per token, nothing works in a disowned family |
| Licences (`server/src/licenses.ts`) | products, pools, seats | assign, pool changes, reconciliation | capacity cut with ties; memberships that lapse between reconciliations | seats full, senior first, nobody unseated for a newcomer |
| Quotas and usage (`quotas.ts`, `usage.ts`) | windows, buckets, counters | consume, plan changes, reset, sweeps | expiry computed under an older plan | never over the limit |
| AI inference gateway (`inference.ts`, `inference-gateway.ts`, `api/inference.ts`) | budgets, tickets, usage | check, invoke with fallbacks, stream, record | a budget checked before and charged after the call | each answer metered once; overspend bounded by what is in flight |
| Workflows (`api/workflows.ts`) | runs, subjects, brake | evaluate, start, claim, step, wait, fail, cancel, retry | lapsed leases, failures after a committed step | each step once, in order; one run per change |
| Vault and KMS (`kms.ts`, `vault.ts`, `api/vault.ts`) | secrets, versions, labels, leases; keys | lease, check out, end, rotate, promote, destroy, delete, purge | an engine or a rotator that is called between two transactions, while the records change | whatever works somebody answers for; the current version can be read |
| Provisioning (`packages/scim`, `sync.ts`, `org-sync.ts`, `ai-sync.ts`) | outbound queue, cursors | push, retry, reconcile | retries out of order | convergence |
| Signals and threats (`signal-receiver.ts`, `threat-*.ts`) | events, containments | receive, contain, release | duplicates; release racing a manual change | containment is undone once |
| Billing, web identity, governance, privacy, certificates | their own collections | see `PROJECT.json` | see `PROJECT.json` | see `PROJECT.json` |

`PROJECT.json` lists every component with its sources and status, and under
`hazards` what in this code is hard to test, at its line, with the properties
that would notice it going wrong.

How the modelled components interact. Everything rests on the record store: an
action of any other module is one of its transactions, which `Store` shows to
take effect at one instant. Every operation appends to the audit chain, queues
the event for subscribers and enqueues outbox rows in its own transaction, so
dispatchers, archivers and subscribers see committed rows only; those jobs run in
any process and meet at the rows' leases, and the prune job meets the archive at
its cursor. Sign-in ceremonies issue the sessions that `Sessions` takes from
there; sessions meet tenants, identities, roles and trusts through the
re-validation that every use of a credential goes through and through the
deletions of the operations that end sessions. OAuth grants and delegated
sessions hang on a session or a person in the same way, and each has its own
re-validation. What stands in front of a call (attempts, blocks, seats, quotas,
budgets) shares only the clock with the rest.

## 2. Plan

The modules, in the order in which they were written, which is that of how much
of the platform rests on the part.

1. Outbox (`Outbox`, contract `Delivery`), audit chain and archive
   (`AuditLog`, contract `Archiving`), sessions and derived credentials over the tenant tree
   (`Sessions`).
2. Record store (`Store`, contract `Atomic`), which the others assume; dispatch
   to in-process subscribers (`EventDispatch`).
3. What stands in front of a call: `RateLimits`, `MemoryLimiter`,
   `NetworkBlocks`, `Licenses`, `Quotas`, `InferenceBudgets`; `Limits` joins the
   limiters, quotas and licences under one contract.
4. Proofs of identity and their grants: `SignIn`, `OAuthGrants`, `Delegations`.
5. Lifecycle workflows (`Workflows`).
6. What one is allowed: `AccessGrants`, `AccessDecisions`, `Ownership`.
7. The vault: `VaultLeases`, `VaultRotation`.

Next, in this order: just-in-time activation, access requests and reviews
(eligible bindings whose requester, approver or target changes meanwhile);
key versions of the key service; the outbound provisioning queue; containment of an identity and its release; single use of
web-identity assertions; guest invitations and device enrolment; billing.
Abstract specification worth stating with them: access only between grant and
end. Of what the runs check, the proofs of section 6 cover all that is safety.

## 3. Modules

`*Properties` holds the type invariant and the properties of a module where they
are not at its end, `*Proofs` the theorems, `MC*` an instance for TLC. The line
that each definition models is in `PROJECT.json` under `map`.

### Outbox, Delivery

`Outbox` is `dispatchOutbox` and the callers that touch its rows. The row fields
are functions over message ids. `status` folds `deliveredAt`, `failedAt` and the
row's presence into one value; `leaseLeft` is `leaseUntil - now`, so that no
clock grows; `lease` is the worker, since a worker has one claim in flight and
checks the lease only after a claim of its own; `created` is the rank in the
order of (createdAt, id). A worker's `phase` is where it is between two
transactions, `msg` and `attempt` its local `claimed`.

| Action | Code |
|---|---|
| `EnqueueDelivery` | `enqueueDelivery` from `fanOut`, `ping`, `redeliver` |
| `SetActive`, `DeleteWebhook` | `webhooks.update`, `webhooks.delete` |
| `Sweep` | `sweepExpired` on outbox rows |
| `Scan` | the unlocked read, filter, sort and slice |
| `Claim`, `Skip` | the claim transaction, with and without a claim |
| `CallReceiver`, `DropDelivery` | the callback: `deliverWebhookMessage` on an active and on another subscription |
| `RecordDelivered`, `RecordFailure` | the two record transactions |
| `RecordDeliveredFails`, `Crash` | a storage error inside the `try`; the process dying, or an error outside it |
| `Tick`, `Finish` | time; the end of the loop |

`CallReceiver` has three outcomes: accepted and answered, accepted with the
answer lost, refused. `Delivery` is the contract: `pending` to `delivered` only
after a hand-over, settled messages stay settled, forgotten ones stay forgotten.
`OutboxProperties` maps `handedOver` to `accepted \cup dropped`: a message whose
subscription is paused or gone is handed to the callback and dropped there, which
the code records as delivered.

### AuditLog, Archiving

One tenant's chain. An event is its sequence number: the chain is append-only and
a hash is determined by its position, so a link between hashes is contiguity.
`checkpoints` are the `audit:prune` events (a checkpoint exists while its own
event is stored). `Prune(k, configured)` deletes the prefix through `k` (any
prefix: which events are older than the cutoff is left open) and appends the
checkpoint in the same transaction; `configured` says whether the pruning process
has the `auditArchive` option. `archiveTenant` is `Claim`, `Busy`, `Read`,
`Write`, `WriteFails`, `Advance`, `Release`, `Crash`. Every run has a lease id of
its own; the lease of a run that died belongs to nobody (`Lost`) and blocks until
it ends. A batch may be shorter than `BatchSize` at the end of the chain or of
the run's limit.

`Archiving` is the contract of the deployment guide, without runs, leases and
batches: events are recorded and leave oldest first; once a tenant is archived only
what was copied and passed over leaves; events may be copied again at any time; the
position moves on, and the only events that it passes over and the archive lacks are
those that had left before its first move. `Claim` of a new tenant is its `Begin`,
`Write` its `Copy`, also of a run that lost its lease, an `Advance` that is
allowed its `MoveTo`; a refused one and all else is a stutter.

### Sessions

The rows of `sessions` as functions over ids, each id used once (ids are random),
with `row` in unused, stored, deleted. The kinds are user, impersonation (a user
session with an impersonator), API key, session token and role; there is one role
with one trust. `Accepted` is `currentPrincipal`, one disjunct per kind, with the
recursion through the source written out: a role may come from a session token,
which comes from a session or key in its own right. Each action is the
transaction of the operation that has the effect; `Issue`, `Revoke` and
`Administer` group them.

Two history variables state what cannot be read off a state: `ended` holds every
session somebody ended on purpose, with all derived from it at that moment, and
`refused` the impersonations refused because they were over.

### Store, Atomic

`Store` is `transaction` of the SQLite and libSQL adapters (one connection and a
`Mutex` per process, `BEGIN IMMEDIATE`) and, where `pooled`, of the PostgreSQL
adapter (an advisory lock, any connection). `Arrive` enters the queue of the
Mutex, `Begin` or `BeginFails` takes the database's lock, and the body does
`Get`, `Put`, `Insert`, `Delete`, `Join` and `Leave` (a nested transaction, which
joins), `LeaveThrowing` (it fails and dooms the outer one, whatever the body does
about it), `Reenter` (a second adapter on the same file), until `Throw` or
`Return`. `RootRead` is a read outside a transaction. Rows are version numbers,
so that a lost update shows. `Atomic` has one step per call: all it wrote, on
the rows of that instant, or nothing.

### EventDispatch

`Record` is the transaction that writes an event with its `auditHooks` row, in a
process that has subscribers for it; a run of `dispatch` is `Scan`, `Handle` or
`HandlerThrows` per subscriber, and `Mark`; the sweep and crashes interleave.
Runs remember only what they have called for the row they are at, as in the code,
which calls all of them again after a crash or a throw.

### RateLimits, MemoryLimiter, NetworkBlocks, Limits

`RateLimits` takes the time of an attempt (`Ask`) before its transaction
(`Consume`), as the code does, and splits each sweep into its list and its
deletions. `MemoryLimiter` keeps the insertion order of the Map, which is what
pruning from the front relies on. `Limits` puts both beside `Quotas` and
`Licenses`; what the four promise together is `LimitsHold`. `NetworkBlocks` has a
cache per process, a check that reads while a block commits (`CheckUncached`, `ReadBlocks`,
`FillCache`), and changes whose commit and return are two steps, so that the
cache is cleared after the commit.

### Licenses, Quotas, InferenceBudgets

`Licenses` reconciles the seats of one product after every operation that the
code reconciles after, and not after those it does not (people disabled or
deleted, time); `stale` says that such a change came since. `Quotas` has a token
bucket, whose expiry is computed under the plan of the call and trusted by the
sweep after the plan has changed, and a window of the calendar: `WindowStarts`
are the times at which windows start, of any lengths, like days and months.
`spent` adds up what was let through; `Throttled` speaks of it since the plan last
changed (`settled`), `WindowKept` of each window against the highest limit that
was in force (`highest`). `InferenceBudgets` splits a
call into its check, each attempt along the chain of fallbacks, the stream, and
the record, and has the external gateway's tickets beside it.

### SignIn

One person. The flows that count attempts do so in one transaction and decide in
another (`StartSecond`, `Refused` and then `VerifyMfa` or `RecoverMfa`;
`StartConfirm` and `FinishConfirm`), so a call remembers what it read.
Challenges, sessions and devices are never used twice; a TOTP code is the step
it belongs to. A passkey ceremony begun for the person is `passkey-authenticate`,
one begun without an email `passkey-discover`: the code gives both one purpose
but stores an empty `identityId` in the second, so `revokeIdentity` does not find
it, and `Pending`, `FreshAfterChange` and the mutants speak of the challenges that
name the person. `First`, `Enrol`, `Second` and `Change` group the actions.
`uses` counts what was accepted as a proof; `era` counts changes of factors.

### OAuthGrants

The adapter behind the provider library: `Find`, `Consume`, `RevokeReplayed` and
`Replace` are the library's order of calls for a token request, which may stop
between any two. `CompleteInteraction` and `IssueCode` are a consent and its
code; `RevokeGrant`, `PurgeClientArtifacts`, `EndSession`, `Logout` and
`LogoutStops` are what ends a grant. The logout job decides on a binding it read
before.

### Delegations

One person, agents with an API key each. A delegation is granted, or requested
and approved or denied, hands parts of itself on, opens sessions, and ends by
itself, by revocation, with its parent, or with its agent's key or standing.
Confirmations are requested by a session, decided by the person and spent by one
call.

### Workflows

A mover trigger with baselines and a daily brake: `Evaluate` starts runs,
`StartManual` one by hand; `Claim` takes a run under a lease; `Act`, `WaitStep`
and `Complete` are transactions that move the run on together with what the step
does. `Lost`, `StepFails`, `MarkFailed` and `Stop` are what goes wrong, `Cancel`
and `Retry` what administrators do meanwhile.

### AccessGrants, AccessDecisions, Ownership

`AccessGrants` is what one member may do: roles with a document, policies with
versions attached to them, roles they inherit, bindings; each written under the
author's authority, whose chain bounds it. The actions are the edits of two
administrators and revocations of authorities. `AccessDecisions` is what the
grants add up to. `roleGrants` calls itself for the roles that a role inherits and
shares the set of roles seen with these calls, so what it has yet to go through is
a stack: `Visit` is one call, `Evaluated` goes from visit to visit until nothing is
left. A role under a lapsed authority and those it inherits are visited for their
denies only, as `roleDenies` does. `AllowedByDefinition` compares the outcome with
a definition by paths: `Through` is what a path of inheritance leads to through
roles that let a request through. `Ownership` is `setOwner` and what
disables, removes or schedules owners away, with the authorities below which
owners are promoted.

### VaultLeases, VaultRotation

`VaultLeases` is one dynamic secret. `call` is how far the issue of a lease is:
`Open`, the engine's `Issue`, `Store`. A worker ends leases: `RevokeLease` or
`List` and `Mark` (`expireLeases`), or `Purge` and `PurgeEnds` (`purgeSecret`);
each end is `Ask` (the engine) and `Record` (`revokeAndRecord`), and a call or a
worker may stop in between. `alive` is what works at the engine. `withTimeout`
stops the waiting and not the engine, so the issue of a call that failed or
stopped is `late`: `MintLate` mints at any time afterwards, or never. A
revocation that timed out may have been carried out; that it is carried out later
still is left out, as it only takes back sooner. `writtenOff` is history: the
leases given up on the record, those minted after the engine had confirmed their
revocation, and the others of section 5 that nobody comes back to.

`VaultRotation` is one static secret whose check-outs rotate it. A rotation is
`StageRotation` (by hand, after a return, as a retry), `Rotator`, `Complete`;
between them come `PutCurrent`, `PutPending`, `Promote`, `SetPending`,
`SetVersionState`, `DestroyVersion`, `DeleteSecret`, `RestoreSecret` and the ends
of check-outs. A version is its number, its state and who chose its value; every
promotion prunes, as `promoteVersion` does.

### Suites

Modules that share no state are checked by one instance: `MCGuards` (guard:
rates, memory, seats, quota of `Limits`; blocks, budget, secret), `MCTakenBack` (thing:
tokens, credentials), `MCExchanges` (exchange: store,
dispatch, work, starts) and `MCAccess` (scene: tree, policy, version,
chain of `AccessDecisions`; owners) choose at the start whom a behaviour is about and leave the rest in an initial
state. A property of a suite is the conjunction of what its modules state. The
state space is the sum of the parts', not their product.

## 4. Runs

| Run | Bounds | What it shows | Distinct states |
|---|---|---|---|
| `outbox` | 2 messages, 2 workers, 2 attempts, lease and backoff of 1 tick, scan limit 1, 1 fault | attempts within budget; implements `Delivery`; every message settles | 487,000 |
| `audit` | 2 runs, 4 events, batches of up to 2, lease 2 ticks, 1 fault | chain verifies; nothing dropped unarchived; implements `Archiving`; everything archived in the end | 156,000 |
| `sessions_tree` | 2 sessions, an administrator, a member and a service account, 3 tenants, 3 administrative changes, 1 tick, caps of 1 | no session under an inactive tenant; session cap | 192,000 |
| `sessions_view_as` | 3 sessions, an owner and a member, 2 tenants, MFA policies, 2 changes, 1 tick | ended stays ended; derived credentials need their source | 81,000 |
| `sessions_refused` | as `sessions_view_as`, 3 changes | *violation*, finding 1 | |
| `guards` | rates: 2 attempts at once, limit 2, window 3, 1 sweep, 1 reset, 6 ticks; memory: 3 keys, 2 places, 7 ticks; blocks: 2 processes, 2 checks, 2 changes, cache 2 ticks of 4; seats: 3 people, 1 pool of 1 or 2, a group, 4 changes, 1 tick; quota: 2 plans, windows of 2 and 3 ticks, 6 ticks, 2 changes; budget: 2 calls, chain of 2, 1 ticket, limit 3, 1 fault, 3 ticks; secret: 3 versions, 1 of them kept unlabelled, 2 check-outs, 2 rotations, 1 edit, 1 mishap | limits, blocks, seats, quotas, budgets hold; the current version can be read, rotators get what a rotation chose, returns are followed by a rotation or a retry | 1,634,000 |
| `exchanges` | store: 2 calls in 2 processes, a reader, 1 row, nesting 1, both adapters; dispatch: 3 events, 2 subscribers, 2 runs, 1 throw, 1 crash; work: 1 run of act, wait, act, 2 workers, lease 1, 2 faults, 2 edits; starts: 2 people, 2 values, brake 1, 3 changes, 2 days | store implements `Atomic` and every call ends; events are handled; steps once and in order; runs end | 49,000 |
| `sign_in` | 2 challenges, 2 sessions, 1 call of several transactions at once, 1 device, 2 enrolments, 1 recovery code, limit 2, 3 ticks, 1 change | no proof twice; every guess counted; changes leave nothing of before that names the person | 1,316,000 |
| `taken_back` | tokens: 3 artifacts, 2 requests, 2 sessions, 1 stop; credentials: 1 lease, 2 workers, patience of 2 refusals, 2 refusals, 1 halt, 1 deletion | one winner; disowned stays dead; ended sessions are logged out; no credential without somebody who answers for it, and none for ever, but for those written off (section 5) | 521,000 |
| `delegations` | 3 agents, 3 delegations, 2 sessions, 1 confirmation, 2 hand-offs deep, 1 tick | a chain ends with its links; approvals count once | 260,000 |
| `access` | tree: 3 roles, 3 authorities; policy: 2 roles and a policy of 2 versions; version: a role and a policy of 3 versions; chain: 2 roles, 3 authorities, 2 bindings; each 2 requests and, but for policy, 1 revocation; owners: 3 people, 3 authorities, 1 expiry | decisions are by definition; revoking only takes; denies stay; owners keep their rights | 81,000 |
| `owners_scheduled` | 2 people, 2 authorities, 1 expiry | *violation*, finding 2 | |

**Why the bounds are enough.** Two dispatchers, archivers, workers, processes,
requests or checks are the least that can race, and the code treats all others
alike (ids are symmetric, and TLC uses that where no liveness is checked). Two
messages with a scan limit of one make one message wait behind another; two
attempts pass through a retry to abandonment; four events allow two batches and
two prunes, the second of which removes the first one's gap. Two sessions suffice
for the tree because its property is about one row at a time; a role through a
token through a session needs three. Three tenants give a subtree that is
neither empty nor everything. A limit of two is reached with and without a
competitor; a window, a cache and a lease end at least once within the clock.
Two changes of a quota's plan are the least that narrow and widen it again.
Three people compete for one or two seats, with ties. A nested transaction one
deep already joins, fails and is swallowed. Three delegations are a chain whose
middle can end. Three artifacts are a code, its successor, and the one a racing
request stores. Three roles are the least to inherit one of them twice, and two
authorities above each other the least of which one bounds the other; an earlier
version of a policy is restored as a third one. Leases
of one secret meet only in its deletion, which treats them alike, so one lease
and two workers on it suffice; three versions are a current one, the one a
rotation staged, and one that replaces either. An attribute that changes, is used and changes back takes two or three changes.

**Named bounds.** `MaxFaults`, `MaxStops`, `MaxThrows`, `MaxCrashes`, `MaxHalts`, `MaxMishaps` (crashes,
storage errors, failed writes or steps), `MaxEvents`, `MaxDays`, `MaxTime` and
the clocks of the guards (`RatesMaxTime`, `MemoryMaxTime`, `BlocksMaxTime`,
`LicensesMaxTime`, `QuotasMaxTime`, `BudgetsMaxTime`), `MaxChanges`,
`BlocksMaxChanges`, `LicensesMaxChanges`, `QuotasMaxChanges`, `MaxEdits`,
`MaxStartEdits`, `MaxResets`, `MaxExpiries`, `MaxRevocations`,
`MaxVersions` (of `AccessGrants`), `MaxBindings`, `MaxSecrets`, `MaxDepth`,
`MaxRefusals`, `MaxDeletes`, `Latest`, and the sets of ids. They
guard actions and never filter states. `MaxAttempts`, `MaxKeys`, `MaxSessions`,
`MaxTokens`, `MaxLive`, `Patience` and the `MaxVersions` of `VaultRotation` are the
code's own limits. The theorems
hold for every value of them.

**Deadlock** is checked for the audit run. All other instances stop when ids,
time and changes are used up, as calls need not come for ever; those
configurations say `CHECK_DEADLOCK FALSE`. That nobody waits for ever while there
is work is what the liveness properties say.

**Fairness.** Nothing is assumed of callers: appending, enqueueing, pausing,
pruning, editing and faults need never happen, and faults are finite.

- `Outbox`, `AuditLog`: weak fairness of each worker and of time. The
  documentation asks deployments to schedule both jobs repeatedly, and a worker
  that crashed is scheduled again.
- `EventDispatch`: weak fairness of each run of the scheduled `dispatch`, whose
  handlers return or throw. `EverythingEnds` leaves out the events behind one
  that throws every time, which the code really holds up.
- `Store`: weak fairness of the database's answer, of the release of the Mutex
  and of a reader whose turn it is; strong fairness of the end of a body, which
  may go on doing operations but not for ever.
- `Workflows`: weak fairness of time, of `runDue` and of a worker's own clean-up;
  strong fairness of the advance of a step, for leases are longer than steps, so
  that two workers do not take a run from each other for ever.
- `OAuthGrants`: weak fairness of the scheduled logout job.
- `VaultLeases`: weak fairness of calls and workers that have begun (a stop ends
  them for good), of time, and of `expireLeases`, which the documentation asks
  hosts to run every few minutes. No fairness is assumed of the engine: it may
  refuse until the vault gives up, and mint what timed out at any time or never.
  What is assumed is that a revocation it confirms ends what it has minted by then.
- The others state no liveness: nothing there has to happen.

**Types.** Where a type invariant is part of a proved inductive invariant it is
not a property of a run as well.

**Mutants.** For every property of a passing run `PROJECT.json` names a mutated
definition, written next to the original in the module, with which TLC finds the
property violated.

## 5. Findings

1. `base.ts:1142` says an impersonation that is over is refused and removed on
   sight, and `docs/security.md:39` that it ends the moment the tenant turns the
   option off. The deletion is followed by a throw in the same transaction
   (`base.ts:1169-1170`), so it is undone, and the session works again when the
   tenant allows impersonation again in time (`RefusedStaysRefused`).
2. The last owner without an expiry keeps none, "or every owner could be
   scheduled away with nobody left to undo it" (`identities.ts:1197-1198`).
   `protectLastOwner` (`context.ts:284-296`), which `setOwner`, `setStatus`,
   `offboard` and `delete` ask, counts an owner with an expiry as another owner.
   So the one without may be demoted, disabled or removed, and the sweep
   (`lifecycle.ts:880-884`) then disables the last one
   (`OwnersNotScheduledAway`).

Seen while modelling, and modelled as the code has it, without a run of their
own:

- `outbox.ts:76` says that claiming in a transaction of its own keeps two workers
  from delivering the same message. A callback that outlasts the lease is joined
  by a second worker. The function's own comment, at-least-once with
  deduplication by id, is what holds; without a fault the stronger statement holds
  too and is proved (`SoleDeliverer`).
- `api/sts.ts:159` says the cap on session tokens bounds the stored rows. A token
  suspended by an MFA requirement is neither counted nor deleted.
- `base.ts:929` says the oldest sessions make room for the new one. Sessions of
  one millisecond are ordered by random id, so the new one may go.
- The watermark of `nextWatermark` (`session-kinds.ts:38-42`) defaults to now + 1.
  That is why sessions of the very instant of the revocation are caught; the
  price is that a role assumed later in that millisecond is refused from birth.
- `events.ts:110-121`: an event committed in a process without subscribers for it
  has no `auditHooks` row, and one dispatched in a process without the subscriber
  is marked there, so the subscriber of another process never sees it;
  `docs/events.md:3` says nothing committed is lost. `DeliveredMeansHandled`
  speaks of the subscribers of the marking process for that reason.
- A former owner keeps an authority passed on by an earlier owner, although
  `identities.ts:1665-1666` says they grant no more; offboarding or deleting an
  owner revokes the authority below which others were promoted, which
  `docs/policies.md:69` documents and the comment of `setOwner`
  (`identities.ts:1713-1716`) avoids.
- A bucket's expiry is computed under the plan of its last call
  (`quotas.ts:488-490`), where "A full bucket after this long is the same as no
  record": true only as long as the plan stays. A plan that is narrowed and
  widened again lets one burst through that was not saved up, as the sweep deletes
  the bucket that is full under the narrow plan. `Throttled` speaks of the time
  since the plan last changed for that reason.
- A role that is inherited twice is evaluated only where it is met first
  (`decisions.ts:582`), under the ceilings met there; `docs/policies.md:55`
  describes a union. It never allows more than the union, and
  exactly that where no role is inherited twice (`AllowedByDefinition`).
- `revokeLease` on a lease that is being issued records it as ended and never
  asks the engine (`api/vault.ts:2373`), as its call will find out. When that
  call's process has stopped nobody does, although `docs/secrets-vault.md:286-289`
  says the engine is asked for what an issue that never completed minted
  (`writtenOff`).
- An issue that timed out goes on at the engine (`vault.ts:976-996` only stops the
  waiting). Its lease is revoked by id and ends as soon as the engine confirms;
  a credential minted after that is not looked for again, although
  `api/vault.ts:2216-2217` and `docs/secrets-vault.md:286-289` speak of
  time-outs as covered (`writtenOff` in `MintLate`). Only an engine that refuses
  to mint for a lease it revoked, or an expiry of its own, ends it.
- `purgeSecret` deletes the leases it finds at its end, not those whose
  revocation it waited for; an issue that was under way when it began may thus
  hand its credential's end to a lease that is gone (`writtenOff`), although the
  comment (`api/vault.ts:2556-2560`) says that no credential outlives its records.
- `completeRotation` ends without recording a failure when the version or the
  secret was taken away meanwhile (`api/vault.ts:572-595`), so nothing retries a
  rotation that followed a return; `docs/secrets-vault.md:232-233` says that one
  that fails after a return is recorded and retried. A late second completion drops a retry scheduled since
  (`unheard`).
- `revokeIdentity` says it revokes every pending challenge of an identity
  (`base.ts:1427`). A discovery ceremony, begun without an email, belongs to nobody
  until it is finished (`passkeys.ts:196-204`), so one begun before a change of
  factors signs the person in afterwards (`passkeys.ts:280-299`), with a passkey
  that is still registered then. `FreshAfterChange` leaves these out.
- The root administrator is handed its `rootIssued` authority in a tenant
  although it may have been revoked (`context.ts:342-349`).

## 6. Proofs

All assumptions on constants are named `ASSUME`s of the modules that declare
them (`OutboxAssumption`, `StoreAssumption`, `QuotasAssumption` and so on), and
TLC evaluates each on the instances: ids told apart from each other and from the
markers, functions on constants with their domains, finite sets of messages,
people, calls and pools, positive attempts, lease terms, windows, rates and batch
sizes, clocks and counters that are numbers, homes and role inside the set of
tenants, and windows of the calendar that start at the start of time. Nothing
else is assumed, no theorem has a hypothesis of its own, and the bounds that keep
an instance small are constants like any other.

**`OutboxProofs`.** `TypeCorrect`. `AttemptBudget`: the bound on attempts is not
inductive, because a claim raises the attempts; the strengthening says that a
pending message which can be claimed again still has budget left, either because
its last claim was recorded as a failure below the limit or because a fault ended
that claim. `SoleDeliverer`: without faults a worker in flight holds an unexpired
lease, and two cannot hold one. `OutboxImplementsDelivery`: the refinement, step
by step, from the invariant that a worker about to record a delivery has handed
its message over and that a row whose lease is held in flight is still pending.

**`AuditProofs`.** `TypeCorrect`. `ChainAlwaysVerifies`: what is stored is exactly
the chain after the last prune, and that prune's checkpoint is in it.
`CursorCovered`, `NothingDropped`, `CursorNeverMovesBack` from one invariant: the
delicate state is a run that lost its lease between claim and advance; its batch
covers the gap to its own claim unless the cursor moved, and then the advance is
refused. `LogImplementsArchiving`: the refinement, step by step; it needs besides
that every batch and every cursor that has moved lies beyond what was lost before
archiving began (`BoundsInv`), so that whatever a move passes over without a copy
was gone before the first one. `SoleArchiver`: without faults a working run holds a live lease.

**`SessionProofs`.** `TypeCorrect` and `EndedForGood`. `EndedStayEnded` is not
inductive: a token whose row is still there is refused only because its source is
gone, a role only because the source of its source is. The invariant `Inv` is
`TypeOK`, `RowsSound` (a stored row's source existed, and if it is still stored is
of a kind that may be a source) and `EndedOver` (what was ended is `Over`: its
row, its source's or its source's source's is gone). It lasts because ids are
never used twice and stored rows keep kind and source. All operations that write
rows go through one operator, `Write`, so the proof is a few lemmas about `Write`
and one step per action that shows which rows go.
`NobodyStranded` needs no induction over the tree: `Ancestry` is the least set
closed under `parent`, and with that the lemmas about ancestors are set algebra.
Its invariant `Housed` adds the tenant a session acts in to the home of its
holder. `SourcesStand` follows from both: an accepted credential's source is
stored and its tenant is active. `SignInsWithinCap`: a step either shrinks the
live sessions of everybody (`ShrinkCapped`) or is a sign-in that made room
(`SignInMakesRoom`).

**`ExchangeProofs`**: the store, the dispatch of events, workflows.
`StoreIsAtomic`: `StoreInv` says that at most the holder of the lock
is in a body, that nobody else has read or written anything that could still be
committed, that the view of the open transaction is the committed rows with its
writes applied, and that a failure dooms its call. Then a commit is one step of
`Atomic` and everything else a stutter. `ReadsAreCommitted`: a read outside of a
transaction is the head of its process's queue, and so is whoever has a
transaction open. `DispatchTypes`, `MarkedMeansHandled`: a row is marked because
of what a run remembers, so `DispatchInv` adds that the memory is true.
`StepsAreDoneOnce`: a run's place counts the acts done, and
only a run whose wait is over is being carried out (`RunsInv`).
`CancelledIsFinal`: a cancelled run has no token, which every later transaction
of its worker asks for. `AutomaticStartsAreDue`: a value that differs from its
baseline is a change not answered yet, and the brake's counter is that of the day
it was last used on (`StartsInv`).

**`SignInProofs`.** `NoSingleFactorLeft`: a step issues a session of one factor
only while none is required, or ends all. `ChangeEndsWhatNamesThePerson`:
what can still be used has a deadline of its own, and what names the person is
deleted with the change. `NoFactorOverAnother`.
`NothingProvesTwice`: a ledger of what was accepted: a spent challenge's row is
gone, a spent step is not after `lastStep` while its secret stands, a spent code
is not in the list, and secrets are never used again. `GuessesAreCounted`: a call
that is to compare a code has counted the attempt, or holds a challenge that was
spent or ran out meanwhile, and such a one is never readable again.

**`CredentialProofs`**: OAuth grants, vault leases and rotation. `SingleUse`:
what is live has no winner, and what was consumed exactly one.
`DisownedIsFinal`: that no artifact is left does not last, since a
request under way may store one; that the grant is dead in one of three ways
(`DeadGrant`) does. `LeasesAreTakenBack`: an answer of the engine is used one
transaction after it was given, so `LeasesInv` says of every answer and every
worker what was true when it was formed and still is: what the engine consented
to end is over there unless its issue had yet to reach the engine or was carried
out late, and a purge is through with every lease it found, which is then ended
for good, or has it on its list. A late mint is accounted for or written off where
it happens, and what is accounted for stays so until somebody takes it back.
`RotationTypes`,
`RotatedVersionsHold`, `ReturnedVersionsGo`: `VersionsInv` adds that what a
rotation remembers as pending was chosen by a rotation and is not the current
version, so that promoting it puts a returned version out of use.

**`AuthorityProofs`**: owners, delegations, grants. `OwnersAlwaysStand`:
authorities hang below authorities that were issued, so while nobody left the
whole chain above each owner is in force (`OwnershipInv`). `EndedTakesAll`,
`HandoffsEndInTime`, `ApprovalsCountOnce`: `DelegationsInv` relates a hand-off to
its parent only (`Lineage`: open below open, and no longer). What is below a delegation is the
least set closed under hand-offs (`BelowIsLeast`), so what holds from parent to
child holds at any depth. `DeniesOutliveEdits` and `RolesNeverLoop`
from `AccessInv`: what is stored names only what is stored, and no role inherits
from itself. What a role reaches is the least set closed under inheritance, so an
edit that keeps the documents and policies of others keeps their denies.

`DecidedByDefinition`, `NothingBeyondAuthority`, `EveryDenyIsFound` and
`RevocationsOnlyTake` are about an evaluation, which is a computation within a
state. Its function has a definition because it only goes on from one value to the
next (`GoesOn`), and it ends because each visit sees one role more or leaves one
less to visit (`VisitLeavesLess`, for which a role must inherit less roles than
there are: `Measured`). So what each visit keeps holds at the end
(`EndTogether`, by a least counterexample). `Sound` is kept: what is under the
ceilings of a visit was let through by everything on the way, what is seen is
below the role bound, and what that inherits is seen or to be visited; at the end
exactly what is below was seen. `Complete` is kept where no role has two parents:
whoever visits a role came by the only path to it, so what the path lets through is
still under the ceilings. For a revocation the evaluations before and after are
paired (`Beside`): they visit the same roles in the same order, with the same
ceilings, and what is live after was live before; both find the same denies, so
nothing that a deny hid appears.

**`GuardProofs`**: what stands in front of a call. `BlocksAreSeenInTime`: what was
read since the last change, in the table, the cache or a check that is under way,
is the block as it was promised, or gone after its end (`BlocksInv`).
`SpendingIsBounded`: a window's overspend is the largest use times those that may
have spent since they were checked (`WindowsBounded` in `BudgetsInv`); an answer
under way accounts for the next record (`CountedOf`).
`NobodyGetsPastALimit` is `LimitsHold`, in four parts. The durable limiter
(`RatesInv`): windows lie apart, give or take the tick that an attempt waited for
its transaction, and each takes what its row counts; so a stretch of a window's
length meets two of them at most. The limiter in memory (`MemoryInv`): the map is
`Tidy`, one entry per key and those that end first in front, so that pruning
from the front meets what is live last. Quotas (`QuotasInv`): what was let through
since a time and what is left in the bucket are together no more than a burst and
the rate over the time between; a bucket deleted by the sweep was full, unless it
is of an earlier plan, under which nothing was let through since. Licences
(`LicensesInv`): a seat is held in the order of (since, id), all seats are filled
unless somebody left without a reconciliation; the rank of a claimant is the
number of those ahead, by an injection of the line into the numbers below its
length, so who is in is who has a rank below the capacity.

## 7. Limits

**Only model-checked.** All liveness (`EveryMessageSettles`, `ArchiveCatchesUp`,
`EverythingEnds`, `EndedIsLoggedOut`, `CredentialsTakenBack`), which is out of the
prover's reach. That the evaluation equals its definition where a role is inherited
twice is neither proved nor true (section 5); what is proved there is that it
allows no more.

**Assumed.** Ids are unique and never guessed; signatures, hashes and encryption
do what they promise; the database keeps what it committed and honours its own
locks. All modules but `Store` take transactions to be atomic, which is what
`Store` shows of the adapters. Transactions await what they start.

**Abstracted.** Outbox: payloads and sealing, message kinds other than webhook
(they have no subscription to pause), the sweep's retention time (any settled row
may go). Audit: event contents, hashes, the loop over tenants, a storage error in
a run (covered by `Crash`, which leaves more behind). Sessions: idle timeouts and
lifetimes shortened by policy, recent-authentication checks, network rules,
devices and agreements, enrolment in MFA and step-up, the policies that decide
who may administer or assume, external ids and tags, the authority of API keys,
identity expiry, ownership changes and safeguards, tenant creation and limits,
the grace period of the expiry sweep, records other than sessions that a purge
deletes. Except for MFA enrolment and ownership, which are fixed there, these only
refuse more. Account changes that end all sessions and sign in again in one
transaction are the composition of two modelled actions and are left out. Store:
queries by filter and order, migrations, closing. Dispatch: patterns (a constant).
Blocks: ranges of addresses. Licences: the start date of a pool. Sign-in: federated sign-in, sign-up, lockout, the
mailing of codes. OAuth: protocol endpoints, back-channel delivery. Delegations:
scopes and spending limits. Workflows: other triggers, what a step does to the
directory. Access: conditions, wildcards, boundaries, relationships, mandatory
access control; a document is a set of requests it allows and one it denies.
Vault: values, formats and sealing, reveal and the access log, renewals, schedules
and custom labels, engines without `revoke`, the pruning of lease history.

**Not modelled.** The components with status `not_modelled` in `PROJECT.json`,
each with its reason: planned (section 2), pure data transformation,
cryptography, or I/O. They make up most of the repository's lines: some forty API
groups are permission-checked operations on records of their own, whose
transactions interleave with nothing but each other.
