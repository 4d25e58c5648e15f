# ForeverDB verification

TLA+ models of the parts of ForeverDB / AzerDex where several actors change shared
state, and of the projection that turns the collected rows into what the public reads:
ten components, on the server, in the Windows companion and in the web site.
What they promise is model-checked on small instances with TLC and, but for liveness,
proved for every value of the constants with TLAPS.

    tlc -config WelcomeOutbox_race.cfg MCWelcomeOutbox      # one run
    tlapm WelcomeOutbox_proofs.tla                          # one proof module

`PROJECT.json` lists the runs, the source lines behind every definition (`map`),
for every checked property a plausible bug that breaks it (`mutants`), the
disagreements between code and documents (`findings`), and the hazards.

## 1. The system

ForeverDB collects game observations in a World of Warcraft addon, uploads them
with a Windows companion, keeps them in a private Supabase database and publishes
an anonymised projection in a second, public database that the AzerDex web site
reads.

| Component | State | Operations | Talks to | What is hard |
|---|---|---|---|---|
| Addon (`addon/ForeverDB/*.lua`) | SavedVariables tables, loot and gathering windows, session segments | game event handlers | companion, through the SavedVariables file | order of game events, reload in the middle of a session |
| Companion file sync (`companion/ForeverDB.Companion/Services`) | debounce tokens, known files, local guildbook | file events, timers, Sync now | coordinator, device client | callbacks cancelled and restarted while an upload runs |
| Companion account library (`companion/ForeverDB.Companion.Account`) | credential slots (blob, marker, backup), sessions, route cache, device credential | refresh, sign-in/out, revoke, route, upload, enroll, rotate | GoTrue, the RPCs below | crash between two files, identity changing under an upload, single-use refresh tokens, two processes |
| Claims and ownership (`database/migrations/0012`, ingest of `0005`) | installations' owners, claim codes, link rows, advisory locks | `fdb_account_claim_start`, `_redeem`, ingest, `restore_owner`, retention | auth sessions and users | concurrent transactions whose checks and writes are several statements apart |
| Device enrollment (`0014`) | tickets, devices, audit | issue, revoke ticket, enroll, revoke device, device ingest, rotate, status | ownership tables and locks | cloned SavedVariables, limits counted under concurrency, lock order |
| Welcome e-mail (`0015`, `supabase/functions/azerdex-welcome-worker`) | switches, candidates, outbox rows with leases, epochs and clocks | triggers, claim, finish, requeue, retention, worker runs | e-mail provider with idempotency keys | lost answers, dying workers, expired keys, overlapping runs |
| Publisher (`publisher/src/core`, `publish-observations`) and public read model (`public-read/migrations`) | lease, publications, `pub.state` | acquire lease, export, write and finalize, release; `activate_publication` | private database, public database, cron | a stale run, an operator's rollback in the middle of a finalize, a run that dies with the lease |
| Projection (`publisher/src/core/project.ts`) and the site that reads it (`web/src/lib/data`, `lib/routes.ts`, the entity pages) | the tables being built; none | build the projection of an export; search, sitemap, entity and zone pages | publisher, public database | which rows fall with a refused one, four places that say the same of a zone, links to pages that do not open |
| Talent calculator (`web/src/lib/talents`, `components/talents`) | the build on the page; links people keep | add, remove, reset, share, restore a link | static talent data, replaced by deployments | prerequisites that point both ways, a greedy search for an order, links older or newer than the data |
| Request budgets (`0009`, `web/src/lib/security/rate-limit.ts`) | counters per window | take a budget | every RPC | window boundaries |
| News, auth e-mail, map atlas, installer, workflows | articles; none; caches | fetch, forward, render | public database | little: sequential or stateless |

`PROJECT.json` (`components`) names every component with its files and status.

What makes each one correct, in a sentence:

- *Welcome*: no user is welcomed twice although a run may die after the provider
  took the message; an event without the "unknown outcome" mark was never sent; the
  kill switch is read at every claim; every event reaches an end.
- *Ownership*: an owned installation changes hands only by a code its owner issued
  and a different account redeemed while both sessions live, or by the operator undoing
  exactly that; codes are spent once; rows come from the owner.
- *Enrollment*: one live device per installation and identity; a ticket makes one
  device; the limits are exact; an authorized upload stays authorized until it commits;
  enrolling never takes an owned installation from its owner; no call waits for ever.
- *Publication*: the pointer leads to a kept, active publication; a run never replaces a
  version by an older one; retention bounds what is kept; the site catches up after
  crashes.
- *Projection and site*: what is published is what the accepted rows say, in whatever order they
  came; the public schema takes every projection the builder lets through; the zone directory,
  the zone pages and the search agree; links lead to pages that open.
- *Talent calculator*: a build shown can be bought in the game; what is refused cannot; a link restores
  what it was made from or says that it does not.
- *Companion sessions*: no crash, disk failure or transient answer loses the last
  credential of a living session, and nothing written from memory replaces a newer one.
- *Device credential*: the secret on disk stays one the server takes, whatever is lost or
  cut short; no device is revoked for "reuse" while there is only one copy.
- *Snapshot sync*: an installation nobody owns is adopted only by an identity the user chose; an
  identity whose change has been handled sends nothing; what is skipped is stored.
- *Web session*: outages, overlapping tabs and lost answers sign nobody out; what is reported
  as revoked is; a completed reset ends the older sessions; a form acts for the account it
  showed; page loads end.

## 2. Modules

| Module | Models | Kind |
|---|---|---|
| `WelcomeOutbox` | intake triggers, outbox RPCs, operator procedures, worker runs | component |
| `WelcomeOutboxInv`, `WelcomeOutbox_proofs` | inductive invariant; theorems | proof |
| `InstallationOwnership` | claim start/redeem, ingest, restore, retention, auth events | component |
| `OwnershipLedger` | owners and codes with five atomic moves | abstract specification |
| `InstallationOwnershipInv` | inductive invariants of the claims | proof |
| `DeviceEnrollment` | tickets and devices; EXTENDS `InstallationOwnership` and runs its calls and its own under the same locks | composition |
| `DeviceEnrollmentInv` | inductive invariants of claims and enrollment together | proof |
| `AccountLimits` | `DeviceEnrollment` with a record of who adopted what; the limits of an account and why they hold | composition |
| `Ownership_proofs` | the theorems of `InstallationOwnership`, `DeviceEnrollment` and `AccountLimits` | proof |
| `Publication` | publisher runs, lease, finalize, rollback | component |
| `PublicationInv` | inductive invariant | proof |
| `PublicSite` | publish a version at least as new, or go back to a kept one | abstract specification |
| `Projection` | the builder: an export read row by row, and the public tables it makes | component |
| `ProjectionRules` | what those tables should hold, said of the export as a whole; the public schema's keys, references and checks | reference definition |
| `SitePages` | the site's reads, routes and links over the projection | composition |
| `ProjectionInv` | inductive invariant of the builder | proof |
| `Publisher_proofs` | the theorems of `Publication`, `Projection` and `SitePages` | proof |
| `TalentCalculator` | builds, the legality search, share links and the data they meet | component |
| `TalentCalculator_proofs` | inductive invariant; theorems | proof |
| `CompanionSession` | three credential slots on disk and the session operations of several processes | component |
| `CompanionSessionInv`, `CompanionSession_proofs` | inductive invariant; theorems | proof |
| `DeviceCredential` | a device's secrets on the server and on disk, enrollment, upload, rotation | component |
| `DeviceCredentialInv`, `DeviceCredential_proofs` | inductive invariant; theorems | proof |
| `SnapshotSync` | file watcher, sync coordinator, ownership router, against the session manager and the ingest | composition |
| `SnapshotSyncInv`, `SnapshotSync_proofs` | inductive invariant; theorems | proof |
| `WebSession` | session cookie, tabs, routes, Auth | component |
| `WebSessionInv`, `WebSession_proofs` | inductive invariant; theorems | proof |
| `MC...` | instances for TLC | - |

### WelcomeOutbox

One row per user, one TLA+ function per outbox column. `lease` is the time left,
`started` the age of `first_send_at`, `doubt` the unknown-outcome mark. `ReadSwitch` and `Claim` are
`azerdex_welcome_claim`: it reads `dispatch_enabled` without a lock (`0015:364`), then reconciles,
sweeps and leases, so a switch-off that commits in between is not seen and that claim still leases
and sends. The model therefore states no promise of the switch; switching happens between any two steps of the other properties. `FinishRow` the whole of
`azerdex_welcome_finish`, `SendAccepted`, `SendAcceptedUnseen`, `SendNotAccepted` and `SendRejected` the provider call with every
classification `resend.ts` can return (accepted, accepted and the answer lost,
refused, conflict, throttled), `Crash` the end of a run anywhere, `FinishLost` a
finish whose call never arrives. Time is relative: `Tick` ages everything at
once and all ages saturate, so time never runs out. The constants keep the order the
code's numbers have (`RunBudget < Lease`, `Window + RunBudget <= KeyTTL`);
that order is what `WelcomeAssumption` states and the proof uses.

### InstallationOwnership

A backend is a PostgreSQL transaction. `lock` is the advisory lock of an
installation or account, `share[s]` the transactions that read session `s` FOR
SHARE and so keep a sign-out waiting. A call is modelled as the statements between which
others can run: `ClaimStart` / `StartLocked` / `StartCommit`, `ClaimRedeem` (the unlocked
lookup) / `RedeemLocked` / `RedeemCounted` / `RedeemCommit`, `Ingest` /
`IngestLocked` / `IngestCommit`; each refusal is an action (`StartRefused`, `RedeemRejected`,
`RedeemFull`, ...). `Rollback` is any failure: lock timeout, budget, error. `SignOut`,
`Ban`, `Upgrade`, `Expire`, `Prune` and `RestoreOwner` happen at any time. `Adopters`
and `Unsettled` say which users upload installations nobody owns and which users'
standing changes, so that an instance can choose.

### DeviceEnrollment

Adds `ticket` and `device` rows and the calls on them to the same backends. The lock
order is the code's: enroll holds the ticket row and the installation's lock before
the account's, issue takes the account's alone. The device's secret is in
`DeviceCredential`; the tickets of the last hour are not counted, so their limit may refuse an issue at any time (a
refused budget is a `Rollback`).

### Publication

Runs and operator are READ COMMITTED transactions. An UPDATE is two actions: it takes its
snapshot (`RetireStart`, `PruneStart`), then waits for rows others have changed and
re-checks them (`RetireRows`, `Prune`). What a transaction writes becomes visible at
its commit (`Publishing`). `locks` are row locks, `DeadlockVictim` PostgreSQL's
detection. A version of the private data stands for its content hash, as the
projection is a function of it. `Disturb` counts what may go wrong
(failures, crashes, lost answers, slow runs, rehearsals, rollbacks). The projection's
validation and the shrink guards of `finalize_publication` may refuse any
publication: that is `Fail`. Ids are not burnt by rolled-back runs; nothing looks at
gaps.

### Projection, ProjectionRules and SitePages

`buildProjection` reads five sections in turn. Each row is a step (`ItemRow`, `SourceRow`, `BucketRow`,
`DropRow`, `LocationRow`), taken in any order, since the database returns rows unordered; `NextSection` ends
a loop; `BuildProjection` is what is refused before the first row, `CheckRatios` the fail-closed ratios with the
deletion of bucketless sources and the indexability of the others, `ZoneRow` and `Finish` the derived
tables. What a row is refused for (its own fault, or that what it refers to was refused) and
whether it is counted as rejected, as an anomaly or not at all follows the code's early `continue`s.
`ProjectionRules` says the same result without an order: `Meant` operators
over the export, which `PublishesWhatRowsSay` compares with the tables built, and
`FitsPublicSchema`, the constraints of `0001`/`0005` and the checks of `finalize_publication`.
`SitePages` adds the adapter's reads, `parseEntityId` and the not-found conditions of the pages, and the links each
page makes. A source is its key of type, id and level; names are numbers in collation order with `BadName` for
whatever `sanitizeName` refuses; dominance is one flag of the exported row; one coordinate stands for both. Two facts about what comes from
elsewhere are assumptions: `ExportsWellFormed`, that the export functions group by the keys of
the tables and take observed locations only (`private-export/0010`), and `IdsFitPages`, that the ids of creatures and items, which the addon
takes from the game, are positive and have no ten digits. `GridDivides` is the configuration's: each grid
`contract.ts` allows divides the map.

### TalentCalculator

A dataset is a record of trees, talents (tree, place, row, ranks, tier gate, prerequisites) and a
budget; `WellFormed` is what `validateTalentClass` guarantees of it. `alloc` is the page's state. `Add` is
`engine.add`. `Remove`, and a link that decodes, start `isLegal`: `Buy` buys one point of the target that is
unlocked, in any order (the code's is that of the object's keys), and when nothing more can be bought
(`Settled`) `Conclude` compares and applies or refuses; the handlers are synchronous, so everything else waits.
`EncodeBuild`, `LayoutHash`, `DecodeFailure` and `Decoded` are `build-code.ts`, with the hash as the layout
it is computed from. `Deploy` replaces the data while the page and the links stay; `link` remembers what a
link was made from; `OpenCutLink` opens one whose end was lost. `Buildable` says
what a build is without an order: every part of it can be extended towards it.

### CompanionSession

A credential is the number of its issue, so "later" is "expires later", which is what the
store compares. A slot is `main`, `bak`, `tmp` and `marker`. Every operation of
`AccountSessionManager` runs under the machine-wide gate and is one step; the operators
`WriteCuts`, `DeleteCuts`, `QuarantineCuts`, ... give every state a file operation may leave when the
process dies or the disk fails between two of its parts, and a step composes them in the
code's order (`On`, `Caught`). `HealStorage` runs first, as in the code. `Restart` forgets
memory; `Damage` damages a file; `RefreshAnswers` and `LogoutAnswers` are Auth with rotation, reuse of the
parent token, refusals and lost answers.

### DeviceCredential

`db` is the row of `private.devices` with its current, next and retired secret; `store` the
credential file, its backup, temporaries and marker; `call` the one service call that holds the
device gate. A call stops at each request (`Ask`); `Serve` is the server's function, `LoseAnswer` and
`ArriveLate` what the network does, `Receive` the continuation (`Classified`, `Enrolled`, `Probed`,
`Rotated`, `Ingested`, ...), `Die` the end of the process. The verdict on account and ownership is any
value at each call. `harm` is history: what put an older secret back on disk.

### SnapshotSync

A task is one `SyncAsync`; `at` is the await it stands at. `vault` is what the slots hold, `manager`
what this process last read of them with its generation, `raising` the handlers of `IdentityChanged`
that still have to run: `Forget` clears the caches and the choice, `CancelAndReset` cancels what is in
flight. `epoch` numbers the cancellation tokens: the code takes the token before it reads the
generation, which is what `OldIdentitySendsNothing` rests on. `ChangeElsewhere` is another
process that changes the slots; it is noticed when a token is next acquired, or without the gate
(`GlanceAtVault`, `RecomputeUngated`: `SetClaimPending` calls `Recompute` outside the gate).
`Resolve`, `Registered`, `AnonymousToken`, `Conclude`, `Chosen` are the router; `Routed`, `Upload`,
`Replied`, `Renew`, `Reported` the coordinator; `Ingest`, `Link` and `ClaimRedeemed` the server.
A task keeps the facts its code keeps in locals.

### WebSession

The browser's `jar` is one copy of an Auth session with how many rotations it is behind (`lag`); every
request takes a copy, resolves it (`Refresh`, `GetUser`, following `resolveSession`), does what its
route does, and answers with a change of the cookie (`Deliver`) or is lost. Auth rotates, answers the
parent token with the same successor, refuses, fails, or acts and loses the answer. A user may be
`barred`: Auth bans it, or names it as anonymous, unconfirmed or another than the cookie's; its sessions
live on and resolve as ended (`session.ts:224`, `253-254`, `262-265`). A `plan` fixes what
each tab is used for, so that one run asks several questions without their product.

## 3. Runs

| Run | Question | Instance |
|---|---|---|
| `welcome_race` | overlapping runs, deaths, lost answers, requeues, switches flipped at any time: three safety properties and `EventsSettle` | 1 user, 2 workers, 2 attempts, 2 epochs, lease 2, window 2, key life 3 |
| `ownership_pair` | two transactions over two installations, with every outside event, and the refinement of the ledger | account and anonymous user, 2 installations, 2 codes, limits 1 |
| `enrollment_pair` | enrollment beside claims and uploads: ownership promises kept, uploads authorized, devices stranded only by a restore, every call returns | 1 installation, 1 code, 1 ticket, 1 device, 2 backends, fair |
| `enrollment_crowd` | clones, rival tickets and every limit, beside an account that adopts by upload | 2 accounts, 2 identities, 2 installations, limits 1, 2 tickets, 2 devices, 2 backends, at most one ended session |
| `publication_race` | two publisher runs and an operator, statement by statement | 5 ids, 3 versions, keep 2, lease 2, budget 1, 2 disturbances |
| `projection_rows` | one bad row, or several: is what is published right, takeable and reachable | one valley of 7 locations with up to 4 of 9 faults; empty, invalid, oversized and other-version exports |
| `companion_sessions` | session operations cut short anywhere: is a credential lost or set back | 2 processes, 1 account, 3 issues, 1 fault |
| `companion_confirmed` (violation) | does a confirmed sign-out mean an ended session | 1 process, 3 issues, no disk fault |
| `device_credential` | rotation, enrollment and uploads with crashes, lost and late requests | 1 process, 2 tickets, 4 secrets, 1 fault |
| `snapshot_sync` | uploads while identity, owner and file change | 2 tasks, 2 accounts and the anonymous identity, 2 versions, 2 moves, at most 3 saves and moves together |
| `web_session` | overlapping tabs, changed account, resets, ageing links, a barred user, clocks ahead and behind | 2 tabs, 2 users, 3 sessions, seven plans |
| `talent_builds` | builds through any clicks and links, and data replaced between | 6 talents in 2 trees, budget 4, four datasets, 1 link |

Why the bounds are enough. The properties speak of at most two transactions, two
codes, two devices, two publications, two tabs or two uploads at a time, and two of each actor give
every pairwise race, including the races over a limit (limits of 1: one too many is
two). Two worker runs, two attempts and two epochs suffice for a run that overlaps its
successor, a retry after an ambiguous attempt, and a requeue of a parked event; the
time constants are the smallest that keep the code's order strict. In
`publication_race`, three versions with keep 2 let a publication become doomed while the
operator holds its row (the deadlock); five ids are the most these bounds can
publish: three versions and one more for each rollback. In `projection_rows` the valley has two levels of one creature (a shared page with sections),
a source with two buckets, an item that is also a source, one that nothing looted, two names for one zone
in equal number and cells below and at the privacy threshold; four faults at a time let a
refused row take a bucket, its drops and an item's last source with it and still
pass the ratios, or fail them. In `talent_builds` two talents require each other with one way in, one talent has an alternative and a
required rank, two have tier gates, and the budget is less than all ranks; the datasets are an identical
later build, the same build with a rank corrected, and one with a talent replaced.
In `companion_sessions` three issues are an
anonymous identity, a sign-in and one refresh of either (`MaxFaults` 2, and one process with four
issues, also hold). Four secrets in `device_credential` are an issue, two rotations and a new
enrollment; two processes with one ticket, and two faults with three secrets, hold as well. In
`snapshot_sync` two saves of the file give a callback cancelled by the next save and an upload that
overtakes a late one, and two moves an identity
that changes and changes back, or a change and a fault; three of these together (`MaxEvents`) let a save fall
between two changes. One task with three moves holds too. `FewSignOuts` keeps
`enrollment_crowd` from going on after a second session has ended: a sign-out only takes calls away from its user. Where
a proof exists (section 5) the bounds matter only for the other properties, and the instance is what
the inductive invariant was tried on before it was proved.

Symmetry is used for safety runs only, over sets the specification never orders (and, in
`enrollment_crowd`, over the two identities with their sessions).
`CHECK_DEADLOCK FALSE` is said where a bound is a supply that runs out: tickets and devices in
`enrollment_crowd`, issues in the companion runs, secrets in `device_credential`.

### What the violation shows

- `companion_confirmed`: after a refresh whose answer was lost the spent token is refused with
  `refresh_token_already_used`, which counts as "the session is gone"; the next sign-out reports the
  living session as ended without asking.

It is quoted with its document in `PROJECT.json` (`findings`). Two more of `CompanionSession` were found
by larger bounds than the run's and are why `TokensNeverGoBack` and `NoSessionIsDropped` say what they except:

- Healing keeps the older of two copies (one process, four issues, two faults). A refresh of the anonymous
  session that could not be written is held in memory only; a sign-in preserves that newest token in the legacy slot
  and then fails, so the primary still holds the spent one. `HealStorage` (`AccountSessionManager.cs:1141`) finds one identity
  in both slots, takes the legacy copy for redundant and deletes the later token.
- Two failed writes in a row forget the newest token (three issues, three faults). `_unpersisted` notes as
  replaced the refresh token of the session in memory (`:415`), the disk still holds the one before it, and
  `TakePending` (`:256`) drops what no longer fits the disk, where the comment at `:90` says that the process
  continues with the new token and retries the write.

Other disagreements met while modelling, which no run shows:

- Retention keeps the newest ids (`0001_public_read_model.sql:455`), not the latest active: after a
  rollback to the oldest, the next publication deletes the one it replaces, where
  `public-publication-operations.md:58` says that the previous three are retained.
- A fishing source without a map is published with the id 0 or a negative hash
  (`Database.lua:204`, `LootTracker.lua:77`), but the pages take ids below 1 for objects only
  (`SourcePage.tsx:28`): its links end at "not found". `zone-atlas.md:66` says that the id is the
  uiMapID. `PlacedLinksOpen` excepts exactly these.
- The sitemap lists an indexable source of type `item` as `/item/{id}`, a page that looks at the flag
  of the item's own row (`item/[id]/page.tsx:55`) and may say noindex; `sitemap.ts:13` says "Only indexable entities".
- A source is indexable by the sum over its buckets (`project.ts:229`), by its bucket's
  observations according to `data-classification.md:55`.
- Refused locations are counted after the ratios were taken (`project.ts:196`), so they never fail a
  publication as `data-classification.md:61` says.
- A redeem counts installations under the account's lock, an upload that adopts an unowned
  installation takes no such lock and counts nothing
  (`0012_account_ownership_claims.sql:466`, `0005_guildbook_v1.sql:148`), so the limit that
  `ownership-claim-protocol.md:270` calls exact is not: an account at its limit can upload one more.
  `AccountLimitsHold` says what is exact instead: what an account has beyond those it adopted.
- After a restore and a second claim the live device belongs to the former account: the present owner's
  enroll answers that the installation is bound, and it cannot revoke the device
  (`0014_zero_touch_enrollment.sql:445`; `adr-017` line 99 says it can).
- The worker's breaker counts consecutive failures, so one run can park more users than
  `worker.ts:117` says.
- `DeviceSyncService.cs:135` resets a damaged state before `:142` checks it, whose comment says that a
  damaged credential stops without network. With `ZeroTouchEnrollmentApproved` off, `InitializeAsync`
  returns at once: a held secret is never stored, and a computer whose readable credential was revoked
  cannot be enrolled again although `AccountMessages.cs:140` tells the user to.
- `DeviceCredentialStore.cs:170` says a write that throws leaves the previous credential untouched; when
  only the marker fails the new blob is on disk already, and a held enrollment secret may later be
  stored over a newer one.
- A second unconfirmed sign-out overwrites the parked pending revocation; retrying a revocation and
  forgetting the legacy owner drop the session they rotated, so the stored token is spent. An
  interrupted delete at sign-out leaves a backup that the next heal promotes.
- The sync coordinator checks the generation at `InstallationSyncCoordinator.cs:209` and records the answer
  after it: an identity change in between is overwritten by the stale record, or a new choice cleared
  (`:35` says "never for stale work"). And between an ungated `Recompute` and its handlers a
  choice made for the old account can be acted on for the new one.
- When Auth does not answer who is signed in, a confirmation goes on and replaces a live session
  (`confirm/route.ts:18` refuses only what resolved as signed in or refreshable), where the comment at `:14` says that a
  one-time link "must never silently REPLACE a live session".
- A web logout of a session past its absolute age reports it revoked without asking Auth.

The properties except exactly these cases, by a clause of their own that their comments name.

## 4. Fairness

- `WelcomeOutbox`: `WF` of time, of the cron reading the switch and of each run's own steps; `SF` of the claim and of the
  provider answering *something*: the worker loops over an HTTP call with a timeout. Nothing is
  assumed of switches or operators, nor of deaths but that not every claim is cut short: the claim is `SF`. `EventsSettle` says what holds then: an event
  does not circulate for ever while dispatch is on.
- `DeviceEnrollment`: `SF` of each backend's next statement. PostgreSQL queues
  advisory and row lock waits first come first served, so a waiter whose lock is free
  again and again gets it. No caller is assumed to call.
- `Publication`: `WF` of time, of cron starting runs and of each run's statements; `SF` of the
  operator's statements, for the same reason of queued row locks (without it TLC finds the
  operator starved by one run after the other that ends as a deadlock victim).
- `WebSession`: `WF` of each tab's request going on: the site's handlers and Auth calls have
  timeouts, and a browser gives up. No user is assumed to do anything. `PageLoadEnds` then says
  that redirects end.
- `CompanionSession`, `DeviceCredential`, `SnapshotSync` and `TalentCalculator` state none; their properties are safety.
  (That every `SyncAsync` ends under fair handlers and a fair semaphore was checked on one
  version and one move, and holds.)

## 5. Proofs

`WelcomeOutbox_proofs` proves `WelcomeInv` inductive and from it `WelcomedAtMostOnce`,
`OneSenderPerUser`, `RowsTellTheTruth` and `QueuedOnlyWithProvenance`, for any users, workers and constants that satisfy
`WelcomeAssumption`. "At most once" is not inductive. The chain it needs: a run that
may still send holds the row's lease for longer than its budget (`LeaseHeld`), so its key is
the row's current one (`EpochHeld`) and no other run may send (`OneSender`); the provider's
key of a sent message is no older than the row's send clock (`ClockCoversKey`), so any send
within the window meets a live key (`SenderCoversKey`); and a sent message is in
doubt, or about to be reported, or leased (`DoubtKept`), so no path back to a fresh clock
exists for it. Each action is reduced to one of a few kinds of row update (inserted, left,
deleted, claimed) and each kind keeps the invariant once.

`Ownership_proofs` proves `OwnershipInv`: what a transaction checked under its
locks is still true when it commits. The argument is a frame: an installation's
rows are written only under its lock, and a pinned session cannot end (`Exclusion`,
`ReturnFrame`, `HoldFrame`, `AroundFrame`). From it follow `OnePendingClaim`,
`LinkIsProvenance`, `NoStaleLink`, the action properties `OwnershipMovesByProof`,
`DataComesFromOwner`, `SpentCodesStaySpent`, and the refinement `ImplementsLedger`.

It then proves `EnrollmentInv` for claims and enrollment together, and from it
`EnrollmentTypeOK`, `UploadStaysAuthorized`, `OneLiveDevice`, `TicketMakesOneDevice`, `EnrollmentLimits`
and the action property `DevicesFallForAReason`. A step moves one backend; every other one carries on
(`Carries`), and `BackendKept` says which part of the database each must find undisturbed
(`OwnershipUndisturbed`, `RowsUndisturbed`). Every step's proof then is who holds what:
an upload's device is revoked, and its owner changed, only under the installation's lock it holds;
an issue's count and an enroll's stand under the account's lock; the row lock of the ticket and the lock of the
identity each have one holder (`ExclusiveInv`). For `OneLiveDevice` the two locks are needed
together: what `EnrollBound` found (`BoundInv`) survives a rival's commit because the rival has another
installation, another identity and another account. `DevicesFallForAReason` needs one invariant
more, that a device's installation has a row: an enroll that replaces its own device is then never
refused for room. What the composition must not break is proved of the composition: `ProvenanceInv` (what a
start, a redeem or an enroll found under its locks still stands when it commits: the issuer still owns, was
anonymous when it was asked and is the account of no device there) gives `OnlyRestoreStrandsDevices`, and the refinement of the ledger is
shown again for the larger next-state relation (`EnrollmentKeepsLedger`), where enrolling an installation nobody owns
is the ledger's adoption.

`AccountLimits` adds a history variable, `adoptedBy`: who uploaded an installation while nobody owned it.
`AllLimitsAreExact` proves `AccountLimitsHold` of every instance, accounts that adopt included. What a redeem or an
enroll counts under the account's lock includes the adopted installations, so only another gain can use
up the room it found, and gains wait for that lock (`GainHasRoom`). A restore gives an installation back
without counting; that is harmless because only one who had it by its own upload can have issued the code
(`AdoptedInv`, `RedeemAdopted`), so what comes back counts as adopted. `TLC` tried `LimitsInv` with codes and
restores on one account and one identity before it was proved.

`Publisher_proofs` proves `PublicationInv`, and from it `ServedIsActive`,
`PublishNeverGoesBack` and the refinement `ImplementsSite`, for any runs, `Keep`, and any
`WallBudget < LeaseTTL`. It has two halves. *Versions*: a run within its budget still holds
the lease, with at least as much time left as its age allows (`LeaseHeld`), so while it prepares
nobody else exports; a run that writes rows after its lease has expired is alone
under the try-lock (`OneWriter`), and whoever exports meanwhile reads the private data
later (`ExportsFresh`); rows are inserted within the budget only, so the version about to be
committed is at least the newest one (`WrittenFresh`). Without the second part of
`ExportsFresh` a slow writer could still be overtaken. *Rows*: the rows a transaction has
retired or doomed are stored and locked by it alone (`RowsHeld`), and the operator's row is
there when the pointer refers to it (`RollbackHeld`), so a commit never removes
what another one has activated. `RetentionHolds` counts, so it needs a third part, `RetentionInv`: an UPDATE
that retires misses at most one active row (`OneRowEscapes`), because who moves the pointer holds the state row
(`PointerHeld`), and a DELETE removes what was doomed when it took its snapshot (`PrunesDoomed`). The lemma
`LargestFew` then bounds what is kept by the number of the newest ids; it takes a least element from
the library's well-founded induction instead of an induction of its own.

It then proves `ProjectionInv` of the builder, for every export whatever its size and its faults, and from it all four
properties of the projection and of the pages over it. The invariant says of each table that it is a function of the rows read so
far: the accepted items and sources by key, a source's total as the sum over its accepted buckets (`SourceTable`), the drops with their bucket's
denominator, the three tables of locations as sums grouped by three keys (`LocationTables`), the zone entities as what
the zones visited say together (`ZoneTables`), and of the two counters that they count the refused and the odd rows
(`CountsInv`), so that the run fails exactly when `Refused` says so (`VerdictInv`). Nothing in it mentions an order, which is why
the order of the rows cannot matter. Two parts make it inductive: a row is good by the whole export, while the code looks at the
tables built so far, so `KnownBuckets` needs the earlier sections to be complete; and a source without a bucket is deleted at the ratios,
so the table of sources is described differently before and after. Its steps rest on sums over finite sets: `Total` of the community
modules is a CHOOSE of a recursive function, and `SumExists`, `SumUnique` and `TotalRemove` (any element may be taken first) are proved by
taking a smallest counterexample among the subsets (`SmallestSet`, from the library's well-founded order on finite
sets); `GroupedAdd` (one row more is one `Bump` of its key) and `GroupedTotal` (the entries of some keys add up to the
observations of their rows) follow from them.

A finished projection (`Settled`) is then described by the export alone, and each property is read off: `PublicationMeansRows` table by
table, with `TotalReindex` carrying a sum from rows to published rows and `WinnerExists` for the name a zone is
given; `PublicSchemaFits` from `ReferencesResolve` (whatever a published row refers to is published) and
positive sums; `ZonesAlwaysAgree` from `ZoneAddsUp` and `AssociatedAreListed`; `PlacedLinksAlwaysOpen` from the references
again, as a link is made from a published row and opens what that row refers to.

`TalentCalculator_proofs` proves `BuildsAreReachable`, `RefusalsAreRight` and `LinksKeepTheirBuild` for any
datasets that are `WellFormed`. The core is that requirements only get easier (`UnlockedMonotone`), from
which a build that can be bought can still be bought with one unlocked point more
(`BuyKeepsBuildable`): so what the search has bought stays buildable, and a search that is stuck short of its
target has found a part nothing extends. Links rest on `RoundTrip`: two datasets with the same layout hash
have the same talents at the same places with the same ranks. (The 32 bits of the real hash may
collide; the model's cannot.)

`CompanionSession_proofs` proves `SessionInv`, and from it `CompanionTypeOK`, `NoSessionIsDropped` and
`TokensNeverGoBack`, for any processes, accounts and number of issues, crashes, disk failures and damaged files. The
invariant says of the server's issues that a session has one user and an anonymous user one session
(`IssuesOK`), of each slot that *every* file a reader could come to use, not only the best one, was issued and fits
the slot (`SlotOK`), and of a held session that it continues the one it replaced (`HeldOK`). The main file alone
would not be inductive: after a fault the backup or a temporary file becomes the slot's content.
Each file operation is reduced to what all its cuts have in common (`Wrote`, `Cleared`, `SameFiles`), from which `Ahead` (a
credential at least as new as the slot's, of the same session) and `Onward` (a slot that kept its session
and did not go back) are carried through a step. The two action properties are proved together: every operation is `Safe` for
the vault it goes on with after healing, and `HealedSafe` glues healing and operation, which is where the two
exceptions above are needed.

`DeviceCredential_proofs` proves `DeviceInv`, and from it `ReuseNeedsOldSecret` and `CrashLosesNothing`. The idea is an
age: the secret the Companion works with, the one of the call under way or the one `Read` returns, never goes
back; nothing on its way is newer, and a row with a retired secret has a current one that is not newer either, so
a retired secret is older than anything still sent (`SecretsAge`). It holds while nothing brought an old
secret back (`Calm`); `RotationFits`, that a rotation's answer is the next secret of the device on disk, needs
that no harm was done at all. What an enrollment returned follows only secrets of devices that are gone
(`HeldSupersedes`), which is why a crash before it is stored costs nothing.

`SnapshotSync_proofs` proves `SyncInv`, and from it `SyncTypeOK`, `NothingNewIsSkipped`, `OldIdentitySendsNothing` and
`AdoptedByChoice`. A task's record is tied to three things at once: to the gate, held by exactly the task that is
inside (`TaskInv`); to the epoch, since a generation behind the manager's is one whose handlers still run unless
the epoch has moved on (`EpochOK`); and to the manager, since a token of its generation is of what it knows
and no other thread has taken the session gate since (`TokenOK`). Adoption (`AdoptionOK`, `RouterOK`, `NetOK`)
says of everything that could still adopt, the routes cached, the uploads sent and the choices being acted on, that its
identity was chosen.

`WebSession_proofs` proves `WebInv`, and from it `ResetEndsOldSessions`, `RevocationsAreReal`, `ActsForShownAccount`
and `SignedInSurvives`. What a request still knows of its session at each step of its handler is `RequestInv`, in
five parts (which cookie it carries, what resolving it found out, what it revoked, whose password its mark
names, which page its form came from). `SignedInSurvives` speaks of all tabs at once and rests on `KeepsUp`: of all the copies
of a session that may still be rotated or stored, none falls out of Auth's token family, because a copy
that is due and current is one every other copy keeps up with. The sessions of barred users are apart: their
answers may be dropped after Auth rotated.

The assumptions on constants are those the modules name (`WelcomeAssumption`, `OwnershipAssumption` and so on); they
say that sets are finite or apart, that bounds are numbers, and keep the order the code's durations have. The projection's three are
explained in section 2; `ExportsWellFormed` asks nothing of an export that the schema check refuses.

The inductive invariants, `OneSenderPerUser`, `SpentCodesStaySpent`, `EnrollmentTypeOK`, `LinkIsProvenance`, `OnePendingClaim`,
`NoStaleLink`, `EnrollmentLimits`, `PublishNeverGoesBack`, `DeviceTypeOK` and `WebTypeOK` are
theorems without a run of their own: TLC agreed with them before they were
proved, and what the runs still check follows from them.

Model-checked only:

- All liveness (`EventsSettle`, `EnrollmentCallsReturn`, `SourceGetsPublished`, `PageLoadEnds`): fairness and ENABLED are out of TLAPS's reach.

## 6. Abstractions and what is not modelled

- Request budgets, statement and lock timeouts: a call may roll back at any point.
- Bans and identity upgrades are not locked by anything in the code; the deployment runbook
  documents the ban race (`docs/account-v1/0012-deployment-and-recovery.md`). The models let them
  happen anywhere, so the ownership properties speak of sessions and codes.
- Codes, tickets and secrets are compared as tokens; hashing, formats and e-mail
  text are left out.
- `pub_ops.set_schedule(false)` does not stop a run under way, which may then replace what
  an operator rolled back to: the model has this, and no document promises otherwise.
- Dry runs, publication from an export file, the run log.
- `Projection`: rates and their intervals (only whether they are given), the content hash, search
  ranking, the export's SQL and the atlas's fixed zone names are left out. `SitePages`: lists are not cut off;
  zones known from the atlas only are left out; the site reads one publication.
- `CompanionSession`: an operation under the gate is one step, so no other process sees its middle, which
  the gate's named mutex gives; a file that is merely busy makes an operation return without a
  change; `File.Replace` is taken to be atomic; encryption, 0.8.x tokens, the pilots' flags and a session that fails
  verification are left out. The users' confirmations are nondeterministic.
- `DeviceCredential`: one installation and one device identity; the device session's own token and its
  refresh, several installations, busy files and limits are left out; grace ends only when no request
  is on the way (client and server give up long before 120 s).
- `SnapshotSync`: the path without accounts, the device path, the pilots, a second anonymous identity and
  forgetting the legacy owner are left out; the 1.5 s of the debounce are part of waiting for the
  gate; a link status call is one step; the record shown in the row is reduced to whether it offers a
  choice; finding and parsing files is not modelled.
- `WebSession`: the seal and chunks of the cookie, CSRF tokens, budgets, sign-up and e-mail requests are left
  out; time passes only between requests, which take seconds; a grant whose answer is lost is a refusal
  and a sign-in elsewhere. A late answer to a request sent with an older session may replace a newer
  sign-in's cookie: the last clause of `SignedInSurvives` says so. So does a password reset that Auth
  refuses: `reset-password/route.ts:41-46` clears the cookie on any definite refusal but a weak or an
  identical password, also while the recovery session lives (a 4xx without a code, from a gateway or for a
  wrong API key, is enough; `session.ts:258-261` lets no such answer end a session elsewhere). `SignedInSurvives`
  names this case as the code's, and `WebInv` leaves it out of what a cleared cookie means. That a barred
  user is accepted again is not modelled; a sign-out reports a barred user's session as revoked without
  having asked Auth, which `RevocationsAreReal` excepts.
- `TalentCalculator`: selection, tooltips, texts, icons and announcements are left out, and the
  address bar, which an effect keeps equal to the build's link.
- Not modelled: the addon (one Lua state, sequential handlers), request budgets, news, auth e-mail, the remaining pages
  and maps, the atlas tools, the installer and the workflows; they are stateless or
  sequential. `PROJECT.json` gives each its reason. Most of the repository's TypeScript is pages, fixtures,
  texts and duplicates of the publisher's core; its stateful part is modelled.

## 7. Plan

Done: the ten components above, with the proofs of section 5.

Next, in this order:

1. Request budgets; the addon's loot and gathering windows, session segments.
2. Liveness of `SnapshotSync` in a run.
