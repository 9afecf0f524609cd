# been_there: a verification project

TLA+ models of the server of *been_there* (`src/packages`), TLC runs over small
instances of them, and TLAPS proofs of what matters most for every instance.

Source paths below are relative to `src/packages/`.

## 1. The system

been_there is a dating product that keeps one chain of trust: a verified identity,
a profile, discovery, a like, a match, a conversation, a block or a report, risk
detection, moderation, enforcement.  The server is one Node process over PostgreSQL.

**Every HTTP request is one database transaction.**  The server resolves the actor,
opens a transaction with a plain `BEGIN` (so READ COMMITTED), runs the handler, and
commits whatever the handler wrote unless it throws (`service/src/http/server.ts:203-241`,
`database/src/transaction.ts:39-84`).  A refused command is a *returned* error, so it
commits too.  A handler reads rows, hands them to the pure decision functions of a domain
package, and writes the result with several statements.  Most of what is hard to test
here follows from that shape:

* a decision is taken on rows another request may change before the write;
* a refusal that comes after a write keeps the write;
* what holds two requests apart is only what a statement says: a unique index, an
  `ON CONFLICT` clause, a `WHERE generation = ...`, and the row locks of writes.

### Components

| component | state | operations | what makes it correct | here |
|---|---|---|---|---|
| Interaction ledger (`dating`, `service/src/routes/interactions.ts`, `matches.ts`, `store-interaction*.ts`) | likes, passes, blocks, matches, one conversation per match | like, pass, block, unmatch, and the retry of each | one current like per direction; a match only of two likes, one per person, no block; match, likes and conversation end together; history is kept | `Interaction`, `Relationship` |
| Moderation decisions and enforcement (`moderation`, `routes/moderation*.ts`, `store-moderation.ts`, `store-account-standing.ts`) | cases, decisions, audit log, account standing | open a case, decide, reverse, read the history | a standing is attributable to an audited decision; no sanction is lost; a ban ends only by a lead; one decision per case | `Enforcement`, `AccountStanding` |
| Reports, evidence, staff (`routes/reports.ts`, `moderation-workspace.ts`, `staff-sessions.ts`, `accounts/session-resolver.ts`) | reports, cases, evidence, staff identities and sessions, audit log | report, open a case, read evidence, decide, sign in, sign out | only the appointed act; every read is audited; a revoked session stops | `CaseDesk`, `CaseRules`, `StaffRules` |
| Kernel machines (`core/src/states`) | none | transitions, capabilities by state | only the listed moves | `AccountMachine`, `IdentityMachine`, `RiskRules`, `ProfileRules` |
| Transactions (`database/src/transaction.ts`, `service/src/http/server.ts`) | row versions and locks | begin, commit, roll back | nothing of a failed request remains | `RowVersions` |
| Identity verification (`identity`, `routes/verification.ts`, `wiring/attempts.ts`) | attempts, the identity row with its generation, the vendor's sessions | start, capture, submit, take the result | the identity and the attempt it names agree; only whole captures are submitted; a late or repeated result changes nothing twice | `Verification`, `IdentityRules`, `IdentityLife` |
| Sessions, recovery, deletion (`service/src/accounts`, `routes/account-*.ts`, `store-accounts.ts`) | credentials, sessions, recovery codes, deletions, notices | sign in, refresh, sign out, recover, delete, undo, purge | a dead session stays dead; a code works once; what a recovery and a deletion end stays ended | `AccountAccess`, `SessionRules` |
| Limits on recovery (`accounts/recovery.ts`, `notices.ts`) | rate-limit events, notices claimed | ask for a code | the owner of a paused account is told, once a day | `RecoveryPause`, `NoticeRules` |
| Conversations and messages (`communication`, `routes/conversations.ts`) | conversations, messages | send, against blocks, ends and standings | what was refused when a send began stays refused; the burst rule holds while the page it counts reaches the window | `Messaging`, `SendRules` |
| Risk (`trust-safety`, `wiring/safety.ts`) | signals, assessments with a generation, the recorder's memory, campaign cases | observe, fold, raise a review | every signal is folded; a campaign within its window is cased; nobody rises on one detector | `SafetyRecorder`, `RiskRules` |
| Sign-up (`routes/accounts.ts`, `accounts/rate-limit.ts`) | users, credentials, contact proofs, deleted subjects | sign up, with a deletion completing beside it | one account per contact; a household's limit; a banned person who returns is held | `SignUp`, `SignUpRules` |
| Profiles and photos (`routes/profile*.ts`, `store-interaction.ts`) | one profile per user, photos with positions and decisions | upload, screen, reorder, remove, save; replace, by the older route | a save shows what is published, in its order; the primary photo survives; what a member is told about discovery is what others see | `Profiles`, `ProfileRules` |
| Discovery, preferences (`dating/src/discovery.ts`, `read-models.ts`) | none of their own | list candidates | readiness and discoverability agree | `DiscoveryRules` (operators, composed in `Profiles`) |
| Completed dates (`dating/src/goal.ts`, `store-goal.ts`) | entries and their corrections | record, restate, withdraw, each with its key | a withdrawn date never counts again; a restatement replaces a day that was shown | `CompletedDates` |
| Notifications | rows of notices claimed | plan, claim, send | the blocked hear nothing, the critical gets through, quiet hours end | `NoticeRules`, proved in `NoticeProofs` |
| Social sign-in; re-verification, anomaly, replay; analytics, telemetry; HTTP edge, health; clients, web, ops, scripts | | | | not modelled, section 6 |

Interactions.  The components share tables, not calls: enforcement writes
`account_standing`, which every other route reads through `subjectStandingFor`; a like
reads blocks and writes matches and conversations; sending reads conversations, blocks
and standing; reports and the safety recorder open cases; a deletion retires a user row
that sign-up later looks for; a recovery revokes the sessions a refresh may be rotating.
There is no queue and no background worker: an expired deletion is completed by the
next request that meets it.  What calls back is the event publisher, the safety
recorder (memory shared by all requests of the process) and the mail transport, all of
them inside a request.

### The hard behaviours

The full list, each at its line, is under `hazards` in `PROJECT.json`.  In short:

* reads before writes in two requests at once (`routes/interactions.ts:273`,
  `routes/moderation.ts:294`, `routes/account-sessions.ts:215`,
  `routes/conversations.ts:66`, `routes/profile-sync.ts`, `store-goal.ts:318`);
* a compare-and-set on a generation read later than the state it protects
  (`moderation.ts:355`), or retried a bounded number of times (`wiring/safety.ts:500`);
* errors that commit (`moderation.ts:379`), and a caught SQL error after which the
  transaction can only roll back;
* several tables that must move together through a crash; effects a rollback does not
  undo (the vendor's session, the recorder's memory, a mail that was sent);
* retries of requests whose reply was lost, with or without an idempotency key;
* an actor resolved in a transaction of its own, before the request's (`http/server.ts:186`);
* row and advisory locks taken in an order; limits counted before the row they limit
  is written; passes, codes, sessions and windows that expire by the clock;
* long sequences of legal calls (like, match, end, like again) that reach a row nothing
  can decode.

## 2. The modules

State machines, each with the MC module that gives TLC its values (`MC` + name):

| module | what it is |
|---|---|
| `RowVersions` | a PostgreSQL table as transactions at READ COMMITTED meet it; instantiated by every component |
| `Interaction` | likes, passes, blocks, matches, unmatching |
| `Relationship` | abstract: what may happen to a pair, one committed decision at a time; `Interaction` implements it (`KeepsPromise`) |
| `Enforcement` | cases, decisions, reversals, audit rows, account standing |
| `AccountStanding` | abstract: every account's state moves by the account machine; `Enforcement` implements it with one moderator at a time (`SerialFollowsMachine`) |
| `Verification` | the four verification routes, the identity row, the attempts, the vendor's sessions |
| `IdentityLife` | abstract: every identity moves by the kernel's machine, one generation at a time; `Verification` implements it (`FollowsIdentityLife`) |
| `AccountAccess` | sign-in, refresh, sign-out, recovery, deletion |
| `SignUp` | sign-up with its limits, beside the completion of deletions |
| `RecoveryPause` | the limits on recovery and the one notice of the pause |
| `Messaging` | sends against blocks, ends and standings |
| `SafetyRecorder` | the recorder: signals, assessments, campaign cases, its memory |
| `CaseDesk` | reports, evidence, cases, staff and their sessions |
| `Profiles` | photos and the profile that shows them |
| `CompletedDates` | the ledger of dates and its corrections |

Rules, translated as operators over sets, records and functions and used by those:

| module | what it translates |
|---|---|
| `AccountMachine`, `IdentityMachine` | `core/src/states/account.ts`, `identity.ts`: states, moves, capabilities |
| `IdentityRules` | `identity`: attempts, the outcome of a provider's result, escalation |
| `SessionRules` | `service/src/accounts/sessions.ts`, `platform/src/authn.ts`: what a session is good for, the limit, the codes |
| `RiskRules` | `trust-safety`, `core/src/states/risk.ts`: detectors, scores, corroboration, the risk machine, campaigns |
| `SendRules` | `communication`: who may send, the burst rule, friction |
| `ProfileRules`, `DiscoveryRules` | `dating`: profile machine, photo rules, order; the deny-list, filters, readiness |
| `CaseRules`, `StaffRules` | `moderation`, `platform/src/authz.ts`: report and case machines; permissions, clearances, the evidence gate |
| `SignUpRules` | `service/src/accounts`: calendar and age gate, the household of an address |
| `NoticeRules` | `platform/src/notifications.ts`: the catalogue, plans, quiet hours, digests |

Theorems are in `InteractionProofs`, `EnforcementProofs`, `CaseDeskProofs`,
`VerificationProofs`, `AccountAccessProofs`, `SignUpProofs`, `RiskProofs` and
`NoticeProofs`.

### Requests and tables (`RowVersions`)

A table is a function from keys to versions `[row, next, by]`: the committed row, what
its writer would commit, and the writer.  `Seen(table, tx)` is what a statement of `tx`
reads: the committed rows and its own writes.  `Put` writes; `Commit` and `Rollback` end
a transaction; `FreeFor` is the row lock.  A statement that needs a row another
transaction holds is simply not enabled until that one ends, and is then evaluated on
the row that is committed by then, which is what PostgreSQL does with a blocked
`UPDATE` or `INSERT ... ON CONFLICT`.  A waiting insert on a unique index is modelled
where the index is (`LikeRivals`, `PassRivals`, `Taken`).  Tables that are only appended
to, and whose rows nobody decides on before they are committed, are plain sets or counts.

A component has a variable `req`: for every request slot, the place its handler is at
and the local values it still needs.  Each database statement is an action; what the
handler computes between two statements is part of one of them.  `CommitRequest` (or
`Answer`) ends a handler that answered, domain errors included; `Throw`, `Crash`, `Fail`
or `Abort` one that threw or whose connection died, at any place.  Slots are reused, so
runs are of any length; what bounds them is the number of ids.

### Interaction

`likes`, `passes` are `app.likes` and `app.passes` by id; `blocks` the active row of
`app.blocks` by pair; `matches` is `app.matches` by `pair_key`; `chats` the state of the
conversation of the pair's match.

| code | actions |
|---|---|
| `POST /v1/interactions/likes` (`recordLikeFor`, `recordLike`, `appendLike`, `resolveMatch`) | `BeginLike`, `ReadLikes`, `ReadPasses`, `RefuseLike`, `RefuseSecondLike`, `RecordLike`, `FindLivePass`, `InsertLike`, `SupersedeOwnPass`, `SupersedePassByPair`, `ResolveWithoutMatch`, `UpsertMatch`, `MarkLike`, `OpenChat` |
| `POST /v1/interactions/passes` (`recordPass`, `appendPass`) | `BeginPass`, `ReadLikes`, `ReadPasses`, `RefusePass`, `InsertPass`, `MarkLike` |
| `POST /v1/blocks` (`createBlockIdempotently`, `endMatchForBlock`) | `BeginBlock`, `InsertBlock`, `FindMatch`, `EndMatch`, `MarkLike`, `CloseChat` |
| `POST /v1/matches/:id/unmatch` | `BeginUnmatch`, `FindMatch`, `EndMatch`, `MarkLike`, `CloseChat` |
| the thirty days of a pass (`isPassInEffect`) | `ExpirePass` |

A like carries the id its client supplied, so every id may come again: that is the retry
of a request whose reply was lost, at any later time.  Eligibility that depends on other
tables (standing, profile, verification) is a free choice, `RefuseLike`.

Read the model for: `findLikesFor` returns current likes only, so a retry of a withdrawn
like is recorded in memory and found in the table; the unique index `likes_live_pair` is
over live *and* matched likes; `UPSERT_MATCH` keeps the end of the stored match and adds
the like ids it did not list; `updateLike` moves only current likes.

### Enforcement

`cases`, `decisions` are the moderation tables; `audit` is the one audit row a decision
is read back through, reduced to its `detail.toState`; `standing` is
`app.account_standing` with its generation.

| code | actions |
|---|---|
| `openCaseFor` (and the safety recorder's cases) | `BeginOpen`, `InsertCase` |
| `recordDecision` (`assignCase`, `startCaseReview`, `decide`, `applyDecision`) | `BeginDecide`, `FindCase`, `ReadStanding`, `InsertDecision`, `UpdateCase`, `FindStanding`, `UpsertStanding`, `FlushAudit` |
| `reverseADecision` (`loadDecisions`, `reverseDecision`, `applyReversal`) | `BeginReverse`, `FindCase`, `LoadDecisions`, `ReadStanding`, `InsertDecision`, `FindStanding`, `UpsertStanding`, `FlushAudit` |
| `caseDetail` | `BeginView`, `FindCase`, `LoadDecisions` |
| sign-up of a re-entering account (`routes/accounts.ts:252`) | `Init` |

Read the model for: `recordDecision` reads the standing twice, once for the state the
decision is taken on (`ReadStanding`) and once for the generation its write is
conditional on (`FindStanding`); the write (`UpsertStanding`) applies only if the
generation has not moved since the second; when it does not apply, the error is
returned, so the decision and the resolved case are committed (`Answer(r, "conflict")`).
The intermediate states of a case (`assigned`, `in_review`) exist only in memory: a
stored case is open or resolved, because no route escalates or reopens one.

### CaseDesk

`staff`, `sessions`, `reports`, `cases` are tables; `log` the committed rows of the audit
log and of the decisions; `shown` what readers of evidence were answered with.

| code | actions |
|---|---|
| `POST /v1/staff-sessions`, `DELETE /v1/staff-sessions/all` | `SignIn`, `SignOutAll`, `ListSessions`, `InsertSession`, `Evict` |
| the resolver (`session-resolver.ts`), two transactions before the handler's | `FindSession`, `FindIdentity` |
| `POST /v1/reports` | `InsertReport`, `ObserveReport` |
| `POST /v1/moderation/cases` | `FindReport`, `InsertCase` |
| reading a case's evidence | `FindCase`, `ReadReport` |
| a decision | `FindCase`, `UpdateCase` |
| `flushAudit` and the commit; a throw or a crash | `CommitRequest`, `Abort` |
| the directory, kept by hand | `ChangeIdentity` |

Read the model for: an actor's session and role are read in transactions that have ended
when the handler's begins, and nothing is asked again.

### Verification

`identity` is the identity row with its generation and the attempt it names; `attempts`
the attempts; `provider` the vendor's sessions, which no rollback undoes.

| code | actions |
|---|---|
| `POST /v1/me/verification` | `BeginStart`, `FindIdentity`, `FindOpen`, `WriteIdentity`, `InsertAttempt` |
| `.../captures` | `BeginOn`, `FindAttempt`, `WriteAttempt` |
| `.../submit` | `BeginOn`, `FindAttempt`, `StartSession`, `WriteAttempt` |
| `.../provider-result` | `BeginOn`, `FindAttempt`, `FindIdentity`, `FetchResult`, `WriteIdentity`, `WriteAttempt` |

Read the model for: the identity is written by compare-and-set on the generation that was
read; an attempt is written whole, as the request read it, and refused only where that
would reopen a closed one, and nobody looks at the refusal.  The column `provider_reference` holds
the session an attempt was submitted to until a result comes, and then the handle that
result carries (`verification.ts:390-398`): `Completed` overwrites it.  Which session an
attempt had been sent to is then the vendor's knowledge alone, so the model keeps it in the
attempt's `session`, a history no action reads.

### AccountAccess

Tables `users`, `credentials`, `sessions`, `recoveries`, `deletions`, `notices`; `rotated`
and `excused` are history: which session a refresh replaced, and which sessions were
issued by requests that crossed a recovery, a deletion or another refresh.

| code | actions |
|---|---|
| `POST /v1/account-sessions` | `BeginSignIn`, `FindCredential`, `ListSessions`, `InsertSession`, `WriteSession` (the evictions) |
| `.../refresh` | `BeginRefresh`, `FindSession`, `WriteSession`, `InsertSession` |
| `DELETE /v1/account-sessions` and `/all` | `BeginLogout`, `BeginAsMember`, `Resolve`, `ListSessions`, `WriteSession` |
| `POST /v1/account-recovery` | `BeginAskRecovery`, `FindCredential`, `WriteRecovery`, `InsertRecovery` |
| `.../complete` | `BeginRecover`, `FindRecovery`, `SetPassword`, `WriteRecovery`, `ListSessions`, `WriteSession`, `TellOwner` |
| deletion: ask, undo, the completion of one that is due | `BeginAsMember`, `Resolve`, `Schedule`, `FindScheduled`, `FindDeletion`, `FindContact`, `DeleteCredential`, `DeleteSessions`, `DeleteRecoveries`, `RetireUser`, `WriteDeletion` |
| the clock | `Tick` |

Read the model for: no handler locks what it reads, and `updateSession`, `updateRecovery`
and `updateDeletion` write every column back as read.

### SignUp and RecoveryPause

`SignUp`: `users`, `credentials`, `standing`, `cases`, the rate-limit events (`attempts`)
and the advisory `locks`.  A sign-up is `BeginSignUp`, `LockAddress`, `CountAddress`,
`LockContact`, `FindCredential`, `CountContact`, `InsertUser`, `InsertCredential`,
`FindSubject`, `Hold`, `CommitRequest`; the completion of a deletion beside it is
`BeginDeletion`, `FindContact`, `DeleteCredential`, `Retire`.  `OpenCase`, `Decide`,
`HourPasses`, `DayPasses` are what happens to accounts and windows meanwhile.

`RecoveryPause`: `BeginAsk`, `LockSource`, `CountSource`, `CountAccount`, `Claim` (the
insert of the notice under its key), `Send` (the mail, before the commit), `Answer`,
`Fail`.  A caught error in `Claim` leaves the transaction aborted: the answer is given and
everything is rolled back.

### Messaging, SafetyRecorder, Profiles, CompletedDates

`Messaging` reads, one statement at a time (`FindConversation`, `ReadSenderStanding`,
`ReadPeerStanding`, `ReadMatch`, `ReadBlocks`, `ReadHistory`), decides, and then inserts
(`InsertMessage`, `TouchConversation`), beside `BeginBlock`, `InsertBlock`, `BeginUnmatch`,
`FindMatch`, `EndMatch`, `CloseChat`, `ChangeStanding` and the clock.

`SafetyRecorder` is a request's tail: `Observe`, `Detect`, `Evaluate` fold the behaviour
into the process's memory; `FindSignalsFor` and `SeedLedger` fill a ledger from the table
the first time; `FoldNext`, `ApplySignal`, `UpsertAssessment` fold a signal under the
assessment's generation and retry; `InsertCase`, `MarkOpened` put a campaign before a
moderator.  `Fail` rolls the tables back and leaves the memory; `Restart` empties it.

Read the model for: a signal is of the instant its behaviour happened, and `Within` compares
instants as `corroborate` does (`correlation.ts:155-160`): what is older than the window, and
what is later than the signal, neither corroborates it, nor repeats it, nor is in its
campaign.  A ledger keeps its newest `Capacity` signals, and a replay reads as many rows,
each cutting by its own order (`LedgerRank`, `RowRank`).  `Catalogue` follows the deployment:
with a pairing secret (`Paired`) the recorder runs `interaction.unmatch_report` as well.
`Delivered` is what its seam hears of a behaviour: the seam subscribes to the recorder's own
transport (`wiring/safety.ts:257-267`), not to the stream `submitReport` publishes pairings on.

`Profiles`: `CountForUpload`, `InsertPhoto`; `ReadForScreening`, `ApplyDecision`;
`ReadPublished`, `Stage`, `Finalise` (the two statements of a reorder); `DeletePhoto`; each
followed by the save of the profile, `FindProfile`, `ListPhotos`, `UpsertProfile`, except a
reorder, which leaves the profile alone.  `BeginEdit` is `PUT /v1/profiles/me`.  The older
`PUT /v1/accounts/:userId/profile` (`routes/profile-legacy.ts:36-73`) is `BeginReplace`,
`FindProfile`, `ReplaceContent`, `UpsertProfile`: it writes the same row with the photos, and
the order, its request lists.

`CompletedDates`: `ReadEntries`, `ReadCorrections`, the decision on what was read
(`DecideRecord`, `DecideCorrect`), `InsertDate`, `InsertCorrection` with the condition its
`WHERE` states again, `MoveDay`.

## 3. What is checked

Every property of a passing run has, in `PROJECT.json`, a mutant: a change of one mapped
definition, the way a bug in that code would change it, under which TLC finds the
property violated.  The mutants are the definitions marked `\* mutant`.

| run | instance | what it shows |
|---|---|---|
| `interaction` | two users, two like ids, one pass id, two requests; `regime` is one of *endings* (like, block, unmatch), *passes* (like, pass of one user) and *serial* (everything, one request at a time) | the ledger, the match and the conversation stay consistent in every interleaving, with retries, crashes and likes after an end (`OneCurrentLike`, `MatchIsMutual`, `ChatAgreesWithMatch`); the pass a like overrides is superseded in the same commit (`OverriddenPassIsSuperseded`); history is kept (`NothingUnhappens`); the pair moves only as `Relationship` says (`KeepsPromise`); every request ends, so no two wait for each other (`EveryRequestEnds`); the matching rules concurrency breaks hold without it (`SerialMatchingRules`) |
| `enforcement` | one account, two cases, three decisions, two requests, every action | a standing is traced to the decision, the case and the audit row behind it, and no audited sanction is lost (`StandingIsExplained`, `EverySanctionCounts`, `HoldEndsInBan`); until two requests have overlapped, the account follows its machine and a decision's record is whole (`SerialFollowsMachine`, `SerialRecordIsWhole`) |
| `account_access` | one account, three sessions, two codes, two passwords, two requests, four requests in all, a clock of 0..2 with windows of 1 and 2 | `DeadStaysDead`, `SingleUse`, `RecoverySignsOut`, `CodeWorksOnce`, `DeletedHasNoAccess` |
| `verification` | one account, two attempts, two vendor sessions, two requests; a clean pass at the floor, a failure, one short of the floor | `IdentityAgreesWithAttempt`, `SubmittedIsComplete`, and the refinement of `IdentityLife` |
| `sign_up` | three user ids, two contacts, two addresses of one /64 and a wrapped v4 one, two requests, limits of one; births eighteen today and tomorrow, a leap day among them | `DuplicateIsAnswered`, `AddressLimitHolds`, `ReentryIsHeld` |
| `recovery_pause` | two sources, two requests, limits of three and two in days of two ticks, three days | `OwnerLearnsOnce`, `PausedOwnerIsTold` |
| `messaging` | two participants, two requests, and one of: *endings* (sends, blocks, ends and standings at one instant); *bursts* (sends alone, up to seven messages over a clock of 0..4, with a limit of two in a window of two ticks and a page of three) | `LateSendRefused`; `BurstIsBounded` while windows slide and the conversation outgrows its page |
| `safety` | three people, a pairing secret, one failed request or restart, and one of: a *campaign* (two reporters, three behaviours, two requests at once within two hours); the same *aging* (one request at a time, and the clock takes the week's window past what was reported); one person's *nuisance* (six behaviours at one instant, the last two at once) | `SignalsAreFolded`, `CampaignIsCased`, `RiskIsCorroborated`, `StaysBelowHigh` |
| `case_desk` | two staff, two sessions, one report, one case, two requests; a moderator, a suspended one, a support agent | `OnlyTheAppointedAct`, `ReadIsAudited` |
| `profile` | two photos of two allowed, and one of: two requests *crossing*, none of them of the older route; every route, each request *alone* | `PrimarySurvives`, `ProfileShowsPublished`, and `ToldAsShown` over every profile state, identity, account and expressible preference |
| `completed_dates` | one entry, two keys, two requests, three corrections, two days | `SupersedesAClaim`, `NothingResurrects` |
| `missed_match` | two users, two like ids, two requests | a violation, section 4 |

Each module has a `TypeOK`; the run of `Interaction` checks it, and adding it to the
`INVARIANTS` of another configuration checks that module's.  TLC also evaluates, in the
runs that extend them, the assumptions that the tables of rules are total
(`PrioritiesAreKnown`, `EvidenceIsGuarded`, `ResultsAreReports`, `DeletedIsFinal`,
`CatalogueIsTotal`, `SignUpAssumption`), and that the save of a profile is a move of its
machine (`SavesAreMoves`).

**Why these bounds.**  The rows of different pairs, accounts, members and conversations
never meet in a statement or a decision, so one of each shows what can happen to all.
Every rule is between two requests, or between one and what earlier ones committed: with
two in flight each place of one handler meets each place of the other, and slots are
reused, so a third and a fourth request follow.  What three requests do to each other at
one moment is out of these bounds.  The ids are what the longest story of a rule takes:
two likes are a match, its end and, retried, a like after it; three decisions are a
sanction, its reversal and one that races with either; three sessions are a session, its
successor and the one that evicts; two codes are one superseded by the other; three
sign-ups are two on one contact and a return.  Limits (`MaxSessions`, `PerAddress`,
`ClusterSize`, `MaxFoldAttempts`, `MaxWrongCodes`) are at the smallest value that tells below
from above.  Windows have an inside and an outside, and slide: in `messaging` the clock takes
five values against a window of two, and seven messages outgrow a page of three, so that a
window can lie on the page, be cut by its end, or lie past it; in `safety` the instants are
0, 1 and 169 hours, so that two are within any window and the third is beyond the week.
`MaxRequests`, `MaxNow`, `MaxObserved`, `MaxCopies`, `MaxRestarts`, `MaxFailures`, `MaxSeq`,
`MaxMessages`, `MaxAsked`, `MaxListed`, `CampaignObserved`, `Alone` are bounds of the model
only.

What the *regimes* of a run leave out: a send beside a block while the clock moves
(`messaging`); the older profile route beside another request of the same member (`profile`);
and, in `safety`, two requests in flight while the clock moves by the window, as a request
takes far less than 24 or 168 hours.  The week the detectors look back over
(`withinWindow`) is outgrown in the *aging* regime; the hour of a burst of likes and the
seam's 256 observations of a person (`pipeline.ts:30`) never are: `MaxObserved` is six.

**Deadlock** is checked, except in `account_access`, `verification`, `safety` and
`recovery_pause`, where a run that has used up its bound (requests, attempts, behaviours,
the clock) has nothing left to do.

**Symmetry** is over the ids and the request slots each MC module names, in the runs whose
properties are invariants and properties of single steps; never in `interaction`, which
checks liveness.  User ids of `Interaction` are numbers, because the code orders a pair by
id.

**Fairness** is assumed in `interaction` alone: strong fairness of each request's next
step (`MCFairness`).  Node runs a handler to its end, and PostgreSQL queues the waiters of
a row and wakes them; a step is disabled only while it waits for a row, so the row's
holder ending again and again must let it through: strong, not weak.  Nothing is assumed
of clients (they may never call) or of crashes.

**History variables** (`excused`, `overtaken`, `overlapped`, `entitled`, `late`, `told`,
`cut`, `past`, `crossed`, `copy`, an attempt's `session`) are written and never read by an
action, but for the count of behaviours in `past`, which is a bound; `MCProfiles` reads
`crossed` to keep one of its regimes to one request at a time.  Where a property holds only for
what did not cross something in flight, they say exactly what is excepted, and the
exceptions are the first entries of the next section.

## 4. Where the repository says otherwise

The run `missed_match` finds `ReciprocalLikesMatch` violated: two reciprocal likes in
flight at once miss each other, and both wait for a counterpart that is already there.
The lines that say otherwise are quoted under `findings` in `PROJECT.json`.

The others are stated as properties that no run lists.  To see one, put it in the
configuration named (an `INVARIANT`, or a `PROPERTY` where marked), alone and with the
changes given.

| property | configuration | what the code does | what it is said to do |
|---|---|---|---|
| `BlockedPairHasNoOpenMatch` | `Interaction.cfg` | a block that commits between a like's read of the blocks (`interactions.ts:274`) and its match leaves an open match | "a live match never survives an active block" (`blocks.ts:91`) |
| `BlockNeverFails` | `Interaction.cfg`, four like ids, one request | a match that lists a third like id cannot be decoded (`store-interaction-rows.ts:220`, `wiring/dating.ts:190`); the pair can neither be blocked nor unmatched | a block is always answered |
| `MatchMadeOfCurrentLikes` (P) | `Interaction.cfg`, like and pass, one request | a retried, withdrawn like makes a match (`interactions.ts:315`) | "A match needs two distinct reciprocal likes" (`dating/src/interaction.ts:85`) |
| `DecisionIsAudited` | `Enforcement.cfg` | the decision that loses the race for the standing stays on record without its audit row (`moderation.ts:379`), and the case's history cannot be read from then on | every decision is audited |
| `BanStands` (P) | `Enforcement.cfg` | a ban that commits between another decision's two reads of the standing (`moderation.ts:294`, `:355`) is overwritten | the generation guards the standing (`store-account-standing.ts:24`) |
| `PseudonymIsFree` | `SignUp.cfg`, two users, one contact, one request | a contact deleted a second time cannot be retired under its pseudonym (`store-accounts.ts:862`) | "unique among *deleted* rows, which is all that is required" (migration 006) |
| `RacedRestatementLoses` | `CompletedDates.cfg` | the insert's condition does not see what commits with it (`store-goal.ts:318`) | "A request that raced a withdrawal loses here." |
| `RepeatedFailureIsReviewed` | `Verification.cfg`, three attempts and sessions, one request | the escalation is handed the attempt twice and never its predecessors (`verification.ts:365`) | repeated failure escalates to a person |
| `EveryAttemptIsLogged` | `RecoveryPause.cfg`, one source and request, `PerSource = 5`, `MaxAsked = 4` | a second refusal of a day rolls its own log entry back (`notices.ts:153`) | "Every attempt is logged, refused or not." (`account-recovery.ts:102`) |
| `RevokedStopsInFlight` (P) | `CaseDesk.cfg` | the session is read before the transaction and not again (`server.ts:186`) | migration 008: revoking stops the request in flight |

Met while modelling, and stated in the models as the code has it:

* Two refreshes of one token in flight together both succeed (`account-sessions.ts:203`),
  and each issues a session; sessions issued by requests in flight with a recovery or a
  deletion outlive it; concurrent sign-ins exceed the session limit; a lock put on a
  recovery after wrong codes is never stored.  `excused` marks the sessions concerned.
* A capture or a submission read before a review began and written after it takes the
  attempt back out of the review: `overtaken`.
* A second like of a person one is matched with throws (`interactions.ts:414`), where the
  interaction machine calls it a no-op: `RefuseSecondLike`.  An expired pass stays live in
  its row and refuses a new pass of that person.
* A restriction of a limited account is checked against what the *state* grants
  (`moderation/src/decision.ts:192`), not against what the account still holds.
* The hold of a re-entering account is "lifted by the ordinary path", says
  `accounts.ts:257`; but a reversal needs a decision and the hold has none.
  `HoldEndsInBan` states what the code does.
* `isAppealable` is shown in the case view and asked by nobody.
* The triage of a report is not saved (`moderation.ts:213`): one report can open several
  cases.
* Two approvals at once can be given one position; the second throws, where the comment at
  `profile-photos.ts:262` counts on the position being free: `Throw` of `Profiles`.  A photo
  sent to a human reviewer has no route that releases it.
* The burst rule is a "Sliding-window burst rule for one conversation" (`friction.ts:34`) over
  a history that is the *oldest* page of the conversation (`conversations.ts:99`): past 200
  messages it counts none of the last.  `BurstIsBounded` says when: a window may hold a burst only if the messages before it
  and the limit exceed the page.
* A reorder of the photos does not save the profile (`profile-photos.ts:181-196`), so the card
  other people see (`cardFor`, `routes/discovery.ts`) keeps the old order until the next save:
  `copy` is then "reordered".
* The older profile route stores the photos of its request, with the approval the request
  gives them (`profile-legacy.ts:36-73`), until the next save, where `dating/src/profile.ts`
  says (`:151`) that "a photo still in media review must not put a face in front of another
  user".  The
  list read from the table is the newer routes' alone: `copy` is then "apart".  So it is after
  two saves that crossed, until the next one.
* A member who gave neither an age range nor a distance is told that they are not discoverable
  (`onboarding.ts:131`, `:255-262`), and is shown to others all the same: no rule of
  `evaluateEligibility` asks.  `account-and-onboarding.md:67-69` says that a user "is
  discoverable **iff**" four things hold, the last that "discovery preferences are set".
  `ToldAsShown` states the agreement with that one exception.
* With a pairing secret the recorder runs `interaction.unmatch_report`, "the only evidence in
  the catalogue loud enough to carry a subject to `high`" (`wiring/safety.ts:206-208`), and
  `submitReport` is given a stream so that the safety layer learns of pairings
  (`reports.ts:132-136`).  But that stream, `createServiceSafety(...).events`, has one
  subscriber, the metrics of `health/service.ts:39`; the seam subscribes to the recorder's own
  `transport` (`wiring/safety.ts:266-267`), on which `behaviourEvent` publishes no pairing.  The
  detector runs and never hears one, so the recorder takes nobody to high (`StaysBelowHigh`).
  Its mutant joins the two streams, and TLC then finds a person at high.
* A campaign is recognised from a report of the campaign that is observed last *and* is the
  latest.  A report whose request began before another's and is observed after it does not
  count the other, which is later than it (`correlation.ts:155-160`); with no further report
  nobody's case is opened.  `CampaignIsCased` excepts the people such a report is about
  (`past.late`), the reports a full ledger dropped (`past.missed`), those a fold gave up, and
  what a failure or a restart took from the memory (`past.broken`).
* The recorder's memory keeps what a rolled-back request observed: the second of the two
  detectors behind a risk can be one whose signal was drawn by a request that failed, and
  is stored nowhere.  `past.lost` remembers such signals; `RiskIsCorroborated` states that
  one of the two is always stored.

## 5. What is proved

The theorems hold for every value of the constants: any users, accounts, ids and number
of requests in flight.  Their assumptions are the named `ASSUME`s of the modules they are
about; TLC evaluates them in every run.

| theorem | states |
|---|---|
| `InteractionProofs!TypeSafety` | `Spec => []TypeOK` |
| `InteractionProofs!NothingEverUnhappens` | no step removes a committed like, pass or match, changes its parties, or revives what was withdrawn, superseded or ended |
| `InteractionProofs!AlwaysOneCurrentLike` | no two committed likes of one direction are both current |
| `InteractionProofs!MatchAlwaysMutual` | a match lists a like of each of the two, and a like marked matched is listed by its match |
| `InteractionProofs!OverriddenPassAlwaysSuperseded` | the pass a like overrode is the liker's own, and superseded when the like is visible |
| `InteractionProofs!ChatAlwaysAgrees` | a conversation is committed with its match, and open or ended with it |
| `InteractionProofs!PromiseKept` | `Spec => KeepsPromise`: `Interaction` implements `Relationship` |
| `InteractionProofs!MatchingRulesAlone` | `MCSpec => []SerialMatchingRules`: with one request at a time a blocked pair has no open match, and two who currently like each other have one on record |
| `EnforcementProofs!EnforcementTypeSafety` | `Spec => []TypeOK` |
| `EnforcementProofs!AlwaysExplained` | `Spec => []StandingIsExplained` |
| `EnforcementProofs!SanctionsAlwaysCount` | `Spec => EverySanctionCounts`: the generation of an account rises with each sanction that commits audited, and with nothing else |
| `EnforcementProofs!HoldAlwaysEndsInBan` | `Spec => HoldEndsInBan` |
| `EnforcementProofs!RecordIsWholeAlone` | until two requests have overlapped, every decision is audited, the only one of its case, and what its case is resolved by |
| `EnforcementProofs!FollowsMachineAlone` | until two requests have overlapped, `Enforcement` implements `AccountStanding` |
| `CaseDeskProofs!CaseDeskTypeSafety` | `Spec => []TypeOK` |
| `CaseDeskProofs!OnlyTheAppointed` | `Spec => []OnlyTheAppointedAct` |
| `CaseDeskProofs!EveryReadIsAudited` | `Spec => []ReadIsAudited` |
| `VerificationProofs!VerificationTypeSafety` | `Spec => []TypeOK` |
| `VerificationProofs!ImplementsIdentityLife` | `Spec => FollowsIdentityLife`: `Verification` implements `IdentityLife` |
| `VerificationProofs!AlwaysSentComplete` | `Spec => []SubmittedIsComplete`: an attempt that was sent is complete; while it waits it names a session of its own; once settled it was decided by, and names what was named by, the result of such a session |
| `VerificationProofs!IdentityAlwaysAgrees` | `Spec => []IdentityAgreesWithAttempt` |
| `AccountAccessProofs!AccessTypeSafety` | `Spec => []TypeOK` |
| `AccountAccessProofs!NothingDeadRevives` | `Spec => DeadStaysDead` |
| `AccountAccessProofs!CodesAreSpentOnce` | `Spec => []CodeWorksOnce` |
| `AccountAccessProofs!TokensAreUsedOnce` | a refreshed session is dead, and has two live successors only if they were asked for at one time |
| `AccountAccessProofs!RecoveryAlwaysSignsOut` | a live session was opened with the password of now, unless its request crossed the recovery |
| `AccountAccessProofs!DeletionRemovesAccess` | no session of a deleted account is live, with the same exception |
| `SignUpProofs!GateOpensOnTheBirthday` | the age gate opens exactly on the eighteenth birthday, for every date, leap days included |
| `SignUpProofs!EveryAdultHasOneBand` | every adult age is in exactly one band |
| `SignUpProofs!DuplicateIsAlwaysAnswered` | the insert of a credential neither waits nor fails on the unique index |
| `SignUpProofs!AddressLimitAlwaysHolds` | no household makes more accounts in a window than the limit |
| `SignUpProofs!ReentryIsAlwaysHeld` | an account made on the contact of a banned or still accused person is committed held |
| `SignUpProofs!SignUpTypeSafety` | `Spec => []TypeOK`: with it, that no contact is the credential of a deleted account |
| `NoticeProofs!BlockedPairHearsNothing` | no plan comes of a notice about a blocked pair |
| `NoticeProofs!CriticalGetsThrough` | a critical notice is planned for now, whatever is muted or quiet |
| `NoticeProofs!QuietHoursEnd` | a deferred notice is deferred to a later instant, at most a day away, that is not quiet |
| `NoticeProofs!OwnerAlwaysLearnsOnce` | `Spec => []OwnerLearnsOnce`, of `RecoveryPause` |
| `NoticeProofs!PausedOwnerIsAlwaysTold` | `Spec => []PausedOwnerIsTold`, of `RecoveryPause` |
| `RiskProofs!SignalsOnlyEscalate` | a signal or a crossed threshold only raises a risk |
| `RiskProofs!OneDetectorMovesNobody` | a detector that waits for corroboration moves nobody alone |
| `RiskProofs!OnlyThePairedDetectorReachesHigh` | of all detectors a deployment can run, only the one a pairing secret adds takes a person from below high to high, and that one exactly when it repeats and another agrees |
| `RiskProofs!NothingIsMeasurable` | no detector independent of reports reaches a state that counts |
| `RiskProofs!NobodyIsEverHigh` | `Spec => []StaysBelowHigh`, of `SafetyRecorder`, with a pairing secret or without |
| `RiskProofs!SignalsAreAlwaysFolded` | `Spec => []SignalsAreFolded` |
| `RiskProofs!RiskIsAlwaysCorroborated` | `Spec => []RiskIsCorroborated` |
| `RiskProofs!RecorderTypeSafety` | `Spec => []TypeOK`, of `SafetyRecorder` |

Most of the invariants below say of three things what the property says of one: of the
rows committed, of the rows a transaction would commit (seen with that transaction's own
writes), and of the values a handler holds between a read and a write.  A commit turns the
second into the first, a write the third into the second; what is left to show is that
nobody else's step disturbs them.

**Interaction.**  Type correctness is not inductive alone: that `UpsertMatch` or
`SupersedeOwnPass` writes a row depends on what the handler read before, and on another
request not having taken the row away.  `TypeInv` adds `RowsKept` (what a transaction
would commit keeps what is committed: this is the heart of `NothingEverUnhappens`),
`HandlerOK` (which operation is at which place, with which values) and `PassIdsDiffer`
(two requests do not draw one id).  `AlwaysOneCurrentLike` needs `IndexInv` besides: the
unique index counts the versions not yet committed, so at most one version of a direction
is current, committed or not, and a handler still reading has written no like.  The proof
goes by what a step does to the tables (`LikeWrites`, `PassWrites`, `MatchWrites`), then
row by row (`LikeRowStep`, `PassRowStep`, `MatchRowStep`), then handler by handler.

`MatchAlwaysMutual` (`MatchInv`) needs of each transaction that what it would commit is
mutual in the ledger *it* sees, for its own like may be one of the two, and of a handler
that the likes it is about to list and to mark (`LikesInHand`) are of that pair, one each
way.  `OverriddenPassAlwaysSuperseded` (`OverrideInv`) excepts the one place where the like
is written and the pass not yet; another transaction may supersede the pass first, which
does as well.  `ChatAlwaysAgrees` (`ChatInv`) rests on a lock: whoever writes a
conversation holds the row of its match, holds no other match, and answers only once the
conversation says what the match will (`MatchHeld`).  From the three and `IndexInv` follows
`PromiseKept`: a commit is one act on one pair (a like, a block or an unmatch), because
`ChatInv` also says whose rows a handler may hold at which place.

`MatchingRulesAlone` is about `MCSpec` where one request is at work at a time.  A handler
breaks the rules of its pair and mends them before it answers: it inserts a like and only
then supersedes the pass or records the match, writes a pass before it withdraws the like,
a block before it ends the match.  `Rules` is therefore indexed by the handler: no like is
current beside a live pass in its direction but where the handler is `Overriding`, two who
like each other are matched but where it is `Matching`, a blocked pair has no open match but
where it is `Blocking`.  `InHand` says why it will mend what it broke: the rows it read are
those stored, what answers its like is among them with no pass in the way, the live pass it
found is the only one, the like it withdraws the only current one (`IndexInv`).  A pass that
is 30 days old still counts as live in `Rules`, as it does in `LivePassBetween`, so ageing a
pass changes none of the rules.
TLC checked `Orderly` as an invariant of the serial regime before it was proved.

**Enforcement.**  `StandingIsExplained` relates four tables at the moment of a commit, so
its invariant `Inv` speaks of them before it:

* `WillBeExplained`: whoever holds an account's standing has written the decision it
  names, still uncommitted, and will not answer before it has written the audit row too;
  so everything the standing rests on is committed with it (`ExplanationIsCommitted`);
* `WrittenOnce`: a decision and its audit row are written by the one request that drew the
  id and never again, and `CasesKept`: a case stays about its subject; so no later
  statement takes the explanation away (`ExplanationStays`);
* `HandlerOK`, `DecisionOK`, `HoldsNothing`, `IdsDiffer`: what a handler knows and has
  written at each place, which the steps of other requests do not disturb (`OthersKnow`).

`SanctionsAlwaysCount` compares a number in one table with the size of a set read from
three.  `Tallied` adds to `Inv` that a request whose decision is a sanction holds the
standing, one generation on, before it writes the audit row (`Counted`), and that a decision
on record is about a case on record (`Filed`), so that a commit adds its one decision to
`Applied` exactly when it adds one to the generation.  `HoldAlwaysEndsInBan` needs what has
not happened: `HoldKept` says that while the hold stands no decision on record about the
account can be reversed, and that a request which acts on it either applies nothing or bans.

`RecordIsWholeAlone` and `FollowsMachineAlone` are about `MCSpec`, the behaviours with the
history variable `overlapped`.  `Serial` says of those where it is still false that at most
one request is busy, that what it read is what is committed (`Steady`), so its second read
of the standing finds the state it decided on and its compare-and-set cannot fail, and that
the record is whole between requests (`Resolved`, `Audited`).  Both properties fail once two
requests overlap (section 4), so the theorems say exactly what the missing lock costs.

**CaseDesk.**  The role a request acts on is read in one step and used in later ones, and
who the session belongs to was read a step before.  `Inv` adds to the types: `CasesKept`
and `SessionsKept` (no request removes a case or a session or gives a session to another
person); `HandlerOK`, whose part about `find_identity` carries the theorem (the session
still stands and is the actor's, and if the actor's present identity entitles them then
`entitled` already says so, which a change of the directory keeps true);
`Appointed` (whoever has a role is entitled); and `ViewsPending` (what will be shown is
already on the list of entries the same commit writes).  `OthersKnow` carries all of it
over another request's step; there is one lemma per action.

**Verification.**  A step of `Verification` is a step of `IdentityLife` only when it is a
commit that had written an identity; every other step changes nothing that is stored
(`StoredKept`).  That the commit is a legal move rests on what was true two steps earlier,
so `Inv` remembers it: `HandlerOK` (the state a handler will write is one the machine
reaches from the state it read), `WasOK` (a stored row that has the generation a handler
read is the row it read: generations only rise) and `HoldsOK` (a request holds the row of
its own account alone, and would commit a legal move of the row that is stored).
`WriteIdentity` turns the first two into the third, which is the compare-and-set; no other
request can then change the row, and `CommitMoves` finishes.

`AlwaysSentComplete` strengthens `Inv` to `SentInv`: not only the stored rows but the rows
a transaction would store (`AttemptsGood`) and the rows a handler has read or will write
(`Works`) are complete if they were sent, since an attempt is written whole from a row read
earlier.  Before a result comes, the session it will be asked for is one opened for the
attempt; once one has come, the vendor's session that gave it is still there with it.
`SessionsKept` (a session at the vendor is never given to another attempt, nor loses its
result) carries all of it over the steps of others.

`IdentityAlwaysAgrees` (`Agreed`) is about two rows written by two statements, and by
requests that may have read them long before.  What makes them agree is that a session has
one result (`ResultsKept`): `SettledAs` says that every settled row, stored, being stored or
in hand, is settled as the result of its session decides, so two polls of one attempt cannot
settle it differently.  `MovesOK` follows the writer of an identity to the attempt it will
write or finds closed; `StartOK` keeps a new attempt to its one request; and nothing leaves
`review_required` by a request, which leaves a capture or a submission taken out of the
review, `overtaken`, as the only disagreement.  `NullAssumption` says that SQL NULL is no
request, attempt, session or result, `NoAttemptAssumption` that it is no row.

**AccountAccess.**  No handler locks what it reads, and a row is written whole from a read
several steps old, so a dead session stays dead only because of what handlers can hold.
`Inv` says it: `HandlerOK` splits into `InputsOK` (what the request brought), `ValuesOK`
(every session row still to be written is an ended one, a recovery in hand is a recovery
row) and `PlaceFits` (which operation is at which place, with what); `FreshOK` and
`FreshDiffer` (the one session a request writes live is no row yet, and no two requests
drew one id); `DeadKept` (over a dead row no open transaction would commit a live one).
For the codes, `CodeOK` follows a handler from the moment its transaction holds a used
code: it completes that recovery, and it answers only as the writer of its notice, while
`NoticesOnce` says that a notice being written is none that is committed.  The status of
the recovery takes no part in the argument: two handlers may both write `consumed`, and
the unique key of the notice takes one of them back.  Each handler's own values are
followed by one lemma per action (`...Kept`), the tables by one lemma per kind of write
(`SessionStep`, `UsesNone`, `UsesStill`).  `AccessNullAssumption` says that SQL NULL is no
request, session, recovery or password, `AccessNoRowAssumption` that it is no session row.

The three theorems on what refreshes, recoveries and deletions end share one invariant,
`Access`.  `RotationsOK` says what is committed: a session that was refreshed is over, and
so is what a transaction would make of it.  `Knows` says what a handler in flight knows: a
refresh with its new session ready ends the one it was asked with, and any successor that
one has by now is marked by `crossed` (`RefreshOK`); the password a handler checked is the
stored one unless another request changed it meanwhile, which marks it `crossed` too
(`PasswordOK`, `IssueOK`); and whoever holds a credential row has, past its sweep, ended
every session of the account that was committed and not excused (`SweepOK`), which is the
order `account-recovery.ts` and `completeDeletion` write in: the credential first, the sweep
after.  `ClosingOK` and `GoneOK` say that a retired user has no credential, so no session
can be opened again.

**SignUp.**  `Limited` carries both limits: the advisory locks are held to the end
(`RoomOK`), so the room that was left under a limit when it was counted is there at the
insert, and a contact that was free stays free (`NotTaken`, `WrittenOK`); the accounts a
household has made are at most the attempts counted under its key (`CountOK`), since
addresses of one household share the key.  `SignUpKeysAssumption` says that the two kinds of
limit have buckets of their own.  `Answerable` carries the hold: nobody but one user carries
a contact's pseudonym (`OneCarrier`), the debt a sign-up began with is still owed or was
cleared by a moderator meanwhile (`DebtOK`), and the account it makes is held in the same
transaction unless it was cleared (`AnsweredOK`).

`SignUpTypeSafety` says more than types: a committed credential is of an account in use.
A deletion takes the one contact it found (`FindContact`), so `Owned` has to show that there
is no other (`OneCredential`: a new account's id is fresh, and no credential has it), that
the one found is still the account's when it is deleted (`FoundOK`, by `OwnersDiffer`), and
that a credential and its account end in one commit or not at all (`InUse`, `WriterOK`).
TLC checked `Owned` on the instance of the `sign_up` run (738,005 states) first.

**RecoveryPause.**  `Paused` follows the notice of a day: a row not yet committed is the
first of its day and is held by a request that will send the message or has (`HeldOK`); a
message that left has its row, committed or held by its sender (`SentOK`), so a second
message can only follow a failure between the relay and the commit, which `cut` records
(`ToldOK`).  A request that lost the claim found the row committed (`LostOK`).

**SafetyRecorder.**  Over `Base` (types, places, and the order in which a request works
through its subjects) there are three invariants.  `Low`: nothing of a pairing is ever
observed, or in a ledger, or on its way to be folded, so whatever the deployment runs, what
is folded comes of the other detectors, and no row committed, pending or read is above
elevated, by `OwnDetectorsStopBelowHigh` one step at a time.  `AllFolded`: a row that is
written grows (`Grows`), so what is folded stays folded; the row an upsert compares against is
the stored one or an older generation (`WasRead`), so an upsert that applies folds into what
is stored; and a signal a request has stored is about to be folded, folded in the row it
holds, or given up.  `Grounded`: a row above normal, committed, pending or read, has two
independent detectors behind it, and everything in a ledger in memory is a signal that is
stored, is being stored by whoever holds the row, or was lost with a request that failed
(`Accounted`): a ledger that is cut to its capacity, in whatever order, is only smaller.

`CampaignIsCased` is not proved.  With windows that slide and a ledger that forgets, what is in
a campaign depends on the order of its reports, on what the ledger still holds when the last is
folded, and on how long a request may take between the two; TLC checks it on the instance of
the `safety` run.

**The rules.**  The other theorems are about operators, not behaviours.  The age
gate goes by cases on month and day; quiet hours by arithmetic on the minute of the day;
the risk theorems by cases on the detector table and on the risk machine.

**Only model-checked.**  Out of the prover's reach: liveness (`EveryRequestEnds`), and
induction over data (`BurstIsBounded` is about a fold that counts messages, and
`ProfileShowsPublished` about a sort).  Not proved: `CampaignIsCased`, as said above, and
`LateSendRefused`, `SupersedesAClaim`, `NothingResurrects`, `PrimarySurvives` and
`ToldAsShown`, so that nothing of `Messaging`, `CompletedDates` and `Profiles` is.  And, by
their nature, the violations of section 4.

## 6. What is not modelled, and why

* **No caller in the service**: social sign-in (and what it does is check signatures),
  re-verification, anomaly, likeness and replay rules, resolving a review and expiring an
  attempt, decay, dispute and reassessment of a risk, escalating, reopening and merging a
  case.  Code that nothing reaches has no states to be in.
* **One blind write of one user's row**: the dating goal, preferences, location.  Nothing is
  read that another request writes.
* **Formatting and plumbing**: analytics and telemetry records, row decoding, redaction of
  text, mail rendering, parsing, routing, readiness and shutdown.  The HTTP edge is what
  `Begin` and `Commit` are of every module.
* **Read-only listings**: the case queue, the audit listing, reading a conversation's page,
  the ranking and paging of discovery.
* Contact verification proofs and the acceptance of new terms: one row of one user each.
* Cryptography: a password, a code and a token are compared as values.
* Statement-level failures other than a lost connection (a full disk, a timeout of one
  statement) end as a crash does, with a rollback; they are not told apart.
* `actor` is resolved before the transaction opens: modelled in `CaseDesk` and
  `AccountAccess`; in `Interaction` eligibility is a free choice, which includes it; in
  `Messaging` the standings are read by the handler.
* An id supplied by one person is never supplied by another: ids are UUIDs.
* Clients, web, operations and scripts are outside the server.

## 7. What a next step would be

1. To prove: the properties of `Messaging`, `CompletedDates` and `Profiles`, beginning with
   `LateSendRefused`, from what a send has read at each place; `CampaignIsCased`, for reports
   observed in the order they happened in.
2. To compose: `Enforcement` with `Messaging` and `Interaction`, so that a standing that
   changes is one a moderator wrote; `SafetyRecorder` with `CaseDesk`, whose
   `ObserveReport` opens a case freely where the recorder decides.
3. To enlarge: three requests at once, and two accounts that share a household.
