# Arena Core: models, model checking and proofs

This directory specifies the parts of Arena Core whose state several requests compete for:
the double-entry wallet ledger (`packages/wallet`), the entries of a match, their escrow and
settlement (`packages/match-finance`), the match and the claims on its result
(`packages/matches`), how matches come about (`packages/matchmaking`), what they do to ratings
(`packages/rating`), the outbox of notifications (`packages/notifications`), the account of a
user with its second factor (`packages/identity`), and the game accounts players claim
(`packages/player-identity`). TLC checks the models on small instances; TLAPS proves the most
important properties for every value of the constants.

## The system

The repository is a TypeScript monorepo. Services in `packages/*/src/application` run the
rules; `packages/*/src/infrastructure/prisma-*.ts` keeps the state in PostgreSQL through
Prisma; `apps/api` exposes the services over HTTP; `apps/worker` only does health checks and
removes unused site assets. **No background process drives the domain**: expiry, settlement,
refunds, outbox delivery and reconciliation happen when a request (mostly an
administrator's) asks for them, and some operations have no caller outside the tests at all.
All transactions run at PostgreSQL's default isolation level, READ COMMITTED, so what makes
the code hard is what happens between a read and the write that relies on it.

| Component | State | Operations | What makes it correct | Hard parts |
|---|---|---|---|---|
| wallet ledger | accounts with a balance, transactions with two entries, idempotency keys | ensureWallet, post, reverse, reconcile | balance = sum of entries, no debt, one reversal, exact retries | balances read before the lock, retries that overlap, reversals of what others posted |
| entry reservation and escrow | one reservation per participant, one escrow account per match | reserve, release, refund, reconcile | escrow = held entries, each entry leaves once | refunds, releases and settlements of listed rows race |
| settlement | one settlement per match | settle, reconcile | all or nothing, follows the result, once | dispute or correction meanwhile, retry |
| match lifecycle | status, version, participants, deadlines | create, ready, cancel, expire, void, start | terminal states are final | guarded and unguarded updates of one row |
| results | submissions, one result | submit, withdraw, expire, resolve | the result is what both claim | two first submissions, withdrawal during agreement |
| disputes | disputes with responses, one active | open, respond, cancel, assign, review, resolve, expire | resolved once, blocks money and ratings | opened while settlement or rating runs |
| matchmaking | requests, proposals with two acceptances | request, cancel, search, accept, reject, expire, create match | both accept or neither is bound; one proposal per request | two acceptances at once, acceptance against cancellation and expiry |
| rating | one rating per player and game, one application per match | ensure, apply, reconcile | each match counts once, no lost update | concurrent matches of a player, correction meanwhile |
| notifications, outbox | notifications, preferences, messages with attempts and claims | create, claim, deliver, retry, cancel | sent at least once, attempts bounded | crash between send and record, expired claims |
| sessions and passwords | user, password, sessions, tokens | log in, validate, change, issue, verify, reset | revocation is final, tokens are used once, lockout counts | concurrent failures, double use, stale hashes |
| second factors | factor, rotation, recovery codes, challenges | enrol, confirm, rotate, challenge | a code lets one login in, enabling ends other sessions | overlapping enrolments, logins on their way |
| player game accounts | claims with status and version | claim, edit, submit, disconnect, restore, review | verified is what the reviewer saw | unversioned updates next to a review |
| user administration | users' status, roles | suspend, ban, delete, restore, verify | a deleted user stays deleted | statuses computed from an earlier read |
| evidence, catalog, profiles, phone codes | rows of their own | upload, publish, update, issue, use | - | see "Not modelled" |
| e-mail, configuration, HTTP API, worker, web | no domain state | I/O, parsing, wiring | - | none for these models |

How they interact: an accepted proposal becomes a match (`createMatch`); ready and start of a
match ask match-finance whether the entries are paid; match-finance moves points over the
wallet's accounts inside its own transactions; settlement and rating read the match, its
result and its disputes; both call the notification coordinator after their commit. The
identity of a user is checked on every request by `validateSession`. `PROJECT.json` lists the
components with their files, and under `hazards` each place where an order of steps nobody
tests could break one of the properties.

## The modules

| Module | Models |
|---|---|
| `WalletLedger` | `WalletLedgerService` over `PrismaWalletRepository`, with the moves of match-finance over the same accounts |
| `MatchOutcome` | status, result and disputes of one match, as far as its money depends on them |
| `MatchFinance` | reservations, escrow, refunds and settlement of that match; `EXTENDS MatchOutcome` |
| `EntryCustody` | what the escrow promises: the abstract specification `MatchFinance` implements |
| `MatchSubmission` | claims on the result: submit, withdraw, expire, resolve and void, statement by statement, and the disputes that may replace it; implements `MatchOutcome` |
| `Matchmaking` | requests, proposals, acceptances, and the match that follows |
| `RatingApplication` | applications of matches to ratings, against disputes |
| `NotificationOutbox` | notifications, claims, attempts, retries, crashes |
| `Accounts` | status, e-mail, password, sessions and tokens of one user, and an administrator |
| `SecondFactor` | TOTP factor, rotation, recovery codes and login challenges of one user |
| `GameAccounts` | claims of game accounts and their review |

Each has an `MC...` module with its instances for TLC (`EntryCustody` and `MatchOutcome` are
checked through the modules that implement or extend them), and each component has its theorems in
a `...Proofs` module. `GameAccounts` and `NotificationOutbox` share one, `PlayerServicesProofs`:
they share no state, and the names of `NotificationOutbox` (`OutboxSpec`, `stage`, `task`) differ
from those of the other modules so that one module can extend both. Slips of the code that a property must notice (a dropped guard,
a stale read, a missing sign) stand at the top of each module; no definition uses them.

**Steps.** Every module has a set of `Handlers` (or `Deliverers`), each serving one request
after another; `pc` (`stage`) says where its request is and `call` (`task`) what it has read. A transaction is
one step when everything it relies on is locked or repeated in the condition of its update;
otherwise it is its reads, one step, and everything from its first write to COMMIT, another.
A transaction that fails has no effect. Idempotent retries are just further requests.

**History.** Where the code keeps a promise except when particular steps overlap, the MC
module adds a history variable (`crossed`, `past`, `restarted`, `writtenBack`, `overlapped`,
`doubled`) that remembers the overlap, and the property reads "... unless ...": it then holds
through every other interleaving. Such a property says that nothing else breaks the promise, and
nothing about the hazard whose overlap it excludes; "What the runs found" says what happens then.
Every such overlap occurs in the run; the state space goes on after it.

### WalletLedger

`balance` is `ledger_accounts.current_balance`, `opened` the accounts that have a row,
`ledger` the stored transactions by idempotency key (with their request, from which both
entries follow, and their status).

A repository transaction is two steps. `PostBegin` and `ReverseBegin` are the lookups and the
reads before `lockAccounts`; `PostCommit` and `ReverseCommit` are everything from the lock to
COMMIT. The second part is one step because every row it reads or writes is locked by then:
both accounts `FOR UPDATE` in a fixed order, the key by its insertion into a unique index.
`ReverseCheck` is the separate look at the original that `WalletLedgerService.reverse` takes
first. A loser of a unique index (key, reversed transaction, account row created by another)
gets a conflict, as `persistence` maps P2002. `Abort` is a transaction that does not commit.

`EntryMoved` is what `reserve`, `refund` and `postSettlement` of match-finance do to the same
accounts: an entry goes into the escrow of the match, comes back, or the whole escrow goes to
one user. Their updates are increments and decrements with a condition (`Covered`), so each is
one step. There is one match, and which of its entries moves when is left open (`MatchFinance`
says it): the ledger allows any move its own conditions allow. So what holds here holds for
every history of matches.

Assumptions: a Prisma `upsert` with an empty update reads and then inserts; nothing in the
code changes the status of a wallet or an account, so both are active; a fingerprint is equal
for equal requests only (SHA-256); amounts are `bigint` and unbounded; the CHECK constraints
that admit no escrow account are lifted, as in `MatchFinance`.

### MatchOutcome and MatchFinance

`MatchOutcome` has one action per transaction of the match that can change its `status`, its
`result` or its disputes. Transactions guarded by the version or the status of the match are
one step. `submit` takes two, since its last update names the match by id alone: a status set
in between is overwritten. Two clock steps, `PassDeadline` and `PassDelay`, let the ready
deadline and the settlement delay pass at any time. IN_PROGRESS includes AWAITING_RESULT, the
three active dispute states are one, and one submission at a time is between its two steps.
`ResolveDispute` refuses CORRECT_RESULT on a result with a conflict reason, because
`match_results_outcome_check` does.

`MatchFinance` adds `funds` (the participants' points), `escrow`, `reservation`, `lapsed`
(reservations past their own expiry) and `settlement`. An operation's unlocked reads are one
step (`...Begin`, `...Check`), its writes, from the first guarded update to COMMIT, another.
`Start` is what `MatchStartService.start` does in three transactions: start the match, assert
the entries again, release them; a handler may fail between any two (`Abort`).

Assumptions and abstractions: one match with a required entry (a match without one has only
NOT_REQUIRED rows and never settles); the participants' points change only through this match
(other posts are in `WalletLedger`, and so is the reversal of a transaction of the match by an
administrator, which does break the custody of its entry); the context of a settlement is
read in one step; ratings, which refuse most resolutions of a dispute once applied, are not
applied yet; the settlement delay and the dispute window are configured independently
(`packages/config/src/index.ts`) and so are the steps that end them. `ShippedChecks` says
whether the CHECK constraints of the migrations on ledger accounts, transactions and
reservations are in force. With them no required entry can be reserved at all, which is the
subject of one run; the other run lifts these constraints and studies the TypeScript code.
The constraints on the match tables are always in force.

`EntryCustody` is the promise to a participant: the entry is taken at most once, is held,
and either comes back or goes, with every other entry, to one winner. Reservation statuses map
to it: RESERVED and RELEASED are held, REFUNDED is returned, SETTLED is awarded.

### MatchSubmission

`submission` is `match_result_submissions` by row, `result` the row of `match_results`, and
`status` and `version` those of the match. A submission is three steps: the match is read, its
claims are read (Prisma selects them in a statement of its own), and everything from the first
write to COMMIT. The last is one step, except that a statement that decides "all ACTIVE claims"
misses a claim committed after its snapshot (`missed` in `ClaimSecond`). A withdrawal is four:
`MatchResultService.withdraw` also looks at the claims before the transaction. `Expire`,
`Resolve` and `VoidMatch` compare the status or the version in the update itself and roll back,
or skip the match, when it has changed; they are one step (`expire` lists the matches before; the
list only says which it tries). `Abort` is a constraint, deadlock, timeout or crash that rolls a
request back.

`OpenDispute`, `CancelDispute` and `ResolveDispute` are the transactions of
`PrismaMatchDisputeRepository`, with the active statuses as one. A resolution updates result and
match by their ids: `CorrectResult` and `VoidResult` replace whatever verdict there is. The check
of the match before a dispute is opened lies some time back, so that a dispute may be opened as
soon as there is a result; `MaxVersion` bounds how many disputes a behaviour has. Ratings, which
refuse most resolutions once applied, are not applied yet.

A payload is a model value; two that differ may name the same winner (`DeriveOutcome`).
`keysKept` says whether a payload that has been stored still compares equal, as a string, to one
that has not. In a JSONB column of PostgreSQL it does not, so that no claim is ever confirmed
(`submission_jsonb`); the payloads that the unit tests compare do. The model starts with
either, `submission_race` explores both, and every theorem holds of both.

A match starts in IN_PROGRESS; the clock only passes the submission deadline.

`OutcomeAllowed` maps the match to `MatchOutcome` (AWAITING_RESULT to IN_PROGRESS, a submission
is running when any handler runs one): whatever requests do here, `MatchFinance` reckons with
it.

### Matchmaking

`request` and `proposal` are the rows, `lapsed` those whose expiry has passed (the clock step
`Lapse` adds to it), `match` the proposals that have a match, and `consented`, a history, whose
acceptance of what was ever stored. Creation, search and proposal are the three transactions of
`requestMatch`; acceptance, rejection with expiry, and cancellation are their reads and their
writes, because a proposal is updated by its id alone, with both acceptance columns and the
status as they were read; a cancellation reads its request and then the proposal (`CancelFind`). The requests of a pair are updated under a condition on their status
(`Bound`, `Restored`). `CreateMatchRead`/`Write` and `RecoverMatch` are
`MatchCreationService`, which wants both requests MATCHED; `Abort` is a crash at any step, or
another refusal of the snapshots (an account or a ruleset that is no longer fit). Of a candidate's fairness the model
keeps the score of `matchmaking-engine.ts`; who may search at all is an input (`Profile`).

### RatingApplication

`rating`, `changes` and `application` are the tables of `packages/rating`; `result`, `dispute`
and `matured` what an application looks at. An application reads the match, then both ratings,
then writes; the write compares the versions of the ratings and meets the unique indexes on
the match and the key. Disputes open, are cancelled and are resolved as in
`prisma-match-dispute-repository.ts`, with their own look at the rating. The Elo formula is
floating point, which TLA+ does not have; the constant `Elo` stands for any function into the
integers, and the clamping around it is modelled. Every match is decided from the start.

### NotificationOutbox

`status`, `due`, `holder` and `attemptCount` are columns of the outbox message, `attempts` the
rows of `notification_delivery_attempts`. A version is only ever compared with the one a
deliverer has read, so the model keeps who is up to date (`current`). No two statements of a
delivery share a transaction; each is a step, and `Crash` may come between any two. A claim
may expire however far its deliverer is (`ReleaseExpired`). The e-mail provider answers in
every way it can. The constants bound the administrator's retries and the crashes, not the
deliveries.

### Accounts

One user: `status`, `version` (`security_version`), `password` with a mark that no two
hashings share (a rehash replaces the hash and keeps the word), failures, lock, sessions and
tokens. A login reads, then writes its failure or success, then inserts its session in
transactions of their own. Issue, reset, verification and the administrator's operations
update by id what they have read, and are two steps. A session is valid when
`validateSession` says so. `proved` is a history: the password its login has shown. A sign-in by
telephone, whose session proves no password, is not modelled.
Clock steps end locks, suspensions, sessions and tokens. One expiry stands for the absolute and the
idle one of a session: nothing calls `touchSession`, so the idle timeout counts from creation.

### SecondFactor

One active user: the factor, a rotation with its candidate, the recovery codes (by batch and
slot), challenges, and the sessions with the kind of proof that assured them last. Enrolment,
confirmation, rotation and the proof of a challenge are two steps each; a session is inserted
in a transaction after the login was allowed. `PasswordChanged` and `SessionRevoked` stand for
what `Accounts` does to the same rows. A wrong code changes nothing: the failed attempt is
counted in a transaction that is rolled back by the error thrown next (`mfa-service.ts:427`),
so it is not modelled. Histories: `batch`, `issued`, `proof`.

### GameAccounts

`account` is `user_game_accounts`. An owner's edit names the version it has seen and is one
step; a review is decided on a page (`Open`), checked (`ReviewChecked`) and written under the
version of the page (`ReviewApplied`). Restoration compares and raises the version, too;
disconnection and resubmission neither compare nor raise it. `Admissible` are the partial unique indexes and the CHECK of
the table, which any step must satisfy. `vetted` is a history: the claim on the page of whoever
verified the account last. Platform and game are one choice.

## The runs

All bounds are in the `.cfg` files. Handlers repeat requests for ever, so the state spaces
are those of any number of requests, of which the rows that can be inserted (keys, sessions,
proposals ...) bound those that add something.

| Run | Instance | States | Question |
|---|---|---|---|
| `wallet_race` | 1 user, 3 keys, 2 handlers, amount 1 | 271,526 | No debt, one reversal per transaction, truthful answers, with entries of a match coming and going; unless a commit crosses another's reads, are balances exact, and what does a retry get? |
| `wallet_entry_reversal` | 1 user, 4 keys, 1 handler | - | violation: reversing the reservation of a refunded entry takes the escrow below zero |
| `finance_race` | 2 participants with 0 to 2 points, entry 1, 2 handlers | 1,041,958 | Is the escrow exact, are points conserved, does every entry leave custody once, however reserve, start, release, refund, settle and dispute race? |
| `finance_schema` | constraints in force | - | violation: no required entry can be reserved |
| `submission_race` | 2 participants, 2 payloads, 3 rows, 2 handlers, either key order, disputes below version 5 | 6.9 million | Is a confirmed result claimed by both, do status and result agree, does nothing but a dispute replace a verdict, do the claims of both decide the match, and does it only move as `MatchOutcome` says? |
| `submission_jsonb` | 1 handler | - | violation: matching claims end in a conflict |
| `matchmaking_race` | 3 requests, 2 proposals, 2 handlers, 2 expiries | 7.3 million | Does nobody play without consent, is nobody left waiting for an answer that cannot come, does nothing that is over come back? |
| `rating_race` | 3 players, 2 matches sharing one, 2 keys, 2 handlers, ratings 0 to 5 | 532,665 | Does each match count once and no update get lost, also against disputes? |
| `outbox_drive` | 1 event with 2 messages, 2 deliverers, 2 attempts, 1 retry, 1 crash | 635,774 | Are claims exclusive and attempts counted, does an ending tell the truth, and what becomes of a torn delivery? |
| `accounts_race` | 2 passwords, 1 session, 3 tokens, 2 handlers, lock after 2 failures, 2 versions | 2.7 million | Is revocation final, deletion lasting, a token used once, the session's password the stored one? |
| `game_accounts_race` | 2 accounts, users, platforms and handles, 1 reviewer, 5 versions | 2.5 million | Is what is verified what was shown, and is the lifecycle that of the policy? |
| `second_factor_race` | 3 secrets, 1 code per batch, 2 sessions, 2 challenges, 2 handlers, 1 version | 2.8 million | Does a code let one login in, and does no session outlive the factor that assured it? |

Why the bounds are enough: every race in the code is between two transactions over the same
rows, so two handlers show it; a third could only repeat one of the two. The owner's
operations on a game account are one step each, so one reviewer is enough there. Three keys
hold an original, a reversal and another post (or a second reversal, or an entry); four hold
an issue, an entry, its refund and a reversal. Three rows are both claims and a replacement
or a claim after a withdrawal; below version 5 a match has been claimed by both and disputed, with
the dispute resolved and opened again. Three requests and two proposals are a pair, a third who
competes for one of it, and a second proposal after the first has failed. Two matches that
share a player are the least in which an update can get lost, and ratings 0 to 5 around 3 reach
both bounds. Two messages and two attempts contain a failure that is retried, a last one, and
an administrator's retry beyond the limit. Two passwords, a version before and after, and a
token that is used and one that replaces it are what an account remembers; one session is one
that may or may not come back. Three secrets are an enrolment, one that replaces it, and a
rotation. Participants with 0 points meet the refusal for lack of points, with 2 more than they
need. Model values are symmetric where they are treated alike; `outbox_drive` is small enough
without.

`CHECK_DEADLOCK FALSE` stands where the system may come to rest: a match that has ended with
nothing in escrow, requests that are all over, messages that have all ended, matches that are
all rated, and accounts whose versions have reached their bound. In the wallet it is
checked.

**Fairness and liveness.** Nothing in the repository schedules settlement, expiry, refund,
release or the delivery of the outbox (ADR 0026: "There is no background polling worker in this
phase"): each happens when somebody asks for it. So no fairness is justified, no specification
states any, and no liveness is claimed. What gets stuck for good is a safety property
(`ProposedIsPending`, `RefundableUnlessReleased`, `PendingIsUnverified`, `TornForGood`).

### What the runs found

Three runs contradict the documentation; `PROJECT.json` quotes the sentences. An
administrator can reverse a transaction that match-finance has posted, which takes the escrow
below zero when the entry has left it already; the CHECK constraints never admitted escrow
accounts; agreeing claims compare as different once one of them has been stored.

Where a property says "unless", the overlap it excludes does occur, and what follows from it is:

- Wallet: a reversal computes both balances from reads before the lock, so that a post or an
  entry committed meanwhile disappears from the user's balance (`packages/wallet/README.md:13-14`
  calls it an atomic projection). Two concurrent posts lose an update of the system
  account. A retry that overlaps the original gets a conflict; and the retry of a reversal is
  refused even when nothing overlaps, since its original is looked at before its key, while
  `packages/wallet/README.md:16-17` promises that exact retries return the original transaction.
  `RetryAnsweredUnlessCrossed` says what it gets.
- Match money: a dispute opened during a settlement does not block it; entries released by an
  administrator before play cannot be refunded when the match ends; a refund for operational
  recovery leaves a match being played for an entry nobody holds.
- Results: two first claims at the same time never meet, and decide nothing until one of them is
  replaced or the deadline has passed.
- Matchmaking: two acceptances at once can lose one; an acceptance that overtakes a
  cancellation, a rejection or an expiry revives the proposal, with requests that are not
  matched.
- Rating: a dispute opened between the check and the commit of an application does not stop it.
- Outbox (`TornForGood`): after a torn delivery every later attempt computes the same number and meets the
  unique index, so the message is claimed, and its e-mail sent, again and again, and is neither
  delivered nor dead-lettered, whatever the limit on attempts is (ADR 0026 promises "bounded
  exponential retries").
- Accounts: a login that rehashes the password writes the old one back over a change that
  committed in between; two resets with one token both succeed; a restoration that overlaps a
  verification can leave a pending user with a verified e-mail, which no operation activates.
- Second factor: an enrolment restarted during a confirmation can put a secret in force that
  nobody has confirmed, or take a factor out of force; a login on its way while a factor comes
  into force keeps a session that it did not assure.
- Game accounts: a review checked before a disconnection or a resubmission is written over it.

More follows from the models, or was met in the code, without a property of its own:

- A repeated settlement request gets an idempotency conflict: its fingerprint says INELIGIBLE,
  because the match has a settlement by then. It never pays twice (`SettlementCoversAll`).
- When start fails between its transactions, the entries of a running match stay RESERVED.
- A result corrected after the settlement moves no points.
- A submission that has read the match overwrites VOIDED; `MatchOutcome` contains this step,
  and the properties of `MatchFinance` hold with it.
- A withdrawal that has read its claim marks it WITHDRAWN even if it has been confirmed since;
  the result stands (`ConfirmedByBoth`, `VerdictStands`).
- `expireRequests`, `expireProposals` and `createMissingMatchesForAcceptedProposals` have no
  caller in `apps`; a request restored from a proposal is only found by somebody else's search.
- `player_ratings` has a CHECK for 100 to 3000; the configured bounds may be 0 to 10000.
- Two wrong passwords at the same time are counted once. Two issues at the same time leave two
  active tokens.
- `disconnect` and `resubmit` leave the version of a game account alone; deleting
  and restoring a suspended account makes it a draft; a primary verified one cannot be edited,
  since the CHECK refuses it.
- The failed attempts of a login challenge (and of a telephone code) are rolled back with the
  error that reports them; the unit test of the count (`mfa-login-challenge.test.ts:205`) runs
  against a repository without transactions.
- `deleteUser` counts suspended holders of a system role as holders, and removing a role counts
  all rows, so the last one who can act in it may go.

## What is proved

All theorems hold for every value of the constants that satisfies the assumptions at the end.
Each rests on an inductive invariant of which the property is a part, preserved by one lemma per
action. `...Proofs` extends the `MC...` module where a theorem is about the specification with
the history variable (`MCSpec`).

**The "unless" properties** all follow one pattern. The inductive invariant says what a running
request may still rely on of what it has read, as long as the history variable is false: the
rows it read are as they were, or have changed only in ways its writes allow for. A step of
another request that would break this is exactly what makes the history variable true, and the
step that writes then preserves the property. So the theorem is the converse of the findings
above: the overlap that the property names is the only one that can break it. Where the history
is kept for each row or request (`doubled`), so is the invariant.

**The sums.** `DerivedBalance` and `Points` are folds over the stored keys and the participants.
That a sum grows by what one summand grows (`SumChanges`), or by what a set of them grows
(`SumGrows`), is proved from the recursive definition of the fold, by looking at a smallest set
for which it fails (strict inclusion of finite sets is well founded). Changes of a ledger are
then reduced to the two entries of the row that is stored (`DerivedChanges`).

- `WalletLedgerProofs`: `TypeOK`, `UserNeverNegative`, `ReversedOnce`, `AnswerTruthful`,
  `PostsKeepUserExact` and `ExactUnlessCrossed` as invariants, `AppendOnly` and
  `RetryAnsweredUnlessCrossed` as action properties. No debt needs that what a running request
  will write is checked at the moment of the write, and that an entry is debited under its
  condition; reversals need that a running reversal is of a transaction that is stored and is
  not itself a reversal, and that REVERSED and the stored reversals agree; truthful answers
  need that stored requests never change (`Kept`). The moves of match-finance store a new row
  and disturb none (`NewRowStep`). The books are exact because each commit changes balances by
  the entries of the row it stores (`BooksBy`): a post does so for a user in any interleaving,
  its read being under the row lock; a reversal, and a post for the system accounts, when what
  they read before the lock is still there (`ReadHolds`). Then the balances also cancel out
  (`BalancesCancelOut`), since the two entries of a row do. `EscrowIsCovered` is the converse of
  the finding `wallet_entry_reversal`: every debit of the escrow is under its condition, except the
  one by the reversal of the entry of a match, which has been stored then.
- `MatchFinanceProofs`: one invariant, `MInv`: the types, `EscrowExact`, `SettlementCoversAll`,
  that the settlement being posted names a winner among the participants when it needs one, and
  that a match still before play or in play has a history in which nothing has been refunded or
  settled. `EscrowExact` is what makes the unguarded finalisation of a settlement safe: the
  escrow holds the total only if every entry is held. The step lemmas first sum up each action
  as a move of the match, of one handler and of the money, and each part of `MInv` is then
  preserved by these moves. From `MInv` follow the four invariants, `PointsConserved` (each move
  of the money, of one entry, some or all, keeps the sum) and `ImplementsCustody`, the
  refinement of `EntryCustody`. With the history `past`: `PaidUnlessRecovered`,
  `RefundableUnlessReleased` and `DisputeBlocksUnlessContested`.
- `MatchSubmissionProofs`: `SInv`: the types, `StatusFollowsResult`, `ConfirmedByBoth`, and
  `AllSeen`, what a request may still rely on of what it has read. The version it read is not
  ahead of the match, and when it is still the version of the match, the match has no result:
  that is why an update that compares the version is harmless although nobody looks at the
  number of rows it hit. The rows it read exist, with the author and the payload they had. From
  `SInv` follow the invariants, `VerdictStands`, and `OutcomeAllowed`, step by step, those of
  the disputes included. `DecidedUnlessCrossed`, for either value of `keysKept`: as long as there
  is no result, a first claim that may still be written has no opponent in force (`Unopposed`),
  and claims that are in force are of one participant (`Lone`).
- `MatchmakingProofs`: `MatchedByConsent` and `OverStaysOver`. An acceptance writes back what it
  has read, and that is harmless to consent because whatever is written has been consented to:
  no consent is withdrawn and no proposal changes its pair (`PairsKept`). `ProposedIsPending`
  holds in every interleaving: a request is in at most one pending proposal (`PendingOnce`), and
  a commit that ends it leaves no request of its pair PROPOSED. With the history `crossed`:
  `MatchedUnlessCrossed`, and `PlaysOnce`, that no request is in two accepted proposals: an
  acceptance that may still be written is of a proposal that is pending, and while a request has
  one pending it has none accepted. Without "unless" it is false: TLC accepts a cancelled proposal
  under an answer that has read it, after its request was restored and matched again.
- `RatingApplicationProofs`: the types, and with them that every rating stays within its bounds
  for any formula; `CountedOnceForBoth`; `RatedIsSettled`; `HistoryRebuilds`, by the one change
  that a step appends. Two requests on one match, one of them a dispute and one an application,
  exclude each other where they begin, or the match is among the crossed ones (`Meet`).
- `PlayerServicesProofs`, about the outbox: `AttemptsCounted`, `StatusTellsAttempt`,
  `ClaimsDoNotOverlap` and `DeliveredStays`. A deliverer that is up to date has the next number,
  one that is not has at most the next, and a number is recorded once. `TornForGood`: a message
  whose attempt was recorded and can no longer be counted stays outstanding and torn in every
  step, of deliverers, releases and administrators. It needs that a message is outstanding
  whenever a recorded attempt is ahead of it (`LeadsOpen`).
- `AccountsProofs`: `OutStaysOut` and `DeletedUntilRestored`. No session, and no login on its way to
  one, is ahead of the user's security version, and while the user may not be served none is
  even with it; so whatever serves the user again leaves them all behind. With the histories:
  `ValidKnowsPassword` (a login or session of the current version has shown the stored word, since
  another word comes with another version, or with `writtenBack`), `PendingIsUnverified` (what an
  administrator may still write agrees with the e-mail, `MayWrite`) and `SingleUse` (whoever holds
  a used token had found it before, so it is `doubled`).
- `SecondFactorProofs`: one invariant, `FactorMCInv`. `CodesOfFactor` and `GrantedOnce`
  need that nobody holds a code of a batch that is still to be written, and that a spent code is
  not among those left. Until an enrolment is restarted, nobody enrols while a factor is in force
  or being confirmed, and the secret being confirmed is the one stored (`Undisturbed`); from this
  `ConfirmedForGood`. For `AssuredByFactor`, sessions and logins of the current version are
  assured by what is in force (`LoginsAssured`): secrets are fresh (`SecretsFresh`), so a rotation
  that is written changes the secret in force (`RotationsDiffer`), and a login that it meets
  counts as `crossed`.
- `PlayerServicesProofs`, about game accounts: `VerifiedAsShown`. A page is never ahead of its account, and an account
  that has the version of the page has the claim it shows. `LifecycleUnlessCrossed`: until it is
  crossed, a review that was checked still sees the status it has checked.

`AppendOnly`, `EscrowCoveredUnlessReversed`, `CancelOutUnlessCrossed`, `PlayersPaid`,
`PairedOnceUnlessCrossed`, `DeliveredStays` and the type invariants are proved and
in no run of their own.

The assumptions are those on the constants, stated as `ASSUME` in the modules: names of
different kinds are different, "no row" and "no call" are not rows or calls, amounts and limits
are positive, users, participants and idempotency keys are finite sets, a match has two players, the
Elo formula yields integers.

Every safety invariant and action property that a passing run checks is proved. Only
model-checked: the properties of the three runs that expect a violation, which are false.

## Not modelled

- Disputes are one active state; their responses, assignment, review and response deadline do
  not change the match.
- Telephone codes: a login of its own beside the one by e-mail, which creates users and inserts
  sessions that prove no password.
- Roles and the protection of their last holder; search, timelines and the audit trail of
  administrators; site assets.
- Evidence, game catalog, profiles, notification reading, archiving and preferences but for
  their effect on creation: updates of single rows that nothing else decides on.
- The notification coordinator: which event notifies whom.
- The Elo formula (floating point), matching scores beyond their order, password and token
  hashing, encryption of secrets.
- E-mail transport, configuration, HTTP, the worker's health checks, the web application: input,
  parsing, wiring, presentation.

What would come next: `PhoneCodes` beside `Accounts`; the life of a dispute as a module that
implements the disputes of `MatchOutcome`, as `MatchSubmission` does its results; the roles of
several users and their last holder.
