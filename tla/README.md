# no-vain-years: TLA+ models and proofs

A verification project kept beside the no-vain-years monorepo: a NestJS/Prisma server
(`src/apps/server`), an Expo client for phones and the web (`src/apps/mobile`) and a program
that drives an LLM through the tasks of a feature (`src/scripts/orchestrator`). It
models the parts whose correctness depends on the order in which requests, callbacks,
subprocesses and database transactions take their steps, checks them with TLC on small
instances, and proves what matters most with TLAPS for every instance.

`PROJECT.json` holds the same for tools: components, runs, the source lines behind
every definition, mutants, hazards, findings and theorems.

## 1. Inventory of the system

**Server.** Stateless apart from Postgres, Redis and an object store: a request is a chain
of awaited statements, and several instances may run. The contexts `auth` (orchestration),
`account` (owner of the account table) and `security` (refresh tokens, outbox, JWT) call one another
in-process and pass a transaction client along when they have to commit together. Transactions
are READ COMMITTED with conditional `updateMany` statements whose affected count decides who
won, except the phone login, which is Serializable.

**Client.** One JavaScript thread: what lies between two awaits is one step. Requests, their
answers, writes to secure storage, React's effects, timers and the user interleave.

**Orchestrator.** One Node process, one git working tree, `claude` as a subprocess per LLM call.
Its only memory between runs is `tasks.md` (ticked boxes), git, and an archive that the report reads.

| Component | State | Operations | Hard behaviour | What makes it correct |
|---|---|---|---|---|
| Refresh tokens and sessions | `refresh_token` rows | sign-in insert, refresh (look-up, account gate, rotate), logout-all, removal and list of devices | concurrent refreshes of one token, rotation racing revocation, waits for row locks, deadlocks, rollback half way | one usable token per login; a revoked row never comes back; a removal event tells the truth |
| Account deletion | `account.status/freezeUntil`, `account_sms_code`, outbox | codes, freeze, cancellation, nightly anonymization on every instance | code checked outside the transaction, stale `now`, two sweeps, partial failure | one transition, one code, one event; nothing before the grace period ends; nobody frozen for ever |
| Phone sign-in, login codes | Redis code, failure counter and lock; account row | send code, verify, clear, log in or register | none of the Redis pairs is atomic; unique and serialization failures race | a used code is dead, an account is announced once, a lock holds |
| WeChat binding | `wechat_binding`, unbind codes | bind, send code, unbind | unique violations, an unbind between violation and look-up, one code submitted twice | truthful answers; a code removes one binding |
| Profile, images | account row, object store | edit, upload credential, post, confirm | row read, network, row written by id | no edit undoes another; an image was uploaded as that image |
| Rate limits | buckets in Redis | every route | every bucket counts every route that does not skip it | a route is refused by its own buckets |
| Mobile session | session store, its persisted part, `/me` cache, one refresh in flight | sign in and out, refresh, retry of a 401, hydration | answers after sign-out or a switch of accounts, lost answers, kill | single flight; one session in the store; nobody sees another's data |
| Mobile screens and forms | navigation stack, forms, countdowns, modals | redirects of AuthGate, submit, resend, back, image editing | answers after the screen is gone, effects that navigate, browser back | nobody is stuck; back pops the right screen |
| Feature orchestrator | working tree, index, HEAD, `tasks.md` | topological batches, file operations, LLM, verify, drift, commit, three retry loops | parallel tasks on one tree and HEAD, an LLM that commits by itself, rejected commits, kill | clean hand-over; boxes tell the truth; nothing undeclared slips in |
| Orchestrator program | rows on the terminal, subprocesses, archive | start, call with timeout, record, report, exit | a call given up before its process is gone, late events, exceptions beside others | exit code and report agree with what happened; the program ends |
| Outbox scan; SMS gateway; theme; repository checks and CI scripts; generated client; configuration and health | | | | see section 6 |

Interactions: refresh asks whether the account is ACTIVE; freeze, cancellation and
anonymization revoke or persist refresh tokens and publish events in the transaction that writes
the account; the client's refresh meets the server's rotation; sign-in crosses account,
login codes and tokens; AuthGate's redirects follow the session; the program composes the
tasks of a feature with its subprocesses and rows.

## 2. Modules

| Module | Purpose |
|---|---|
| `Sessions` | abstract: sessions start, and end in one step; ended is final |
| `RefreshTokens` | the refresh-token table and its requests, statement by statement; implements `Sessions` |
| `AccountLifecycle` | abstract: ACTIVE, FROZEN, ANONYMIZED and the history of one account |
| `AccountDeletion` | codes, freeze, cancellation, sweeps and the racing sign-in; implements `AccountLifecycle` |
| `PhoneLogin` | login code and failure lock in Redis, log-in-or-register in Postgres |
| `WechatConstants`, `WechatBinding` | binding and removing a WeChat identity |
| `ProfileConstants`, `ProfileEdits` | edits of the profile, and the upload of an image from the app to the row |
| `Throttling` | every bucket, every route, their skip lists and trackers |
| `ClientSession` | store, interceptors, refresh, `/me` cache of the app, with the server behind them |
| `AppScreens` | navigation stack, AuthGate, forms, countdowns, modals |
| `TasksAnalyzer`, `DriftClassifier` | pure: the batches of tasks; what is committed without a question |
| `FeatureRun` | runFeature: the tasks of a feature on one working tree |
| `LiveRun` | the program: rows, subprocesses, archive, report, exit |
| `MC*` | instances for TLC: symmetry, files and bounds; `MCServices` runs three services side by side |
| `*Proofs` | the invariants and theorems about the module of that name; `ServicesProofs` is about the three services of `MCServices` |

`WechatConstants` and `ProfileConstants` hold parameters and their assumptions apart, so that
`MCServices`, which takes an INSTANCE of the services, has them evaluated.

### How Postgres is modelled

A variable holds the committed rows. A request is a record with a control state `pc` (the
await it stands at) and the local variables it still needs. An UPDATE at READ COMMITTED takes
its row lock and keeps it until commit; a row whose committed version does not match the WHERE
is passed over at once, one that matches and is locked is waited for and judged again. An
uncommitted version is visible to nobody else, so it lives in the request and joins the
table with the commit. A failure or a lost connection before the commit rolls back.
`WechatBinding` and `ProfileEdits` need less: their transactions are one step, as both
statements lock the row they change.

### RefreshTokens

`token[t]` is a row (`schema.prisma:87`), `lock[t]` the open transaction that updated it,
`revokedEvents[t]` the `auth.device.revoked` rows of the outbox. The field `root` is no column:
it is the row the login inserted and stands for the device columns a rotation copies.

| Action | Code |
|---|---|
| `Persist` | `RefreshTokenService.persist` |
| `RefreshFind`, `RefreshEligible`, `RefreshNotEligible` | `RefreshTokenUseCase.execute` |
| `RotateRevoke`, `RotateCommit` | `RefreshTokenService.rotate` |
| `LogoutAll`, `RevokeAllRow`, `LogoutAllCommit` | `LogoutAllUseCase`, `revokeAllForAccount` |
| `RevokeDevice`, `RevokeOne`, `RevokeOneCommit` | `RevokeDeviceUseCase`, `revokeOneForAccount` |
| `ListRows`, `ListCount` | `listActiveByAccount` |
| `DeadlockAbort` | Postgres, error 40P01 |

Left out: hashes, IP addresses, device names, page sizes below the table size, the access
token (its verification is stateless).

### AccountDeletion

`account[a]` has `status` and `freezeUntil`; `code` is the table `account_sms_code` in the order
of `createdAt`; `tokens[a]` counts active refresh tokens; `outbox[a]` is the sequence of
committed events. `req` and `sweep` are the requests and the cron runs.

| Action | Code |
|---|---|
| `SendDeletionCode`, `SendCancelDeletionCode`, `IssueCode` | the two send use cases, `DeletionCodeStore.issue` |
| `DeleteAccount`, `CancelDeletion` | `JwtAuthGuard` and `DeleteAccountUseCase`; `CancelDeletionUseCase`, inspection |
| `CheckCode`, `MarkUsed` | `findActive` and compare, `markUsed` |
| `Freeze`, `FreezeCommit` | `CommitAccountFreezeUseCase`, `revokeAllForAccount`, publish, COMMIT |
| `Unfreeze`, `UnfreezeCommit` | `CommitAccountCancellationUseCase`, `persist`, publish, COMMIT |
| `SignIn`, `CommitPhoneLogin`, `PersistToken` | the database steps of `PhoneSmsAuthUseCase` |
| `Run`, `Anonymize`, `AnonymizeCommit`, `AnonymizeFails`, `RunEnds` | `AnonymizeFrozenAccountsScheduler`, `CommitAccountAnonymizationUseCase` |

Each `now` is taken where the code takes it. The UPDATE of the account and the
`revokeAllForAccount` behind it are one step; a token inserted after them and before the commit
is not revoked (`seen`). Left out: SMS delivery, the timing pad, hashing, display name, rate limits,
concurrent rotations (they are in `RefreshTokens`).

### PhoneLogin

`smsCode`, `fail`, `expires` and `locked` are the Redis keys of a phone, `row` is the account that
has the phone, `created` counts committed `auth.account.created` events, `released` the
accounts anonymized since, `tokens[c]` the sign-ins that code `c` has paid for. `failures` is a history
variable.

| Action | Code |
|---|---|
| `RequestSmsCode` | `RequestSmsCodeUseCase`, SETEX |
| `AssertNotLocked`, `Inspect`, `Verify`, `Clear`, `Persist` | `PhoneSmsAuthUseCase`, one await each |
| `Begin`, `Write`, `Commit`, `WriteConflict`, `UniqueViolation` | `CommitPhoneLoginUseCase` |
| `Incr`, `Expire`, `SetLock`, `Reset` | `AuthFailureLockService.recordFailure`, one Redis command each |
| `AccountChanges` | freeze, cancellation, anonymization, as the phone sees them |
| `CodeExpires`, `FailExpires`, `LockExpires` | Redis time to live |

A Serializable transaction has a snapshot; a row that changes after it makes the write fail
with 40001 (`stale`), and Postgres may report 40001 without such a change. Whether the driver's error is
recognised as P2034 is open (`docs/conventions/server-impl-playbook.md:29`). After a unique
violation the look-up in the same transaction cannot succeed. Time to live is not counted: a key that has one
may expire at any moment, but the lock not within one `recordFailure` (30 minutes against
milliseconds). The counter saturates at the threshold, as the code compares it with `>=`.

### WechatBinding, ProfileEdits, Throttling

`WechatBinding`: a bind is guard, inspection, INSERT and, after P2002, a look-up; an unbind
is guard, code look-up and one transaction. Accounts are frozen and restored beside it, codes expire,
requests die. The resolution of an authCode into an openid is any openid; SMS delivery is
left out. `held` (history) is what a request's account was bound to since it arrived.

`ProfileEdits`: a handler is guard, read, (for an image) a HEAD of the object store, and an
UPDATE of one column by id; the app's upload is a picker, a credential, a post, a confirmation
and a refetch, each of which may fail or lose its answer. Another client may confirm any key. A value is a
number used once, so `newest` (history) can be compared with the row. That ACTIVE is checked on
an earlier read than the write is in the model: a write may land on a frozen account.

`Throttling`: 27 buckets in the order of the configuration; a route is its skip list, its tracker
and the buckets its comment gives it. A counter belongs to a handler, a bucket and a
tracker value, so one behaviour is about one route. The lists are the point: they
are sets of names written out once per route in the code.

### ClientSession

`store` and `disk` are `useAuthStore` and what secure storage has of it; `cache`, `settled`, `synced`
the `/me` query; `call[c]` a request with the token it carries and the account it was made
by; `flight` the refresh in flight; `owner`, `live`, `named` the server. A token pair is a number,
since access and refresh token are always replaced together.

| Action | Code |
|---|---|
| `RefreshOnce`, `Rotate`, `LoseRefresh`, `RefreshAnswered`, `RefreshFailed`, `Resend` | `token-refresh.ts` |
| `Renew`, `Fail`, `Send` | the response and request interceptors |
| `SignIn`, `SignedIn`, `Use`, `SessionEnded` | phone login, cancellation of a deletion, logout-all, deletion |
| `FetchMe`, `ProfileReceived`, `SyncProfile` | `useMe`, `useUpdateDisplayName` and their effect |
| `Boot`, `Land`, `Crash` | hydration, asynchronous writes, a kill of the app |

`late` (history) becomes true when an answer arrives, or a request is made again after a
refresh, while another account than the request's own is in the store.

### AppScreens

`stack` is the navigation stack with `web` the platform, `form[r]` the local state of a mounted
screen, `requests` the submits under way, `modals` and `encoding` the image editor. The
four code hooks and every screen's enabled controls are operators; AuthGate's decision is
`DecideAuthRoute`. Effects of a render run before the next event (`Quiet`), which is React's
promise. A screen that is popped, replaced or hidden by the splash loses its state while its
requests run on. Requests of a gone screen whose answer changes nothing but that screen are
dropped (`Inert`). Left out: the tab bar, second taps on a link that is already followed, modals of
the operating system, validation of inputs.

### FeatureRun and its algorithms

A file is in the working tree, the index or HEAD, dirty, staged, or written again since;
`tasksMd` is what matters of `tasks.md` on disk, in HEAD and in the index; `run.extra` is what earlier runs
have expanded, as the run read it when it started (a revert of `tasks.md` later does not change what a task
declares). A task is a record
with the awaits of `runTask` and `commitTask`; `landed` is history. The LLM writes any files up to a bound and may
commit everything, with or without its box; hooks reject; git fails; the program is killed
anywhere.

| Action | Code |
|---|---|
| `Start`, `Begin`, `ReadHead`, `EndBatch` | `runFeature`, `runTask`, `applyFileOpPlan` |
| `Invoke`, `Verify`, `VerifyRound` | the LLM call with its escalation, no-op check, verify, `verifyRalph` |
| `CheckHead`, `Classify`, `OrphanRound` (`Revert`, `Expand`) | `commitTask`, `classifyDrift`, `runOrphanRalph` |
| `ReadTasksMd`, `Flip`, `Add`, `Commit`, `Unstage`, `Restore` | `performCommit`, `flipCheckbox` and the rollback |
| `HookRound`, `Rescan`, `CheckOrphans` | the hook loop, `checkOrphans` |

Simplified: renames, `--only`, the intent-to-add entries of `safeDiff`, normalization of paths;
a parallel task's writes do not count for another's no-op check; the budget of unparsable answers equals
that of the rounds, as by default; an expand names orphans only; the LLM does not revert by itself.

`DriftClassifier.LongestCommonDir` and `TasksAnalyzer.TopoSort` are compared with reference
definitions over bounded inputs (the ASSUMEs of `MCFeatureRun`, evaluated by the run `feature`):
all sets of paths up to three segments over two names, all dependency relations on three
tasks, cycles included.

### LiveRun

`cli` is the program, `row[t]` the promise behind a row, `job[t]` the control state of `runTask`,
`child[t]` the latest subprocess with its result event and its promise, `older` those not yet
gone, `disk[t]` the archive. `due` counts the calls whose cost has arrived and is not yet in the archive;
formatting, live phrases and amounts are left out, and a kill of the program is left to `FeatureRun`.

| Action | Code |
|---|---|
| `ParseArgs`, `LoadFeature`, `DryRun`, `Start`, `RunEnds`, `Report` | `index.ts`, `progress.ts`, `run-report.ts` |
| `Spawn`, `ResultEvent`, `Close`, `Timeout`, `SpawnError`, `OlderCloses` | `ClaudeCliClient.invoke`, `spawn.ts`, the stream aggregator |
| `Begin` to `Finalize` | `runTask` and `TaskArchive`, with open outcomes for what `FeatureRun` models |

The two modules are apart because they share no variable: what a task does to the repository
and what the program makes of its calls meet only in outcomes that each leaves open.


## 3. Runs

| Run | Instance | States | Shows |
|---|---|---|---|
| `tokens` | 3 requests, 3 rows, 1 account, 2 devices, no time | 391,262 | `TypeOK`, `OneActivePerSession`, `DeviceRevokedIsTruthful`, `LogoutAllRevokesWhatItSaw`, refinement of `Sessions` |
| `tokens_time` | 2 requests, 2 rows, clock 0..1, lifetime 1 | 176,670 | `RevokedAtIsWrittenOnce`, `EveryRequestEnds` |
| `deletion` | 2 requests, 2 servers, 1 account, 3 codes, clock 0..3 | 274,785 | `TypeOK`, `OneCodePerTransition`, refinement of `AccountLifecycle` |
| `deletion_resolved` | 2 requests, 1 server, 2 accounts, batch of 1, 2 codes, clock 0..2 | 45,945 | `NobodyWaitsForEver` |
| `sign_in` | 2 requests, 1 phone, 2 codes, threshold 2, 2 attempts | 420,481 | `TypeOK`, `FailuresBounded`, `RegistrationIsAnnouncedOnce`, `UsedCodeIsDead`, `EveryRequestEnds` |
| `client` | 2 accounts, 1 mutation, 2 token pairs, 2 uses, 1 kill | 143,500 | `TypeOK`, `TokenPresentedOnce`, `StoreIsOneSession`, `OwnDataUntilALateAnswer`, `NothingWaitsForEver` |
| `client_switch` | 2 accounts, 2 mutations, 2 token pairs, 4 uses | | violation of `MeCacheIsPerAccount` |
| `services` | WeChat: 2 requests, 2 accounts, 2 openids, 1 code; profile: 1 editor, 1 uploader, 2 values; 15 routes, 1 user, 1 address | 374,449 | `ServicesTypeOK`, `SpentCodeUnbinds`, `BindAnswerWasTrue`, `ProfileIsWhatWasSent`, `OnlyOwnBucketsRefuse`, `UploadEnds` |
| `throttle` | all 18 routes | | violation of `OnlyOwnBucketsRefuse` |
| `screens` | every screen, countdown 2, 2 requests of a screen, stack of 4 | 21,473 | `TypeOK`, `BackPopsItsOwn`, `NobodyIsStuck` |
| `feature` | 2 tasks, 3 files, a serial or parallel run and a serial one after it | 534,108 | `TypeOK`, `HandoverIsClean`, `BoxIsTruthful`, `NothingSlipsIn`, `EveryRunEnds` |
| `live` | 2 tasks, 2 starts; serial and parallel | 541,767 | `TypeOK`, `ExitIsOrderly`, `ReportIsTrue`, `OneWriter`, `ProgramExits` |

### Bounds

- `tokens`: three requests are what it takes for one to wait for a second while a third
  changes the row, and for a cycle of waits longer than two. Three rows hold a login and two
  rotations, or two logins of which one rotates; a row is kept free for each
  rotation under way (`Room`), so that none is stuck on the bound.
- `deletion`: three codes let an account be frozen, taken back and frozen again, which is what
  every stale read needs; the clock reaches a second grace period; two servers have the same account in
  their batches. In `deletion_resolved` two accounts with a batch of one make the
  sweep leave somebody out. Bounds: `MaxClock`, `MaxCodes`, `MaxTokens` and, in `CheckCode`, freezes
  whose grace period would outlast the clock.
- `sign_in`: a phone is independent of every other. Two codes let a newer one replace the one
  under way, and let an account be registered, anonymized and registered anew; threshold 2 tells the
  first failure, which starts the window, from the last. The bound of `FailuresBounded` is reached.
- `client`: two accounts for a switch; two token pairs are one sign-in and one rotation, or a
  session of each; `MaxUses` counts requests with a token, two of which meet a 401 together. A
  kill once is enough, as everything it loses is lost at once. `client_switch` gives the bigger
  instance in which the violation appears.
- `services`: two requests meet on an account, an openid and a code. With `MaxCodes = 2` the
  WeChat part alone has 390,000 states and passes too. The routes in `services` are those that hold;
  `throttle` has all. A user and an address are enough: a counter belongs to one tracker value.
- `screens`: a countdown that is neither at its first nor at its last second; one screen has
  at most `MaxRequests` submits under way; a stack of four is home, settings, a list, a form. Deep links
  reach the deeper screens.
- `feature`: `MCBound` gives the first serial run two rounds of orphans, one of the hook and two
  undeclared files, the second a round of verify and two of orphans; in the parallel mode the
  interleaving is what grows, so it has none. The larger bounds of one orphan round in parallel, a verify round
  more in the first run and a hook round in the second pass as well (1,246,112 states, five
  minutes). The files are one that both tasks declare (one deletes it), one that is
  untracked, and a governance file. The second run starts on whatever a kill, a failure or a
  commit of the LLM has left, or on a tree the operator has cleaned (`Discard`).
- `live`: two starts are what the report needs to meet an older archive; no rounds in parallel.

Symmetry is used where the properties are invariants or a safety refinement, and only over sets
whose members nothing orders. Deadlock is checked in `tokens`, `tokens_time`, `sign_in` and `screens`, where something
can always happen. It is off where the system may really stop: all accounts
anonymized, all codes and uses spent, the runs over. That nobody is stuck there is what the liveness
properties say.

### Fairness

- `RefreshTokens`, `PhoneLogin`: strong, of the steps of each accepted request. Node runs a request on until it answers,
  and Postgres hands a row lock to its waiters in order, so a step that is possible again and
  again is taken. Arrivals, failures and time have none.
- `AccountDeletion`: the same, and time passes (weak), the nightly cron fires again and again and its
  run goes on (strong), and the commit of an anonymization that is reached again and
  again succeeds once (strong). The last says that a database failure is not permanent; nothing in
  the code promises otherwise (it logs an error at three failures).
- `ClientSession`, `AppScreens`, `ProfileEdits`: weak. React's effects and the writes of
  storage happen, timers tick, and requests end. The last is the platform's doing: the app sets no
  timeout of its own, so on a network stack without one a refresh that is never answered keeps every request
  behind it waiting. That the picker is closed is the user's doing on phones; on the web, see
  section 4. Nothing is assumed of the user's other actions.
- `FeatureRun`: weak, of the program as a whole: some task always goes on, since every call has a timeout.
  `LiveRun`: weak, of the steps and the timer of each task; of `claude` nothing is assumed, it may
  never close its pipes.

### What the violations say

- `client_switch`, a bug: `onSuccess` of the display-name edit (`update-display-name.ts:19`) writes the
  answer into the cache slot of the account that is in the store when the answer arrives. After a sign-out and a
  sign-in that is another account; `useMe` then copies the old profile's id into the store.
  `me-query-key.ts:5` says that the key excludes exactly this. `OwnDataUntilALateAnswer` is what holds.
- `throttle`, a divergence: the two image routes do not skip `WECHAT_BUCKETS`
  (`account-profile.controller.ts:291`), so a bucket of the WeChat unbind code (one per
  minute) refuses the second upload credential within a minute; and `POST sms-codes` does not skip
  `ME_BUCKETS`, so all its callers share one `me-patch` counter. `throttler-skip-buckets.ts:6`
  says that routes must skip the groups of others to avoid this.

## 4. Remarks on the code

Met while modelling. The models contain those that are about control, and the properties of section 3
are stated so that they hold in spite of them; each quotes the code, and where there is one the sentence it is at
odds with.

Server:

- Logout-all cannot see the successor row of a rotation that has not committed
  (`refresh-token.service.ts:159`), so a session may outlive it; `account-token.controller.ts:106` says
  "every active refresh token". `LogoutAllRevokesWhatItSaw` is what holds.
- `findMany` and `count` of the device list are two snapshots (`refresh-token.service.ts:179`); its
  comment (`:168`) says one.
- A cancellation takes its `now` on arrival (`commit-account-cancellation.usecase.ts:29`), so it can
  win against a sweep that has found the account due; `account.rules.ts:34` says that anonymization wins.
- When the latest deletion code is spent the one before it is accepted again
  (`deletion-code.store.ts:46` against `:37`).
- A sign-in that saw the account ACTIVE persists its token after the freeze
  (`phone-sms-auth.usecase.ts:110` against `specs/004-account-deletion/spec.md:94`); the token becomes usable with
  a cancellation.
- GET and DEL of a login code are two commands (`phone-sms-auth.usecase.ts:94` against
  `specs/001-phone-sms-auth/spec.md:158`): one code can sign in requests that overlap. `UsedCodeIsDead` holds.
- A bind may answer CONFLICT although an unbind in between has freed the identity
  (`commit-wechat-bind.usecase.ts:40`), and a profile edit may land on a FROZEN account (`update-bio.usecase.ts:40`).

Client:

- A request that is made again after a refresh goes out under the account now in the store; a user with a name is sent
  to the onboarding when `/me` fails.
- A late SMS answer overwrites the phase of the form (success and frozen included), and one that arrives after
  unmount starts an interval that nobody clears. The countdown belongs to the mounted screen and starts anew with it.
- The sheet that removes a device calls `back()` after its answer (`RemoveDeviceSheet.tsx:140`); if the user
  has left by the browser's back, that pops another screen, against
  `specs/005-device-management/spec.md:172`. `BackPopsItsOwn` excepts it by name.
- Submitting a deletion stays possible after the boxes are unchecked. Cancelling the file dialog on the web never
  resolves the picker (the model lets it end). A crop that is cancelled with Escape while it encodes is uploaded all
  the same (`crop-modal.web.tsx:61`).

Orchestrator:

- Parallel tasks take each other's commits for commits of their LLM, as HEAD is shared; nothing checks that
  the tree is clean when a run starts; the rollback (`git restore`) fails for untracked files.
- A kill between the tick of a box and its commit leaves the box ticked on disk, so the next run skips the task,
  though a comment calls the pair atomic.
- A commit that fails other than by a hook leaves `tasks.md` staged with the box ticked. In the next
  run a revert of `tasks.md` in an orphan round restores it from the index, tick included, and a commit that is then rejected
  keeps it: the box of a failed task is ticked. `BoxIsTruthful` excepts runs that found `tasks.md` staged.
- The warning path of a partial expand does not stage what was expanded (`git-flow.ts:576` against `564-569`). An
  expand drops governance files from what is declared, and the files then compared include `tasks.md`. Governance
  files count for `MIN_DECLARED_FILES_FOR_AUTO_LCD` (`drift-classifier.ts:93`). A declared path that is deleted
  is always an orphan.
- An LLM process that ends without a result event counts as a success whatever its exit code
  (`llm-client.ts:434-469`). Verify and hook rounds archive a failed call without its
  metrics (`run-feature.ts:528-541`, `git-flow.ts:724-731`), orphan rounds archive nothing. A verify command
  that times out throws past `attempt.finish`. This is why `ReportIsTrue` speaks of the cost of tasks that succeeded.
- An exception in one parallel task ends the program while the others' `claude` processes run on. The models
  do not follow these into the next start. The terminal is painted again by events after `stop()`.
- The early return for a missing workspace cannot be reached, as loading rejects such a task. Nothing rejects two
  tasks of one id; `LiveRun` assumes it (`LiveAssumption`).

## 5. Proofs

Eight modules, checked by TLAPS with no step left open. They hold for every value of the
constants under the named assumptions of the models, which TLC evaluates in the runs: bounds are
natural numbers, `NULL`/`None` is no value, the token table and the set of sign-ins are finite, a task
is listed once, a stack has room for a deep link, the path of a file is not empty and is not that of `tasks.md`.
`ScheduleAssumption` of `FeatureRun` says that `topoSort` returns batches of tasks. It is the only assumption about an
algorithm of the code: its recursion is beyond the provers, so TLC evaluates it for the instance of `feature`.

| Module | Theorems | Property |
|---|---|---|
| `RefreshTokensProofs` | `TypeCorrect`, `RotationIsExactlyOnce`, `DeviceRemovalIsTruthful`, `LogoutRevokesWhatItSaw`, `RevocationIsFinal`, `Refinement` | all safety properties of `tokens`, `tokens_time` |
| `AccountDeletionProofs` | `Invariance`, `TypeCorrect`, `LifecycleRefinement`, `OneCodePerTransitionHolds` | all of `deletion` |
| `PhoneLoginProofs` | `SignInTypesHold`, `FailuresStayBounded`, `RegistrationsAnnounced`, `UsedCodesAreDead` | all safety properties of `sign_in` |
| `ServicesProofs` | `PartsImplement`, `ServicesTypesHold`, `BindAnswersWereTrue`, `CodeUnbindsOnce`, `ProfilesAreWhatWasSent`, `OwnBucketsRefuse` | all safety properties of `services` |
| `ClientSessionProofs` | `ClientTypesHold`, `RefreshesAreSingle`, `OneSessionInTheStore`, `DataStaysWithItsAccount` | all safety properties of `client` |
| `AppScreensProofs` | `ScreenTypesHold`, `BackIsOnesOwn` | all safety properties of `screens` |
| `FeatureRunProofs` | `FeatureRunTypesHold`, `HandoversAreClean`, `BoxesAreTruthful`, `NothingEverSlipsIn` | all safety properties of `feature` |
| `LiveRunProofs` | `LiveTypesHold`, `ExitsAreOrderly`, `ReportsAreTrue`, `WritersAreAlone` | all safety properties of `live` |

Every safety property of a passing run is a theorem.

### The arguments

Hardly any of the properties is inductive: they depend on what a step has read and not yet used.

**RefreshTokens.** `OneActivePerSession` says nothing of a request that is about to insert a
successor. In layers: `LockInv`, a locked row is present and unrevoked (an UPDATE
locks only rows its WHERE matches, and nobody else can change them), and a request in `rotated` or
`revokedOne` holds the lock of its row. `Inv` adds that root rows are present, and the two
properties; the step that matters is `RotateCommit`: the old row is held, hence unrevoked,
hence the only usable one of its session, and it is revoked in the step that shows the successor.
`LogoutInv`: every row in `seen` is still to do, held by the request or revoked. `RefInv`: a root row
belongs to the account of its descendants; a commit then maps to `End` of the sessions it leaves
without a row, a rotation to a stutter, a sign-in to `Start`.

**AccountDeletion.** `Inv` says what a transaction knows between its UPDATE and its commit.
`RequestOK`: its code exists, is of its account and purpose and, once claimed, unspent; the account still has
the status the UPDATE matched. `SweepOK`: the same of an anonymization, whose `now` is not ahead of the clock and
not before the `freezeUntil` it compared. `CodesExclusive`, `AccountsExclusive`: a row is in one open
transaction at most, which is what keeps the first two true. Three commits and the clock map to the
transitions of `AccountLifecycle`; one commit uses one code and appends one event (`SpendCounts`,
`PublishCounts`).

**PhoneLogin.** Four invariants on one another. Types. Snapshots: a transaction that has found no account and
may still commit is right about it, so `created` and the account rows agree (`RegistrationIsAnnouncedOnce`).
Codes: where the digits of a code may still be, the Redis key or a request that has compared
them, and after a clear only the latter (`UsedCodeIsDead`). Locks: the counter in Redis against `failures`, with the
requests that have passed the lock and not yet counted; there are finitely many of them
(`ProcAssumption`), which is where the bound comes from.

**WechatBinding.** `Known`: what a request has read it was bound to at some time since it arrived is in `held`, and its
code is of its account. `SpentHolds`: spent rows and removed bindings grow together, one by one.
**ProfileEdits.** `Probed`: what the HEAD request has found stays true,
since keys are not issued twice and objects not removed; a handler writes one column.
**Throttling.** A request is refused by a bucket that applies to its route, and `OwnOrSkipped` goes
through the skip lists and the 27 buckets: what one of the fifteen routes does not skip is its own. The hypothesis of
`OwnBucketsRefuse` leaves out the three routes of which `throttle` shows the contrary. **Composition.** A step of
`ServicesSpec` is one of a part and leaves the others alone, so `PartsImplement` carries what is proved of a module over.

**ClientSession.** `Typed`; `Single`: pairs not yet given out are nowhere, the refresh token of a
flight is the store's as long as nobody has replaced it, and there is one flight; `Own`: whatever a
request, a flight, a write to disk or the cache holds belongs to its account until `late`.

**AppScreens.** A screen with an effect that goes back has no links, so it is never beneath
another (`StackOK`): while it is mounted it is the top, and the pop is its own.

**FeatureRun.** For each step a lemma says what it does to the record of its task and to the tree. `Control`: a task at work is
pending and of the batch; without `--parallel` there is one, as two tasks of a batch are ordered and the later one
waits until the earlier is done. `HandoverIsClean` needs no more than the steps: `checkOrphans` alone lets a task end
well. `Boxes` covers the window in which `flipCheckbox` has read `tasks.md` and not yet used what it read: what was
committed is ticked in every text that may still be written back (on disk, in HEAD, in the index, in `original`), and
what is ticked has landed unless its task is about to commit or roll back. `Stages`: HEAD has not moved since the task
began, nothing staged is clean, and what is staged for a task that was not asked about is in its scope; the commit then adds
exactly that. The scope of `classifyDrift` rests on `LongestExists`, that `longestCommonDir` is a directory above
every declared file, for any paths. `Control`, `Boxes` and `Stages` were checked with TLC on the instance of `feature` first.

**LiveRun.** `TaskOK` relates the control state of a task to its subprocess, the promise of its call and
the costs still due; `TurnsOK`: without `--parallel` one task is at work; `RowsOK`, `OverOK`: what
rows, archive and exit code say of tasks that have ended.

### Only model-checked

- Liveness: `EveryRequestEnds`, `NobodyWaitsForEver`, `NothingWaitsForEver`, `UploadEnds`,
  `NobodyIsStuck`, `EveryRunEnds`, `ProgramExits`. TLAPS does not reach fairness.
- `TasksAnalyzer.TopoSort`, and that `LongestCommonDir` is what the code computes segment by segment: what they compute
  for every input would be an induction over data, which the installed provers cannot do.
- `FeatureRun` with `--parallel`: `BoxIsTruthful` and `NothingSlipsIn` do not hold there (section 4), so neither the run nor
  the theorems claim them.
- The violations, by nature.

## 6. Not modelled

- **Outbox scan.** `publish` is an INSERT in the transactions that are modelled. The cron
  (`outbox-event-cron.publisher.ts`) logs rows and marks them published: there is no consumer yet, so there is no
  delivery to be right or wrong about.
- **SMS gateway, retry, breaker.** One HTTP call in a policy of a library (cockatiel); the order of retry and breaker is
  one line. `PhoneLogin` and `AccountDeletion` have a failed delivery as the end of a request.
- **Theme and layout, generated API client, configuration, health, metrics.** No state, generated code, or pure I/O.
- **Repository checks and CI scripts.** A single pass over files with one verdict.
- **Formats.** Hashes, JWTs, phone numbers, OSS signatures, prompts, the parsing of `tasks.md` and of the
  stream of `claude`, and the text of the report are data of the models, not their subject.
