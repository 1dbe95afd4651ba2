# Ecoswift Bank: formal models

TLA+ models of the parts of the platform where money, schedules, sessions,
permissions and messages can go wrong in ways a unit test hardly reaches, with
TLC runs on small instances and TLAPS proofs for every size. Paths below are
relative to the repository; `modules/` stands for
`services/account-service/src/modules/` and `auth/` for
`services/auth-service/src/modules/`.

To check a run: `tlc -config MoneyRace.cfg MCMoneyMovement.tla`. To check the
proofs of a module: `tlapm MoneyMovementProofs.tla`. `PROJECT.json` lists the
runs, the lines each definition stands for, the hazards with the line where each
bites, the findings and the theorems.

## 1. The system

A monorepo of NestJS services over one Postgres database and one Redis, and two
Next.js front ends.

| Component | Where | State it keeps | Operations | Module |
|---|---|---|---|---|
| Ledger posting | `modules/transfers/services/ledger-posting.service.ts` | `journal_entries`, `journal_lines`, `account_balances` | post an internal or external transfer, inside the caller's `$transaction` | `DoubleEntry`, `MoneyMovement` |
| Sandbox transactions | `modules/transactions/.../sandbox-transaction.service.ts` | `transactions` | deposit, adminCredit, withdraw | `MoneyMovement` |
| Internal and external transfers | `modules/transfers/services/` | `transactions`, `transfer_requests`, `transfer_approvals` | post, ask for a code, hold for review | `MoneyMovement`, `WireDesk` |
| Transfer review | `modules/transfer-review` | the same | approve, reject | `MoneyMovement` |
| Account status | `modules/accounts/.../account-status.service.ts` | `accounts.status` | transition | `MoneyMovement` |
| Transfer limits | `transfer-limits.service.ts`, `modules/transfer-limits-admin` | `transfer_limits` | resolve and assert; create, replace, retire | `TransferLimits`, `WireDesk`, `MoneyMovement` |
| Beneficiaries | `modules/beneficiaries` | `beneficiaries` | create, edit, verify, remove, find or create for a wire | `WireDesk` |
| Scheduled transfers | `modules/scheduled-transfers` | `scheduled_transfers`, the `transfers` queue | create, cancel, execute a job | `ScheduledTransfers`, `ScheduleFaults` |
| Job queues | `packages/queue` | BullMQ lists in Redis | enqueue, process, retry, redeliver | `ScheduledTransfers`, `JobDelivery` |
| Delivery workers | `email-`, `sms-`, `notification-`, `receipt-service` | delivery rows, receipts, statements | produce and process one job | `JobDelivery` |
| Event bus | `packages/event-bus` | Redis streams and consumer groups | publish, start, consume, stop | `EventBus` |
| Idempotency keys | `packages/resilience`, `packages/cache` | Redis keys with a time to live | execute once per key | `IdempotencyKey` |
| Sessions and sign-in | `auth/auth/services` | `users`, `sessions`, cookies | login, refresh, logout, passwords, deactivate, verify | `Sessions` |
| Codes and factors | `otp.service.ts`, `transfer-otp.service.ts`, `auth/mfa` | `otp_challenges`, `two_factor_credentials`, `backup_codes` | send, check, enrol, confirm, disable, recover | `OneTimeCodes` |
| Roles and permissions | `auth/authorization`, `packages/authz` | `roles`, `user_roles`, `role_assignment_approvals`, a Redis cache | create, re-parent, grant, assign, review, revoke, resolve | `AccessControl`, `RoleCatalog` |
| Audit trail | `audit.service.ts`, `authorization-audit.service.ts`, `audit-service` | `audit_logs`, a hash chain | record, verify | `AuditChain`, `AccessControl` |
| REST API | the controllers | none | routes with guards and permissions | `BankApi` |
| Front ends | `apps/customer-portal`, `apps/admin` | a query cache per tab, the state of forms | press, fetch, invalidate, poll, leave, reload | `CustomerPortal`, `AdminConsole`, `Portal`, `Tab` |

Services call each other through the database, the queues and the bus. The
front ends call the services over HTTP and see them through a cache.

What makes it hard. A handler is a chain of `await`s, and between two of them
any other request, in this process or another, may run. Handlers read what they
decide on (status, balance, limits, PENDING, the newest hash) outside the
statement that acts on it, and the updates name a row by its id only. Events,
audit rows, jobs and e-mails follow the commit one by one, and each may fail
alone. Jobs are delivered again after a crash or a lost lock. Stream messages
are acknowledged one at a time by consumers that may die. Redis keys expire
while their owner still works. A tab goes on showing what it fetched before.

What makes each part correct:

- ledger: balances reconcile to the journal; a completed transaction has an
  entry, once, with the requested terms; overdrafts and passed ceilings are the
  work of overlapping requests, and no larger than the overlap;
- review: held money does not move, and a resolution is final;
- clients: an answer is true; what is completed is announced;
- schedules: occurrences are paid once each, in turn, early only for a job
  handed out again, not after a cancellation; a due one is served; a row has its
  job;
- bus: an acknowledged event was heard or dead-lettered; one that nobody will
  hear any more was lost for a cause;
- idempotency: another run needs a mishap that can cost a run; answers are
  real; nobody is stuck;
- sessions: as many as allowed, guesses limited, a replayed refresh token ends
  its session, an honest browser keeps its own, a deactivated customer is gone;
- codes: each used once, wrong ones limited, replaced ones dead, a factor is
  enabled with the secret that was proved;
- roles: a lost permission is forgotten, no cycle, one decision per request,
  sensitive roles take two, the audit chain forks no wider than its writers
  overlap;
- delivery: no extra copy without a cause, one statement per request, what was
  enqueued comes out;
- wire desk: a limit wherever the currency has a default, and one that was in
  effect; one active limit per scope; a recipient listed once;
- front ends: one's own change shows; nothing is done twice by somebody who was
  not told; "done" is said when the list shows it.

## 2. The modules

| Module | What it is |
|---|---|
| `DoubleEntry` | journal entry, balance movement, and the balance derived from a journal |
| `MoneyMovement` | the handlers of account-service that move money or decide whether it may move |
| `MoneyOverlap` | `MoneyMovement` with a history of how many requests at once were past their check |
| `TransferContract` | the abstract promise: hold, settle at once, settle a held one, decline |
| `ScheduledTransfers`, `ScheduleFaults` | service, worker and queue of scheduled transfers; the second adds which schedules a fault has hit and how often a job was handed out again |
| `JobDelivery` | one job of a worker service from the row it is stored in to the message or artefact |
| `EventBus` | publisher, consumer loops, groups and dead letters over one stream |
| `IdempotencyKey` | one key: claim, result, waiters, expiry |
| `Sessions` | sign-in, refresh and session ends of one customer |
| `OneTimeCodes` | challenges, factors and backup codes of one customer |
| `AuditChain`, `AccessControl` | the hash chain; roles, approvals, resolver and cache, each change writing to the chain |
| `TransferLimits`, `WireDesk` | the limit rows and their administration; wires and edits of the beneficiaries on top |
| `PortalTables`, `BankApi`, `RoleCatalog` | how the tables below are written; routes and service methods; seeded permissions |
| `CustomerPortal`, `AdminConsole` | calls, queries, mutations, pages and controls of the two front ends |
| `Portal`, `PortalRoles` | the tables worked out for each control and query; what roles are shown and refused |
| `Tab` | a tab at work on one control and one query |
| `MC*` | the small instances TLC checks |
| `*Proofs` | the theorems and their proofs; `PackagesProofs` holds those about `EventBus` and `IdempotencyKey`, `EdgeProofs` those about `JobDelivery` and `Tab` |

Composition: `MoneyMovement` and `TransferContract` extend `DoubleEntry`, and
`MoneyMovement` instantiates `TransferContract` with the refinement mapping
`AsPromised`; `MoneyOverlap` extends `MoneyMovement`. `AccessControl` extends `AuditChain`, `WireDesk` extends
`TransferLimits`, `ScheduleFaults` extends `ScheduledTransfers`, and `Portal`
puts the tables of both front ends, the API behind them and the role catalogue
together; `MCPortal` gives the tours that come out to `Tab`. `ScheduledTransfers` sees a transfer only through its outcome.

Operators described as "Faulty variant" in a comment are not part of a
specification: each is a plausible mistake in the operator next to it, and the
property `PROJECT.json` names for it fails when it takes that operator's place.

### MoneyMovement and the code

`stage[i]` is the await that request `i` has reached.

| Action | Code |
|---|---|
| `Submit` | a controller receives the request (again) |
| `LoadAccounts` | `loadOwnedActiveAccount` / `loadActiveAccount` and the early refusals of the transfers |
| `LoadHeld` | `loadReviewable`, `assertPendingAndNotOwnRequest` |
| `LoadStatus` | the read and the table check of `AccountStatusService.transition` |
| `CheckBalance` | the overdraft check of withdraw, both transfers and approve |
| `CheckLimits` | `TransferLimitsService.assertWithinLimits` |
| `StepUp` | `InternalTransferService.resolveStepUp` |
| `ConfirmWire` | `TransferOtpService`, by outcome |
| `CommitPosting` | the `$transaction` of deposit, adminCredit, withdraw and the transfers |
| `CommitHold` | the `$transaction` that creates a PENDING transaction with its approval row |
| `CommitApproval`, `CommitRejection` | the `$transaction` of approve and reject |
| `CommitTransition` | the update of `accounts.status` |
| `SideEffect` | event, audit row, receipt job, e-mail, in the code's order |
| `Respond`, `Fail` | the answer; a throw, a rollback or the death of the process |

Abstractions. A `$transaction` is one step: Postgres makes it atomic, and
`increment`/`decrement` apply to the row it locks. `Promise.all` of two reads is
one step. Available and current balance always move alike and are one number.
The day's and the month's window are one window that does not end; the limit in
effect is a pair of constants (the rows are in `TransferLimits`). Ownership and
currency checks are `MayUse`. A transfer may be flagged at any time, and a high
amount always is, because velocity and device signals depend on the clock and
the session. References, journal numbers and texts are left out. The sandbox
switch is assumed on.

`Fail` may happen at any await when `Failures` is TRUE: a failed query, a LOCKED
financial period, the unique-name conflict of two requests that both provision
the month's period, the deadlock Postgres resolves by aborting one of two
opposite transfers, a refused event or job, the death of the process. What has
committed stays.

No handler locks the rows it has decided about, so the bank's rules hold up to
what was decided and not yet written. `MoneyOverlap` records how much that was:
`rush[a]` is the largest number of debits of account `a` that were between their
balance check and their commit at one time, `reviewers[t]` the largest number of
reviews that had found `t` PENDING and not yet resolved it. Nobody's requests are
kept apart; the properties say what an overlap of a given size can cost, and with
no overlap they are the rules themselves.

### ScheduledTransfers and the code

Each of create, cancel and the worker's `process` is a chain of awaits with one
action per await (`BeginCreate` ... `Notify`). Time is counted in days and only
`Tick` moves it, up to `Horizon`. `waiting` is the queue: `Deliver` hands out a
due job, `Stops` returns the job of an execution that died or threw, and
`LosesLock` returns it while the execution goes on, as BullMQ's stalled check
does. `Transfer` has the outcomes of the transfer services as the worker sees
them; a transfer held for review counts as run, since the service returns
normally. `LateErrors` allows an error after the commit, `QueueFails` an error of
`enqueue`, `Crashes` everything else. `ScheduleFaults` records in `hit` which
schedules were cut off between two writes, so that `RowHasJob` and `DueIsServed`
can speak of the others, and in `again` how often a job of each schedule was
handed out that had been handed out before. `OccurrencesInTurn` is about all of
them: no fault is excused, each job handed out again allows one occurrence to be
paid one period before its day.

### JobDelivery and the code

One item is a message (e-mail and SMS workers are the same program), a push, a
receipt or a statement. `producer` is `sendEmail`, `sendSms`, `sendPush`,
`StatementsService.request` or the receipt job of a transfer, await by await
(`CreateRecord` ... `PublishQueued`); `worker` the awaits of the worker
(`MarkProcessing`, `Send`, `RecordSent`, `PublishSent`, `MarkFailed`; `Push`;
`GenerateReceipt`; `ClaimStatement`, `CreateStatement`, `CloseStatement`).
`Return` and `Throw` are the end of `process()`, `Dies` and `LosesLock` the two
ways in which BullMQ hands a job out again. `broken` counts the attempts that
broke off after they had taken effect. The early return of the receipt generator
for a transaction that does not exist is left out: every producer of a receipt
job enqueues it after the transaction has committed, and no code deletes one.

### EventBus and the code

One event type is one stream; a message is its position. `last[g]` is the
group's last-delivered position, `pending` what a consumer was handed and did
not acknowledge, `loop[c]` where consumer `c` stands in its batch. `ReadNew` is
XREADGROUP with `>`; `Handle`, `Ack`, `Count`, `Bury` and `AckBuried` are the
awaits of `processMessage`, `Discard` its way with an entry that has no payload
(the positions `Bare`, as another producer would write them); an error that
escapes it drops the rest of the batch (`DropBatch`). `cut` counts the batches an
error or a death cut short, `thrown` the messages left for a retry. `Stop` sets the flag and does not wait for the handler, `Crash`
takes the process, and a restarted consumer has a new name, so what the old one
was handed stays pending for good. `DeliveryCount` is 1 because nothing in the
repository reads or claims a pending entry again. The stream is not trimmed.

### IdempotencyKey and the code

`store` is what Redis holds under the key: nothing, the raw marker, or a
serialised result. `at[c]` is the await that caller `c` has reached in `execute`:
`Claim` is SET NX, `Run` and `RunThrows` the protected function, `Save` and
`SaveThrows` the `cache.set` inside the same `try`, `Release` the `cache.del` of
the catch block, `Poll` and `GiveUp` the loop of `waitForResult`. `Expires` is the
time to live, which runs whether or not the caller still works, and `Breaks` a
Redis error that nothing catches or the death of the process. `mishaps` counts
what may cost a second run: an expiry, an error after the effect, a result that
was not saved.

### Sessions and the code

`Submit` sends a request of a tab or device with the cookie its browser holds by
then. A sign-in is `ReadUser`, `Unlock`, `CheckUser`, then `CountFailure` and
`Lock`, or `ClearFailures`, then `ListActive`, `Revoke`, `CreateSession`,
`StoreToken` and `Deliver` (the answer and its cookie). A refresh is `Lookup`,
`Punish` on a replayed token, `StoreToken`, `Deliver`. `Authorize` is
`JwtStrategy`, `Sweep` and `Revoke` are `revokeAllForUser`, `Deactivate` and
`Activate` the status changes, `Conclude` the end of the request, `Breaks` an
error, a dead process or a lost answer, `LockRunsOut` the clock. `guesses`,
`crowd`, `stale`, `torn` and `replayed` are history. The second factor only
lengthens the way from the password to the session and is left out here.

### OneTimeCodes and the code

One customer. A challenge keeps its purpose, status, attempts and whether it is
late; sending is `Expire` then `Insert`, checking is `Find`, its verdict, then
`Refuse` or `Consume` (`OtpService` and `TransferOtpService` alike). `Enroll`,
`Upsert`, `ReadPending`, `Enable`, `Gate`, `Disable` are `MfaService`; `Wipe`,
`Generate`, `Seek`, `Mark` are `BackupCodeService`. `RunsOut` is the life of a
code, `Breaks` an error. A code is the number of its row. A TOTP code is right or wrong
for the secret `ReadPending` has found; time steps and hashes are left out. A
factor's secrets are numbered as they are made: `proved` is the one whose code
enabled it, `slips` counts the enrolments that came between a confirmation's
reading of the secret and its enabling.

### AccessControl, AuditChain and the code

One permission; a role grants it or does not. Every change of roles, grants,
assignments and approvals is its read, its write, the cache invalidation and the
audit entry as separate awaits of `job[c]`. The audit entry is `Link` (read the
newest hash) and `Log` (insert). The resolver is `Get`, `ReadRoles`, `Walk`,
`ReadCodes`, `Store`; `Expires` is the cache's time to live. `AuditChain` has the
links of the chain, which `verifyChain` walks: which entry names which, and what
lies between. The hash it recomputes for each entry is not modelled (section 3
says what becomes of it). The code orders the log by `createdAt`, which is
assumed to be unique.

### TransferLimits, WireDesk and the code

`limits` are the rows of `transfer_limits`. A replacement is read
(`BeginReplace`) and then one transaction that closes the row and opens its
successor (`CommitReplace`); a retirement reads the row and then updates it by
its id (`BeginRetire`, `FinishRetire`). `WireDesk` adds a customer's
wires: `FindBeneficiary`, then `UpdateBeneficiary` or `CreateBeneficiary`, then
`ReadLimit` once per scope, as `resolveLimit` reads them, then `Confirm`. Each
call of a wire looks everything up again. Edits on the Beneficiaries page are
`SaveBeneficiary`, `BeginEdit`, `FinishEdit`.

The rows are those of one currency, and any of the seeded ones may be there at
the start or not: the seed has a GLOBAL row for USD only (seed.ts:628-648), in
another currency `resolveLimit` may find nothing, and then
transfer-limits.service.ts:26 enforces nothing. `covered` records whether there
was a default when a wire began to read. The book may start with a BLOCKED entry,
which refuses a wire and a verification; no code of the repository sets that
status.

### The front ends and the code

Tables instead of actions where the code is a table. `BankApi` has the routes
the front ends call (guard, permissions, `assertStaff` in the controller) and
for each service method the facts it reads or changes and what a second
identical call does. `CustomerPortal` and `AdminConsole` have the calls of
`lib/api`, the queries (key, polling) and mutations (call, invalidated prefixes,
whether `onSuccess` returns the promise) of the hooks, and for each page what it
reads and offers. A control has the mutations it runs, what disables it, where
it reports, and whether it may ask for a code. `RoleCatalog` is the seed.

`Portal` works the tables out. A tour is one control, one query it has to do with
and the page that shows it: for each call of the control, whether it touches the
query and whether its hook covers it.

`Tab` is what then happens in the browser, whatever the tour; each tour of the
two front ends is an initial state of the run.
`Press`, the call and its answer, the confirmation code, `onSuccess`, the
invalidation, fetches and their answers, polling, leaving, garbage collection
and reload are the actions. React Query is modelled from the way
`components/providers` configures it: stale after 30 s, a query is tried twice, a
mutation once, no refetch on focus. The two attempts of a fetch are one outcome.

`MCPortal` has a fact about the tours that TLC evaluates at the start of the run
(`ToursKeepTheRules`): no control can be pressed again during what a second call
would do again, and no hook leaves out a query its call touches, except those
`LeftBehind` names. `PortalRoles` has three more about the tables: every call has a route and every permission is in the catalogue; a
customer is served everything the portal offers except activation of an account;
no entry of the console's menu leads a role to a list it may not read. The
console shows its account-status and credit controls to every role that may open
the page, also to those the service refuses; nothing is stated about that.

## 3. The runs

| Run | Instance | Shows |
|---|---|---|
| `MoneyRace` | a transfer that may be held, a checker who approves and one who rejects it, and a wire of all the money there is; beside them a transfer confirmed with a TOTP code out of an account that may be overdrawn; all overlapping | the balances are what the journal says; overdrafts come from debits beside each other; a transfer is resolved once per overlapping review |
| `MoneyRetry` | a transfer that may be held, its approval and the closing of the account it goes to, each submitted twice, in any overlap; failures anywhere; fair | the ceiling holds but for overlaps; answers are true; refines `TransferContract`; completed is announced |
| `Schedule` | a daily transfer with two occurrences and a one-time wire, two workers, one of the schedules hit by faults; fair | occurrences in turn; cancelled is a no-op; row has job; due is served |
| `BusFaults` | three events, one without a payload, two consumers of one group and one of another, all failures | acknowledged was heard; forgotten has a cause |
| `IdemRetries` | two callers of one key, two calls each, all failures; fair | every extra run has a cause; real results; every call ends |
| `SignIn` | two tabs of a browser and a phone, all requests overlapping, all failures | sessions and guesses limited; honest cookies accepted; replay ends a session; gone for good |
| `Codes` | two requests at a time, four in all, all failures | codes used once; wrong ones limited; replaced ones dead; the secret was proved |
| `Roles` | two requests at a time, three in all, on a seeded hierarchy of depth two, all failures | lost permissions forgotten; no short cycle; reviews final; sensitive roles take two; forks are overlaps |
| `Deliveries` | an item of each kind, two executions, stalls and errors at any await; fair | extra copies have a cause; one statement per request; enqueued comes out |
| `WireDesk` | two wires to one recipient, two limit changes, one edit | a limit wherever there is a default; the limit was in effect; one per scope; recipient listed once |
| `Portal` | all controls of both front ends, two presses each | own change shows; not done twice; told, then shown |
| `MoneyDoubleApproval` | two checkers approve one held transfer | expected to fail: it is posted twice (`findings` in `PROJECT.json`) |

Many properties speak of overlap, because the code has no lock or constraint
there. Where they can they count it: with `rush`, `reviewers` or `crowd` they
bound how far an overlap can exceed the rule instead of saying that it cannot.
`SessionsAreLimited`, for example, allows one session more for every sign-in that
overlapped another. Some excuse it, and then they do not cover the hazard of
that overlap, only what is left:

| Property | Excused | Not covered |
|---|---|---|
| `RowHasJob`, `DueIsServed` | schedules in `hit` | a worker dead after its claim leaves the row PROCESSING; a row inserted whose job was not added |
| `CancelledIsNoOp` | a claimed execution still under way | it overwrites the cancellation |
| `CookieIsAccepted` | browsers in `torn` | overlapping or unanswered refreshes cost the browser its session |
| `GuessesAreLimited` | | wrong tries after a success has cleared the counter another try had just raised count as new ones |
| `GoneForGood` | sign-ins and verifications past their check, a running lock | they reactivate the account |
| `ReplacedCodesAreDead` | codes inserted after the request looked | a set generated while codes are consumed |
| `NoShortCycle` | overlapping re-parentings | two of them close a cycle |
| `LostPermissionsAreForgotten` | cache entries read beside a writer | a resolver that read before a revocation stores after its invalidation |
| `EnqueuedComesOut` | jobs whose attempts ran out, statements with a broken attempt | a statement row left RUNNING |
| `LimitWasInEffect` | two commits during one look-up | a limit combined from two tables |
| `OneLimitPerScope`, `RecipientIsListedOnce` | `contested`, `doubled` | two active rows, two entries |
| `OwnChangeShows`, `ToldThenShown` | `LeftBehind` (eight tours), fetches in `crossed` | those lists go on showing the old data |
| `NotDoneTwice` | `muddled`: lost answers, leaving | a press whose answer was lost is repeated |

`RowHasJob` is violated as soon as it is said of schedules in `hit`, too
(scheduled-transfers.service.ts:87-89 says otherwise), and `ImplementsContract` in
`MoneyDoubleApproval`.

### Where code and documents part

Found while modelling, and not made a run of their own:

- closing an account that holds money (docs/business-rules.md:59), or one that a
  credit is on its way to (docs/events.md:59);
- a client's retry after a late failure moves the money again: no handler takes
  an idempotency key (docs/business-rules.md:73);
- a held transfer is approved without a second look at the ceiling
  (docs/business-rules.md:71), which is why the invariant is about transfers
  posted without a review;
- a completed transaction is announced only if nothing fails after its commit;
  docs/domain-architecture.md:399 speaks of an outbox;
- a job that is delivered again after its first execution has closed the
  occurrence finds the row SCHEDULED again, and pays the next occurrence before
  its day: the claim compares the status and not the occurrence
  (scheduled-transfer.worker.ts:53-59 against 27-31, which calls every duplicate a
  clean no-op). `OccurrencesInTurn` says how much comes of it;
- an occurrence that was paid ends the schedule FAILED, and mails that the
  transfer failed, when a step after the commit throws, within the transfer
  service or in `enqueue` (scheduled-transfer.worker.ts:111-130; its comment at
  112-115 speaks of business rejections only);
- a cancellation during an occurrence is overwritten by the worker that closes
  it (scheduled-transfers.service.ts:138-142);
- a scheduled wire always ends FAILED, since nobody can enter its code
  (scheduled-transfer.worker.ts:112-114);
- a pending stream entry is never delivered again: XREADGROUP asks for `>` only
  (redis-streams-event-bus.ts:133), where lines 32-36, 191-192 and docs/events.md:181
  promise at-least-once delivery with a retry on the next poll. With `maxAttempts`
  above one a failed message is neither retried nor dead-lettered.
  `ForgottenHasACause` says what is lost, and only for what cause;
- the duplicate of a running idempotent call reads the raw marker through a JSON
  parser and gets a SyntaxError (idempotency.service.ts:80 and 55 against 33-34);
- a retried e-mail or SMS job sends again (docs/queues.md:74);
- a contact factor can be confirmed with the code sent to the other one
  (docs/mfa.md:30): both use one purpose;
- `verifyChain` rejects logs nobody has touched: some writers leave a hashed
  column unset, which is left out of the JSON that was hashed and reads back as
  null (audit-query.service.ts:103, 111-118 against 76-83); and the states are
  jsonb columns (schema.prisma:1897-1898), which do not keep the order of keys,
  so that the `{description, parentRoleId, isSensitive}` of an updated role
  (role.service.ts:105, 125) is hashed again in another order. The models
  therefore say nothing of recomputed hashes, only of links;
- a lock that runs out, or a sign-in past its check, reactivates a deactivated
  customer (docs/authentication.md:96);
- outside USD nothing limits a transfer until staff add a row: the seed has one
  default, for USD (seed.ts:628-648), and no row means no check
  (transfer-limits.service.ts:26);
- retiring a limit overwrites `effectiveTo` of a row that has already ended
  (transfer-limits-admin.service.ts:116);
- in the portal, query keys carry no customer and logout clears no cache; ending
  a device's sessions invalidates only the list of devices; `EditFlagDialog`
  saves the snapshot it was mounted with; the profile form is overwritten when
  its query is refetched; the customer's account page offers activation, which
  the service refuses to customers.

### Bounds

Races here need two requests on the same rows, and sometimes a third that
benefits; every instance has them.

- `MoneyMovement`: one unit more than is on the account, and a ceiling below the
  balance, put the checks at their boundary. `MaxTries` is 1, or 2 where clients
  retry, `Largest` the largest amount a client asks for. Deposits, staff credits
  and withdrawals take the path of a transfer through the checks they share
  with it and are in no small instance; the theorems cover them. A limit is in
  effect for every account.
- `ScheduledTransfers`: `MaxDeliveries` 2 is one redelivery, which the claim has
  to withstand; `Horizon` 2 lets a daily schedule run, repeat and end; `MaxHit` 1
  leaves one schedule of the two untouched, of which more is promised.
- `EventBus`: `MaxEvents` 3 with `Batch` 2 gives a full and a partial batch; the last
  entry is `Bare`.
- `IdempotencyKey`: `MaxCalls` 2 with two callers is the smallest case in which
  an overtaken caller deletes the claim of another.
- `Sessions`: `MaxRequests` per client and `MaxConcurrent` 1, `MaxAttempts` 2:
  sign-in, replay and eviction all happen within them.
- `OneTimeCodes`: `MaxRequests` 4, `MaxAttempts` 1, `SetSize` 1 reach every
  limit, with a further request to exceed it.
- `AccessControl`: `MaxDepth` 2, `MaxRequests` 3; a cycle takes two re-parentings.
- `JobDelivery`: `MaxAttempts` 3 and `MaxStalls` 2 give a first try, retries and a
  last one. The queue's default is 5 attempts (bullmq-queue.adapter.ts:25); the
  two more repeat the middle ones, and the theorems are for any number. Jobs do
  not interact, hence one item; its kind is chosen at the start.
- `WireDesk`: `MaxCalls` 2 (without and with the code), `MaxEntries` 3,
  `MaxEdits` 1, two limit changes, with any of the two seeded rows (GLOBAL, tier)
  present and the book empty or with a blocked entry.
- `Portal`: `MaxPresses` 2, one control and one query at a time: React Query
  keeps queries apart, and a call touches each by itself.

Symmetry is declared for the clients of `Codes` and `Roles` and for the wires
and changes of `WireDesk`, which differ in nothing; never where liveness is
checked.

Deadlock is checked in `Portal`. In every other run nothing is left to do at the
end (every client has its answer, the last day has come, every message is
taken), and the configuration says so.

### Fairness

- `MoneyMovement`: weak fairness of each handler. Node's event loop runs every
  pending continuation.
- `ScheduledTransfers`: the clock, each service call, each execution, and the
  delivery of a due job to a free slot.
- `IdempotencyKey`: each pending call, and the expiry of what the key holds:
  Redis always gets it with a time to live.
- `JobDelivery`: weak fairness of each execution, and strong fairness of handing
  out each item, since BullMQ serves every waiting job in turn while others keep
  taking the slots.

Nothing is assumed of clients, of failures or of the outcome a step has. The
other runs have no liveness property.

## 4. The proofs

The theorems hold for every value of the constants under the named assumptions:
`ConstantsFit`, `RequestsFollowRoutes` and `OpeningBalances` of `MoneyMovement`,
`AmountsAreBounded` of `MoneyOverlap` (there is a largest amount), `SchedulesFit`,
`FaultsAreBounded`, `BusFits`, `CallersFit`, `SessionsFit`,
`CodesFit`, `AccessFits` and `SeedHasNoCycle` (the seeded hierarchy has no cycle
to begin with), `DeliveryParameters`, `SeededRowsFit` (the seed has at most one row
of a scope, none is needed), `WiresFit` and `ToursFit` (what a tour looks like). TLC evaluates each of them in a run. Bounds on requests,
deliveries and deaths are parameters like the others, so the theorems hold for
any number of them.

Every safety property of the passing runs is a theorem.

- `MoneyMovementProofs`: `TypeCorrect`, and from the inductive invariant
  `BookInv` the theorems `HeldMoneyIsSafe`, `CompletedMeansPosted` and
  `AnnouncedMeansPosted`, with any interleaving and failures. The three
  properties are not inductive alone: a request about to commit must have a
  fresh transaction id of its own, a request after its commit must have an
  entry if its remaining side effects announce one, and a reviewed transaction
  must carry the terms of the request that was held. `AnswersTellTheTruth` adds
  what a request that has yet to answer is going to say (`AnswerInv`).
  `BalancesReconcile` is about sums over the journal. Sums are induction over
  data, so what a sum does when an entry is added is proved from the
  well-foundedness of the naturals: if it were wrong for some number of entries,
  it would be for a least one.

  About overlap: `OverdraftNeedsOverlap`, `ExcessNeedsOverlap` and
  `ResolutionNeedsReview`, for any interleaving. Each rests on a count. `Covers`
  says that what is left (of the balance, or of the ceiling), plus the largest
  amount for each debit that has slipped past another one by now or may still,
  is at least what some request that has been cleared is about to take: one
  that is alone is covered by what is left, and one that commits leaves a place
  for the next. `FundsInv` says it of balances, `CeilingInv` of the ceiling.
  `ReviewInv`: the resolutions a transfer has had and the reviews about to
  resolve it are no more than had ever found it PENDING together.
  `ContractButForOverlap` proves `KeepsContract`, the refinement, action by
  action: the commits map to `SettleAtOnce`, `Hold`, `SettleHeld` and `Decline`,
  everything else stutters, and the only commits that may not are those of a
  transfer that two reviews had found PENDING at once. `ImplementsContract`, which
  the run checks with one reviewer, has no such exception, and is false in
  `MoneyDoubleApproval`.
- `ScheduledTransferProofs`: `SchedTypeCorrect`, `SchedOneExecution`,
  `SchedInTurn` and `SchedCancelled`. `RunInv` adds that a running claim means
  the row is PROCESSING or was cancelled or failed under it, that the occurrence
  an execution holds is the row's `nextRunAt`, and that the runs end just before
  it. The hypothesis is only that the claim is atomic; workers, redeliveries and
  crashes are unbounded. `SchedInTurn` adds to it how early an occurrence can be
  paid (`TurnInv`): the days whose job was added, each once, are the first
  occurrences, so that as many occurrences are due as jobs were handed out for
  the first time; and every execution handed to the ledger, or about to be, had a
  job handed out to it, for the first time or again. `SparedRowHasJob` says
  (`SparedInv`) where the one job of a schedule is that no fault has hit, at every
  await of every request that works on it.
- `PackagesProofs`, about the event bus: `BusTypeCorrect`, `BusHears`,
  `BusForgetsForACause`. `BusInv` adds that the batches of two consumers of a group
  are apart, that what a consumer has still to handle is untouched, and that it
  acknowledges only what it has handled or buried. What is forgotten was in a
  batch cut short, of which there are no more than `Batch` positions each, or was
  left for a retry. About idempotency keys:
  `IdemTypeCorrect`, `IdemRunsHaveACause` and `IdemRealResults`. The bound on
  runs is not inductive alone: `Paid` counts, besides the runs so far, every
  caller who is about to run or to free the key, and the key itself when it is
  free, each as one run that may still come.
- `SessionsProofs`: `SessionsTypeCorrect` (a request only names sessions that
  exist), `ReplayIsPunished`, `OrderlyCookieIsAccepted`, `LockoutHolds`,
  `SessionLimitHolds` and `DeactivationIsFinal`. The cookie's theorem rests on
  `OwnedInv` (a session belongs to one browser, and requests that hold the same
  one are overlapping refreshes) and `CurrentInv`. `GuessInv` counts the
  sign-ins that have failed and not yet been counted, against the overlap.
  `RoomInv` is the hardest: sign-ins that make room have each picked their own
  victims, and of those that would leave n sessions active only so many can be
  under way. `LinkInv` says that nothing has happened before the e-mail link is
  used.
- `OneTimeCodesProofs`: `CodesTypeCorrect`, `CodesWorkOnce`, `WrongCodesEnd`,
  `ReplacedCodesStayDead` and `EnabledSecretIsProved`. `CheckInv` and `MarkInv`
  bound uses and wrong attempts together with the checks that have read the row
  and not yet written it; `DeadInv` follows the codes a request found from its
  deletion on. `SecretInv` says of the secret that is enabled, and of the one every
  confirmation about to enable has read (`Known`), that it is one that was made,
  and that only enrolments counted in `slips` came after it: an enrolment that
  finds nobody about to enable turns TOTP off again.
- `AccessControlProofs`: `AccessTypeCorrect` and one theorem for each property of
  the run. `FinalInv`: the grants of an approval and the reviews about to decide it
  are no more than ever overlapped. `TwoInv`: a role about to be given without
  approval is not sensitive or was turned so since it was looked at, and who
  approves is not who asked. `LogInv`: the entries that link to one hash and the
  changes about to link to it are no more than ever overlapped; entries are
  younger than what they link to. `CycleInv`: what `assertNoCycle` has climbed so
  far is what a chain from the new parent to the role would have to go through,
  and when the climb is over there is no such chain within its depth. `CacheInv`:
  whatever the cache serves is accounted for by a chain of roles that grants it,
  or that the walk of a writer has yet to visit, or by a writer that is about to
  forget the user; and a check during which nobody writes reads what is there.
  An entry read while somebody writes is not covered.
  Hierarchies are handled as chains, functions from `0..k` to roles, not by
  recursion; what a walk reaches is a least counterexample again.
- `EdgeProofs`, about the workers: `DeliveryTypeCorrect`, `DeliveryExtraCopies` and
  `DeliveryOneStatement`. `AllAccounted` counts, for an item, the copies that are
  out and the executions that have lost their lock and may still send (`Owed`)
  against the attempts that were broken off; one copy needs no cause, that of a
  completed job or of the execution that holds the lock. A statement is created
  once because only one execution finds the row to be claimed (`Claimed`).

  About the tab: `TabTypeCorrect`, `TabDoesOnce`, `TabShowsOwnChange` and
  `TabTellsThenShows`, for any tour and any number of presses. The first two
  properties depend on what a control and its hooks are, so the theorems name
  the rule a tour has to keep: `KeepsOut` (the button stands still while a press
  of it runs, wherever the service would carry a second call out again) and
  `CoversAll` (the hooks cover what the calls touch). That every tour of the two
  front ends keeps both is `ToursKeepTheRules`, evaluated from the tables.
  `HonestInv`: as long as the user can know what became of his presses, who waits
  for an answer is on the page, and under such a button he is alone. `OnceInv`:
  what has been done once was done by a press that is past that step or was
  reported done. `ShownInv`: an answer on its way is no older than what is owed,
  or is known to be overtaken, and data that is older is marked, and fetched
  where it is on the screen. `ToldInv` says the same of a press that waits for
  its list and what that press made.
- `WireDeskProofs`: `DeskTypeCorrect`, `DeskNeverUnlimited`,
  `DeskLimitWasInEffect`, `DeskOneLimitPerScope` and
  `DeskRecipientIsListedOnce`. `TableFits`: rows are numbered as they were opened,
  and a request refers to a row that exists. A default stays once there is one
  (`DefaultStays`): a replacement closes and opens in one transaction, and the
  GLOBAL row cannot be retired; `ReadingsFit` carries that through the four reads
  of a wire that began under a default, and ties what it has read of the higher
  scopes to the tables it has seen since, for the limit to have been in effect. That several rows of a scope have a newest one is
  proved from the well-foundedness of the naturals.

Only model-checked: everything under fairness (`CompletedIsAnnounced`,
`DueIsServed`, `EveryCallEnds`, `EnqueuedComesOut`), which TLAPS does not do, and
the facts about the tables (`ToursKeepTheRules` and those of `PortalRoles`), which
are finite and evaluated. The theorems without a run of their own
(`SchedOneExecution`, `HeldMoneyIsSafe` and the like) are stated on the same
specifications that the runs explore.

## 5. Not modelled

- Distributed lock, circuit breaker, retry policy (`packages/resilience`,
  `packages/cache`): nothing in the repository calls them.
- Gateways, the UI kit and the marketing pages: proxying and rendering.
- Configuration, secrets, storage, observability, HTTP hardening: adapters
  around I/O without a protocol.
- The scaffolded services (kyc, loan, savings, reporting, transaction): their
  directories hold no behaviour.

Partly modelled:

- Account opening is a call that may be repeated. Inside it is one transaction
  that inserts rows nobody else updates, guarded by unique keys, and a check
  digit computed on strings. `MoneyMovement` starts from open accounts.
- Customer profile, consent, staff queries and the notification centre appear as
  what their methods read and change.
- In both front ends, layout, validation texts and formatting are left out; sign-in
  and tokens are in `Sessions`. Hooks that no page uses (`useReceipts`,
  `useDeposit`, `useWithdraw`, `useUpdateRole`, `useDeleteRole`,
  `useRevokeRolePermission` and a few calls) stand in the tables, but belong to
  no control and are not toured.
