# AlKÉ Finance backend — TLA+ models, model checking and proofs

The repository is a NestJS modular monolith on PostgreSQL: retail investors
deposit money through mobile-money providers, place buy and sell orders that are
sent to a brokerage firm (the SDB) as daily files, and withdraw. All money moves
through one double-entry ledger; sensitive actions need two members of staff; a
client trades once the identity file is approved. This directory holds TLA+ models
of the parts where concurrency, failures and ordering decide whether the books, the
permissions and the audit log are right, the TLC configurations that check them on
small instances, and TLAPS proofs for all instances.

Paths below are relative to the repository; `src/src/modules/` is written `M/`.

## 1. Inventory

| Component | State it keeps | Operations | Talks to |
|---|---|---|---|
| ledger (`M/ledger`) | LedgerAccount, LedgerTxn (idempotency key, REVERSED), LedgerEntry; a balance is a SUM | `post`, `reverse`, in its own transaction (with a retry loop) or in the caller's; `verifyInvariants` | called by payments, brokerage, reconciliation, approvals; publishes LedgerTxnPosted |
| payments, deposits (`M/payments`) | PaymentIntent (IN): state, expiry, provider status | `createDeposit`, webhook, `confirmDeposit`, `adminRecheck`, `forceComplete`, expiry job | provider adapters (HTTP), ledger, approvals |
| payments, withdrawals | PaymentIntent (OUT): state, batchId | `requestWithdrawal`, `markWithdrawalPaid`, `failWithdrawal` | ledger, brokerage (WDR file), reconciliation (CSH line) |
| brokerage, placement and batches (`M/brokerage`) | Order.status, reserve, OrderBatch | `placeOrder`, `cancel`, `requestReview`/`applyReview`, `buildBatch`, `markSent`, `processAck`, `expireStale` | policy, fees, ledger (reserve, release), approvals, SDB files |
| brokerage, executions and settlement | Execution, Position, Order.filledQuantity | `processExecutions`/`applyExecution`, `settleDue`, `failSettlement` | ledger (fill, settlement, reversal) |
| brokerage, trading days | — (pure) | `firstSession`, `addTradingDays`, `sessionsForValidity`, `isExpired` | placement, expiry |
| reconciliation (`M/reconciliation`) | ReconciliationItem | `runDaily`, `mirrorCheck`, `update`, `requestWriteOff`/`applyWriteOff` | ledger, payments, approvals, compliance |
| approvals (`M/approvals`) | PendingApproval | `request`, `approve`, `reject`, registered executors | every module with a sensitive action |
| auth (`M/auth`) | Session, OtpCode, User.tokenVersion | register, login, refresh rotation, logout, password change and reset, OTP issue/verify | notifications |
| kyc (`M/kyc`) | KycSubmission, User.kycStatus, BrokerAccount | draft, submit, provider answer, automatic and manual decision, account opening | identity provider, approvals, compliance |
| compliance (`M/compliance`) | ComplianceAlert, ComplianceCase, decisions | `raiseAlert`, `openCase`, `addNote`, `requestDecision`/`executeDecision` | events of other modules, approvals, users |
| notifications (`M/notifications`) | NotificationLog (an outbox) | `dispatch`, `attempt`, `retryFailed` | every event |
| config (`M/config`) | versioned ConfigValue rows, a cache per process | `get`, `current`, `set` | approvals, policy, payments |
| fees, policy (`M/fees`, `M/policy`) | FeeSchedule | `computeFee`, `create`, `deactivate`, FEE_CHANGE; `canTrade`, `canPlaceOrder` | placement |
| audit and events (`src/src/common`) | AuditLog, a hash chain | `log`, `publish`, `verifyChain` | everything |
| markets (`M/markets`) | Market.liveTrading, Instrument, InstrumentQuote | quotes by hand or in bulk, the current price, the legal switch | placement, approvals |
| portfolio (`M/portfolio`) | — (reads) | summary, performance, monthly statement | ledger |
| users, profile, support, admin, storage, health | reference data | single-row reads and updates; blocking | — |

`PROJECT.json` lists them all, with what is modelled of each, and the hazards at
their lines.

**What is hard in this code.** There is one Node process, but every `await` is an
interleaving point: handlers read a row, await a provider, a file or the ledger,
and then write. Some writes are conditional (`updateMany ... where state in`), some
are not. The ledger is safe under READ COMMITTED only thanks to row locks taken in
id order, a unique index and a retry loop. Callbacks repeat, come before the
creating request has finished, or never; jobs overlap themselves; a crash may
separate the ledger, or an approved effect, from the row that records its outcome.

**What correct means, per component.** Ledger: one posting per key, no user below
zero, reversals exact, callers told the truth. Deposits: credited once, only when
collected or forced, never lost, always closed. Withdrawals: reserved before they are
instructed, debited once. Orders: a reserve released once, only when the order is
final; an order sent to the SDB is still live; validity counted in sessions. Executions:
each applied once, fills within the quantity and the reserve, positions that match.
Approvals: two people, one effect. Sessions: nothing survives a revocation; a code
resists guessing. Identity: who may trade was approved. Compliance: who is cleared or
written off was so by two people. Audit: the chain verifies. Config and fees: nobody
reads a value long gone, no moment without a schedule. Statements: exact at rest.

## 2. Modules

| Module | Models | Lines of source behind it |
|---|---|---|
| `AtomicLedger` | the ledger's promise: a journal that grows by balanced, fresh, affordable batches | header of `M/ledger/ledger.types.ts` |
| `Ledger` | `LedgerService` at the grain of its SQL statements | `M/ledger/ledger.service.ts` |
| `LedgerClient` | `post` as one atomic step, for the modules that call it | same |
| `Deposits` | deposits, instance `LedgerClient` | `M/payments/payments.service.ts`, webhook controller, expiry job |
| `Withdrawals` | withdrawals, instance `LedgerClient` | the same service, `buildWdrBatch`, the CSH line of `runDaily` |
| `OrderState` | the statuses of an order, the transitions allowed, the rules of a fill | `M/brokerage/order-state.ts` |
| `Orders` | orders from placement to the ORD and ACK files, expiry, review; the reserve | `orders.service.ts`, `batches.service.ts`, `order-ledger.service.ts` |
| `Executions` | extends `Orders` with fills, settlement, delivery failures, and holds Next and the properties | `batches.service.ts`, `order-ledger.service.ts`, `settlement.service.ts` |
| `Approvals` | maker-checker: requests, the claim, executors, their outcome | `M/approvals/approvals.service.ts` |
| `KycCases` | extends `Approvals` with identity cases, the broker account, blocking | `M/kyc/kyc.service.ts`, `broker-accounts.service.ts`, `users.service.ts` |
| `Compliance` | extends `KycCases` with alerts and compliance cases; Next and Spec of the three | `M/compliance/compliance.service.ts` |
| `Otp`, `Sessions` | one-time codes; on top of them the sessions of one user | `M/auth/otp.service.ts`, `auth.service.ts`, `jwt.strategy.ts` |
| `AuditTrail` | extends `Approvals` with the hash chain and the bus that feeds it | `common/services/audit.service.ts`, `common/events/event-bus.service.ts` |
| `Reconciliation` | extends `AuditTrail` with the daily run, the queue, the write-off | `M/reconciliation/reconciliation.service.ts` |
| `Settings` | extends `AuditTrail` with the clock, the parameters and their cache, the legal switch, postings | `M/config/config-values.service.ts`, `M/approvals/approvals-executors.service.ts` |
| `Notifications` | extends `AuditTrail` with the outbox and its retry job | `M/notifications/notifications.service.ts` |
| `Quotes` | extends `AuditTrail` with the quotes of one instrument | `M/markets/markets.service.ts` |
| `Fees` | extends `Settings` with the schedules of one type of fee and what they charge | `M/fees/fees.service.ts`, `approvals-executors.service.ts` |
| `OrderEntry` | extends `Fees` and `Quotes` with the checks of `placeOrder`, read by read | `orders.service.ts`, `M/policy/*` |
| `Portfolio` | extends `Settings` with the monthly statement | `M/portfolio/portfolio.service.ts` |
| `TradingDays`, `OrderValidity` | the calendar functions and a reference; the life of one order on them | `trading-days.ts`, `orders.service.ts`, `batches.service.ts` |
| `BackOffice` | composes the last eight on the same handlers | — |
| `LedgerProofs`, `DepositsProofs`, `WithdrawalsProofs`, `ExecutionsProofs`, `SessionsProofs`, `ReviewsProofs`, `BackOfficeProofs` | theorems about `Ledger`, `Deposits`, `Withdrawals`, `Executions`, `Sessions`, `Compliance`, `BackOffice` | — |
| `SumLemmas` | lemmas about sums over finite sets and greatest elements, for the first four of these and the last | — |
| `MC*` | values of the constants for TLC | — |

How they compose. `Ledger` is shown to implement `AtomicLedger` (run `ledger`,
property `ImplementsPromise`, theorem `KeepsThePromise`: each commit of the interleaved statements is one append).
The payments and brokerage modules take the ledger as `LedgerClient`, whose steps the run
`deposits` shows to be steps of the same `AtomicLedger` (`PostsFitThePromise`); the theorems `PostsFit` prove it of
deposits, withdrawals and executions.
`Compliance` and `BackOffice` are two compositions over `Approvals`: in both the
executors run on the very handlers that approve, so that claims, effects and stops of the
process interleave with what the same handlers do for the other modules.

### Ledger

A session is one request. Its `pc` names the next SQL statement of `postIn`
(`ReadKey`, `EnsureAccount`, `CreateAccount`, `LockAccounts` one row at a time,
`CheckBalances`, `Insert`, commit, publish) or of the retry loop (`Reread`).
Uncommitted writes are kept apart per session (`wrote`, `pend`, `made`, `marks`), so
that other sessions do not see them; `CommitOwn`/`CommitCaller` publish them, `Throw`
drops them. In mode "caller" several posts share a transaction that the caller
commits, or that any exception rolls back. PostgreSQL is external: visibility, row
locks, inserts that wait for an uncommitted equal key, the deadlock detector.

Abstractions: the entries of a posting are its movement (net delta per account); a
posting whose entries cancel out on every account is not among the inputs. Currency is part of
the account. Fees, descriptions and the statement queries are left out.

### Deposits

`state` is the row, `charge` what the provider knows, `forced` the intents whose forced
completion was approved. `h[w]` is a handler: where it is in the code, which caller
it serves, its intent, and what it read. One action runs from one await to the next. The expiry job is a
handler of its own (its `running` flag), with the list of its `findMany` in `todo`.
`Throw` is an exception at any database or ledger call, with the catch that handles it;
`Crash` loses all handlers. The payer's answer is final at the provider; a
request that errors may or may not have arrived.

### Withdrawals

As above; the WDR file is `ListPending` / `NextSequence` / `WriteBatch` / `SubmitWdr`,
with the file name's unique index; the SDB pays any line it was sent. `failWithdrawal` is
exported through `WithdrawalSettlementPort` and has no caller in `src/` yet;
the model lets it be called on any intent that exists.
Abstraction: an exception in the RESERVE post means that it was not committed; a commit whose
acknowledgement is lost is not modelled there.
Claimed by no property: that a withdrawal is not both paid and released. `markWithdrawalPaid` and
`failWithdrawal` of one intent that overlap both pass their PENDING test, in the code and in the model.

### Orders and Executions

`status`, `filled` and `batchId` are the Order row, `executions` the settlement state of
each execution line the SDB may report, `position` the user's Position of the instrument;
`balance` has the user's AVAILABLE, RESERVED and SETTLING and one account, `clearing`, for the SDB
and the fees. `h[w]` is a handler and what it read.

What is one step: a transaction that begins with a conditional update (cancel, the
rejections, expiry, review, the settlement claim) holds the row until it commits, so no
other writer of the row comes between. What is several: `buildBatch` (list, reject, count, transaction), `processAck`
(`ReadAck` reads the orders of the batch once, then any lines in any order are decided on that copy: `AckAccepted`, whose update tests nothing,
and `AckRejected`, whose update does, until `CloseAck`), expiry and review (read, then write) and `applyExecution`, whose transaction reads the order,
sums the executions, takes the account locks of its posting, reads the position, and
writes what it computed from those reads. From the posting to the commit it holds the rows of
`FillAccounts`; `Free` makes other postings wait. The other files are read line by line: a
handler is one line of an execution file, and the loop is several handlers. Orders whose deadline passed, due
dates and users without a broker account are chosen freely. A line's amount is what
`buyDebit` (BUY) or `netAmount` (SELL) makes of it; the position row exists.

`overlapped` is a history variable: two handlers, or a handler and a one-step
request, have been in flight at the same time. Most properties of the counters and
the reserve hold only while they have not, because the code
takes no lock on the order between its reads and its writes (two executions of one order that
overlap lose an update of `filledQuantity`); those properties say so. The scheduled
jobs run at fixed hours, the imports are started by an administrator, so this is
the normal regime; what holds in every regime is `ClearingMatchesExecutions`, and that no more shares are reserved than held.

`revived` is a history variable too: the orders that an ACCEPTED line acknowledged when they were already final. It
takes no overlap: one file may hold a REJECTED and then an ACCEPTED line of one order, and both are decided
on what was read before the first. Such an order is live with its reserve released, so the properties about the reserve of an order
(`OrderSpendsItsOwn`, the second half of `SharesStayReserved`) leave revived orders out, and the run `executions_revived` shows one.

### Approvals

`approvals[r]` is the request's row; `ran[r]` counts how often its effect was committed,
which no row records. `task[h]` is what handler `h` does next with what it read before:
`approve` reads (`ReadRequest`), claims conditionally (`ClaimApproved`), runs the executor of
the action (the extending module; `Committed` where its transaction commits), and records
EXECUTED or FAILED (`Return`, `Throw`, `Finish`). `CrashTasks` loses every handler. A request is
one step, although the code reads what it is about and then creates the row: the read guards
nothing that the executor does not read again. The audit entries of approvals
themselves are not composed; `OtherEntry` of `AuditTrail` stands for them.

### KycCases and Compliance

One client with their successive cases (`kyc`), the `User` row's status, resubmissions and
block (`user`) and the broker account. `Submit` … `ProviderAnswers` … `AutoApprove`/`ToManualReview`
are the awaits of `submit`; `AutoApprove` and `Validate` are two writes in the code and two steps here,
so a stop between them leaves a case AUTO_APPROVED whose user may not trade. No code sets
RE_KYC. A decision on a case with screening hits is a request, any other is applied at once.
`Compliance` adds the alerts of one entity and the cases about one subject. What the model shows
and no property forbids: a note read while a case was OPEN reopens it as UNDER_REVIEW
after its closing decision; an unblock request approved late lifts a later block.

### Otp and Sessions

One user and one destination. A code's `attempts` is claimed in a conditional update before the
comparison; `guesses` counts the comparisons, `used` the calls let through. The codes of REGISTER
and of LOGIN are both called LOGIN. A session carries the `tv` (tokenVersion) and `pwd` (number of the
password) read when its user last proved who they are; `late` marks what overlapped a password
change: such a call finishes with a session of the old password, in the model as in the code, and the
property says so. Hashing, signatures and expiry of tokens are left out.

### AuditTrail, and what extends it

`chain` is the table in the order of its sequence; `LockChain`, `ReadLast`, `InsertRow` are the
statements of the transaction under `pg_advisory_xact_lock`. The hash is the pair of what it is
computed from. `log` throws to its caller when it fails, `publish` only logs (`AbortAppend`). `todo[h]` is the
list a handler walks through, whatever it lists.

* `Reconciliation`: an intent is its state, a line a reference and whether its amount is the
  intent's. The mirror item is reference 0; its two events are one entry. `update` and `applyWriteOff` write
  by id, unconditionally, so a write-off can follow a resolution and the reverse. `openItem` leaves
  an item that exists alone, also one already RESOLVED; the loser of a race on the unique
  index loses the rest of its run.
* `Settings`: one parameter. Two overlapping `set` transactions leave two open rows, the later one
  effective. "POSTING" stands for LEDGER_ADJUST and LEDGER_REVERSAL. A forced completion of an intent
  already PAID ends EXECUTED without an effect.
* `Notifications`: a QUEUED row left by a stop is retried by nobody. Overlapping runs of the job exceed
  the three attempts by one for each run under way. The in-app row is left out.
* `Quotes`: the current price stands for the four fields `upsertQuote` refreshes; `updateInstrument`,
  which can also set it, is left out.
* `Fees`: amounts in hundredths, rounded as the code does, with floor and cap. Two overlapping FEE_CHANGEs leave two active
  schedules, the newer one effective; deactivating it brings the older back. `create` and `deactivate` of the controller
  need no approval. `effectiveTo` of inactive rows is left out.
* `OrderEntry`: one client, one instrument, one quantity. `placed` are the rows written. The market's switch
  is read twice, first for whether the order is a paper one, then for whether the client may trade. When it is
  switched in between, a client who is not a demo user gets a paper order, which `src/docs/ARCHITECTURE.md:36-37` excludes: the run
  `paper_orders` shows it.
* `Portfolio`: every posting moves one unit. A posting has its date when its row is inserted (`InsertPosting`) and is seen when its
  transaction commits (`CommitPosting`), or never (`RollBackPosting`, a stop). A statement keeps, as history, how many postings committed
  while it was read (`late`) and how many dated before its month's limits were still in flight (`unseen`): `StatementIsExact` allows for
  these and for nothing else, so it is exact for a month over which no posting is in flight. The statement's positions, which are the current
  ones whatever the month, are left out.
* `OrderValidity` has a clock of its own, in half hours, that stops around midnight, the cut-off and the close.
  The sessions of a GTD order are counted at placement and used up from its transmission.

## 3. Runs

| Run | Instance | Shows |
|---|---|---|
| `ledger` | 2 sessions, 2 keys, 2 calls each, 4 accounts, 4 movements (one malformed) | `TypeOK`, `NoOverdraft`, `KeyOnce`, `ReversedIffReversal`, `AnswerIsPosted`, `OwnPostsNeverDeadlock`, refinement of `AtomicLedger` |
| `deposits` | 1 intent, 2 workers and the job, 2 starts, 2 faults | `TypeOK`, `CreditedWasCollected`, `OneCreditPerDeposit`, `PaidIsCredited`, `CollectedNeverFailed`, `ExpiryNeverBuriesPaid`, `PostsFitThePromise`, and under fairness `OpenIsClosed` |
| `withdrawals` | 2 intents of one user, funds 2 or 3, cap 3, 2 workers, 2 settlements, 1 failure, 2 faults | `SettledWasReserved`, `OneDebitPerWithdrawal`, `PaidIsDebited`, `PendingIsCovered`, `NoneLeftCreated` |
| `executions` | 2 orders (2 shares and 1 share; two BUYs or two SELLs), 3 lines that compete for the first, one of them for more than its reserve or quantity, 2 workers, 5 handlers | `TypeOK`, `ClearingMatchesExecutions`, `OrderSpendsItsOwn`, `FilledIsExecuted`, `SharesStayReserved` |
| `executions_transitions` | the same | **violated**: `TransitionsAreValid` |
| `executions_final` | the same, one worker | **violated**: `FinalHoldsNoReserve` |
| `executions_revived` | the same, one worker | **violated**: `SharesReservedUntilSettled` |
| `reviews` | 2 staff, both checkers, 2 handlers, 2 requests, 4 calls, 1 stop; 2 identity cases, 1 alert, 2 compliance cases | `TypeOK`, `EffectsNeedTwoPeople`, `TradingHasApprovedCase`, `ClosedByTwoPeople` |
| `sessions` | 2 handlers, 5 calls, 2 codes (1 per hour, 1 attempt), 3 sessions, 1 block | `GuessesAreCapped`, `OneSuccessor`, `OldSessionsAreRevoked` |
| `backoffice` | 2 staff, 2 handlers, 13 loads of at most 4 calls, 1 stop and 2 requests | `ChainVerifies`, `WrittenOffByTwoPeople`, `ServedIsRecent`, `RetriesAreBounded`, `ValidityIsInSessions`, `StatementIsExact`, `FeesHaveNoGap` |
| `quotes` | the same, quotes only, no stop | **violated**: `LastPriceIsLatest` |
| `paper_orders` | the same, orders and the switch only, no stop | **violated**: `PaperOrdersAreDemo` |

**Bounds.** `MaxCalls` (calls), `MaxStarts` (webhooks, rechecks, forced completions; handlers
in `executions`), `MaxSettles`, `MaxFails`, `MaxFaults` (exceptions and crashes), `MaxCrashes`, `MaxBlocks`, `MaxTime`,
`MaxResubmissions`, `LastDay`, and the numbers of rows (`RequestIds`, `CodeIds`,
`SessionIds`, `LogIds`, `Files` …). Every race named in the hazards is between two
handlers, and needs at most two failures (one to stop a handler halfway, one to stop its retry), so two
of each are enough to reach it; each property is also checked to fail under a plausible defect of the
code (the mutants), on the same bounds. Accounts and movements of the ledger are chosen so that two postings
can share two accounts in opposite order, share one key and no account, and overdraw each other.
In `backoffice`, the constant `Loads` names what one behaviour mixes: the kinds of calls, and how many
calls, stops and requests. Kinds that share no row but the audit chain are not mixed; those that do (fee changes and
direct fee edits, orders with fees, quotes and the switch) are. Two
FEE_CHANGEs overlap, each requested and approved, in the load of "changes" alone. A posting of "statements" is a call like any other, so four
calls are a statement with postings before, during and after it. `LastDay = 8` covers a week-end and
the sessions on both sides. In `OrderEntry` the client's demo status is fixed during a behaviour.

**Fairness** (`deposits` only). A handler that was started goes on (the event loop), the scheduler
calls the job every minute, and the clock reaches `expiresAt`. Nothing is assumed of
the provider, the payer or the callbacks: `OpenIsClosed` holds without them. Nothing else in
the code promises an outcome: a request that nobody decides stays PENDING, a stop of an executor leaves
it APPROVED for ever, and a QUEUED notification is not retried.

**Deadlock** is not checked by TLC: once every bounded call is made, the system rests. That the
ledger's own postings never wait for each other is the invariant `OwnPostsNeverDeadlock`.

## 4. What the violated runs say

* `executions_transitions`: the comment that heads `order-state.ts` says every transition is
  validated; `buildBatch` validates the status it listed and then updates by id, so an order
  cancelled in between, its reserve released, goes to the SDB.
* `executions_final`: a delivery failure makes a partly executed order ADJUSTED, final, and
  gives back the failed execution's amount only: the part of its reserve that was not
  executed stays in RESERVED, which no operation frees. One handler after the other is enough.
* `executions_revived`: `order-ledger.service.ts:25` says the shares of a SELL stay reserved until settlement; a REJECTED line of an ACK file
  frees them, and an ACCEPTED line of the same file for the same order, decided on what was read before either, makes the order ACKNOWLEDGED again
  (`batches.service.ts:208`). One import, nothing overlapping.
* `quotes`: `upsertQuote` reads which day is the latest, and refreshes the price in a statement of its own: of two
  overlapping imports the one of the older day can write last.
* `paper_orders`: rule 3 of `docs/ARCHITECTURE.md` refuses simulated orders to whoever is not a demo user; `placeOrder` takes
  `isSimulated` from the instrument loaded first, and `canTrade` reads the market again, so LIVE_TRADING_TOGGLE in between lets one through.

Two more disagreements, met in the models and left without a run of their own:

* Rule 5 of `docs/ARCHITECTURE.md` asks that events be emitted after the commit; a post in a caller's transaction
  publishes before it (`PublishPosted` before `CommitCaller`), and an announced posting can be rolled back. The comment of the code
  (`ledger.service.ts:69-71`) accepts it; the rule does not.
* The comment of `creditDeposit` (`payments.service.ts:229-230`) says a crash between the ledger and the intent is healed by the next confirm. A
  `forceComplete` on a FAILED intent that stops there leaves a credited intent FAILED, and `confirmDeposit` gives up on FAILED.

## 5. Proofs

Each theorem holds for every value of the constants, under the assumptions named in the
module that declares them (`ConstantsAssumption`, `DepositConstants`, `WithdrawalConstants`, `OtpAssumption`,
`SessionsAssumption`, `StaffAssumption`, `RequestsAssumption`, `BoundsAssumption`, `KycAssumption`,
`FilesAssumption`, `HandlersAssumption`, `OrderConstants`, `NotificationsAssumption`, `SettingsAssumption`,
`FeesAssumption`, `PortfolioAssumption`, `LastDayAssumption`). Where rows, accounts or handlers are summed or counted, the assumption asks that
the set of them be finite (`Accounts`, `Intents`, `OrderIds`, `Lines`, `Handlers`), as any table, or what one process runs, is.

`SumLemmas`. Balances, caps and counters are `SumFunctionOnSet` of the community modules, a recursive function on the
subsets of a finite set. That such a function exists, and what it returns for the empty set, for one more element, for
two functions that agree, for a subset, a difference, an image or a negation, is shown for every
function and every finite set by a smallest counterexample: strict inclusion is well-founded on the subsets of a finite set, so among
those that would refute a fact one has no smaller one. `Highest`, that a finite set of numbers has a greatest one, is shown the
same way.

`LedgerProofs`. For any sessions, keys, accounts, movements and bound on calls, from
`ConstantsAssumption` alone (ids are ordered, movements are functions to integers):

* `TypesHold` — `Spec => []TypeOK`. The invariant is `TypeInv`, which adds to the types
  which `pc` a session must be in for its call, its answer and its wanted account to be defined.
* `KeysAreWrittenOnce` — `Spec => []KeyOnce`. Two rows of one key, committed or not, are the same
  row: an insert waits for every other session's uncommitted equal key, and fails on
  a committed one. Inductive with the types.
* `UsersAreNeverOverdrawn` — `Spec => []NoOverdraft`. `NoOverdraft` is not inductive: a session
  between its check and its insert relies on nobody having moved the balance. `OverdraftInv`
  adds `LockedWrites` (who has an uncommitted movement on an account holds its row lock),
  `LockedAccounts` (past the locking, a session holds every row it touches) and
  `Checked` (at the insert, the posting still fits). Since only one session holds a lock,
  a commit changes no account that another session has checked.
* `ReversalsAreExact` (`ReversedIffReversal`) and `AnswersAreTrue` (`AnswerIsPosted`) — from `BookInv`. `Numbered`
  and `IdOnce` say that ids name rows, `KeyOnce` is the theorem above; `Backed(R, M)` says that the reversals among
  the rows `R` and the marks `M` are each other's, and is kept for what is committed and for what each session
  sees with its own writes, so a commit, which is a union of the two, keeps it; `Undoing` says that
  a session that has entered a reversal sees the original it cancels, `Told` that an answer names a row its session
  sees, under the key it asked for, and `Ended` that a transaction which is over has left nothing uncommitted.
* `KeepsThePromise` — `Spec => ImplementsPromise`, the refinement of `AtomicLedger`. The journal of the promise is the committed
  rows without their ids. Every step but a commit leaves it alone; that a commit is one `Apply` needs `KeyOnce`
  (the keys are new), `BookInv` (a reversal cancels a row that is there), `NoOverdraft`, and `PostInv`: what a session is about to
  commit sums to zero, and its pending movement of each account is the sum of its rows'.
* `OwnPostsDoNotDeadlock` — `Spec => []OwnPostsNeverDeadlock`. `OrderInv`: a session that locks for a posting of its own
  holds only rows that rank below those it still asks for, and has written nothing that another could wait for. In a circle of
  such sessions, one waits for the highest row anyone waits for; who holds it waits for a higher one.

`DepositsProofs`. For any intents, amounts, workers and bounds, from `DepositConstants`:
`TypesHold`, `OnlyCollectedIsCredited` (`CreditedWasCollected`), `PaidMeansCredited` (`PaidIsCredited`),
`NothingCollectedFails` (`CollectedNeverFailed`), `PaidNeverExpires` (`ExpiryNeverBuriesPaid`), `CreditsOnce`
(`OneCreditPerDeposit`) and `PostsFit` (`PostsFitThePromise`). The first four come from one inductive invariant, `Inv`: the properties say nothing of a handler that has
read something and not yet acted on it, so `Relies` says what each await guarantees
(about to credit: collected or forced; about to write FAILED: the provider said
failed; past the credit: it is in the journal), `Alone` that nobody else is requesting
the same intent's charge, `Rows` that FAILED implies a failed charge, which is final, and `Listed` that the
job's list names existing rows. `Grows` is why the handlers do not disturb each other: no action
takes back what another relies on. `PaidNeverExpires` follows from the types and the actions. The last two rest on `Money`: the
journal holds nothing but the credits of deposits, one per key, and AVAILABLE is their sum, since a posting under a key that is
there moves nothing; `PostsFit` is the step-by-step refinement, each posting one `Apply` of the promise.

`WithdrawalsProofs`. For any intents, amounts, workers and bounds, from `WithdrawalConstants`:
`SettlesWhatItReserved` (`SettledWasReserved`), `PaidMeansDebited` (`PaidIsDebited`), `RequestsFinish`
(`NoneLeftCreated`), `DebitsOnce` (`OneDebitPerWithdrawal`), `CoversPending` (`PendingIsCovered`) and `PostsFit`. `Inv` has the same shape: `Relies` (about to debit, release or settle: the reserve is in the
journal; about to write PAID: so is the debit), `Rows` (PENDING and PAID were reserved, PAID was debited) and `Held`
(as long as nothing has failed, an intent in CREATED has its request at work). The journal only grows, which is why one
worker never takes away what another relies on. `Money` adds that each account is a sum over the withdrawals reserved,
debited and released; with it, and `Unfailed` (before the first call of `failWithdrawal` nothing is released), what
WITHDRAWABLE holds is the sum of the reserved that are not debited, of which the PENDING ones are a part. `PostsFit` is no property of
a run: that each posting is one `Apply` of `AtomicLedger`, from any funds, and leaves no account of the client below zero.

`ExecutionsProofs`. About `Executions` with `Orders`, for any orders, lines, sides, amounts, handlers and bounds, from
`OrderConstants`. Every step is first reduced to its `Effect` on orders, executions, position and ledger (an order placed, closed with
its release, marked, transmitted; an execution recorded, settled, failed), whatever the handler that does it has read; the
invariants are then kept effect by effect.

* In every regime: `TypesHold` (`TypeOK`), `ClearingHolds` (`ClearingMatchesExecutions`) and `PostsFit`. `Base` is inductive: `JournalInv` says that each
  journal row is of a known kind and says what its order and line imply (`Sound`), `LineInv` that an execution that is there has its
  FILL in the journal, and one that failed its reversal (`Traced`), so no FILL is skipped as already posted and none is
  reversed twice; `HandlersInv` what a handler holds in its hand, however stale (`Sensible`). `ClearingHolds` is then the sum of
  the FILLs, by one line at a time. `PostsFit`, no property of a run, is the refinement of `AtomicLedger` from any cash the
  user starts with: the transactions post several rows at once, so it needs that the rows of one have different keys, that each
  takes from an account what it gives to another (`Transfers`), and, of a reversal, that the FILL it cancels is in the
  journal (`Traced`).
* While handlers have not overlapped: `CountersHold` (`FilledIsExecuted`), `SpendsItsOwn` (`OrderSpendsItsOwn`) and `SharesHold`
  (`SharesStayReserved`). `SerialInv` says `~overlapped => Serial /\ Counted /\ Released /\ Spent /\ Held`. `Serial`: one handler at most is
  under way, and what it read is still so (`Current`), so each step has a `SerialEffect`, which acts on the rows as they are.
  `Counted`: the counter is the sum of the executions that stand. `Released`: a RELEASE is in the journal only for an order that is over or was revived, so
  that the one posted when an order closes is never skipped as a duplicate. `Spent`: what the postings of a live BUY that was not revived
  have left in RESERVED is its reserve less what its executions took. `Held`: as long as no SELL was revived, the reserved shares cover the
  SELLs unsettled and unfilled. That no more shares are reserved than held is of every regime, by the floor of `unreserveShares`.

`SessionsProofs`. For any handlers, codes, sessions and bounds: `TypesHold`, `CodesResistGuessing`
(`GuessesAreCapped`), `TokensRotateOnce` (`OneSuccessor`) and `PasswordChangesRevoke` (`OldSessionsAreRevoked`). One
invariant, `Inv`:

* `CodeRows`: the comparisons made with a code, plus the calls about to make one, are at most the
  attempts claimed, and those at most `MaxAttempts`. The cap on guesses alone is not inductive, since a
  call between its claim and its comparison is not counted yet. The calls about to compare are a set; each step adds
  or removes one element, so only the cardinality lemmas of the library are needed.
* `JobInv`: `Relies(h)` says what each call under way has read and may still count on (a refresh about to
  open its successor has revoked the session it names; a call about to sign read a `tv` and a password
  that were the account's at some time), `OneHeir` that no session has two successors, opened or about to
  be, and `SessionRows` that a live session of an older password has an older `tv` unless it is marked `late`.

`ReviewsProofs`. About `Compliance` with all it extends, for any staff, handlers, requests and stops:
`TypesHold`, `EffectsAreAgreed` (`EffectsNeedTwoPeople`), `TradersWereApproved` (`TradingHasApprovedCase`)
and `CasesAreClosedByTwo` (`ClosedByTwoPeople`). The invariant has one part per module:

* `ApprovalInv`: `RequestRows` says what a request's row tells of its effect (PENDING and REJECTED: never
  run; EXECUTED: run once, by two people), `Duty(h)` what a handler of a request relies on (before its commit: the
  row is APPROVED and the effect has not happened; after: it has), `OneExecutor` that no two handlers execute
  one request. The conditional claim is what makes `OneExecutor` inductive.
* `KycInv`: who is VALIDATED, or about to be, has a case that is approved.
* `FileInv`: a case in a terminal state has a decision in its list, and each decision an executed request behind it.

`RowsGrow` links them: no step takes back a decided request, so what one module concluded from an
approval stays true while the handlers of the others run.

`BackOfficeProofs`. About `BackOffice`, the composition of ten modules, for any staff, handlers, requests, rows and
loads, whenever the process stops: `AuditVerifies` (`ChainVerifies`), `WriteOffsTakeTwo` (`WrittenOffByTwoPeople`),
`CacheIsRecent` (`ServedIsRecent`), `RetriesEnd` (`RetriesAreBounded`),
`ChangesLeaveNoGap` (`FeesHaveNoGap`, an action property), `StatementsAreExact` (`StatementIsExact`),
`OrdersLastTheirSessions` (`ValidityIsInSessions`) and, about the operators of `Fees`, `FeesStayWithinBounds`.

The first two rest on `Inv`. Most steps of the composition touch nothing they depend on; `OrdinaryKeeps`
disposes of those at once, and what is left is about the steps at which a handler relies on something it
read (`Relies`):

* `HoldsChain`: between reading the last hash and inserting, the handler holds the advisory lock, and
  what it read is still the last hash. `ChainVerifies` speaks of the rows alone and is not inductive without it. It needs
  `HandlersAssumption`, that a free lock is nobody's.
* `HoldsRequest`: about to approve, the actor is a checker and not the maker; executing, two people agreed
  (`Agreed`); about to write off, they agreed on this very item (`AgreedFor`); about to write an update, it is
  not a write-off. `Grows` is why this survives the others: a request keeps what it asks for, and what was
  agreed stays agreed, EXECUTED or FAILED.

The next four each have an invariant of the component's own state, and of what its handlers hold, kept by its own steps
with `Inv` at hand; that the steps of the other components leave it alone is said once, by the kinds of steps of
a handler (`ServeKinds`) and the calls each kind does not enter or leave (`Avoids`):

* `SettingsInv`: `RowsRecent`, every version that was current at a time was in force no earlier; `HoldsVersion`, the value a
  query is about to put into the cache was in force when it was read; `CacheRecent`, hence the cache lapses at most TTL after its
  value was in force. `ServedIsRecent` alone is not inductive: a query under way may fill the cache again after `set` dropped it.
* `LogsInv`: a row's attempts, plus the handlers that may still try it (`PendingAt`: it is on the list a run has read, or
  in its hand), are at most `MAX_ATTEMPTS` plus the number of handlers, less one. A run starts with rows that are below the maximum,
  and an attempt takes its handler out of that set.
* `FeesInv`: the rows a change is about to close are schedules of the market it is a request about (`HoldsFees`), so its
  transaction, which closes and inserts at once, leaves the market with the row it inserts, or with those that are latest among the
  ones it did not close. `Highest` gives the latest of the schedules left.
* `ReportsInv`: what the queries of a statement have not seen is at most what was posted since it began (`Lags`, by `PostedAdds`:
  a posting counts in one part of the time line at most); the balance read last, less what was seen, is then off by no more. `Covers` is what
  is said of a balance once it is given out: what is committed before its instant, and what is in flight there too, stays within its bounds, since of the
  postings dated before an instant that is past one may commit or fail, and no other can start (`BooksMove`).

`OrdersLastTheirSessions` compares two ways to count, over any `LastDay`. The code steps from trading day to trading day
(`addTradingDays`, a recursive function on `0 .. n`), the reference counts the days between two instants. `StepsExist` and `StepsAreSessions`
show by counting up (`CountingUp`, from the greatest number reached) that the function exists and that its n-th day is the one that makes
n + 1 trading days; `FirstSession` and `ClosedSessions` reduce cut-off and close to days. The property says nothing of an order
still PENDING, so `ValidityInv` adds that an order has at least as many sessions as it can reach up to its date, at its placement
and, since later it reaches fewer, at its transmission; and that an expired one had as many over.

`FeesStayWithinBounds`: for any rate and amount, the floor, the cap and the rounding in the order in which `applySchedule` applies them.

Only model-checked:

* liveness (`OpenIsClosed`), which the provers do not handle;
* the properties of the violated runs, which are false.

## 6. Plan

Done: every module of section 2 and the theorems of section 5. Every invariant and every action property of the passing runs
is stated by a theorem, but for the liveness property. What is left:

1. That the fee with which `OrderEntry` writes an order is the one of a schedule in force at some moment of its placement,
   although the schedule of the market and the global one are two reads.

## Not modelled

* Provider adapters, brokerage connectors, the file formats: I/O and parsing; their answers are inputs of the
  models, in any order, repeated, late or missing.
* Storage, health, schema, migrations, build and infrastructure: no state of their own beyond rows the
  other modules own; what matters of the schema (unique indexes, row locks) is in the modules that rely on it.
* Users, profile, support, admin, markets other than quotes and the switch: single-row reads and updates without a
  race to check, except blocking, which `KycCases` and `Sessions` model.
* Portfolio other than the statement: reads whose result nothing is decided on.
* Recurring plans, reports, lists, exports and pagination, the contents of notifications and of audit
  entries, the conditions under which an alert is raised: data no property depends on.
