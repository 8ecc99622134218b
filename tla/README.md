# FinanceOps in TLA+

A verification development for FinanceOps, a multi-tenant accounting and
finance platform (FastAPI, async SQLAlchemy, PostgreSQL, Redis, Celery,
Temporal). The code is under `src/backend/financeops/`; paths below are relative
to that directory. The modules are translated from the source. Comments and
docs of the repository are used only where a run asks whether the code does what
they say.

- [1. The system](#1-the-system)
- [2. What is hard about it](#2-what-is-hard-about-it)
- [3. The modules and the code](#3-the-modules-and-the-code)
- [4. The runs](#4-the-runs)
- [5. Fairness](#5-fairness)
- [6. The proofs](#6-the-proofs)
- [7. Disagreements found](#7-disagreements-found)
- [8. What is only model-checked, and what is not modelled](#8-what-is-only-model-checked-and-what-is-not-modelled)
- [9. Plan](#9-plan)

To repeat a check: `tlc -config MCChainLedger.cfg MCChainLedger`, and
`tlapm ChainLedgerProofs.tla`. `PROJECT.json` lists the runs, the source lines
of every definition, the hazards and the theorems.

## 1. The system

A request is served by one handler in one database transaction: `db/session.py`
opens a session, the handler flushes statements as it goes, and the session
commits when the handler returns and rolls back when it raises. PostgreSQL runs
at READ COMMITTED, so every statement sees what others have committed by then.
Workers (Celery) run the same services in sessions of their own.

| Component | State | Operations | Talks to |
|---|---|---|---|
| Hash-chained ledgers and audit trail (`utils/chain_hash.py`, `services/audit_writer.py`, `services/audit_service.py`) | per table and tenant, rows with `previous_hash`, `chain_hash`, `created_at`; an advisory lock per chain | append (lock, tail query, insert, audit entry), verify | every service that stores a financial record |
| Prepaid credits (`services/credit_service.py`) | one balance row per tenant, reservations, `credit_transactions` | get_balance, reserve, confirm, release, add | paid engagements |
| Intent pipeline (`core/intent/`) | intents with a status and an idempotency key, jobs, events; batches with failed items | submit, validate, approve, dispatch, record, reject, batch, retry | journals and all governed mutations; guards and approval policies of `core/governance/` |
| Journals and general ledger (`modules/accounting_layer/`) | journals with status, maker, reviewer, approver; `gl_entries`; journal numbers per period | create, submit, review, approve, post, reverse | executed by the intent pipeline; reads the periods |
| Period close (`governance_service.py`, `closing_checklist/api/routes.py`) | status of each period, per entity and globally | lock (soft, hard, after a readiness check), unlock | reads the journals; takes the governance event chain lock |
| Paid services (`modules/fdd`, `ppa`, `ma_workspace`, `marketplace`) | engagements and their reservation, sections of reports, purchases, the contributor's counters | create (reserve), run (confirm or release), purchase (pay) | credits; Celery redelivery |
| Billing (`modules/payment`) | rows of subscriptions, invoices and payments (append-only, the youngest counts), claimed webhook events | provider webhooks, retries of failed payments, trial tasks, cleanup, API calls | payment providers |
| Plan credits (`modules/payment/application/credit_service.py`) | append-only rows that repeat the balance | top-up, consumption | payment providers |
| ERP push (`modules/erp_push`) | push runs (append-only), mappings, connections | push now or by task, retry, dead-letter | posted journals; external ERPs |
| ERP sync (`modules/erp_sync`) | sync runs, snapshots, publications | fetch, validate, publish | external ERPs |
| Idempotency middleware (`shared_kernel/idempotency.py`) | cached answers in Redis | replay or run and store | all POST endpoints of listed modules |
| Airlock (`core/governance/airlock.py`) | uploaded items and their status | submit and admit in one transaction, reject | imports |
| Platform (`platform/services`) | workflow stages and approvals, quotas, roles, tenants | approve a stage, record usage | everything |
| Sessions (`services/auth_service.py`) | refresh tokens | login, refresh, logout, revoke, change password | - |
| LLM gateway (`llm/`) | circuit state per model in Redis | call, fall back, record failure or success | narrative modules |
| Engines (lease, revenue, fixed assets, FX, consolidation, ...) | results appended to hash chains | compute and store | ledgers |
| Frontend, migrations, reports, notifications | - | - | API |

## 2. What is hard about it

* **Chains under concurrency.** Which row is the tail is decided by a query, the
  row that refers to it is inserted later, and the application clock that fills
  `created_at` is read by each process. The chain is linear only because an
  advisory lock is taken before the query and kept until COMMIT. Handlers take
  the locks of several chains in an order of their own, so they can deadlock.
* **Credits under concurrency.** Balance, reservations and transactions are three
  tables. They agree only because of the row locks, of the order in which they
  are taken and of the unique index that lets one transaction create the row.
* **Checks that are old when they are used.** Intent guards read a journal and a
  period before the lock that a period close takes; the executor acts later.
  `reverse_journal` asks for the date several times.
* **Failures in the middle.** A handler that raises is rolled back as a whole,
  except that a batch catches the exceptions of its items and goes on in the
  same transaction.
* **Calls that cannot be rolled back.** A push to an ERP and a charge by a payment
  provider happen outside the transaction that records them. Their answer can be
  lost and the worker can be lost before the answer is stored, so the code must
  write down what it is about to do, or do it again.
* **Events of others.** The payment provider repeats, delays and reorders its
  events, while a daily task, the API and the provider change the same
  subscription by appending rows that copy older ones.
* **Duplicates.** Celery delivers a task again when its worker is lost. A
  request delivered twice meets the cache of the idempotency middleware, then
  the lookup by key, the unique index and the chain lock, and they do not use the
  same columns. A request that timed out goes on after its client was answered.

What makes each component correct, in one line each:

* ledgers: one successor per row, whatever the interleaving and the clocks; the
  committed history never changes;
* credits: reserved never exceeds the balance, each reservation is settled once,
  the ledger explains the balance;
* intents: an intent is carried out at most once, its stored status is final and
  tells what was done, a batch accounts for each item;
* journals and periods: posted once, reversed once, never approved by the maker;
  a hard-closed period has no open journals and nothing is posted into it;
* ERP push: nothing is in the ERP that was not announced, nothing is shown as
  pushed that is not there, and a settled push is not repeated;
* billing: an event is applied once, what is shown as paid the provider has
  confirmed, a subscription is cancelled by the retries only after three of them and does not
  stay past due for ever;
* paid services: every credit spent bought something that exists, and every
  result was paid for or its credits were given back;
* plan credits and the middleware: who is told of a success finds it, who repeats
  a request under its key is not charged again, and no more is used than was
  bought.

`PROJECT.json` lists the hazards with their lines and the properties that would
catch each of them.

## 3. The modules and the code

All modules share one view of the database: committed state, what each
transaction has flushed and not committed, who holds which lock, and a program
counter per session that says which statement is next. One action is one
statement (or a run of statements between which no other transaction could be
told apart, because the lock that excludes the others is held). `Fail` is an
action everywhere: a crash, a lost connection, an error of another check; it
rolls back and frees the locks.

### AppendOnlyLog, ChainLedger

`AppendOnlyLog` is the promise: per (table, tenant) a list that only grows at its
end. `ChainLedger` is the code: `RequestLock`/`GrantLock`
(`pg_advisory_xact_lock`), `ReadTail` (the query for a row to which no row
refers, youngest first, in what the transaction sees), `InsertRow` (followed, if
the caller passes an audit event, by an append to the audit chain in the same
transaction), `Commit`, `Fail`, `DeadlockAbort`. `verify_chain` and
`verify_tenant_chain` are operators. Hashes are the sequences of payloads they
commit to, so that equal hashes mean equal histories, as with SHA-256 without
collisions. `LockKeyOf` is arbitrary: keys (60 bits of an md5) may collide.
`MaxRows` bounds the rows of a chain.

### CreditAccount, CreditLedger

`CreditAccount` is the promise: an account whose credits are reserved, confirmed,
released, paid and added one call at a time, never beyond what is available.
`CreditLedger` implements it (`ImplementsAccount`, the committed rows as the
account's state), and `PaidServices` is built on it.

`CreditLedger` is the code. `get_balance`, `reserve_credits`, `confirm_credits`, `release_credits` and
`add_credits`, each as its statements: `LockReservation` and `LockBalance` are
`SELECT ... FOR UPDATE` (they wait, then see the committed row), `InsertBalance`
is the INSERT of the first balance row, which waits at the unique index and
fails if another transaction commits it first. `ConfirmOwn` is the pair of
reserve and confirm in one transaction (`ma_workspace`, `marketplace`). A tenant
starts without a row. `MaxEntries` bounds the ledger.

Both, like PaidServices and PlanCredits, take their sums from `Totals`: the sum of
amounts is the number of single credits in them.

### JournalBook, GovernedJournals

`JournalBook` is the promise: journals, general ledger and periods change by
whole operations that look at the state of the moment. `GovernedJournals` is the
code. A journal request is an intent: `LockIntentEvents` (its first event takes
the chain lock of `canonical_intent_events`), `EvaluateGuards` (role, target,
period and state, read at this moment), `LockGovernance` (the guard event takes
the chain lock of `canonical_governance_events`), then the executor's own checks
and writes (`create_journal_draft` ... `reverse_journal`, `PostReversal`), then
`Commit`. Period requests take only the second lock, run the readiness check and
write (`lock_period`, `unlock_period`). `today` is the period the server's date
falls into and may advance at any moment (`Tick`); `reverse_journal` reads it
for the check and again in `PostReversal` for the posting. Lines, amounts, FX
and accounts are abstracted to "the journal is balanced"; the other readiness
criteria can only refuse, like `Fail`. `MaxPerPeriod` bounds the journals of a
period. The periods are numbered.

Two details of the code that the model relies on: the executors re-read the
period rows from the database (the guards keep no reference to the row objects,
so SQLAlchemy's weak identity map has dropped them), and a global period lock is
never hard, because the readiness check of a hard close needs an entity.

### IntentPipeline

`submit_intent` from the lookup to the record: `Replay`, `Ambiguous` or
`FindNone` (the lookup by tenant, type, key and target), `EntityNotResolved`
(`_resolve_entity` raises before there is a row), `create_draft` (waits at the
unique index on tenant, type, entity and key), `IntegrityError`,
`submit_existing_intent` (takes the chain lock), `validate_intent`,
`reject_intent`, `BadPayload`, `AwaitApproval`, `approve_intent`,
`mark_recorded`, `ExecutorFails`. `StartBatch`, `NextItem` and `EndBatch` are
`BatchMutationExecutor` and `RetryBatchMutationExecutor`, which submit their
items as children in the same transaction. A row is identified by what the
unique index says. What an executor writes is `none`, `part` or `all`; whether
guards pass and whether an executor fails is a free choice. `Calls` and
`RetryKeys` are the requests clients make. Items that are themselves batches are
left out. GovernedJournals models the same pipeline from the other side: there
the executors are concrete and the keys are left out. `answer` is what the client
was told; FastAPI closes the session dependency, and so commits, before it sends
the response (`AnswersAreKept`).

### ErpPush

One version of one voucher and all the calls that push it: Celery tasks
(`Tasks`, retried) and requests of users (which may be simulations). A call is
`run_all_push_gates`, `Lookup` (the youngest run under the idempotency key:
PUSHED ends the call), `Announce` (a run PUSH_IN_PROGRESS, committed before the
ERP is called), `Dispatch` to the connector (`Simulate`, `DispatchRaises`,
`DispatchRefuses`), the HTTP request with its `with_backoff`
(`RequestError`, `RetryableStatus`, `Accepted`, `Rejected`, `PostRaises`) and
`Record` (the outcome as a further run). `Crash` ends a call anywhere and the task
is delivered again; `GatesChange` closes a period or a connection in between.
`copies` counts the journals in the ERP, which is environment: a request whose
answer is lost may or may not have created one, and so may one whose answer
Tally garbles, which the connector counts as a refusal.

### Billing

One subscription with one invoice. The tables are append-only and the youngest
row is the state (`subs`, `invoices`, `payments`). The provider is environment:
it issues events, delivers them in any order, again and again, and `settled` says
what it made of the invoice: nothing, `reported` (it has answered a charge with
success, or shows the invoice as paid) or `collected` (it has the money). The
adapters under `src/` do not tell the last two apart: Stripe's answers with success
whatever the status of the invoice that comes back, Razorpay's only edits the
invoice to paid. `Collects`, `Accepts` and `Declines` are what a charge may come to;
`Confirmed` is either of the two. A webhook is `_claim_webhook_event` (the chain lock
makes claims take turns), the read of the subscription, and `_apply_invoice_event`
or `_apply_subscription_event` with the commit; an exception is swallowed and the
claim is committed without effect. The retry task lists candidates, charges
(`ChargeSucceeds`, `ChargeAccepted` without the money, `ChargeUnanswered`,
`ChargeFails`, `ChargeRefused`) and settles:
`_retry_failed_payments_async`, with a count copied from the row it listed.
`POST /invoices/{id}/pay` is `pay_invoice` or `PayFails`, then `mark_paid` or
`PayAborts`; it leaves the subscription alone, and a call of `Requests` that has
failed may be made again. `check_trial_conversions`, the other API calls and
`cleanup` (claims older than 90 days) append or delete in between. A new
subscription carries the metadata its client sent, so `Init` takes its status and
retry count from `Signups`: any integer, and past due as well, because an invoice
may be raised for such a row. A count that is not a number counts as none, in the
code as here.

### PaidServices

The callers of the credit service, on `CreditAccount`. `create_engagement`
reserves; `run_engagement_endpoint` sets the status and enqueues a task before
its transaction commits, so that either may happen without the other;
`RunStarts`, `run_engagement`, `RunRaises` and `WorkerLost` are the task. Its runs take
turns because the row they update stays locked. `create_ppa_engagement`
reserves, `create_workspace` pays. `FindTemplate` and `purchase_template` are a
purchase of the marketplace: it reads whether the template was bought and the
contributor's counters, and writes them later without a lock. `run_ppa` is not an
action: see section 7.

### PlanCredits

Requests that buy and use plan credits, each with a key that others may share,
behind two middlewares. `dispatch` (the lookup in Redis, then the endpoint),
`RequestTimeout` (which is inside and answers while the endpoint goes on),
`_store_cached_response`, `StoreFails` and `Expire` are the front;
`create_top_up_charge` or `Declined`, `get_balance` and `Record` are a purchase;
`ReadLatest`, `consume_credits` (the wait for the row lock and the check) and
`Record` a consumption; `Fail` ends either. The provider may take the money
and not say so. Two variables are there for the properties only: `excused`, the
keys with duplicates in flight together or with a lost or expired answer, and
`overlap`, whether a request has read the ledger while another was between its
read and its commit. `RepeatedWithoutCharge` and `SerialUseIsCovered` say what the code guarantees
outside these cases; section 7 says what happens in them.

## 4. The runs

| Run | What it asks | Bounds | States |
|---|---|---|---|
| `chain` | linear, verifiable, append-only chains; the tail is current at the INSERT; every transaction ends | 2 sessions, 2 chains, 2 clock readings, 2 rows per chain | 73 thousand |
| `credit` | no overdraft, reserved = pending, the ledger explains the balance, settled once, lock order, commits are calls of CreditAccount | 2 sessions, 2 reservations, amounts 1 and 2, 5 entries | 94 thousand |
| `journals` | a hard-closed period is settled and only reversals change its journals; four eyes under a policy with reviewer and distinct poster | clerk and closer (soft and hard closes), 2 users, 2 periods, 1 journal each | 2.7 million |
| `journals_book` | posted once, reversed once, commits are steps of JournalBook (so numbers do not clash) | 2 clerks, one of whom closes, 1 period, 2 journals | 1.2 million |
| `intents` | stored intents are settled and final, what a client was told of is stored, submissions end | 2 sessions; one key used for two entities, two roles and as item of a batch | 74 thousand |
| `intent_batches` | a batch accounts for its items, also the failed ones | 2 interchangeable sessions, a batch with one key twice, a second batch and a single mutation with that key, a retry of either batch | 1.1 million |
| `erp_push` | the ERP holds nothing unannounced, PUSHED runs are in the ERP, a settled push stays settled, pushes end | a task and a request (which may simulate), 2 retries, 2 posts per attempt, 1 crash | 274 thousand |
| `billing` | events applied once, payments explain the invoice, paid is confirmed, cancelled after three failures only, claims are final, past due ends | 1 retry task, 1 call that pays, the code's 3 retries of which the client's metadata claims one, 2 events, 1 row of a trial or the API, 1 cleanup | 1.3 million |
| `paid_services` | paid for work, results are settled, credits spent on services, earnings covered by sales, queued runs end | 2 engagements (3 and 2 credits) with 2 runs each, a PPA (2), a workspace (1), templates at 2 and free, 2 purchases, share 60 %, top-ups of 2 and 4 up to 6, 1 lost worker | 502 thousand |
| `plan_credits` | a success told of is committed, one key is charged once, serial use is covered | a purchase sent twice and a consumption under one key, a consumption under another, 2 credits bought, 2 and 1 used, 1 expiry | 1.5 million |
| `erp_push_twice` | violated: section 7 | as `erp_push` | |
| `retries_start_over` | violated: section 7 | as `billing`, no call that pays, no count at first, 3 events | |

Why the bounds are enough to be of interest:

* Two sessions suffice for every race of the code: all of it is about what one
  transaction sees or overtakes of another. Sessions are reused, so a third
  transaction follows on the first two. The deadlocks of the code are cycles of
  two.
* Chains of two rows have a genesis row, a successor and competing successors;
  two clock readings make the youngest row differ from the last one. Colliding
  lock keys are not in the run; the theorems cover them.
* Two reservations and amounts 1 and 2 make it possible to exhaust the balance
  with both or with one. Five entries are two additions, two settlements and one
  more.
* Two journals in one period are a journal and its reversal, or two numbers that
  could clash; two periods of one journal each are the journal and its reversal
  in the following month.
* The requests of `intents` are all the ways two requests can share a key.
* In `intent_batches` one key is that of two items of a batch, of an item of another
  batch and of a single mutation, so an item can find an intent that its own batch,
  another one or neither has stored, or wait for one; a retry may be of either batch
  and overlap the other. Items of several entities in one batch are in the theorem
  and not in this run (`intents` has two entities). Both sessions may send any of
  these, so they are interchangeable (symmetry).
* A task and a request are two calls that overlap; two retries give a first, a
  middle and a last attempt, two posts a repetition by `with_backoff`, and one
  crash can fall on any statement of either.
* In `billing` a failure and a success, or two failures, are the events that can
  be reordered; the third failure of the task is its last. The subscription begins on
  trial with a count of one, which makes what the client sends count; two retry
  tasks at once and other beginnings are left out for size (`Workers` and `Signups`
  allow them, and the theorems cover them).
* In `paid_services` six credits pay for some of the services and not for all, so
  refusals happen; two purchases are what it takes to overlap; a run, a lost
  worker, the redelivery and a second request are four runs of an engagement.
* In `plan_credits` the second purchase is the duplicate, the consumption under its
  key is what a client that reuses keys does, and three credits of use against
  two or four bought make refusal and overspending possible. The two purchases
  are interchangeable (symmetry).

Type invariants: every module states one, `TypeOK`. They are proved (section 6) and
kept out of the runs, which are spent on the properties above.

Every property has a mutant (an operator marked "Fault" before the definition it
replaces) that makes TLC find it violated: a lock that is not waited for, a tail
chosen by clock, a check made against the balance instead of what is available,
a status that is not set, an exception that commits.

## 5. Fairness

Nothing obliges a client to call, so only sessions that have begun are fair. An
open transaction executes its next statement (weak fairness): handlers are
finite and the event loop runs them. A statement that waits for a lock or a
unique index gets it (strong fairness): PostgreSQL queues the waiters of a lock
in order of arrival, and the holder ends. `Commit` is taken even though the
session could go on with another append for ever (strong fairness in
ChainLedger): a handler makes finitely many appends. `DeadlockAbort` is weakly
fair: PostgreSQL looks for cycles after `deadlock_timeout`. No fairness is
assumed of `Fail` or of calls. GovernedJournals states safety only: how a
submission ends is `SubmissionsEnd` of IntentPipeline.

In ErpPush each call takes its next step (weak fairness): HTTP clients have
timeouts, Celery delivers queued tasks, and crashes are finitely many
(`MaxCrashes`). In Billing the retry task is weakly fair, because the beat starts
it every day, and its commit strongly fair: a worker may be lost, but not on
every day. Nothing is assumed of the provider, who may refuse for ever. In
PaidServices a queued run starts and a started run ends (weak fairness: the
queue is durable, tasks are acknowledged late and rejected when their worker is
lost).

## 6. The proofs

The theorems hold for every value of the constants that satisfies the module's
ASSUME: any number of sessions, chains, reservations, journals, keys, amounts,
payloads, clock readings and any bound. All safety invariants and action
properties of the passing runs are stated by a theorem, and so are the three
refinements (`AppendOnlyLog`, `CreditAccount`, `JournalBook`). A theorem is named after its
property (`LedgerNoFork` states `NoFork`); the ones named `...Invariant` state
the inductive invariants below.

What the assumptions ask beyond types: ids of different tables differ (uuid4) and
the sets of reservations and of paid things are finite; there is at least one
period and there are finitely many; the items of a batch are a list of records.
No assumption is made about which keys, targets or lock keys coincide;
`BatchAccountsForItems` alone has a hypothesis about the keys of the requests, within
the property.

The properties speak of what is committed, and what a commit adds was decided
statements earlier. So each invariant says, for each place a program counter can
be at, what the session has read, flushed and locked, and that it is still true.
A step of one session then leaves the part of every other one alone, and there
is one lemma per action.

**ChainLedgerProofs** (786 obligations). The invariant `IInv` says

* `LockedWhileAppending`, `LockedWhilePending`: who is between the lock and the
  INSERT of a chain, or has uncommitted rows in it, holds its key;
* `ViewsLinear`: what each transaction sees of each chain is linear (linked,
  rightly hashed, the i-th row's hash commits to i payloads);
* `ReadIsLast`: the hash read is that of the last row the transaction sees;
* `ViewsExtend`: what it sees extends what is committed.

Two transactions with rows in one chain would both hold one lock, so a commit
changes no other transaction's view of a chain it works on. Colliding keys only
merge two locks, so nothing else about `LockKeyOf` is assumed. `TailOfLinear`
shows that in a linear chain the tail query does not depend on `created_at`.
`LedgerRefinesLog` is the refinement of `AppendOnlyLog`.
`LedgerAuditorFindsChainIntact` is about the walk of `verify_tenant_chain`, a
recursive function. `WalkOfLinear` shows that its equation has a solution (the
first n rows after n steps) and no other: the least number of steps at which
another one differs (`LeastNumber`, from the well-foundedness of the natural
numbers) contradicts `FollowLinear`.

**CreditLedgerProofs** (2215 obligations). The first invariant has a part per
transaction (`TxnOK`: `Phase`, which operations can be at which statement and
hold which rows; `HeldPending`, a locked reservation is pending unless its holder
has just settled it; `HeldBalance`, a locked balance row exists and is not
overdrawn; `Work`, the entry written starts from the committed balance, ends at
the written one and says what was done to the reservation) and
a part about what is committed (`Books`: `NoOverdraft`,
`LedgerExplainsBalance`, one entry per settled reservation and none for the
others, no credits without a row).

The second, `Sums`, says that the column `reserved` is the total of the pending
reservations and that a transaction has touched at most one reservation, by what
it wrote into the balance row (`Deed`). It gives `CreditReservedIsPending` and
`CreditImplementsAccount`: each commit is one call of `CreditAccount` that is
allowed at that moment, or no change.

Totals are counts: `Total(amount)` (module Totals) is the number of single
credits in all amounts, so adding a summand is adding a disjoint finite set
(`TotalOfMore`), and no induction over a fold is needed.

**GovernedJournalsProofs** (1303 obligations). `BookInv` is an invariant of
`JournalBook` by itself (`BookInvariant`): unused numbers have no ledger rows,
posted once, a reversal's target is VOIDED and has one reversal, approved by
another, hard-closed periods are settled. For the code, `IInv` adds

* `Numbering`: the numbers in use of a period are 1..k, so the number that is
  counted is free; and `Reviewed`;
* `Serial`: who decides, reverses or is done holds the chain lock of the
  governance events, the lock a period close takes as well;
* `Pending`: what a request that is done has flushed (`FlushedBy`) is a step of
  `JournalBook` that is enabled in the committed state now. The lock keeps it
  enabled: only its holder commits to journals and periods.

Hence `JournalsImplementBook`, and the invariants of the book are invariants of
the code, although its guards read before the lock. What is proved of the
operations of the book carries over in the same way: `BookPostedIsFinal` (a posted
journal and its ledger lines never change, but for the status, which becomes
VOIDED in the very step that posts the reversal) gives `JournalsPostedIsFinal`
without looking at a transaction again.

**IntentPipelineProofs** (2425 obligations). `Apart`: an uncommitted row is in one
session and not in the table (the unique index). Per session: `Place`, what it
has inserted at its statement; `Children`, all its rows except that of the
request are items of its batch; `Way`, the status, job and writes of its row;
`Told`, its answer is a row it sees or, after the commit, a stored one under the
type and key it sent. `PipelineStoredIntentsFinal` follows from `Apart`: a commit
only adds rows.

`PipelineBatchAccountsForItems` needs a second invariant, `AInv`, on top of `IInv`,
because a batch works through its items in one transaction while other sessions
commit rows its lookups may find. Its core is `Accounted`: of the items tried so
far, each has its row in the session or in the table, those noted as failed have
no intent or one that was not carried out (`Undone`), unless a later item of the
same key was (`PassedLater`), and each other one is `Answered` (carried out, waits
for an approver, or was inserted by another submission) or goes by the intent of one
that failed (`FailedUnder`). `Running` states it of the items before the current
one, `Ended` and `Stored` of all items of a batch that has ended or is stored. To
keep it, a step that writes a row must not write the row of an item already
tried: `Fresh`, the item on its way is none of those tried, which rests on `Kin`
(all mutations the session has written are items tried) and on the lookup before
the insert. That the lookup finds the item's own intent and no other's is where
the property's hypothesis `OneEntityPerKey` is used (`ItemUse`, `ExistingIsMine`):
`Named` and `Origin` trace every stored intent to a request that uses its key for
its entity. Keys derived from the position in a batch or a retry are told apart
by the batch that derives them, so one batch may mix entities. The hypothesis
speaks of the requests only.

**ErpPushProofs** (908 obligations). Two counts. `Budget`: the journals in the ERP
and the HTTP requests that announced attempts may still make are at most
`MaxPosts` per committed PUSH_IN_PROGRESS run; a call that crashes or ends only
gives up requests. `Evidence`: PUSHED runs with an id of the ERP and calls that
know of a journal and have not recorded it are at most the journals there are.
`Unnamed`: a run in progress has no id, so the lookup never polls the ERP and
records nothing as pushed on its word.

**BillingProofs** (1355 obligations). Every writer copies the retry count from some
old row, so `CancelledAfterRetries` needs more than the youngest row: the count
of *each* row is at most the failed attempts up to it and what the first row began
with (`RowsOK`, `Start`), also for the rows that a webhook or a task has read and not yet copied (`HookOK`, `TaskOK`).
`InvoicesOK` has one revision per event and ties the payments to them; a webhook
past its claim works on an event that is not claimed (`HookOK`), which gives
`BillingClaimIsFinal`. `AppliedOnce` does not rest on the claims, which are cleaned
up, but on the unique reference of the payments.

**PaidServicesProofs** (1351 obligations). `EngagementOK` ties the reservation of
an engagement to its status, sections and runs. `Spent`, `Covered` (the pending
reservations are at most the balance, so a confirmation never overdraws) and
`Earned` are the sums; `RequestOK` says that the counters a purchase has read were
covered by the sales there were, so overwriting the counters with them plus one
sale stays covered, and that only a request that has bought nothing can buy, which
`PaidSettledForGood` uses: a reservation is settled once and what it paid for is
never taken back by a later run or purchase. The module is built on `CreditAccount`, which
`CreditImplementsAccount` shows the credit service to implement.

**PlanCreditsProofs** (954 obligations). About the middleware: `AnswersOK`, an
answer that may be shown under a key is that of a request with this key, and its
row is committed if it tells of a success; `HandledOnce`, two requests are handled
under one key only if it is excused, because the first leaves an answer
in Redis unless it is in flight, lost or expired (`RequestOK`). About the ledger:
`Balances`, while no request has overlapped another one, the one between its read
and its commit is alone, what it has read is current and what it takes is there.
This is `PlanSerialUseIsCovered`.

## 7. Disagreements found

Two are runs in which TLC violates what the repository says.

1. `erp_push_twice`. "If step 5 crashes after commit of step 4, the retry will find
   `idempotency_key` already in DB and can re-use the `external_id` by re-polling
   the ERP" (`src/docs/platform/WORKBENCH_ERP_AUDIT.md:591`). The committed
   PUSH_IN_PROGRESS run has no external id, so the poll asks nothing and the retry
   posts the journal again. The same happens after a timeout, which is stored as
   PUSH_FAILED, and when two calls overlap.
2. `retries_start_over`. "Mock 3 consecutive failures → assert subscription moves to
   CANCELLED" (`src/docs/design/backend-wave2-api-contract-fixes.md:161`). The webhook
   of each failed charge appends a row copied from the one the invoice was raised
   for, without the retry count, and the next retry counts from one again. The
   test of the third failure runs the retries without the webhooks.

The following have no run of their own. They are behaviours of the models, or of
the code next to them.

Journals and periods:

* "Period is HARD_CLOSED. No modifications are allowed."
  (`governance_service.py:281`). The period of the journal to be reversed is
  checked only by the guards, before the lock that a close takes. A hard close
  that commits in between is not noticed, and a journal of a closed period becomes
  VOIDED.
* "Period is HARD_CLOSED. Posting is blocked." (`governance_service.py:301`).
  `reverse_journal` checks the period of today and asks for the date again to
  decide where to post; when the month ends in between, it posts into a period it
  has not checked. `ClosedPeriodOnlyReversed` is what remains true.
* A soft close stops no request of the API: the roles that may post are those
  that may override. Locking a HARD_CLOSED period as SOFT_CLOSED reopens it to
  them without the unlock's approval; unlock does not look at the state.
* Reversals are approved by their maker (`FourEyes` leaves them out).

Intents:

* The exception that reports a refusal rolls back the transaction that stored it:
  neither the REJECTED intent nor its event remains, although a test asserts the
  status in the still open session.
* The unique constraint makes a key one of an entity, the lookup leaves the
  entity out. A key used for a second entity is answered with the intent of the
  first, and the second request is not carried out.
* An intent whose requester may not approve is stored with next action
  "APPROVAL_REQUIRED". No operation approves a stored intent, and a submission
  with the same key by an approver is answered from the row.
* A batch item that repeats the key of a REJECTED intent, or of one that waits
  for approval, is answered without an exception and counted as a success, so the
  batch becomes RECORDED. `BatchAccountsForItems` shows that this, and an item that
  repeats the key of one that failed in the same batch, are the only ways for an
  item to count as a success that was neither carried out nor waits for approval.
* A failed item's writes are committed with the batch under a REJECTED child; a
  malformed item leaves its child SUBMITTED or VALIDATED. An item whose entity
  cannot be resolved leaves no child at all, only its place in `failed_items`. An
  item that failed may still have been carried out for a later item of the batch
  with the same key.
* A retry does not update `failed_items` of its batch, so a second retry with
  another key carries the same items out again.
* A failed executor marks its intent REJECTED without an INTENT_REJECTED event.

ERP push:

* A simulated push stores PUSHED under the key of the real one and blocks it.
* DEAD_LETTER is listed as terminal (`db/models/erp_push.py:20`), but a new push
  under the key is sent.
* The idempotency key leaves out the connection; `_next_chain` takes no lock, so
  chains of push runs can fork.
* The task of an ERP webhook is queued before the event commits and may find
  nothing. Account events compare connector types in different case
  (`webhook_processor.py:158`).

Billing:

* An exception in a claimed webhook is swallowed and the claim committed: the
  event is lost, where `06_CREDITS_AND_PAYMENTS.md:400` expects a retry.
* An invoice can be shown as paid, and a subscription reactivated, without the
  money: the adapters answer a charge with success whatever the status Stripe
  returns (`stripe.py:229`), and Razorpay's only edits the invoice to paid
  (`razorpay.py:168`). `PaidIsConfirmed` therefore says that nothing is shown as
  paid without such an answer, and no more.
* `POST /invoices/{id}/pay` charges an invoice whatever its rows say, and leaves the
  subscription to the webhook. The metadata a client sends with a new subscription
  may hold a `payment_retry_count`, from which the retries count on.
* A late payment_failed after paid sets the subscription past due.
* A customer who has paid can be cancelled: any open row of an invoice makes it
  retryable though a later row says paid, and the provider's refusal to be paid
  twice counts as a failure. "Never charge an already ACTIVE or CANCELLED
  subscription" (`backend-wave2-api-contract-fixes.md:165`) is not kept either.
* Trial tasks append from old trialing rows; the cancellation at the end of the
  period repeats the old status of the row it is called for. `mark_payment_failed`
  has no caller, so there is no grace period. After the cleanup of the claims an
  event of a subscription may be applied again.

Paid services:

* `run_ppa` inserts its allocation row and then updates it, which the append-only
  trigger refuses (`migrations/versions/0050_ppa.py:159`, `db/append_only.py:316`):
  every run is rolled back and the reserved credits stay held. The tests create
  the tables without triggers.
* Nothing enforces `expires_at` of a reservation. A run that raises outside its
  own handling, or whose message is lost, leaves the status at running and the
  credits held, where `06_CREDITS_AND_PAYMENTS.md:71` has them released.
* A run after a failed one delivers the report without payment and sets
  `credits_deducted_at`; a failed run after a completed one shows "failed".
* Two overlapping purchases of a template are both paid (no unique key), after
  which the lookup of the purchase raises; they also lose each other's update of
  the contributor's counters. Sales after the payout of a month are never paid
  out.

Plan credits and middleware:

* `consume_credits` locks the youngest row of a table whose rows never change. A
  second consumption that waits for it goes on with it, though the first has
  committed a younger one, and spends the balance again: more is used than was
  bought. A purchase that overlaps a consumption writes a balance that ignores
  it. The unit test of InsufficientCreditsError has one consumption.
  (`SumOfDeltas >= 0` is violated in `plan_credits`; `SerialUseIsCovered` excepts
  overlaps.)
* Nothing marks a key as in flight: a duplicate that arrives before the first
  answer is stored is handled as well, is charged as well and gets another
  answer.
* Errors and timeouts are stored too and repeated with status 200; the endpoint
  that timed out may have committed. The cache key has neither path nor body, so
  another request under the key gets the answer of the first.
* `allocate_plan_credits` has no caller; its rows would expire at the start of
  their period. A provider that takes the money and answers with an error is
  reported as a refusal.

## 8. What is only model-checked, and what is not modelled

Only model-checked is liveness (`TransactionsEnd`, `SubmissionsEnd`, `PushesEnd`,
`PastDueEnds`, `QueuedRunsEnd`): the prover has no rules for fairness and ENABLED.
Only proved, in no run, are three action properties that follow from invariants of
the runs: `SettledIsFinal` of CreditLedger, `PostedIsFinal` and `SettledForGood`.

`BatchAccountsForItems` is neither checked nor proved for requests that use one key
for two entities. It is not true of them: an item can be answered with the intent
of the other entity (then its own is not stored), or be reported as failed because
two intents answer to its key though its own was carried out.

Not modelled: the components that `PROJECT.json` lists with status
`not_modelled`, each with its reason. In the modelled ones:

* everywhere: tenants other than one (every table and lock is per tenant),
  payloads, collisions of hashes, direct changes of the tables that bypass the
  services;
* credits: `check_balance` followed by `reserve_credits` in one session (no
  caller does it);
* journals: amounts, currencies, accounts; the close checklist apart from the
  readiness check;
* intents: batches within batches, what executors write;
* ERP push: the webhooks of ERPs, attachments, the mapping of accounts;
* billing: entitlements, change of plan and proration, creation of invoices (there
  is one), the grace period (dead code), two retry tasks at once (the module allows
  it, the run does not);
* paid services: contents of the reports, `run_ppa` (which always rolls back),
  payouts, ratings and reviews;
* plan credits: allocations (no caller), negative numbers of credits, the key the
  provider may get from the body, clocks that order the rows differently from
  their commits.

The engines (leases, revenue, fixed assets, FX, consolidation, reports), which are
most of the code, compute with decimals in one transaction each and append their
results to the hash chains. What can go wrong in them is arithmetic on real data,
which is neither in TLC's nor in the prover's reach; the chains are ChainLedger.

## 9. Plan

Done, in this order: ChainLedger with its proofs, CreditLedger with its proofs,
JournalBook and GovernedJournals, IntentPipeline, ErpPush, Billing, CreditAccount
(implemented by CreditLedger, used by PaidServices), PlanCredits with the
middlewares; then the proofs of all of them, with the three refinements, and last
the accounts of batches and the finality of what is posted and settled.

Next modules, smaller: the approval of ERP publications, workflow stages and
quotas, refresh tokens, the circuit breaker.
