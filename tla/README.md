# PrdFy: a formal model

TLA+ models of the parts of PrdFy whose correctness depends on the order in which things
happen: credit accounting, subscriptions and payments, the requests that spend credit
(task trees, PRDs, acceptance criteria, codebase analyses), a project's way through its
documents, the upload of a repository, the task board, the billing reminders, the pages
that generate documents in the browser, the chat panels of the PRD and the board that a
page keeps up to date. TLC checks them on small instances, TLAPS proves the most
important results for all instances. Paths below are relative to `src/src/`, where
`PROJECT.json` has them in full.

## 1. Inventory

PrdFy is a web application (TanStack Start, Drizzle on Postgres, READ
COMMITTED). A request handler is a process; requests of one user run
concurrently (two tabs, a retry, a double mount), share nothing but the
database, and stop anywhere when the server does. What makes the code hard is
what it does between two statements: a `SELECT ... FOR UPDATE`, a conditional
`UPDATE`, a check followed by a write, a call to Midtrans or to a model in the
middle.

| Component | State | Operations | What can go wrong |
|---|---|---|---|
| Credit service (`lib/services/credit-service.ts`) | `credit_operations`, `credit_ledger_entries`, the counters `credits`, `credits_used`, `credits_reserved` of the subscription | reserve, mark running, settle, release, quarantine, refund, reconcile expired | overdraft by concurrent reservations; a second charge or return by a retry; counters, rows and ledger out of step; a hold nobody returns |
| Subscriptions and payments (`payment-service.ts`, `payments/create.ts`, `payments/webhook.ts`, `actions/payment.ts`, `credits.ts`, `billing.ts`) | plan, period and counters of the subscription; `payments` | checkout, webhook, status sync, grant of a plan or a top-up, monthly refresh, cancellation | repeated, late, reordered notifications; stale clean-up against a late payment; quota races; resets under operations in flight |
| Billing reminders (`cron/billing.ts`, `billing-emails.ts`) | `reminder_count` | select, claim, mail | overlapping runs; renewals between selection and claim; the index into the schedule |
| Task generation (`task/generate.ts`, `task-service.ts`) | `projects.task_status`, the request's local state | reserve or join, claim, run, save, settle or release, reset the claim | requests with one key, requests with different keys, aborts, crashes, failures between two steps |
| Acceptance criteria (`ac/generate.ts`) | `projects.ac_status` | the same | the same |
| PRD chat (`chat.ts`, `prd-service.ts`, `chat-service.ts`) | `prd_versions`, `chat_messages`, `projects.step` | generate, revise, save a version | version numbers, step regressions, message and version out of step |
| Codebase sync (`codebase-sync*.ts`, `v1/*/codebase/*.ts`, the CLI's `sync-client.ts`) | sync sessions, snapshots, snapshot files, idempotency keys | hand-shake, manifest batch, file batch, complete, expire, revoke | stalled requests whose claim was stolen, merges on stale reads, unconditional writes of the session status |
| Codebase analysis (`codebase-analysis.server.ts`) | `codebase_analyses`, the session | claim, analyse, finish, roll back | an analysis that stays pending; roll back on a stale read |
| Kanban and task status (`kanban/update-status.ts`, `v1/tasks`, `v1/subtasks`, `reset-progress.ts`) | task rows | move, report, reset | lock order; derived status of a task and its subtasks |
| Projects (`projects/$id*.ts`, `flow-progress.ts`) | `projects.step`, deletion | advance, delete | steps that go back |
| Generation pages (`components/ac/ac-detail.tsx`, `components/task/task-detail.tsx`, `lib/prompt-handoff.ts`, `api/ac/save.ts`) | state and refs of the page, the guard outside of the pages, two entries of `sessionStorage`, the router's cache | open, leave, switch project, generate, abort, save by hand, resume after a payment | a second stream, a guard nobody gives back, a page that shows a generation which does not run, a part saved over the whole |
| Kanban board page (`hooks/use-kanban-polling.ts`, `api/kanban/stream.ts`, `api/kanban/$pid.ts`, `components/kanban/kanban-board.tsx`) | what is shown, the connection and its attempts, the query cache, a refresh in flight | stream, reconnect, poll, refresh, reset progress | answers out of order or of another project; a page that is neither connected nor polling |
| PRD page and chat panels (`components/chat/chat-panel.tsx`, `components/prd/prd-detail.tsx`, `store/index.ts`) | the store that two mounted panels share, the refs each has of its own, the prompt and the intent in `sessionStorage` | hand over, send, stream, cancel, resume, pay and come back, switch project, leave | a prompt sent twice or lost, a second stream, an end of one call that clears what another has set, an input nobody frees |
| Rate limit (`rate-limit.ts`) | `rate_limits` | one upsert per request | the last unit of a window |
| Pricing (`adaptive-credit.ts`), authentication, AI router, prompts, the other pages, CLI files, administration, e-mail, export | - | - | pure functions, I/O, rendering |

How they meet: the requests that generate something call the credit service;
payments, refreshes and cancellations write the very row its transactions count
on; the reminders read the period and share `reminder_count` with purchases; the
sign-up hook (`lib/auth.ts`) creates the one subscription row of an account.
Chat, acceptance criteria, the question marker, navigation and deletion meet in
one `projects` row; the board, the command-line client, the reset, the save of a
new tree and the deletion meet in the task rows; the analysis reads what the
upload has stored and both write the sync session. The pages call the generation
routes and see of them answers and streams; two instances of a page, one left and
one open, meet in the guard. The two chat panels of a PRD meet in a store and in the prompt
that the questions leave for them. The board page reads what the transactions on tasks leave.

What makes each correct: the credit service is a wallet with exact books; an
order is granted once if and only if it is paid; paid time adds up; a project
is generated by one request at a time and given back by it; a tree that is
saved is paid for; the first PRD is paid for once and stored, a deleted project
gets nothing back, and the step never goes back past the PRD; an upload that is
acknowledged stays stored and one that is complete is whole; an analysis that is
charged has a result, and one runs at a time; every transaction on the board is
one atomic change; a reminder is sent once per value of its counter and all of
them are sent; a browser tab runs one stream per project, gives every guard back and
leaves its user a document or a button; a prompt is sent by one panel, and an input is
blocked only by a call; a board that stays open catches up with the
database.

## 2. Modules

| Module | Models | Composes |
|---|---|---|
| `CreditWallet` | what the credit service promises: hold, capture, give back | |
| `CreditService` | `credit-service.ts`; refines `CreditWallet` | |
| `CreditServiceProofs` | theorems about `CreditService` | `CreditService` |
| `Subscriptions` | subscriptions and payments around the credit service | `CreditService` |
| `Generation` | the task generation route around the credit service | `CreditService` |
| `BillingCron` | the billing reminders of one subscription | |
| `AccountProofs` | theorems about `Generation`, `Subscriptions` and `BillingCron` | these, `CreditServiceProofs` |
| `CodebaseSync` | sessions, manifest batches, chunks and completion; the client that uploads | |
| `CodebaseSyncProofs` | theorems about `CodebaseSync` | `CodebaseSync` |
| `CodebaseAnalysis` | the analysis of an uploaded codebase around the credit service | `CreditService` |
| `CodebaseAnalysisProofs` | theorems about `CodebaseAnalysis` | `CodebaseAnalysis`, `CreditServiceProofs` |
| `AtomicBoard` | what the transactions on tasks promise: atomic changes of the board | |
| `TaskBoard` | the same, lock by lock; refines `AtomicBoard` | `AtomicBoard` |
| `ProjectFlow` | chat, acceptance criteria, question marker, step and deletion of one project | `CreditService`, `Generation` as the instance `Ac` |
| `ProjectFlowProofs` | theorems about `ProjectFlow` | `ProjectFlow`, `CreditServiceProofs` |
| `GeneratePage` | the two pages that generate, in one tab, and the server as they see it | |
| `GeneratePageProofs` | theorems about `GeneratePage` | `GeneratePage` |
| `KanbanLive` | the board that a page keeps up to date: stream, failover, polling, refresh | |
| `BoardProofs` | theorems about `TaskBoard`, the refinement among them, and `KanbanLive` | these |
| `ChatPanel` | the page of a PRD with its two chat panels, in one tab, and the chat route as they see it | |
| `ChatPanelProofs` | theorems about `ChatPanel` | `ChatPanel` |
| `MC*` | instances for TLC | |

Operators whose comment begins with "Faulty" are plausible bugs of the
definition that follows. No specification uses them; put in its place, each is
caught by the property it is listed with in `PROJECT.json`.

### CreditService

`op` is `credit_operations`: state, `reserved_credits`, the final charge,
`expires_at`. An element of `Ops` is an idempotency key of a user; the unique
index makes that one row, and a repeated call finds it and writes nothing.
`wallet` holds the three counters of the subscription, `ledger` the sum of the
entries of each type per operation, `periodEnd` and `now` what the validity
predicate `(current_period_end IS NULL OR >= now())` reads.

An action is a committed transaction. That is justified because each locks its
operation row and then the subscription row (or updates the latter under its
whole predicate, as the reservation does), in that order. A transaction that
throws changes nothing; where a caller sees the error, the caller's action says
what it does with it. The code's `quoted` state exists only inside the
reservation's transaction and is not visible. `CanUnreserve` is the CHECK
`credits_reserved >= 0`: the statement that would break it aborts.

`reconcileExpiredCreditOperations` is not one transaction: it claims all
expired operations of a user (state `settling`), then releases or quarantines
them one by one. `sweep` is the local state of each call, and a call may stop
between any two of its transactions (`SweepCrash`), or throw out of a failed
quarantine (`SweepThrows`).

The charge of a settlement is any number within the quote: the price formula
caps it there. `charge` keeps the final charge after a refund as the row does.

### Subscriptions

Adds plan, period start, payments, the request that checks an order out, the
order at Midtrans (external: open, paid, closed, reversed), and the callers of
`getCreditBalance`. A plan grant is one action: it holds both row locks from
the first read. A top-up grant is two (`TopUpRead`, `TopUpWrite`), because its
read of the subscription takes no lock; the payment row is locked meanwhile, so
whatever else writes that row waits. The monthly refresh is two as well: the row
is read, and written under a predicate on the period alone. Checkout is four:
the gates with the clean-up, the insert (for a top-up with the second quota
check under the lock), and the two outcomes of the call to Midtrans. A
notification may come at any time while Midtrans has the order in the state it
reports, and again; the customer's status sync is one more notification.
`status` of the subscription is constant and `cancelled_at` follows the plan,
so neither is a variable. `grants`, `term` and `rollovers` count entries of the
ledger for the properties.

### Generation

A request reserves (or joins the live operation of its key, keeping the state
it saw), claims the project or waits and gives up, marks the operation running,
generates, saves, settles. The actions that move credit are the credit
service's own. `Fail` is every way to end badly, with what all of them do:
release what was seen reserved, check the ownership of the claim, reset it. The
check and the reset are two actions since they are two statements. `Faults`
enables what an instance is about: a client that goes away during the coverage
repair, a crash, an error of the database. The handler catches every error of the
statement that claims the project, marks the operation running, settles, releases or
checks the ownership, and goes on without it, whether the statement was refused by
what it found or failed by itself: `thrown` records the latter, at most `MaxErrors`
times in a behaviour, and the properties say which of them they except. An error is
a transaction rolled back; the reset is the last statement, so that its failure is
not recorded. The model, the grounding and the validation of the output are one step
that succeeds or fails.
`taskStatus` is one project; requests of other projects only share the credit.

### BillingCron

One subscription row, since rows are independent. `mails` records what each
claim was selected for. Time is in days because the schedule is.

### CodebaseSync

The sessions of one codebase, the snapshot each is bound to by its handshake, a row of
`codebase_sync_idempotency_keys` per step of the plan, the requests that work on the
server and the runs of the client. A request keeps what its guard read (`Guard`,
`ReadSnapshot`) and goes on with it after it has claimed its key, as the handlers do:
`WriteManifest` merges into the manifest it read, `AdvanceSession` and `Commit` write
the status they decided on. The client (`Send`, `Heard`, `GiveUp`) sends one step at a
time, tries again after an error or a time-out and leaves the request it gave up on
running; `StartRun` is a user who starts the command again with the same session. `Age`
makes a pending key old enough to be stolen: of a request that is still running only if
`MayStall`, since the limit (`CODEBASE_SYNC_CLAIM_STALE_MS`) is longer than any handler
should take. A handshake is two steps: it reads the row of the session under an advisory
lock, which keeps other handshakes of this session out and nobody else
(`HandshakeRead`), and writes back the status it read (`HandshakeWrite`). A chunk is a
slot, a file the path of its chunks; hashes and sizes are equal or they are not
(`Replay`, `Verify`). The older routes under `v1/projects` are the same handlers on a
project's own session.

### CodebaseAnalysis

A trigger decides on the rows it reads (`Decide`), reserves or joins the operation of
its attempt, claims the row and the session, generates, stores the result, settles. The
claim of the row is one transaction, the claim of the session another; the failure path
(`FailRow`, `RollbackRead`, `RollbackWrite`) is three statements, and the session may
expire or be revoked between any of them. Each statement of it, the settlement and the
release may fail (`thrown`, as in `Generation`), and the period may end during the
analysis, after which settlement and release are refused and the handler swallows both
errors. `legacy` projects own their upload; those of a codebase share it.

### AtomicBoard and TaskBoard

`AtomicBoard` says what each transaction on the tasks of a project promises: the board
moves, a client reports a task or a subtask, everything is reset, a new tree replaces
the old, a deletion purges it, each at once. `TaskBoard` has the same transactions
statement by statement: they lock the project row, lock the rows they read (in any
order, which covers that of the query) or the one they name, and write when they commit.
A transaction has one of the `Pool` connections from its beginning (`Begin`) to its end,
and a report asks for the ownership of the project on a second one while it holds the
row of its task (`VerifyOwnership`). What a transaction has locked it has read, so
`req[r].read` is both. A row that is deleted while somebody waits for it is skipped, as
PostgreSQL does under READ COMMITTED. `Cycles` are the cycles of waits, `Abort` the
detector that breaks one of them, `Crash` a lost connection, which rolls back.

### ProjectFlow

One project, whose documents are abstract: a version of the PRD is the set of
chats whose text is in it, the acceptance criteria are there or not. The chat
has its three modes. `generate` opens the project (which the request makes if it
names none), reserves or joins, runs, stores version 1, settles; `resume` stores
the text a client has kept under no reservation, so a PRD may be stored
uncharged, as in the code; `revise` is free, checks the lock when it comes in,
reads the document again when the model is done, stores the answer, then the
version. Acceptance criteria are generated by the protocol of `Generation`:
their requests are the instance `Ac` of that module over `ac_status`, with the
save, the failure that leaves the client all of the text, the end after an
unsettled operation, and `/api/ac/save`, by which that client stores it under no
claim. The question marker reads and updates in two steps. `Delete` leaves a
tombstone. An error of the statement that marks the operation running ends the request
with the hold in place, and one of the release is swallowed: `thrown`, as in `Generation`.

The keys of a PRD and of acceptance criteria name the project, the kind of
document and the attempt (`chat.ts:369-371`, `ac/generate.ts:209-210`), so no
operation is shared by the two; the assumption of the module says so, and that
the keys `freshRetryKey` makes up are none of them.

### GeneratePage

One tab of a browser. A task of its event loop (an event, a timer, an answer that has
arrived, with all the effects it sets off) is one step; the continuation of an aborted
call is a microtask and runs before the next task, which is what `Quiet` says. `page`
has the state and the refs of each instance of the page; an instance that is left
loses its state, but its calls go on, as they do in the code. `guard` is the map the
modules keep outside of the components (`inFlightAcProjects`, `inFlightTaskProjects`).
`scene` is what the tab is used for, fixed at the start: which of the two pages it
shows, how many instances, calls and projects there are, which projects were opened from
the history and which one can be paid for. Where the two pages differ, so do the
operators. `SwitchAc` and `SwitchTask` run the effects in the order in which the
components declare them, since the order is what the two differ in; `Render` is the
effect that runs again when `isGenerating` changes.

`req`, `owner` and `stored` are the generation route seen from the browser: it refuses, or
claims the project, generates, stores and ends well or badly (`Generation` and
`ProjectFlow` have it in detail). The router's cache is external: a page is shown with
what was loaded before and loaded again behind it (`LoaderData`, `Cached`, `Loaded`). Of
a document the model keeps whether it is whole, cut off or another project's. `by` and
`muted` are history variables. A payment stores an intent and leads to another site and
back, or fails; within its fifteen minutes the page that is come back to starts the
generation.

### KanbanLive

One page of the board, whose project may change and which may be left. A board is a
version of its project: the content is `TaskBoard`'s, and what matters here is which of
two boards is older. `page` has the state and refs of the hook, `conn` the streams. A
stream that its page closes is gone at once, since nobody sees what the server does until
it notices. A tick (`Tick`) checks the project, reads the board and sends it; `TickFails`
counts consecutive errors and in the end sends the message that it gives up, which the
page takes for a board (`Junk`). `cache` and `poll` are the query client (external): one fetch
at a time per project, retried while a page looks at it, repeated while the stream has
failed. `Refetch` is the function the hook returns, with the project and the mode of the
render that made it; the reset of the progress calls it when its answer comes, perhaps on
a page that shows another project or has been left (`left`). What a query has fetched is
kept for longer than a page is away.

### ChatPanel

One tab of a browser. A step is a task of its loop with the effects it sets off: `tab` is
what the scripts hold, the operators from `Start` to `Unloaded` are the parts of a step,
each of which takes what the tab holds and returns what it holds then, and `Become`
appends the effect that submits a waiting prompt. The page mounts the desktop's panel always
and the drawer's while the chat is open; CSS shows one of them, so both take part in
everything but what the user does (`Used`). Both read the store; `sub`, `ctrl` and `tried`
are refs of their own. A panel that is unmounted loses its state, its calls go on and may
still write the store. A switch from one project to another by the history keeps the
instances: their effects abort the calls they know, whose continuations run last. A
payment leads to another site, where the scripts end; whoever comes back with a paid order
in the address is taken up by every panel that is mounted (`Synced`).

A prompt is named by the project it was asked for, which it does not carry. `req` and `doc`
are the chat route seen from the tab: it refuses, or saves a version for the project of the
conversation (`Target`) and ends well or badly (`ProjectFlow` has it in detail); it may not
notice that a call was given up. Text is whether some has come (`part`) and whose is shown
(`shown`); drafts, sections, versions, a locked PRD and the type-in effect are left out. The
cached data of the router are as in `GeneratePage`. The effect that submits runs after every
step, which is at least as often as React runs it.

## 3. Runs

Bounds are in the cfg files. Ids are model values.

| Run | Instance | Shows |
|---|---|---|
| `credit` | two accounts; three operations, two of which compete for credit that pays for either one and not for both, the third beside them; two reconcilers that may stop; clock to 1; operations that expire or not, periods that end or not | the counters and the ledger follow the operations, and the refinement of the wallet, which gives that accounts are not overdrawn and that what has ended stays ended |
| `orders` | one account, two plan orders and a top-up, two readers, clock to 2, periods of one unit | granted once, final, paid time adds up, refreshes do not stack |
| `in_flight` | two operations, a plan order and a top-up, a reader, clock to 1 | counters that are reset under operations in flight are never overdrawn by what settles or is released late, only by a cancellation; a settled order is answered |
| `generation` | a request sent twice with one key, which may get a fresh one, beside another, aborted and crashed at will, one error of any statement, a period that ends | mutual exclusion of generations as long as saved trees are paid for, that an operation whose requests have all ended is over and charged for what was saved, and that a hold ends, each with the failures named that the code answers by leaving things as they are |
| `billing_cron` | two overlapping runs, a renewal, a schedule of three stages on consecutive days, 8 days | one mail per count, the cycle completes |
| `codebase_sync` | one session, two manifest batches, three chunks of two files, a completion; two requests at a time, two attempts per step, two faults (time-outs, errors or crashes), and a user who starts again | what was acknowledged stays stored, an uploaded snapshot is whole, two requests never work on one snapshot, the upload arrives while the session is good, unless a late handshake has set back a session whose batches are all done |
| `codebase_analysis` | three triggers of one project, of a codebase or legacy; crashes, expiry, revocation, one error of any statement, a period that ends | one pending analysis, every charge has its result, no hold or claim outlives its trigger while the period lasts, unless the statement that ends it failed |
| `task_board` | one request of each kind on a board of two tasks of one subtask, all on one task, all on the new tree, or the client on a task of its own; three connections | the refinement, deadlocks need the save, a deleted project's tasks stay, every request is answered unless the reports have the connections (`PoolExhausted`) |
| `project_flow` | two chats, each of which generates the PRD with the same key or revises it, and one of which may resume it; a request for acceptance criteria and its recovery, the marker, navigation, deletion; crashes, two errors, a period that ends | paid once and stored, no hold left behind but by an error of the statement that starts or releases it, nothing comes back after a deletion, a step past the PRD never goes back |
| `pages` | a tab in six uses (`MCScene`): a criteria page that is opened twice and paid for, opened from the history, or given another project, chosen in the history or not; task pages over two projects, one paid for, opened twice or from the history; two instances and two calls at most | one stream per project, a document or a button for the user of the criteria page, a generation that is shown ends, a guard that is held is given back |
| `kanban_live` | two projects whose boards change once, shown two times, with two failures and one refresh or reset; one reconnection, one error to give up, one retry | the stream alone never takes the board back or shows another project's, a board that stays open catches up |
| `chat_panel` | a desktop's panel and a drawer's on the pages of two projects, the questions of one of which are answered; two calls; everything the user may do | a prompt is in one place, and an input is blocked by nothing but a call |

The bounds let what matters happen. Three operations are two that compete, one of which
is refused, and one whose account must not notice. A clock of 2 with a period of 1 lets
a period end, be refreshed and end again, and a checkout go stale while an earlier order
is open; `in_flight` needs one end of a period only. Three requests are a runner, one
that joins it and one with a newer operation; with the period's end they reach the
exception of `OneGenerator` (section 6). One error is one statement that fails; the run
of the generation passes with two as well, in twice the time. Three connections for six
requests are few enough for two reports to hold them all with one other, and the pool's
ten are the same with more reports. The run of the reminders shortens the schedule (1,
2, 3 for 1, 7, 14): the code compares days with entries and counts entries, so the
distances matter only in that time passes between them; `MCReminderTwice.cfg` uses the
real one. `kanban_live` shortens the counts of attempts (1 for 3), errors (1 for 5) and
retries (1 for 3), so that two failures reach polling on every path. Two faults are a
request that outlives its client and one more failure while its successor runs; two
batches and three chunks let a batch be overtaken and a file be half there. Three
triggers are one that runs, one that joins it or takes over its failure and one that
finds the result. Two chats with one key that may also revise are a runner and a second
that joins it or finds it over, or a late writer; their credit pays for two operations
of three, so that one is refused. Two calls of a tab are one that goes on and one that
joins, repeats or follows it, and two instances are the page that was left and the one
that is open. Two calls of the chat panels are one of each panel, or one that is taken
up after the other was refused. With a second instance of the desktop's panel, so that
one left with its call is followed by another, TLC finds no error either, but takes four
minutes. Two of a kind suffice for races of two; three-way races are covered for orders,
requests and triggers.

The type invariants are defined beside the models and listed by no run: they are proved
(section 5), or serve the proofs as hypotheses. So are some invariants that are proved
and follow from, or are neighbours of, what a run checks: `NoOverdraft`,
`UsedIsCharged`, `FinishedStaysFinished`, `GrantedOnlyIfPaid`, `LegacyResultIsFinal`,
`AcFollowsPrd`, `HoldsCanReturn` and `GuardHasCall` (the safety half of `GuardFreed`).
`MCSharedKey.cfg` is the instance of `generation` without crashes, on which
`OneRunnerPerOperation`, which is proved, and `HoldIsReturned` hold. `MCKanbanLive.cfg`
with `LoadingEnds` (the skeleton of a board goes away) and `MCChatPanel.cfg` with
`Project = {p1}` and `InputIsFreed` (a panel that is blocked is freed) hold as well.

Deadlock is not checked: operations, orders and requests end and the clock is
bounded, so every instance may stop. Deadlocks of the database are modelled and
are the subject of `DeadlockNeedsSave`.

## 4. Fairness

- Orders (`in_flight`): Midtrans repeats a notification until it is answered with success
  (weak), and the server does not stop in every grant (strong for
  `TopUpWrite`, which `TopUpLost` disables).
- Requests (`generation`): a running request goes on (weak fairness of `Step`): model calls
  and database statements answer or time out (`AI_TOTAL_TIMEOUT_MS`), and a
  time-out is a failure. Crashes, aborts and errors are never fair. Nothing calls
  `reconcileExpiredCreditOperations` in the application, so no property has it called;
  `MCHoldLeaked.cfg` shows what that means.
- Cron (`billing_cron`): days pass and a run goes on.
- Upload (`codebase_sync`): a request goes on, the client sends its next step,
  a pending key whose request is gone becomes old, and a user whose upload broke off
  starts it again as long as the session can be used. Faults are bounded, never
  fair. `UploadRecovers` promises nothing once the session has expired, or when a late
  handshake has set it back.
- Analysis (`codebase_analysis`): a trigger that has started goes on
  (`FairAnaSpec`), for the reason given for requests.
- Pages (`pages`): the server goes on with a request, the browser delivers
  what arrives, a microtask runs (weak, per call). What a user does is never fair.
- Board page (`kanban_live`): the server accepts and ticks, the browser delivers messages
  and reports ends, the timer of a reconnection runs out, a query is repeated and its
  fetches end (weak). Failures are bounded, and what a user does is never fair.
- Chat panels (only `InputIsFreed`, which no run lists): a call ends, since the server
  answers or the connection breaks (weak, per call).
- Board (`task_board`): some transaction goes on whenever one can. PostgreSQL grants
  a free lock and aborts one of a cycle; a transaction has a bounded number of steps. The
  pool gives a free connection to somebody who waits for one, but nobody who waits times
  out (`db/index.ts:12`), so when all the connections are held by reports that wait for
  a second one, nothing goes on: `RequestsEnd` says that this is the only way to wait
  for good, and `EveryRequestEnds` (section 6) that it happens.

## 5. Proofs

`CreditServiceProofs`, for every set of accounts, finite set of operations,
quotes, expiries and reconcilers, from `CreditAssumption`:

- `TypeCorrect`: `TypeOK` is inductive. The CHECK is a guard of the steps that
  lower `reserved`, so that it stays a natural number is part of the model here; that the
  guard never stops a live hold is `ReturnTheorem`.
- `HoldTheorem`: with `TypeOK`, "a live operation holds its maximum, any other
  nothing" is inductive. Every other result rests on it: a settlement or return
  moves `reserved`, the books speak of the maximum.
- `LedgerTheorem`, `FinishedTheorem`: by cases on the transactions.
- `ReservedTheorem`, `UsedTheorem`: the counter equals the sum over the
  account's operations. The sum is the cardinality of a set of units
  (`Units`: the pairs of an operation and a number up to its amount), so that
  it can be reasoned about without recursion; `UnitsUpdate` says how the
  cardinality follows the amount of one operation.
- `ReturnTheorem`: follows from `ReservedTheorem`; the CHECK never blocks the
  return of a live hold while only the service writes the counters.
- `OverdraftTheorem`: inductive by itself on `TypeOK` and `HoldIsMaximum`.
- `WalletTheorem`: initial states map to initial states and every step to a
  wallet step or a stutter; a refund needs `HoldIsMaximum`, since it must give
  back the charge and nothing besides.

`AccountProofs`, of `Generation`, for every set of requests and keys, from
`GenerationAssumption` too:

- `UsesCredit`: a step of the route is a step of the credit service or leaves
  it alone, so `GenSpec => Spec`; `GenReturnTheorem` and `GenLedgerTheorem`
  carry results over. What the former says is that the CHECK never refuses the return of a
  live hold; a release may still be refused, when its period is over.
- `RunnerTheorem`: one runner per operation, from `RunInv`: the operation of a request
  that has run it is past `reserved`, so that no other can mark it running, and nobody
  else settles it. `Effect` says what a step does to states and claim, the money left out;
  this and the next two results are shown from it.
- `OneGeneratorTheorem`, from `ClaimInv`: one request at most has the claim, until
  one has ended with a saved tree that is not paid for. The proof is what found the
  condition. A request that saves gives up the claim with that; when its settlement then
  fails, because a request with its key returned the operation (`MCStaleRelease.cfg`),
  the period has ended or the database threw, it goes through the error path, where its
  check for a newer operation is outdated before its reset, and the reset frees a project that
  somebody else has claimed (`NeverTwoAtOnce`, section 6).
- `SquareTheorem` excepts a period that has ended, after which settlement and release are
  refused, and the errors that the handler swallows: of the claim, the start or the release, which leave
  the hold, and of the settlement, which leaves the tree unpaid. `PartyInv` says who answers for an operation, by its state: a request that
  saw it reserved and has not started, the one that runs it, one that has saved, or one
  that has not and is past generating.

`AccountProofs`, of `Subscriptions`, for every set of orders, readers and periods:

- `SubTypeTheorem`, then `OrderInv`, which ties each row of `payments` to what
  Midtrans holds and to the local state of the request that checks it out: a
  row is a success only of an order that is paid, and only with one grant. Without it a
  notification in flight could not be told from a false one. `GrantedOnceTheorem`, `PaidTheorem` and
  `FinalTheorem` follow.
- `PaidTimeTheorem`, from `TermInv`: the orders of the running term are successes,
  and its end is at least a period for each of them after the start of time.
- `RolloverTheorem`, from `RollInv`: what the refreshes have given never runs
  ahead of the clock and the period, since a reader's write asks for the period
  to be over at a time that is not later than now.
- `OverdrawnTheorem`: only a reservation lowers the credits that are available, after a
  test, and a settlement charges no more than the hold it returns, which the CHECK sees to
  (`CoveredStep`); a grant or refresh starts the account afresh (`ResetStep`). What is
  left is the cancellation, which keeps the holds and cuts the allowance.

`AccountProofs`, of `BillingCron`: `OneMailTheorem` from `CountedInv`: the counter is past the
count of every mail that was sent in the period, and a claim needs it to be equal.

`CodebaseSyncProofs`, for every plan of an upload and any number of sessions, runs,
requests, attempts and faults, assuming `NoStall`: no live request outlasts the stale
limit of its key (`MCSyncStall.cfg` shows that this is needed):

- `InterleaveTheorem`, from `UploadInv`: keys become final in the order of the plan,
  a request is sent only when the keys of all earlier steps are final, and one that
  works has its own key pending. Two at work on different steps would need a key that
  is both pending and final.
- `StoredTheorem`: a final key has its step stored. A write puts back a copy of the
  manifest read before the claim, but the copy holds what all the steps before stored
  (`Copied`), and no later one can have stored anything yet (`StaysStored`).
- `WholeTheorem`, from `WholeInv`: once a snapshot is uploaded all keys but the last are
  final, so that no request writes it again.

`CodebaseAnalysisProofs`: `OnePendingTheorem`, `LegacyTheorem` and `OwnerTheorem` from
`TriggerInv` (what a trigger's place in the handler says of its row and session)
with the exclusiveness of the two claims; `ChargeTheorem`: only a trigger whose row
is ready settles. `AnalysisUsesCredit` as for generations.
- `EndedTheorem`, from `HoldsInv`: an operation that is live has a trigger that is still to
  run or runs it, that crashed, or whose release met an error, while the period lasts:
  nothing else refuses then the return of a trigger that fails (`ReturnTheorem`).

`BoardProofs`, of `TaskBoard`, for every set of tasks, trees and requests:

- `LockTheorem`: the inductive invariant `LockInv`. A locked row is as it was
  read, two transactions never hold the same, and a project is not deleted under
  a request that holds it. Row locks are what the refinement rests on.
- `ImplementsTheorem`: every step of `TaskBoard` is a step of `AtomicBoard` or a
  stutter, since what a commit writes was computed from rows nobody else could change.
- `DeadlockTheorem`: a request that waits in a cycle holds something. Without
  the save everyone that holds a task and waits also holds the project or names
  only that task, so nobody in the cycle could wait for anybody else in it.
- `TombstoneTheorem`.

`ProjectFlowProofs`, for every set of chats, modes, requests and keys:

- `FlowTypeTheorem` and `FlowUsesCredit`: from `BaseInv` (types, and that
  whoever spends or returns credit has an operation). `SameTransactions`
  identifies the transactions of the instance `Ac` with those of `CreditService`.
- `TombstoneTheorem`, `AcTheorem`, `StepTheorem`: from `DocsInv`, which adds that
  nothing has begun before the project is there and that work on acceptance criteria
  begins with a PRD.
- `DocumentPaidTheorem`: from `KeyInv` (chats and acceptance criteria share no
  operation, and an operation somebody has is in the table) and `PaidInv`: among all
  chats one at most has stored the first version and not yet settled, and then
  nothing is settled. `ChatPaths` and `AcPaths` list what a step may do to an operation.
- `HoldHasRequestTheorem`: from `HolderInv` (a chat that runs an operation is
  the one that reserved it, so the one that gives it back) and `WorkInv`, with
  `HoldsCanReturn` from the theorems about the credit service: the return is not
  refused while the period lasts. After it, `releaseCreditOperation` is
  refused and the chat swallows the error; and an error of the release, or of the statement
  that marks the operation running, leaves the hold at any time. The property names all three.

`BoardProofs`, of `KanbanLive`, for every set of projects, connections and fetches:

- `LiveTypeTheorem` and `StreamTheorem`, from `LiveInv`. The streams make no order of
  their own; it comes from there being one at a time. `OneAttached`: one stream at most
  is attached to the page, and it is of the project shown. `StreamAlone`: until
  something is refreshed by hand, that stream has one message under way at most, which is
  a board of the project shown, between the version shown and the database's. What the
  polling brings is kept apart (`cache`) and is shown only when the stream has failed.

`GeneratePageProofs`, for every set of pages, calls and projects and every scene:

- `PageTypeTheorem`, `OneStreamTheorem`, `GuardTheorem` and `DeadEndTheorem`, from `IInv`. An event sets
  off several effects, each of which starts from what the one before left, so the
  browser's part of the invariant is a predicate of pages, calls and guards
  (`Consistent`) and there is a lemma for each effect: that of an abort, of
  `Render`, of a switch, of an end. `GuardInv`: the guard of a project holds the call that
  is going on, so two cannot; and what it holds is a call of this project that goes on or
  whose abort has still to be noticed, so no end of a call leaves it behind. `GenInv`: a criteria page that shows a generation
  has a call that will end it, namely its controller's or, when it has none, an aborted
  one whose continuation has not run. It is what a page without a button needs, and it
  fails for task pages (section 6). `Served` relates the server's claims to the calls.

`ChatPanelProofs`, for every set of panels, calls and projects:

- `PanelTypeTheorem`, `BlockedTheorem` and `PromptTheorem`, from `IInv`, which is stated of
  what a tab holds (`Good`) and kept by every part of a step: a start, an end,
  an abort, an offer, and parts that only take something away (`Quieter`, `Less`). `PanelsOK`
  and `Streams`: a panel that submits, and the store's flag, mean a call that goes on, and
  a controller is that of one of its panel's calls. `Unique`: a prompt is pending,
  offered by one panel or carried by one call. That a new prompt is nowhere yet
  rests on `asked`: every prompt that is somewhere has been asked for, and is asked for once.

Every invariant and action property of every run is proved. Only model-checked is
liveness (`SettledOrderIsResolved`, `HoldEnds`,
`CycleCompletes`, `UploadRecovers`, `ClaimEnds`, `RequestsEnd`, `Settles`, `GuardFreed`,
`CatchesUp`), which is out of the prover's reach.

## 6. Where code and documentation disagree

No run shows them; each is an instance to be tried by hand: a cfg file beside those of the
runs (`tlc -config MCTopUpRace.cfg MCSubscriptions`, and so on), or one of them with the
named property in place of its own. The properties are stated in the modules they
instantiate. Each instance violates its property:

| Instance, of | Property | What happens | What is said |
|---|---|---|---|
| `MCHoldsLost.cfg`, `MCSubscriptions` | `HoldsCanReturn` | a purchase or refresh zeroes `credits_reserved` under an operation, which can then never be settled or released | adaptive-credit design, line 113: the reservation is released when the operation fails |
| `MCPaidOrderLost.cfg`, `MCSubscriptions` | `PaidPlanOrderIsGranted` | an order a later checkout marked failed is paid and not granted | `payment-service.ts:278`, 300-301: `failed` is for terminally failed orders |
| `MCOvershoot.cfg`, `MCSubscriptions` | `OvershootIsOnePackage` | top-ups that were given up do not count towards the quota and are granted when paid | `payment-service.ts:399-400`: "worst-case race overshoot is one SKU" |
| `MCTopUpRace.cfg`, `MCSubscriptions` | `FreeAccountsHoldTheirAllowance` | a top-up is granted to an account cancelled between its check and its write | `payment-service.ts:392-394`: "Strict eligibility AT GRANT TIME" |
| `MCFreeBalance.cfg`, `MCSubscriptions` | `FreeBalanceIsMonthly` | cancelling a free account refreshes its allowance | `actions/payment.ts:106`: "a no-op reset" |
| `MCStaleRelease.cfg`, `MCGeneration` | `RunningIsNotCancelled` | a request releases an operation that started after it joined | `task/generate.ts:349-350`: "Never release a running operation" |
| `MCAbortLock.cfg`, `MCGeneration` | `ProjectIsFree` | a client that goes away during the coverage repair leaves the project claimed for good (with `Requests = {r1, r2}`, `Ops = {o1, o2}`, `Faults = {}`: so does a failure while a newer request waits) | `constants.ts:64-66`: an aborted request releases the status |
| `MCUnlockRace.cfg`, `MCGeneration` | `NewerClaimIsKept` | the reset of a failed request clears a newer claim | `task/generate.ts:295`: "must never clear a newer generation's lock" |
| `MCGeneration.cfg` with it, `MCGeneration` | `NeverTwoAtOnce` | a request whose tree is saved and whose operation was returned by another with its key (or the period ended) resets the claim of a newer one, and another generates beside that | the same |
| `MCHoldLeaked.cfg`, `MCGeneration` | `HoldIsReturned` | nothing returns the hold of a request whose server stopped | adaptive-credit design, line 93: it "cannot permanently lock a user's balance" |
| `MCReminderTwice.cfg`, `MCBillingCron` | `StageOnce` | the first reminder is sent twice when the notice was missed | monthly-pricing design, line 204: no mail twice |
| `MCBillingCron.cfg` with it and `CronSpec`, `MCBillingCron` | `ReminderMeansPaused` | an account renewed between selection and claim is told that it is paused | monthly-pricing design, line 206 |
| `MCSyncStall.cfg`, `MCCodebaseSync` | `AcknowledgedIsStored` | a request that outlasts the stale limit writes over the batches of the one that stole its key, and releases that one's claim | `constants.ts:92-97`, `codebase-sync-upload.server.ts:281-283` |
| `MCCodebaseSync.cfg` with it, `MCCodebaseSync` | `TerminalIsFinal` | a completion in flight sets an expired session to `uploaded` | `codebase-sync.ts:107-109`: terminal states have "zero outgoing transitions" |
| `MCCodebaseSessions.cfg`, `MCCodebaseSync` | `OneActiveSession` | a handshake writes back the status it read (`sync.ts:177-208`): a session that was finished meanwhile is active again, beside the one minted since | `codebase-sync.ts:390`: "One usable credential per project" |
| `MCCodebaseSync.cfg` with it, `MCCodebaseSync` | `UploadAlwaysRecovers` | a late handshake sets a session from `uploading` back to `connected` when all batches and chunks are done; none will set it again, and the completion wants `uploading` | `sync.ts:174-176`: handshakes cannot "double-advance session state" |
| `MCCodebaseAnalysis.cfg` with it, `MCCodebaseAnalysis` | `OneResult` | a trigger that decided before the result was stored mints another attempt | `analysis.ts:292-294`, `codebase-analysis.ts:301-303`: a ready record is reused |
| `MCCodebaseAnalysis.cfg` with it, `MCCodebaseAnalysis` | `UploadStaysAnalysable` | a session that is read after its half hour becomes `expired`, its uploaded source with it | `db/schema.ts:653-654`: retained for the project's lifetime |
| `MCTaskBoard.cfg` with it, `MCTaskBoard` | `TombstoneOwnsNothing` | a save under way puts a tree into a deleted project | `project-deletion.ts:7-8`: every artifact is destroyed |
| `MCTaskBoard.cfg` with it, `MCTaskBoard` | `TimestampsAgree` | a report of the client leaves `completedAt` beside another status | `update-status.ts:124-126`: never contradictory values |
| `MCTaskBoard.cfg` with it, `MCTaskBoard` | `EveryRequestEnds` | reports hold all connections of the pool, each with the row of its task, and wait for a second one to check the ownership (`tasks/status.ts:64`, `api-key-auth.ts:90`) | `db/index.ts:12`: ten connections, no time-out |
| `MCAskRewinds.cfg` with it, `MCProjectFlow` | `PrdIsFrozen` | a revision admitted before the step advanced is stored after it | `flow-progress.ts:21-25`: the PRD is finalised and locked |
| `MCAskRewinds.cfg` with it, `MCProjectFlow` | `AnswerHasVersion` | an answer is stored and its version is not | `prd-service.ts:424-426`: history and chat never drift apart |
| `MCAskRewinds.cfg` with it and `Chats = {g1, v1, v2}`, `MCProjectFlow` | `RevisionsAccumulate` | of two concurrent revisions the later one is stored without the change of the earlier | versions build on one another (`prd-service.ts`) |
| `MCAskRewinds.cfg`, `MCProjectFlow` | `StepCoversPrd` | a PRD stored between the marker's read and its `UPDATE` leaves a project that has a PRD at the question step | `ask/options.ts:297-298`: the generation "still wins" |
| `MCGeneratePage.cfg` with it, `MCGeneratePage` | `MutedStaysQuiet` | a criteria page opened from the history generates once more when the generation its user asked for is over: the effect that was suppressed runs again | `ac-detail.tsx:310`: the user must click |
| the same | `TaskNeverDeadEnd` | a task page opened from the history shows a generation that never begins, and no button | `task-detail.tsx:287-288`, 325 |
| the same | `NeverCutOff` | a stream that breaks off offers its part for saving (`ac-detail.tsx:243`), and it replaces the whole document stored meanwhile | `api/ac/save.ts:11-12`: is for a failed save |
| the same | `VisitFindsNothing` | a page shown with cached data that are out of date, or whose effect runs again, generates a document that exists | `ac-detail.tsx:300`, `task-detail.tsx:318`: on first visit, when there is none |
| the same | `PaintedIsOwn` | the task page keeps the generated tree when it is given another project | `task-detail.tsx:113-115` |
| the same | `LoadedIsPainted` | the effects of a switch hide the criteria that came with the new project | `ac-detail.tsx:81-83` |
| `MCKanbanLive.cfg` with it, `MCKanbanLive` | `ShownIsOwn` | the answer to a refresh or a reset is set on the page of the project shown when it arrives | `use-kanban-polling.ts:72`: "so a fresh project doesn't show stale SSE data" |
| the same | `NeverGoesBack` | the answer to a refresh replaces a newer message of the stream | `use-kanban-polling.ts:196-197`: one fetch is shared so that none "resolve out of order" |
| the same | `ShownIsABoard` | the message by which a stream gives up is taken for a board | `use-kanban-polling.ts:102-104`: a broken protocol fails over to polling |
| `MCChatPanel.cfg` with it, `MCChatPanel` | `OneStream` | the cancel button of the drawer clears the state of the desktop's stream without aborting it, and the next message runs beside it | `chat-panel.tsx:728`: nothing is sent while there is a stream |
| the same | `ShownIsOwn` | a panel that was closed with its call is not asked when the project changes: its text is shown on the other project's page | `chat-panel.tsx:289-291`: aborted "so callbacks cannot update global store with stale project data" |
| the same | `SpinnerHasCall` | a generation that was refused with 429 has lost its prompt; paid for and come back to, the page shows one that does not run | `prd-detail.tsx:171-173`: no "false generation state" |
| the same | `VersionIsOwn` | a prompt does not say whose it is: the page of another project that is opened first generates it there | `ask-flow.tsx:439`: "the PRD page, whose prompt is already preserved in sessionStorage" |

The board page would tell its user after ten failures in a row that it is disconnected
(`use-kanban-polling.ts:168`). The query client counts the failures of one fetch, which is
given up after the third retry, so the count ends at four; no model needs to show it.

## 7. Not modelled

Amounts in currency, signatures, authentication, prompts, streaming, parsing,
rendering, e-mail contents, administration, feedback, export: text or I/O without
a property of order. A database error that ends a transaction while the request holds
nothing is a step not taken; one that a handler catches, or dies of while it has credit on
hold, a claim or a key, is modelled (`thrown`, `Throw`). A transaction that commits and
whose answer is lost is not. Clock skew between application and
database. Two subscription rows of one account: the sign-up hook creates one and
nothing else inserts while one is there.

The rate limit is one conditional upsert per request, an atomic statement with
nothing between two steps to go wrong. The price formula is arithmetic with tests
of its own: the models take any charge within the quote, which is what it is
capped to. The routing between model providers is one step that succeeds or
fails. Conversations of the mode `chat`, renaming, sharing and listing of projects write
nothing the properties read. The command-line client is modelled as the runner of
`CodebaseSync` and as requests of `TaskBoard`; what it scans and prints is not.

## 8. What is left

1. Several codebases and projects that share an account: the models have one
   of each, and rows of different ones meet only in the credit service.
2. The question flow (`ask-flow.tsx`) and the whiteboard canvas, which keep drafts of their own.
