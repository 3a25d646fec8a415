# Formal verification of the settlement reconciliation service

TLA+ models of the reconciliation system in this repository, the TLC runs that check them on small instances, and
TLAPS proofs of what matters most for every instance. Paths below are relative to the repository.

## The system

Marketplace settlement exports (TikTok, Shopee, Lazada; twelve to fourteen *windows* a month) become invoice-grade
finance workbooks. A FastAPI **api** (`service/api.py`) takes uploads, queues jobs and edits the reconciliation
contract; one or more **workers** (`service/worker.py`) claim jobs, assemble a window's input, run the **pipeline**
(`src/`), store its artifacts and conclude the run; a **Next.js front end** (`web/`) polls. They share a Postgres
database (READ COMMITTED, one transaction per repository method) and an **object store** (a bucket or a directory).
Nothing else connects them: every interaction is a row one process writes and another reads later, so the grain of the
service's models is the database transaction, and what can go wrong is what can happen between two of them. The
pipeline is sequential, and what can go wrong in it is arithmetic and identity: it is modelled as operators from export
rows to workbook, composed with what changes between two runs of a window.

| Component | State | Operations | Hard behaviour |
|---|---|---|---|
| Job queue, workers (`repository.py`, `worker.py`) | `jobs`, `runs`, `run_log_lines`; each worker's position in `execute()` | enqueue, cancel, claim, start_run, append_log, heartbeat, finish_run, finish_job, reclaim_expired | crashes between any two steps, leases that lapse under a live worker, retries, idempotency keys |
| Settlement pipeline (`src/ingest.py`, `backfill.py`, `classify.py`, `calculate.py`, `lazada.py`, `masters.py`, `pipeline.py`) | data frames of one run | read, dedupe, normalise, classify, borrow, explode, price | exports that arrive in any order, orders exported by another window, one store under several spellings |
| Tie-out, finance workbook (`tieout.py`, `finance_template.py`) | the checks, the workbook's tabs | partition, check, fill, control | errors that net to zero, refunds, lines of no quantity, rounded pivots |
| Month-end master (`month_master.py`, `master_summary.py`) | the master job, what it planned and fetched; the sheets | chain, plan, collect, build | a master planning the month while windows finish, are retried, or queue it; brands several stores share |
| References, rosters (`references.py`, `rosters.py`, `pipeline.py`) | totals and a declaration per window | supply, declare, withdraw | what a run reads of them, together with what its job carries |
| Exceptions, dispositions (`exceptions.py`) | `run_exceptions`, `exception_dispositions` and their events | record, mark, clear | a decision that outlives the run it was made on, two clears at once |
| Order index (`order_index.py`, `repository_m5.py`) | one row per upload, store and order | index, fill in later, find the holders | agreeing with what a run then finds, bytes that changed since |
| Uploads, materialization (`uploads.py`, `naming.py`, `materialize.py`) | `uploads`, the objects | upload, reject, plan, materialize, borrow from earlier windows, settle | two writes per upload, rejection under a run, expiry of objects, a contract that changes between door, plan and run |
| Config proposals (`config_rows.py`, `repository_m5.py`) | `config_*` tables, `config_proposals`, `config_versions` | propose, decide, withdraw, rebase, apply, record, mark | check, row writes and mark in several transactions; overlapping applies |
| Verification canary (`verification.py`) | a verdict per config version | verify | failing after the rows have landed |
| Config pins (`config_store.py`, `repository_m5.py`) | `period_config`, `config_pin_events`, `runs.config_version_id` | resolve, attach, pin, unpin | a pin read at a run's start and used at its end, crossing unpins |
| Run log mirror (`runlog.py`, `web/app/runs/[id]/log.tsx`) | producer buffer, `run_log_lines`, the page's cursor | add, flush, poll, prune | half-failed flushes, re-sent lines, retries that restart the sequence |
| Accounts, sessions (`repository_identity.py`) | `users` and its row locks, `user_sessions` | sign in and out, change and reset a password, disable, enable, change role | the last-admin guard under READ COMMITTED, deadlocks, a reset under a sign-in |
| Sign-in throttle (`ratelimit.py`) | in-process counters | check, note, clear | window edges, eviction, a restart |
| Retention (`retention.py`) | scratch, log lines, dead sessions | sweep | sweeping under a reader |
| Front end, tools, deployment | none of their own | | |

What makes each correct, in one line: the **queue** runs a window on one worker at a time and settles every job; a
**run** invoices what was settled, once, or says what it left out or could not verify; a **re-run** gives the same
workbook, under the rules of the run it repeats; the **master** covers what it says it covers and adds up; an
**export** is the input of one window, which alone may lend it, and what a window read of its own stays on record; the
**contract** only becomes what somebody reviewed; a **decision** on an exception is explained by its history; the
**log** a browser reads is a gapless prefix of one attempt's; the deployment always keeps an **administrator**; a
guessed **password** costs what the limits say.

## Modules

| Module | Models | State and actions against the code |
|---|---|---|
| `JobQueue` | queue and workers | `state`, `attempts`, `leasedBy`, `expired` are the columns of `jobs` (`expired`: `lease_expires_at < now()`); `run`, `lines` the rows of `runs` and which attempts have log lines; `phase`, `held`, `attempt` a worker's place in `serve()`/`execute()` and the `Job` it holds. One action per repository method; `Crash` and `ExpireLease` are the environment. `TimelySpec` adds the deployment's assumption on `RECON_LEASE_SECONDS`. |
| `WindowRuns` | the queue's promise | per window: an outstanding request and the worker on it. No table, lease or sweep. |
| `Exports` | `ingest.py` | files and rows, storefront names and aliases, what is refused, numbers and dates, the dedupes, the roster check, a window's bounds |
| `Backfill` | `backfill.py` | which windows are earlier, what each lends, what stays wanted, the three modes |
| `SkuLines` | `classify.py`, `calculate.py` | the two order platforms: one settled row per order and its status, its SKU lines, VAT |
| `Tieout` | `tieout.py` | matched and unmatched orders, coverage, every check, the breaches |
| `LazadaLedger` | `lazada.py`, `masters.py` | the masters' source, buckets of fees, revenue lines net of promotions |
| `FinanceFile` | `finance_template.py` | the line tabs, the rounded pivots, the control verdicts, the stores named absent |
| `MasterSummary` | `master_summary.py` | totals by storefront, the cuts by window, brand and storefront |
| `OrderIndex` | the index of `repository_m5.py` | what an upload adds to it, what a run's log is told from it; `index`, a parameter here, is the uploads that have their rows |
| `Settlement` | `pipeline.py`, `worker._execute`, `references.py`, `rosters.py`, `exceptions.py` | `tree` the exports there are, `index` those of them in the order index, under the store the door recorded (a file of the input folder has none, an upload's may be written with it, later or never), `told` what a run's log was told from it; `declared`, `refs` the rows of a window, `outcome` its last run (what it was asked and what it made); `decision`, `history` the two disposition tables, `clearing` the clears between their select and their delete. `RunWindow` is a whole run. |
| `MonthMaster` | chain and master | per window: the live job, its latest run, the files stored; the master job, its plan, what it fetched and what it built; `store`, a directory or a bucket, whose `open` answers None, chosen once. The queue is taken at the level `JobQueue` is proved to implement. `raced` only records the windows that chained while a master was reading. |
| `UploadWindow` | upload door, uploads, runs that read them | `row`, `object`, `posting` (requests between put and insert); per window a run that plans, reads, borrows, settles, concludes: `inputs` its own files, `mode`, `lenders` and `asked` what it resolved, which earlier windows it has still to ask and the files of the one it is asking, `borrowed` what it has downloaded of theirs. |
| `UploadDoor` | what the door, the plan and a run make of the same files: `uploads.py`, `naming.py`, `materialize.py`, `GET /uploads/plan`, `order_index.py` | `uploads` by the digest of the file as it arrived, with the name, store, columns and digest the door recorded; `bucket` the bytes under each key; `index` the order index; `contract` what a window resolves to, which `AmendContract` changes at any time; `setup` the deployment, its files and requests, which never changes. Requests, rejections, bucket faults, the index command and whole runs are actions; `Ready` is the plan's answer, `RunStops` the run's. |
| `ConfigProposals` | proposals, applies, the canary | `table` the committed rows, `proposal` with base and content, `versions` and `verdict`; `phase` how far each apply has got (check, look up and write row after row, render, commit, record, mark, verify), `own` its uncommitted rows, which lock the rows for others. `landed`, `disturbed` only record which proposals reached the rows and under which applies another one committed. |
| `ConfigPins` | the pin of one window | `pin`, `events`, two-statement unpins in flight, a run from look-up to verdict. |
| `AdminGuard` | the last-admin guard | `users` the rows of the table, `locks` who holds each row's lock; a guarded request from its snapshot (`todo`) through the rows it waits for (`awaits`) and keeps (`kept`) to its update. `AgreedSpec` leaves out an enable or a promotion of an account that a guarded request is about. |
| `SignIn` | sign-in, passwords, sessions, throttle | `hits`, `order`, `blocked` the `Throttle`; `account`, `sessions` the rows; `request` each request's place between its awaits and transactions; `log` only records what happened, for the properties. |
| `RunLogMirror` | one run's log and a page that polls it | `nextSeq`, `buffer` of the producer, `rows` of `run_log_lines` (which attempt wrote each); `stage`, `failed` the worker's place in `execute()`; `cursor`, `view` of the page, whose poll is two statements (`saw` is what the first one read). |
| `*Proofs` | | the theorems of the module they are named after; `UploadProofs` those of `UploadWindow` and `UploadDoor`, `AccountProofs` those of `SignIn` and `AdminGuard`, which is why the names of each pair are disjoint |

Each `MC*` module gives its component's constants values for TLC; each `.cfg` is one run. Definitions marked "Variant"
are plausible mistakes in the definition after them, kept to show that a property notices the difference. A component's
"What they rest on" section has the invariants its proof strengthens the properties with.

How they compose. `Settlement` extends the chain `Exports` - `SkuLines` - `Tieout` - `LazadaLedger` - `FinanceFile` -
`MasterSummary`, with `Backfill` and `OrderIndex`, so that one action is a run from its files to its verdict,
exceptions and workbook and the month's master is a cut of the workbooks. `UploadDoor` extends `Backfill` and
`Exports` for the stores, the roster and which windows are earlier, so that the plan is held against the control the
pipeline has; `UploadWindow` has the steps inside its uploads and runs, which it takes as one. `JobQueue` refines
`WindowRuns`, which is the level at which the other modules take the queue: in `MonthMaster`, `UploadWindow`,
`ConfigPins` and `RunLogMirror` a window has one live run, which may be lost and tried again.

Abstractions, beyond bounds. In the service's models a verdict is *produced* or *hard_stop* (the queue treats ok,
variance and unverified alike); a contract is a function from rows to values, rendering it is that function taken in
one step, and the order of rows, who wrote them and a reason's wording are left out; a file is its digest; time is
only whether a lease has passed, but for `SignIn`, which counts it. Attempts of a lost run are collapsed in
`UploadWindow` (a stopped run may be followed by another run of the window) since `start_run` reads the uploads
afresh. In the pipeline's models a cell is a value or one that does not parse, a header is mapped or not, and a
storefront name is a name with a spelling; frames are sets of rows told apart by a number; money is whole VND and a
rate a percentage, the instances' amounts chosen so that the divisions by VAT are exact and a float's residue is never
what a tolerance decides. A SKU stands for the SKU with its product name, which the code's group keys both have. A
report of the index that fails is left out, since its run goes on without. Runs are one at a time in `Settlement`:
they share no state but the rows that are its variables.

## Runs

| Run | Question | Bounds | Result |
|---|---|---|---|
| `slow` | what holds when leases lapse under live workers | 2 workers, 2 windows, 1 key, 2 jobs, 1 or 2 attempts | holds |
| `timely` | what a long enough lease adds; refinement of `WindowRuns`; does every job settle, every run conclude | 2 workers, 2 windows, 2 priorities, 2 jobs of 2 attempts | holds |
| `settlement` | is what was settled invoiced, once, by the right window, again and again, and does the month add up | deployments of the three platforms, up to 4 late exports each, indexed or not, one under a corrected store, 2 runs, 3 decisions, 2 clerks | holds |
| `sign_in` | do failures count, limits hold and used sessions last | 1 account, 1 stranger, 2 requests at once; limits of 2 in 1 tick, cool-off of 2, one name remembered, sessions of 4 idle and 5 in all | holds |
| `two_workers` | does the master cover what it should | 2 windows, 2 workers, 2 runs each; a directory and a bucket | holds |
| `two_windows` | is an export the input of one window, lent only onwards, and its reading on record | 2 exports, 2 windows of which one lends, 2 posts at once, 2 runs each | holds |
| `amended` | does a window that looks ready run, are lenders whole, is the index of the file | 4 deployments of 1 or 2 windows, 3 or 4 files, up to 3 contracts; 1 file posted again, lost or altered; 2 files of a kind | holds |
| `two_appliers` | does the contract only become what was reviewed | rows of five tables, 13 baskets of one or two edits, 2 proposals, 2 applies | holds |
| `two_unpins` | do re-runs keep the rules, does history explain the pin | 2 texts, 2 runs, 3 administrator acts | holds |
| `agreed` | does an administrator remain, is every request answered | 2 accounts, 2 requests | holds |
| `polled` | is a polled log whole, and does the page stop | 2 attempts of 4 lines, pages of 2, flushes of 2 | holds |
| `granted` | `AdminRemains` when accounts are enabled and promoted at any time | as `agreed` | violated |

Why the bounds are enough.

- Queue: two workers are what every race needs, the loser of a lease and its new holder; two jobs of a window exercise
  the unique index; two attempts give a retry and its exhaustion, one gives the default.
- `settlement`: an order in another window is there or not in each of a nearer, a farther, a later window and one of
  another series, readable and unreadable, under each mode; two runs are what "again" needs. One deployment has two
  storefronts whose errors cancel out, one a roster with aliases, declared and withdrawn, two windows and bounds,
  brands two stores share and a workbook of another platform; the others have Shopee's refunds, vouchers, lines of no
  quantity, the subsidy's header in one income part, in another or in none, and Lazada's two ledgers, promotions, an
  unknown fee and each source of the masters. Three decisions let an exception be marked, cleared by two and marked
  again.
- `sign_in`: three combinations of time, sign-ins and changes - (3, 3, 0) for counters, (3, 2, 1) for changes under a
  sign-in, (6, 1, 2) for a session through its whole life. Two failures reach a limit and three pass it; one name
  remembered and two names make an eviction.
- `two_windows`: its properties are stated export by export. One order export may be posted to either window, twice at
  once, so that the unique digest decides and it is read as an input or borrowed; the later window's income is its own
  input, without which a run lists no lenders. An object that expired stands for one that was altered too, as either
  fails its digest (`amended` has altered ones). Two runs give a first consumer and a repeat, and a rejection in between.
- `amended`: one deployment renames a column under two order files, one of them posted under names the pattern cuts
  short; two have a roster with an alias and an optional store, declared absent or not; one lends from an earlier window
  with two files of one name. A fault or a re-post concerns one file since the properties look at files one at a time or
  at whether any is amiss. Two is the most files of a kind a folder of these may have (999 in the code), which no
  deployment passes.
- `two_appliers`: the tables are one of each behaviour (a locked scalar, an alias that may be undecided, a row with a
  rule, plain ones); two proposals let a contract go away from a base under an apply.
- Two texts and three administrator acts let a pin and two unpins cross. Two accounts and two requests have every
  circle of two waits and the guard's whole decision. Four lines in pages and batches of two have full, short and empty
  pages, and a batch sent again with a new line.

`CHECK_DEADLOCK FALSE` except in `agreed` and `granted`: once the bound on jobs, runs, proposals, lines or time is
reached the modelled system may rightly stop. Symmetry is used for workers, windows, appliers, clients and
administrators in runs of safety properties only, never where liveness is checked.

## Fairness

`timely` assumes weak fairness of a worker's claim, `start_run`, heartbeat and `finish_job` (the loop of
`worker.py:133-162` and straight-line code), of a dead holder's lease passing (the clock) and of the sweep (every
worker sweeps before it claims), and strong fairness of concluding a run, because a run alternates between logging and
working and logs only finitely many lines. Nothing is assumed of crashes, cancels or requests: a job may crash every
worker that takes it, and the attempts bound is what ends that.

`agreed` assumes that a request not held up goes on (straight-line code), that a row lock which keeps becoming free is
got (Postgres queues its waiters), and that a deadlock is broken (its deadlock check). `polled` assumes that a worker
goes on, that a lost run is swept, that the page keeps polling (`log.tsx` sets its timer again after every failure),
and, strongly, that a poll which keeps being tried succeeds; nothing of crashes, exceptions and failing flushes.

## Proofs

Every theorem holds for any values of the constants its module's assumptions allow. Each component's proof has the same
shape: an inductive invariant, named and listed part by part in the component's module and checked by TLC on the run's
instance before it was proved; a lemma per action (or per kind of action); the properties from it. Where a property says
what operators make of one state, as in `Settlement` and `UploadDoor`, the invariant is small and the work is in lemmas
about the operators.

- `JobQueueProofs`, for `Spec`, from `ConstantsAssumption` alone. `QueueInv` = `TypeOK /\ WellFormed /\
  OneActivePerWindow /\ AttemptsWithinBudget /\ AttemptsFence`. `AttemptsFence` (an executor's attempt is at most the
  row's, and two executors of a job have different ones) is not inductive without `WellFormed` (an executing worker's
  job exists and its attempt is at least 1), and `AttemptsWithinBudget` needs its second half, that a queued job has an
  attempt to spend, since `claim` never looks at `max_attempts`. `SingleAttemptRunsOnce` follows from the two. Its
  second part is for `TimelySpec`. `TimelyInv` adds `HoldsLease`: while leases outlast silence, who executes a
  job holds its lease, unexpired, under the attempt the row is on. Everything else rests on it: `NoConcurrentRuns`,
  `InFlightIsLeased`, `OneAttemptPerLog`, `DoneMeansConcluded` (with `ConcludedFirst`, that a worker about to finish a
  job has concluded its run) and `SettledIsFinal`, an action property that no run checks. The last theorem is the
  refinement: each action maps to a step of `WindowRuns` or a stutter, `ReclaimExpired` to giving up the windows of the
  jobs whose attempts are spent.
- `SettlementProofs`, for any deployments that satisfy `SetupsAssumption` (one of the three platforms, finitely many
  exports, of windows there are, with finitely many rows; the columns a row and the keys a contract always has; only
  exports there are have an upload). Every outcome on record equals `RunResult` of what the run was asked and of
  exports staged with it (`RunsAreResults`, inductive); `OutcomesAreResults` says so, and the rest are lemmas about
  `RunResult`: an order settled for invoicing is on a line of the workbook or among the unmatched, never both nor
  neither (`NothingSettledIsLost`); a run that is not stopped has each store of its roster (`RosterStaysArmed`);
  borrowed lines come from the nearest window that has them (`NearestLender`), whose proof shows that `TextBefore`
  orders ordinals totally and takes a nearest one of finitely many; each lender was named as far as the index had the
  order's two files under the stores they are read as (`EveryLenderWasNamed`, with `ReportsAreOfTheIndex`, that what a
  log was told is the report of the index as it was then, which held exports the run read); what a run is asked, read
  and is decides what it makes, again (`SameInputSameResult`). `DecisionsReplay` is about the two disposition tables
  and rests on the history's own invariant, not on runs.
- `SettlementProofs`, then about money, with `AmountsAssumption` (an amount is a number or a cell that does not parse,
  but for Shopee's subsidy, whose column an export may lack, as no other money column may, without which the code
  fails; rates are positive, tolerances are numbers, the other platforms' windows in a master are told apart by
  platform and label) and `NoTypeAssumption`. The code's sums are folds over sets, which take elements in an order of
  their choice, and the fold's operator is not known to the provers: `AdderExists`, `AddersAgree` and `TotalStep`
  unfold it for any finite set, `TotalRemove` shows that the order does not matter, and `TotalUnion`, `TotalRenamed`
  and `TotalByKey` cut a total by a set, a name or a key, which is all the rest uses. `MoneyAgrees` follows the
  amounts of a window's rows through reading, grouping, the join and pricing; what settles an order is what its rows
  do (`SumOfGroups`), and a run without a variance has no breached check (`CleanHasNoBreach`), so that for each store
  on TikTok (`TikTokMoney`), each order on Shopee (`ShopeeMoney`) and the ledger on Lazada (`LazadaMoney`) lines and
  settlement differ by no more than the contract's own tolerance; where no income export has the subsidy's column the
  run asserts nothing of the money and says so (`ShopeeUnverified`). `MasterIsTheLines`: a finance file is read back
  to the lines on its tabs (`ReadBackIs`), and the master's summary, storefronts and brands are cuts of the same
  entries, a window and a store it has (`StorefrontTotal`, `BrandTotal`, `SummaryTotal`).
- `UploadProofs`, first for `UploadWindow`. `ReadIsAttributed` needs that what a run reads as its own are rows of its
  window, which rows never leave (`ReadsItsWindow`), that a run under way has a number (`LiveRunHasNumber`), that what
  it has settled is consumed (`SettledIsConsumed`), and that a row's first run is one the window has had
  (`FirstRunIsPast`). `OneWindowPerExport` follows: a row names one window, and what is borrowed are order files of
  earlier ones (`BorrowsFromEarlier`).
- `UploadProofs`, then for `UploadDoor`. `RecordsAreOfTheFile` relates a row to the bytes it was made of: its digest is
  of the file's own bytes, with the columns the row names. `IndexIsOfTheFile` is inductive with it, because the index
  command reads nothing else than what the digest confirms. `ReadyWindowRuns` sets the plan's five conditions against
  the run's refusals: the columns recorded are those stored, files without namesakes are all seen by both
  (`NoneHidden`), and `roster_gap` on the rows' stores implies `check_stores` on the files' (`RosterMet`), with or
  without a declaration. `LendersAreWhole` needs only that ids are numbers. `SetupsAssumption` says that requests are for
  windows and files of the deployment and that contracts have a roster.
- `AccountProofs`, first for `SignIn`. The properties speak of a log of what happened, the code of counters that forget.
  `AccountsCount`: an account's counter is the number of wrong passwords since the last success or reset
  (`FailuresCount`, inductive with the types). `SessionsLast`: the noted use of a session lags its last use by less than
  a minute (`UsesAreNoted`), so that a session used within its idle time less a minute is admitted. `ThrottleBlocks`:
  `ThrottleInv` relates the throttle to the log. `OrderIsRecency` says that the `OrderedDict` has its names in the order
  of their last failures, which is what eviction goes by; `Remembers` that every failure since a name was last cleared
  is among its times, entry by entry, unless it is older than the window, a block came after it, or more names than
  `MaxKeys` failed since; `LimitBlocked`, the property as of every moment up to now, that the limit's failures within the
  window have had the name refused for a cool-off from the first of them. The failure that completes such a set finds as
  many times remembered as it has members: a pigeonhole argument over injections between intervals (`NatInductive`,
  since the library's induction cannot be used).
- `AccountProofs`, then for `AdminGuard`'s `AgreedSpec`. `AdminRemains` is not inductive: an update must find another
  admin than its target. `GuardInv` adds that a row the guard has kept is locked by it (`Holding`) and so stays an
  enabled admin (`KeptAreAdmins`), that a target which is an enabled admin is among the rows the guard still has to
  reach, waits for or has kept (`TargetInSight`), and that a request past the guard has not kept its target alone
  (`PassedTheGuard`). `TargetInSight` is what an enable or a promotion of the target breaks.
- `MonthMasterProofs`. `CatchesUp` speaks of a quiet month, and `MasterHas` carries it through the reading: from the
  moment it plans, what the master planned, then fetched, then built from has the latest run of every window that
  counts. It needs that a chain's answer outlives its run's conclusion (`ChainedHasChained`), that a stored file stays
  (`StoredHasFile`) and that the runs a plan names are ones the month has had (`RunsArePast`). A master that stopped
  for want of windows missed nothing either, where the store opens its files. `ExclusionHasCause` (`ExcludedForCause`)
  holds of both stores by excepting the bucket: on a directory a planned file that is gone means that its run was
  retried, since what reads as produced has its file.
- `ConfigPinsProofs`. `ReRunsKeepTheRules` rests on `PinIsTheRule`: as long as no administrator acts, the pin only
  appears, with the rules of the live run, when it produced a workbook, so that a look-up that found no pin is still
  right when it is used. `ProducedNamesItsRules` rests on `RulesOnRecord`, both on `LiveRunIsOpen`.
- `ConfigProposalsProofs`. `MovedBaseIsRefused` compares the rows at a commit with a check made several steps before;
  `BaseHolds` carries it: unless another apply commits under it, an apply works on the base it checked and what it
  rendered is what it will commit. `AppliedHasLanded` needs `RecordsFollow`, that no record runs ahead of the rows.
- `RunLogMirrorProofs`. `StoredIsPrefix` needs `WorkerKeepsLines`: what a live worker logged is stored or buffered. The
  page's side (`ReaderInvariant`) needs that what it shows of the live attempt is stored (`ShownIsStored`), that a head
  that says an attempt is over says so of a closed run whose lines are settled, also when the second statement reads them
  (`ClosedIsSettled`), and that nothing is past the cursor of a page that stopped (`DoneIsDone`). `NoGapShown`
  (`ViewHasNoGap`) and `CompleteIsAll` (`CompleteMeansAll`) follow.

Only model-checked. Liveness (`EveryJobSettles`, `EveryRunConcludes`, `EveryRequestEnds`, `ReaderStops`) is out of the
prover's reach. Every other property of a passing run is a theorem.

## What the models show against the code

One run ends in a violation of what the code's comments say:

- `granted`. The guard's `for update` looks for the admins of its snapshot and re-reads the ones it waits for. An account
  enabled or promoted meanwhile is not looked for, so that a request may disable it after another one has disabled the
  admin it counted on (`service/repository_identity.py:162`). `agreed` and the theorem say that this is the only way.

Others are seen by reading a definition against a sentence, and have no run (`findings` in `PROJECT.json` quotes both):

- A month's master is to be rebuilt whenever a window finishes (`service/month_master.py:14`). It opens the windows'
  workbooks through `ArtifactStore.open`, and that of a bucket answers None (`service/artifacts.py:183`). The repository's
  `deploy/docker-compose.yml` gives the api and the worker a bucket, so that every window is left out as "not in the
  artifact store" and no master is ever built there (`NoMasterOnBucket`, proved).
- The chain is called before `finish_run` (`service/worker.py:243-245`) though its docstring explains why a master must
  not be claimable before the window can be read. `CatchesUp` in `two_workers` says how far this goes: a window is left
  out only if it chained, or had chained and not concluded, while a master was reading.
- A store corrected at the upload door is corrected in the upload's row only: a run names the files after the store it
  derives from their names again, and invoices under that (`service/materialize.py:253`). `ReadyWindowRuns` in `amended`
  excepts such files.
- A file whose name the pattern cuts short is accepted if its store is corrected or has an alias, and every run of its
  window is refused (`service/api.py:1151`): the door tries the confirmed store's round trip, the run the derived one's.
- A window without any file of a kind may be `ready` though its run will stop (`service/api.py:1498`). The last three
  were found by TLC, as counterexamples to stronger forms of `ReadyWindowRuns`.
- `apply_proposal` answers 409 for a rejected proposal after its edit has landed (`service/api.py:1943`).
- An order file that another window borrowed and invoiced can still be rejected, though a file a run has read "cannot be
  un-read" (`service/repository_m5.py:712`): only a window's own files are marked consumed.
- The order index names holders in windows of another series, which the pipeline never borrows from
  (`service/repository_m5.py:620`).
- A password reset under a sign-in with the old password: the rehash writes the typed one back and the session opens,
  though the reset "signs them out everywhere" (`service/api.py:600`).
- Unclassified orders are in no exception, though two documents route them there (`src/pipeline.py:543`).
- A run with the totals of the browser's form is never better than unverified (`src/pipeline.py:393`).
- A Lazada run takes its fees and rates from the default masters file whatever `masters_file` names
  (`src/pipeline.py:665`).
- Noting a session's use once a minute does cost it up to a minute of its idle time
  (`service/repository_identity.py:242`).

Kept as notes under `hazards`:

- The unique index stops two active *jobs* of a window, not two *workers* on it. After a lapsed lease the old holder's
  heartbeat answers False and `RepositoryLogSink.append` drops the answer (`service/runlog.py:47`). The deployment rules
  it out by the length of the lease (`service/config.py:106-110`), which is `TimelySpec`; `NoConcurrentRuns` does not
  hold of `Spec`. `SingleAttemptRunsOnce` (proved) says when it cannot concern one job: with the default of one attempt.
- `mark_uploads_consumed` overwrites a rejection (`service/repository_m5.py:677`); `ReadIsAttributed` holds because of
  that. The pin upsert at a run's end replaces a pin made since its start (`service/worker.py:654`).
- A page that polls across a retry shows the first attempt's lines followed by the second's, and a run whose `finish_job`
  fails logs lines after it was closed.
- A re-post that overwrites recorded bytes, overlapping applies, a render torn by a
  commit, a verdict overwritten when the contract returns to an earlier text, the version an unpin names, the order of
  the listed history, the disposition a clear names.

Modelled as the code has it, and worth a look there: ordinals of windows compare as text, so that a tenth would come
before the second (`src/backfill.py`); a Lazada window's weekly and daily ledgers are added without a dedupe; a Lazada
line at a rate the contract does not list is on no line tab, and so not in the month's master (`OnTabs`); a line of
another rate than 1.08 counts in its brand's tab and in its rate's, which the workbook's control then adds
(`src/finance_template.py:482`, `:732`); the return tab is keyed by the order number without its store; `export.py`
has no tab for unmapped fees; removing a storefront is not checked against the aliases and brands that name it.

## Not modelled, and why

- `export.py`, the metrics file, the workbook's layout and formulas, reading its cells back (`master_summary.py`):
  presentation.
- The sheets, cell values and size limit the upload door looks at, its warnings, and rows recorded before digests and
  object keys were (`uploads.py`, `materialize.py`); the letters of period labels and file names (`naming.py`), whose
  pattern is a function from names to stores.
- Rendering the contract as YAML and the settings file written after an apply; its seed and import; the two
  pipeline runs inside the canary, whose comparison is a choice of verdict.
- Roles, tokens and hashing; paths, listings and range reads of the stores; the sweep of scratch directories.
- Start-up, migrations, administration commands, sample data, front end, tools: they run before or beside everything
  modelled, or call what is. `stitch.py` is called by no run.

## What could follow

How far the pivot tabs' rounded prices may drift from the lines they are of, now that sums can be reasoned about; a
render of the contract table by table, under applies; the rehash of a sign-in under a reset; Lazada's ledgers at the
door; the contract's seed and import.
