# Verification of openerp-ktv

openerp-ktv is an OpenERP 6.1 server with an addon, `ktv_sale`, that runs a
karaoke house: cashiers open rooms, sell time in advance, and scheduled jobs
empty the rooms when the time is up. This directory holds TLA+ specifications of
the parts where concurrent activities meet - database transactions, threads, server
processes, answers on their way to a cashier's page - and of the computations they
rest on, the TLC configurations that check them on small instances, and theorems
proved with TLAPS.

Paths below are relative to `src/openerp/`; `ktv_sale/` is
`addons/ktv_sale/` and `ir_cron.py` is `addons/base/ir/ir_cron.py`.

## 1. Inventory

| Component | State | Operations | Meets |
|---|---|---|---|
| Room operations (`ktv_sale/room_operate.py`, `room.py`, `room_*.py`) | rows of `ktv.room` (state, current bill), bills, business documents | `process_operate`, `find_or_create_room_operate`, one `process_operate` per business object | the database; `ir.cron` (a prepaid sale creates a closing job) |
| Jobs (`ir_cron.py`) | rows of `ir_cron` (active, nextcall, numbercall), their row locks | `_acquire_job`/`_process_job` (polling processes), `_run_jobs_multithread`/`_run_job` (threads), `create`, `write`, `unlink` | rooms, through the method a job names; the wake-ups |
| Cron master thread (`cron.py`) | heap of wake-ups, index by database, thread slots, `_wakeups_lock` | `runner_body`, `schedule_wakeup`, `cancel`, slots taken and released | registries, jobs |
| Registries (`modules/registry.py`) | registry per database, `registries_lock` | `get`, `new`, `delete` | the wake-ups |
| RPC and transactions (`osv/osv.py`, `sql_db.py`) | transaction per request | `execute`, commit, rollback, cursor | everything that touches rows |
| Caches and signaling (`tools/cache.py`, `modules/registry.py`, `service/web_services.py`) | a cache per process, two sequences in the database, the numbers each process has noted | look-up, clear, `check_registry_signaling`, `signal_caches_change`, `signal_registry_change` | every RPC and every polled job |
| Fees and opening hours (`ktv_helper.py`, `*_config.py`, `hourly_fee_promotion.py`, `re_calculate_fee`) | configuration | pure computations | the checkout forms |
| Cashier client (`ktv_sale/static/src/js`) | `all_rooms`, `display_rooms`, the form in `#operate_area`, models shared by forms | 60 s refresh, filter, open, recalculate, pay, submit, close | RPC, and through it the rooms |
| Connection pool (`sql_db.py`) | list of connections | borrow, give back | every cursor |
| Bill numbers (`ir_sequence.py`) | sequence | `_next` | bills |

Components that are not modelled at all (ORM, workflow engine, transports, module
loading, the stock addons, registers such as members and vouchers) are listed
with the reason in `PROJECT.json`.

**What is hard, and what makes each component correct.**

* *Rooms.* Several cashiers and several jobs write one room row. The server runs at
  snapshot isolation, every RPC acts on what it saw at its start, and `ir.cron.create`
  commits in the middle of the RPC. Correct means: a room carries at most one bill, free
  and billless are the same, no bill pushes another one out, a failed request leaves
  nothing or a whole sale, prepaid rooms always have a closing job ahead of them and do
  close, and all of it is equivalent to one operation after another.
* *Jobs.* Rows are read with one cursor and locked with another; a failing method
  rolls back and loses the lock; processes die. Correct means: a job is run as
  often as it says, and in time.
* *Master thread.* One thread serves every database while it holds a lock all
  other threads need; wake-ups are canceled in place; slots are counted by hand.
  Correct means: heap and index agree, no slot is lost, the thread comes back,
  nobody's wake-up is forgotten.
* *Caches.* A process clears its cache when it reads that a number was drawn, but its
  transaction may see rows older than the number, a call may commit before it is over,
  and a process takes the number it draws itself for the last one it has read. Correct
  means: what has been announced is never shown as it was before, and what was
  changed is announced.
* *Fees.* Times of day that cross midnight in UTC, inclusive end points, promotions
  that add time. Correct means: opening hours are an arc of the day, a sale lasts as
  long as it was bought for, and what is given for free is what the promotion says.
* *Client.* Answers applied in order of arrival, models shared by forms that open and
  close over one another, rooms drawn anew under an open form. Correct means: the
  cashier is never stuck, what is sold is what the server calculated, the parts of a
  payment add up, and the list ends up as the rooms are.

The hazards, each at its line and with the properties that cover it, are in
`PROJECT.json`.

## 2. Plan

| # | Module | Content | State |
|---|---|---|---|
| 1 | `KtvRoomTypes`, `KtvRoom`, `KtvRoomProps`, `MCKtvRoom` | rooms, RPC transactions, closing jobs | done |
| 2 | `KtvOccupancy` | abstract specification of the room board; `KtvRoom` implements it | done, proved |
| 3 | `KtvRoomProofs`, `KtvRoomRefines` | theorems about 1 and 2 | done |
| 4 | `CronMaster`, `CronMasterProps`, `MCCronMaster` | wake-ups, slots, registries, repeating jobs | done |
| 5 | `CronMasterProofs`, `CronJobsProofs` | types, heap and index, slots; jobs: methods do not overlap, new jobs are planned | done |
| 5a | `CronAlarms` | abstract specification of the wake-ups; `CronMaster` implements it | done, proved |
| 6 | `CacheSignals`, `CacheSignalsProps`, `CacheSignalsProofs` | caches of several processes, the signaling sequences | done, proved |
| 7 | `KtvFees`, `KtvFeesProofs` (pure) | opening hours, buyouts, promotions, given minutes | done, proved |
| 8 | `KtvClient`, `KtvClientProps`, `MCKtvClient`, `KtvClientProofs` | the cashier's page over the board of `KtvOccupancy` | done, safety proved |
| 9 | `KtvPayments`, `KtvPaymentsProofs` (pure) | how a checkout is paid | done, proved |
| 10 | `ConnPool` | borrow, give back, leaked and closed connections; a bag of at most N tokens | not written |

`KtvRoom` composes RPCs, jobs and the database because they share rows; it takes
from the master thread only that a due job is tried again and again, which is what
`CronMaster` is about (section 5). The page and the server meet in `KtvOccupancy`:
`KtvRoom` is proved to implement it, with transactions, and `KtvClient` is built on it:
the server of the page is the board, its steps are `KtvOccupancy`'s actions.

## 3. Modules and code

### KtvRoomTypes, KtvRoom

`KtvRoomTypes` has the data: states the server assigns, the business objects a
cashier can ask for, and what each one's `process_operate` returns (state, and
whether a closing job comes with it). `ktv.room_checkout`, which
`room_operate.process_operate` names as the ordinary checkout, returns one
dictionary where three values are unpacked; in the model as in the code such a
request always ends in an error (`UnpackFails`).

The variables of `KtvRoom` are committed rows (`room`, `sale`, `job`), what the
cashier was told (`reply`), the drawn bill numbers (`issued`) and the program
counters and snapshots of RPCs and workers. An RPC is:

| Action | Code |
|---|---|
| `Begin` | `object_proxy.execute` opens a cursor, its first query fixes the snapshot |
| `FindOperate` / `CreateOperate` | `find_or_create_room_operate`: the bill the snapshot shows, or a new one |
| `LinkOperate` | the new bill is written to the room |
| `WriteState` | the business object inserts its document, the state is written |
| `CreateOperateCron` | `_create_operate_cron`; `ir.cron.create` commits everything so far |
| `Reply` / `ReplyAfterCommit` | the room is read back, `execute` commits |
| `Rollback` (in the two writes), `UnpackFails` | `execute` rolls back and raises |
| `RequestFails` | any other exception, at any point: the same, and after the commit of `ir.cron.create` there is nothing left to roll back |

A write waits for the row's lock and then fails if the row has a newer version than
the snapshot shows (`SameVersion`; the cursor's isolation is REPEATABLE READ by
default, `sql_db.py`). `xmin` counts a row's versions. The share locks PostgreSQL
takes on rows a foreign key points to are left out: where they matter the later
write conflicts anyway, and the request ends the same way. Numbers drawn from a
sequence are not given back, so `issued` survives rollbacks.

A worker is one attempt at one job: `PickJob` (read with the first cursor),
`LockJob`/`SkipJob` (`FOR UPDATE NOWAIT` with the second one), `Callback` (the
room's write, or a rollback that also frees the job's row), `FinishJob` /
`FinishFailedJob` (the job is deactivated either way). Threads and polling
processes do the same to the rows, and one action stands for both. A job that is
picked in the very second of its nextcall runs zero times and is written back
unchanged, so `Due` is strict. `CashierCrash` and `WorkerCrash` kill a process
anywhere; the database undoes its transaction.

### KtvOccupancy

The room board without transactions: `Operate` happens at once, on the bill the
room carries or on an unused one; `Close` empties the room of a prepaid sale that
was made in it. `KtvRoomProps` maps rows to it (versions dropped) and states the
refinement as `Serializable`.

### CronMaster

| Variable | Code |
|---|---|
| `heap`, `byDb`, `wakeLock` | `_wakeups`, `_wakeup_by_db`, `_wakeups_lock` |
| `registry`, `regLock` | `RegistryManager.registries` (with `_init`), `registries_lock` |
| `slots` | `_thread_slots` |
| `pc`, `db` | the master thread and the threads inside `RegistryManager.new` |
| `rnow`, `snap`, `todo`, `seen` | locals of `_run_jobs_multithread`: `now`, what its cursor shows, jobs not tried yet, `jobs` |
| `row`, `rowLock` | `ir_cron` rows and their locks |
| `wpc`, `wjob`, `wold` | threads in `_run_job`, with the job as it was read |
| `epc`, `ejob` | RPCs in `ir.cron.create`, `write`, `unlink` |

The master thread holds `_wakeups_lock` from `Awake` to `LeaveLoop`, over the
loading of a registry and over the whole pass, as the `with` block does. Every
other thread takes the lock for one action. `registries_lock` is held from
`LockRegistries` to `LoadModules`; between the removal of a registry
(`DeleteRegistry`) and `CancelWakeup` lies the window in which the two locks are
taken in opposite orders. The heap is a set: canceled entries that are equal
count once, which cannot be observed. `PlanNext` also stands for the `break` on
missing slots. The minute a thread sleeps is abstracted: it may wake any time.
The clock's unit is the interval of a job; at `now = t` real time is past `t`, so
the code's strict comparisons are `<=` here. The time of a pass is read before
the database reads its own (`ReadClock`, `SelectJobs`), and a tick fits between.
An edit changes `nextcall`, or unlinks the job; the other columns of a job matter
to nobody else.

Faults are named in the constant `Faults`: `connect` (no cursor; the master thread
dies of it outside `_run_jobs_multithread`'s try block), `load` (a registry fails
to load, or is left behind half made), `finish` (a load fails after `do_parent_store`
has made the registry ready: it stays, and nobody schedules its jobs), `callback` (a
method raises), `unlock` (a method
commits before it is through, or is called for the next missed time after it raised),
`edit` (an edit is rolled back).

A job thread (`wpc`) starts with its row locked (`run`) and goes by `ran` to the UPDATE.
After `CallbackFails` its transaction is rolled back and the lock is gone, so the UPDATE
must take it again (`rolledback`, `waiting`). After `CallbackUnlocks` the method is still
at work, without the lock (`open`): the row may then be run by another thread, and once
somebody has changed it (`Overtaken`) the UPDATE fails (`stale`, `UpdateFails`), since a
job's cursor is REPEATABLE READ and the method has queried before. A thread that waits
for the row gets it when its holder rolls back (`Retrying`), and an error when the
holder commits a change.

### CronAlarms

What `openerp.cron` promises those who ask it to wake up for a database, without heap,
index, locks or canceled entries: a database has at most one `alarm`; `Ask` keeps the
earlier of two; `Ring` takes the earliest of all, when it is due; `Drop` takes one
away only while the database's registry is not `loaded`. `CronMasterProps` maps
`byDb` to `alarm` (a canceled task is no alarm) and `registry` to `loaded`, and states
the refinement as `WakeupsAreAlarms`.

### CacheSignals

Several server processes share a database and keep caches of its rows (`ormcache`:
access rights, rules, translations). They tell each other to drop them through two
sequences, `base_cache_signaling` and `base_registry_signaling`.

| Variable | Code |
|---|---|
| `commits` | the versions of the cached rows, with how and by whom they were written |
| `drawn` | `base_cache_signaling`; `drawn[n]` is how many versions there were when *n* was drawn |
| `registrySeq` | last value of `base_registry_signaling` |
| `regNumber`, `cacheNumber`, `cleared` | of each process's registry: `base_registry_signaling_sequence` (0: there is none), `base_cache_signaling_sequence`, `_any_cache_cleared` |
| `cache` | the version the cached value was read from |
| `snapshot`, `written` | the transaction of the call: what it sees, what it wrote |
| `printing`, `reportSees` | the thread of a report: how far it is, what its transaction sees; `late` once its process has read a number meanwhile |
| `pc`, `passed`, `stray`, `failures` | where the call is; history: numbers passed over, an entry left by a late report; faults so far |

An RPC checks the sequences (`CheckRegistry`, `CheckCaches`:
`check_registry_signaling`), opens its transaction (`Begin`), looks up and writes, may
commit midway, commits, and draws a number if it cleared a cache (`SignalCaches`); that
is `objects_proxy.dispatch`. A job (`_acquire_job`) locks its row *before* it looks
(`LockJob`), which fixes its snapshot. Its exception is swallowed, and the number is
drawn all the same; an RPC that raises draws none (`Raise`). `GetRegistry`, `Load` and
`LoadFails` are `RegistryManager.get` and `new`, which begin with cache number 1
whatever the sequence says. The methods that write cached rows differ in how they
clear: all of it after the write (`WriteThenClear`), all of it before, in which case
the write's own rights check fills the cache again (`ClearThenWrite`), or one entry,
where the flag goes up only if this process held it (`ClearEntry`). `InstallSignal` and
`InstallLoad` are `button_immediate_install`. `Die` kills a process and starts it again.

A process serves one call at a time, but `exp_report` leaves a thread behind
(`StartReport`) that goes on, with a cursor of its own, while its process serves other
calls that read numbers and clear the caches. The thread looks at no sequence; it fixes
its snapshot by its first query (`BeginReport`) and fills the caches from it whenever it
looks something up (`ReportLookup`). `OvertakeReport` notes that the process has read a
number since: what the report leaves from then on may be older than that number and
stays until the next one. `stray` marks such an entry, and `ReadNumbersSettled` excepts
it and nothing else: not what a report leaves before it is overtaken, nor what calls or
later reports read.

The cached rows count as one set and the caches of one process as one entry: an entry
that shows part of the rows is as old as what it was read from. The entry of a
transaction that has written counts as its snapshot, which makes it older than it is
and the properties harder.

### KtvFees

Pure operators: `UtcTimeBetween` (`utc_time_between`), `BuyoutActive`, `ToTheMinute`,
`StrToTodayTime` and `BuyoutMinutes` (`buyout_config.py`), `CalculatePresentMinutes`,
`ActivePromotions` and `SumMinutes` (`hourly_fee_promotion.py`,
`room_checkout_buytime.py`). A time of day is its second in the day, as the strings
`HH:MM:SS` the code compares are ordered like the seconds they stand for. `BuyoutActive`
tests the opening hours with the time cut to the minute (`'%H:%M:00'`), while the sale
begins at a time read afterwards with its seconds; the theorems have one variable for
each. Errors of the code are kept: `InSpecialDay` is never true because a datetime is
looked for among strings, `ActivePromotions` returns in its first round, and a promotion
with limited hours raises.

### KtvClient

| Variable | Code |
|---|---|
| `allRooms`, `display` | the collections `all_rooms` and `display_rooms`, by the state each room is shown in |
| `deaf` | rooms whose element was drawn again by a change of their data and lost its click handlers |
| `listShown`, `shown` | `#room_list`, and the form in `#operate_area` |
| `form`, `opening` | the forms opened, with the room object each holds on to; checkouts that wait for `RoomFeeInfo` |
| `figures` | the Backbone model of each kind of checkout, on the *prototype* of its widget and so shared by all its forms |
| `asked`, `computed` | answers of `re_calculate_fee` under way, and all that were ever given |
| `fetched` | room lists under way; the timer does not wait for the last one |
| `push` | sales: what was filed, and how far the request got |

Forms open over one another, since a checkout shows itself only when its fees have
arrived (`ShowForm`) and may close itself then (`NothingToSell`). `Press` files the
room of a form that reserves or opens, and whatever the shared model holds for a
checkout. The server then either acts (`Serve`, one step of the board) or not
(`Refuse`); the answer is applied (`Answered`), or the cashier is told of a failure,
also when only the answer was lost (`ToldFailed`). `RoomAnswered` sets the state of the
form's room *object*: if a refresh has replaced that object, nothing on the page
changes. `Returned` puts the document as `read()` gives it into the shared model, with
a pair `[id, name]` for its fee type, which the next sale of that kind sends back
unless a new calculation has replaced it; only the answer for bought time does.

The server is the board of `KtvOccupancy`; other cashiers (`OthersOperate`) and closing
jobs (`Closed`) work on it too.

### KtvPayments

What the page works out when a checkout is paid. Backbone fires a handler for an
attribute while later attributes of the same `set` still have their old values, so
`SetAnswer` sets the attributes of an answer one by one, each with its handler. Their
order is that of a Python dictionary; `cashFirst` stands for the one pair whose order
matters. `Kinds` has two members because `RoomCheckoutBuytime` lacks the handlers that
the buyout's model has. The cashier's entries (`Vouchers`, `AutosetMemberCard`,
`EnterCreditCardFee`, ...) are functions from one set of figures to the next.

## 4. Runs

| Run | Asks | Result |
|---|---|---|
| `room_faults` | two rooms, all business objects, failing callbacks, requests that fail anywhere, a process death: `TypeOK`, `BillBelongsToRoom`, `FailureIsWhole`, `FreeIffNoBill`, `BillNeverReplaced`, `Serializable` | hold |
| `room_liveness` | time passes and threads run, with failing requests and a process death: `PresaleHasCloseJob`, `EveryRequestAnswered`, `PresaleEnds` | hold |
| `room_paid_time` | does a sale last as long as it was paid for? | no: the first sale's job closes the room under the second sale |
| `room_called_once` | is a used-up job called again? | yes: it is locked after it was read, and not read again |
| `cron_plan` | two jobs, one slot, edits, a reload, loads that do not get ready, methods that raise or commit: `NewJobsPlanned` | holds |
| `cron_faults` | all faults but `unlock`: `TypeOK`, `IndexMatchesHeap`, `SlotsAccounted`, `MethodsNeverOverlap`, `WakeupsAreAlarms` | hold |
| `cron_liveness` | `RunnerKeepsChecking`, `SlotsNotWasted` without reloads | hold |
| `cron_stops` | does the master thread keep checking when a registry is reloaded? | no: lock order |
| `cron_forgets` | is a repeating job planned when its run is over? | no: its wake-up is asked for before its commit |
| `caches_settled` | an RPC worker with a report and a process that polls for jobs write, signal, install, fail and die: `TypeOK`, `ReadNumbersSettled`, `ChangesAnnounced` | hold |
| `client_sales` | two forms and two sales of one page: `TypeOK`, `NeverStranded`, `SoldAsCalculated` | hold |
| `client_list` | a form, two refreshes under way, a filter, another cashier: `DisplayCatchesUp`, `RoomsTakeClicks` | hold |

`PresaleHasCloseJob` is asked of jobs that fail by conflicts only
(`CallbackFaults = FALSE`): a job whose method raises for another reason is
deactivated with nothing done, and its room does stay occupied.

Deadlock is checked in every room run: `Finished` lets the system rest only when the
clock is at its bound, all buttons have been pressed and no job is due. In
`cron_plan`, `cron_faults` and `cron_stops` it is not, because there the system
really can stop (lock order, death of the master thread), nor in `client_sales`, where
the cashier has used every form and the page waits for nothing more. `caches_settled`
and `client_list` never rest and are checked.

**Bounds.** `MaxTime` bounds the clock: 2 in most room runs, so a closing time lies
before, at or after the moment of any step; 3 for `room_paid_time`, where two closing
times differ and time passes between. One room is enough for contention, since
operations of different rooms meet only in the sequence of bills, which the two rooms
of `room_faults` share. Two cashiers with two requests and two workers make every
pairwise race; `room_called_once` has a third request, so that somebody may use the
room between the two calls of a job. What holds is proved for any number of requests
(section 6). `MaxCrashes` is 1 where processes die. `AskedOsvs` names the business
objects of an instance: an opening and a purchase of time differ in everything that
matters to a row, the other objects are in `room_faults`. `MCRequests` gives a
closing time to prepaid sales only.

In the cron runs two jobs compete for one slot (`cron_plan`, `cron_liveness`), or one
job is run by two threads (`cron_faults`, after a callback failed and gave up the
row's lock). There is one database in them; that the earliest of several alarms rings
first is left to the theorem (`WakeupsImplementAlarms`), two databases with threads
and edits being beyond a run of some minutes. `cron_plan` leaves out the faults
`connect`, `finish` and `edit`, after which a job *is* forgotten, and `cron_faults` the
fault `unlock`, under which methods *do* overlap (section 5).

`SlotsNotWasted` says that while every slot is free a due job does not wait for ever: it,
or another job, is handed to a thread. It does not say which: a pass goes by priority,
and a job that repeats faster than it runs may keep all others from a single slot for as
long as the clock runs. Such starvation could not be seen under a bounded clock anyway,
so the property makes no claim that only the bound would make true. The bound itself
can but take wake-ups away (one beyond the clock never rings), which makes this property
harder, not easier.

Times 2 and 3 make jobs due, overdue and in the future; `Day` = 2 puts
"in a day" beyond the clock, so a job left to it is not found by luck. `Calls` are the
values of numbercall of new jobs (0 stands for -1, no limit), `WriteTimes` the
times an edit moves a job to. Rooms, threads and model values are permuted
(SYMMETRY) in runs without liveness.

`caches_settled` has one RPC worker and one process that polls, since the two start
differently; two versions of the rows and three numbers (one is drawn at start-up), so
that each can announce to the other and be overtaken; one installation; one report at a
time in the RPC worker; one fault, anywhere (the theorems have any number). `MayWrite`
keeps a number and a version back for everyone who will need one, so that the bounds
stop new writes and never a commit or a signal. `client_sales` has two forms of any
kind, each opened for its own input, so that two forms of one kind share a model and can
be told apart, and two sales, which may be of one form pressed twice; no refresh, which
forms do not wait for. `client_list` has one form, two refreshes that can overtake each
other, one sale of another cashier and a filter that shows one room. On its clock of 6
seconds a day `HoursAgree` compares `UtcTimeBetween` with an interval modulo the day,
and `PresentsAgree`, `AnswersBalance` and `EntriesBalance` compare promotions and
payments with plain definitions.

**Fairness.** `KtvRoom`: weak fairness of the clock, of every RPC's steps and of every
worker's. An RPC thread runs on its own, and a row lock it waits for is given up by a
transaction that runs too. Workers look again and again: polling processes each minute
(`_run`); in a threaded server a closing job is started by way of the wake-ups, which
`CronMaster` is about, and the fairness there assumes that no jobs of higher priority
take every slot in every pass. Nobody must press a button. `CronMaster`: weak fairness
of every thread's steps, strong fairness of the two steps that wait for `_wakeups_lock`
outside the master thread, which leaves the lock alone for at least MIN_SLEEP, a second,
each time around. In-flight edits end, none need begin. `KtvClient`: weak fairness of
the timer (`FetchRooms`), strong fairness of the arrival of a list (`ApplyRooms`: any
list may be lost, not every one), weak fairness of the server's answer or refusal and of
its arrival or loss. No cashier need do anything, closing jobs neither. `CacheSignals`
states no fairness: nothing in the code makes a process look at the sequences but the
next call it is sent.

## 5. Disagreements between the repository and the code

* A prepaid room is emptied by an earlier sale's job (`PaidTimeHonoured`).
* A job with one call left is called twice (`CalledOnce`).
* The master thread can stop for ever on a lock held by a thread that reloads a
  registry (`RunnerKeepsChecking`).
* A repeating job that overruns its period can be forgotten for a day
  (`RepeatedJobsPlanned`). Closing jobs have one call and are not affected:
  `NewJobsPlanned` is about jobs never started, and the first start uses a closing job
  up.

The exact lines and the sentences they contradict are in `PROJECT.json` under
`findings`. Other things the models show of the code, without a run of their own:

* A prepaid sale can stand although the cashier was told of an error: what fails after
  the commit in `ir.cron.create`, the read of the room or the last commit, is told like
  any failure (`RequestFails` at `reread`). `FailureIsWhole` is what remains: such a
  sale has its document and its closing job.
* A room in use can be opened again: `process_operate` never looks at the state.
* A checkout form pressed before its own answer has arrived sells what another form of
  its kind calculated, for that form's room: the model is on the widget's prototype
  (`widget.js:1067`). `SoldAsCalculated` is what remains.
* After a buyout was sold from a page, the next one is refused by the server unless the
  page is loaded anew: the answer of the first left a pair for its fee type in the model
  (`Returned`, `Acceptable`).
* A report still at work when its process reads a number can put the rows of before back
  into the cache its process has cleared for that number (`stray`).
* A process that draws a number takes it for the last one it has read, so numbers drawn
  meanwhile are passed over and their changes stay unseen (`passed`); a process that
  polls for jobs looks at the sequences after its snapshot is taken.
* A registry whose load fails in its last steps (`register_all` or the commit after it)
  is ready all the same, its wake-up canceled and none asked for: its jobs sleep until
  one of them is edited or it is loaded again (fault `finish`).
* "The cursor has a lock on the job" (`ir_cron.py`, `_run_job`) is true until the method
  commits, as those of `addons/procurement/schedulers.py`, `addons/mail/mail_message.py`
  and `addons/fetchmail/fetchmail.py` do, or raises while more missed occurrences
  are to be made up for (`doall`). With `unlock` among the `Faults`, TLC finds two threads
  inside the method of one job; `MethodsNeverOverlap` is what remains without it.
* Bought time paid by card is recorded twice (`BuytimeRecordedTwice`), and the first
  answer for a buyout can show the whole sum as change (`FirstAnswerShowsChange`).
* Without a promotion bought time is doubled (`NoPromotionDoubles`); a room bought out in
  the evening of hours that cross midnight is sold until a time already past
  (`OvernightBuyoutIsOver`), and so, in hours within one day, is one bought out in the seconds of
  the minute they end in (`LastMinuteBuyoutIsOver`).

## 6. Proofs

All constants arbitrary: any number of rooms, bills, requests, cashiers, workers,
any clock and any number of crashes. Assumptions: `TypesAssumption`,
`DocumentAssumption` and `NullAssumption` (NULL is no row and no name),
`RoomAssumption` (types of the parameters).

Of the rooms:

| Theorem | States |
|---|---|
| `TypeCorrect` | `Spec => []TypeOK` |
| `FreeRooms` | `Spec => []FreeIffNoBill` |
| `FailuresWhole` | `Spec => []FailureIsWhole` |
| `PrepaidRoomsClose` | `~CallbackFaults`, `Spec => []PresaleHasCloseJob` |
| `BillsBelong` | `Spec => []BillBelongsToRoom` |
| `BillsStay` | `Spec => BillNeverReplaced` |
| `RoomsSerializable` | `Spec => Serializable` |

The properties are not inductive: that a commit writes a consistent row depends on
what its transaction saw long before. The invariant `IInv` of `KtvRoomProofs` adds
what is known of every transaction on its way: the request it serves and its type;
that a snapshot's version is not newer than the row's, and that *equal versions mean
equal rows*; that a row some transaction has written is written by no other and is
still the version its snapshot shows, so the commit acts on the room as it was read;
which bills are drawn and who holds one not yet on a room, so that a new bill is new;
that a job exists exactly for a committed prepaid sale; and, for `PrepaidRoomsClose`,
that a worker whose write failed did so against a newer version of the room, whose
author left a job of its own. Each action preserves `IInv` (one step per action, one
per conjunct it disturbs), and the theorems follow. For `RoomsSerializable` the
commit points (`CreateOperateCron`, `Reply`, `FinishJob`) are shown to be `Operate`
and `Close`, all other steps to stutter.

Of the wake-ups (`CronMasterProofs`, from `CronAssumption` and `CronNull`: at least
one slot, finitely many job threads, None apart from everything else), for any number
of databases, jobs and threads, any clock and any faults:

| Theorem | States |
|---|---|
| `TypeCorrect` | `Spec => []TypeOK` |
| `IndexIsRight` | `Spec => []IndexMatchesHeap` |
| `SlotsBalance` | `Spec => []SlotsAccounted` |

Here `IInv` adds that the index holds a database's own task; that a thread past its
start has a database; that each job the master thread has still to try is active in
its snapshot and still has a row; and that a job thread's row, as it was read, has
calls left. `UpdatedRow` is the arithmetic of the loop over missed occurrences: a
finite count is never taken below 0, an unlimited one stays -1, the plan moves at most
one interval past the clock. `ScheduleKeepsIndex` and `CancelKeepsIndex` are the two
functions that touch heap and index together; `TakenSlot` and `ReleasedSlot` count.

Of the jobs (`CronJobsProofs`, from the same assumptions and on top of that `IInv`), for
any number of databases, jobs, threads and edits:

| Theorem | States |
|---|---|
| `NoMethodTwice` | `"unlock" \notin Faults`, `Spec => []MethodsNeverOverlap` |
| `NewJobsArePlanned` | `Faults` without `connect`, `finish` and `edit`, `Spec => []NewJobsPlanned` |
| `WakeupsImplementAlarms` | `Spec => WakeupsAreAlarms`, under every fault |

The premises are on the constant `Faults`: each leaves out a failure after which the
property is false, and the runs under the same faults show that states remain.

* `NoMethodTwice` needs `LockInv`: who runs a method, or has its result to write, holds the
  lock of that job's row, unless the job was unlinked after the pass had read it (the
  query that locks then finds no row, and the thread starts without a lock), and then no
  pass has the job on its list any more; so two threads never have one row.
* `NewJobsArePlanned` speaks of moments when nobody attends to a job, which no step can be
  judged by; `NobodyForgotten` says it of all moments. An active job never started is
  `Expected`: it has a wake-up in time, *or* an RPC that edits it has still to ask for
  one, *or* a thread is on its way through the reload of its registry, *or* the master
  thread is on its way to read it, or has read it as it is and not tried it yet
  (`InPass`). `SpawnInv` says that a row of such a job is locked by nobody but an editor,
  so that a job the pass skips has somebody to ask for it. One step per action.
* `WakeupsImplementAlarms` needs `RegInv`: `registries_lock` is held from before the
  deletion until after the load, and the registry whose wake-up is about to be canceled
  is not ready. Every step maps to one of
  `CronAlarms` or to a stutter: `AskMaps`, `RingMaps`, `DropMaps`, `LoadMaps`, one lemma
  for each operation of the alarm, and `AlarmStep`, which assigns the actions to
  them. That the first entry of the heap is the earliest alarm is where the agreement of
  heap and index is needed.

Of the caches (`CacheSignalsProofs`, from `SignalsAssumption`: some processes poll, the
bounds are numbers, None is not one), for any number of processes, numbers, commits,
installations and faults:

| Theorem | States |
|---|---|
| `SpecTypeOK` | `Spec => []TypeOK` |
| `SpecReadNumbersSettled` | `Spec => []ReadNumbersSettled` |
| `SpecChangesAnnounced` | `Spec => []ChangesAnnounced` |

`ReadNumbersSettled` speaks of the cache, which a transaction fills from its snapshot, so
`IInv` needs `SnapshotAfterCheck`: what a transaction of an RPC sees is not older than
the numbers its process has read, because it looks at the sequences before its first
query; `ReportBeforeCheck`: nor is what a report sees, until it is overtaken;
`FirstNumber`, with which a registry made anew under a report begins; and
`NumbersOfThePast`: a number stands for commits there are. `ChangesAnnounced`
needs `WritersClear` (who has written rows of the kind "all" has its flag up) and
`NothingPending` (between calls no flag is up, while nothing has failed). `StepIInv`
has one step per action.

Of the fees (`KtvFeesProofs`, from `ClockAssumption`: a minute has more than one second
and a day at least one minute; 60 and 1440 are not needed): `HoursAreCyclic`,
`EqualEndsLastAllDay`, `OvernightBuyoutIsOver`, `DaytimeBuyoutLasts` (within a minute of
the question), `LastMinuteBuyoutIsOver`, `PresentAtMostShare`, `NoPromotionDoubles`. The
lemmas `Division` and `DivisionMonotone` carry the arithmetic of Python's integer
division.

Of the page (`KtvClientProofs`, from `TypesAssumption`, `ClientAssumption`,
`FormsAssumption`: None is no form, and `InputsAssumption`: closing times are times), for
any number of rooms, forms, sales and refreshes:

| Theorem | States |
|---|---|
| `SpecTypeOK` | `Spec => []TypeOK` |
| `SpecNeverStranded` | `Spec => []NeverStranded` |
| `SpecSoldAsCalculated` | `Spec => []SoldAsCalculated` |

`IInv` adds `Calculated` (figures without a pair in them, and requests filed with such
figures, are one member of `computed`) and `Carried` (what the server did for the page is
what the page filed). That the page's server is the board of `KtvOccupancy` is so by
construction; that the transactions implement that board is `RoomsSerializable`.

Of payments (`KtvPaymentsProofs`, no assumptions): `AnswerBalances`,
`BuyoutStaysBalanced`, `MemberCardCovers`, `BuytimeRecordedTwice`,
`FirstAnswerShowsChange`, for all amounts. Everything follows from `PartSet`, what
setting one part does.

## 7. Model-checked only, and not modelled

Only checked by TLC: the liveness properties `EveryRequestAnswered`, `PresaleEnds`,
`RunnerKeepsChecking`, `SlotsNotWasted`, `DisplayCatchesUp` and `RoomsTakeClicks` (fairness
is out of the prover's reach), and the four refuted statements
(`PaidTimeHonoured`, `CalledOnce`, `RunnerKeepsChecking` with reloads,
`RepeatedJobsPlanned`).

Not modelled:

* the connection pool, and the "no gap" implementation of sequences;
* the tariffs (hourly, minimum and service fees, discounts): arithmetic on configuration
  rows, of which no other part depends on more than the sum;
* of the page: the dialogs that look up cards and vouchers, the panel with a room's
  details, alerts, printing and rendering;
* shutdown (`cancel_all`, `delete_all`), and a job thread whose connection breaks at
  commit;
* of reports: look-ups while the process has no registry or loads one (the thread may
  still hold the old registry), several reports at a time, writes of cached rows; and
  old-style wizards, whose dispatch neither looks at the sequences nor signals
  (`service/web_services.py`, `wizard.dispatch`);
* the caches of `ir_ui_menu` and `digits_change`, which follow the same signals;
* registers such as members and vouchers, the ORM, transports, the workflow engine,
  module loading, and the stock addons of OpenERP, which are most of the repository's
  lines and which the karaoke addon does not call (reasons in `PROJECT.json`).
