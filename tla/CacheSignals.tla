----------------------------- MODULE CacheSignals -----------------------------
(***************************************************************************)
(* The caches of the ORM (tools.ormcache) in several server processes, and *)
(* the two database sequences by which they tell each other to drop them   *)
(* (modules/registry.py, openerp.multi_process).                           *)
(*                                                                         *)
(* Every process serves one call at a time: an RPC of a gunicorn worker    *)
(* (service/web_services.py, objects_proxy.dispatch) or a job of a process *)
(* that polls for jobs (ir_cron._acquire_job).  A call looks at the        *)
(* sequences first, runs in a transaction whose snapshot its first query   *)
(* fixes, and draws a number when it has cleared a cache.                  *)
(*                                                                         *)
(* A call may leave a report behind (report_spool.exp_report): a thread of *)
(* the process with a cursor of its own, that goes on while the process    *)
(* serves other calls.  It looks at no sequence and clears no cache; it    *)
(* fills the caches from its snapshot.  What it writes is no cached row.   *)
(*                                                                         *)
(* The cached rows count as one set: a commit that writes some of them     *)
(* makes a new version, and a cache entry is the version it was read from. *)
(* An entry of a transaction that has written counts as its snapshot.      *)
(***************************************************************************)
EXTENDS Naturals, Sequences, FiniteSets

CONSTANTS
    Procs,        \* server processes
    Crons,        \* those that poll for jobs; the others serve RPCs
    Reporters,    \* RPC workers that print reports, one at a time
    None,
    MaxCommits,   \* bound on the versions of the cached rows
    MaxNumbers,   \* bound on the numbers drawn from base_cache_signaling
    MaxInstalls,  \* bound on the numbers drawn from base_registry_signaling
    MaxFailures   \* bound on calls that fail and processes that die

ASSUME SignalsAssumption ==
    /\ Crons \subseteq Procs
    /\ Reporters \subseteq Procs \ Crons
    /\ {MaxCommits, MaxNumbers, MaxInstalls, MaxFailures} \subseteq Nat
    /\ None \notin Nat

VARIABLES
    commits,      \* how and by whom each version was written, oldest first
    drawn,        \* drawn[n]: versions there were when number n was drawn
    registrySeq,  \* last_value of base_registry_signaling
    pc,           \* process -> where its call is
    regNumber,    \* process -> base_registry_signaling_sequence; 0: no registry
    cacheNumber,  \* process -> base_cache_signaling_sequence
    cleared,      \* process -> _any_cache_cleared
    cache,        \* process -> None, or the version its entry was read from
    snapshot,     \* process -> the version its transaction sees
    written,      \* process -> what its transaction wrote of the cached rows
    printing,     \* process -> where its report is; "late" when the process has
                  \*            read a number since the report's first query
    reportSees,   \* process -> the version its report's transaction sees
    stray,        \* history: process -> its entry was left by a late report
    passed,       \* history: process -> numbers it has passed without clearing
    failures      \* calls that failed and processes that died so far

dbVars     == <<commits, drawn, registrySeq>>
cacheVars  == <<cache, stray>>
numberVars == <<regNumber, cacheNumber, cleared, cacheVars, passed>>
txVars     == <<snapshot, written>>
reportVars == <<printing, reportSees>>
vars == <<commits, drawn, registrySeq, pc, regNumber, cacheNumber, cleared,
          cache, stray, snapshot, written, passed, failures, reportVars>>

-----------------------------------------------------------------------------
Version   == Len(commits)                 \* of the committed rows
LastValue == Len(drawn)                   \* of base_cache_signaling
Announced == drawn[LastValue]             \* versions somebody drew a number for

\* How the methods that write cached rows treat the cache: clear all of it, or
\* the entry of the row written only; "none" for a call that wrote nothing.
WriteKinds == {"all", "entry"}
Commits == [kind : WriteKinds, by : Procs]

Pcs == {"idle", "boot", "load", "locked", "ready", "tx", "install", "signal"}

TypeOK ==
    /\ commits \in Seq(Commits)
    /\ drawn \in Seq(Nat)
    /\ registrySeq \in Nat
    /\ pc \in [Procs -> Pcs]
    /\ regNumber \in [Procs -> Nat]
    /\ cacheNumber \in [Procs -> 1 .. LastValue]
    /\ cleared \in [Procs -> BOOLEAN]
    /\ cache \in [Procs -> Nat \cup {None}]
    /\ snapshot \in [Procs -> Nat]
    /\ written \in [Procs -> WriteKinds \cup {"none"}]
    /\ passed \in [Procs -> SUBSET Nat]
    /\ printing \in [Procs -> {"none", "started", "tx", "late"}]
    /\ reportSees \in [Procs -> Nat]
    /\ stray \in [Procs -> BOOLEAN]
    /\ failures \in Nat

\* setup_multi_process_signaling draws the first number of both sequences.
Init ==
    /\ commits = <<>>
    /\ drawn = <<0>>
    /\ registrySeq = 1
    /\ pc = [p \in Procs |-> "idle"]
    /\ regNumber = [p \in Procs |-> 0]
    /\ cacheNumber = [p \in Procs |-> 1]
    /\ cleared = [p \in Procs |-> FALSE]
    /\ cache = [p \in Procs |-> None]
    /\ snapshot = [p \in Procs |-> 0]
    /\ written = [p \in Procs |-> "none"]
    /\ passed = [p \in Procs |-> {}]
    /\ printing = [p \in Procs |-> "none"]
    /\ reportSees = [p \in Procs |-> 0]
    /\ stray = [p \in Procs |-> FALSE]
    /\ failures = 0

Goto(p, label) == pc' = [pc EXCEPT ![p] = label]

\* Where a call goes once its process has looked at the sequences: the
\* transaction of a job is already open, with the lock on the job's row.
Checked(p) == IF p \in Crons THEN "tx" ELSE "ready"
AtCheck(p) == pc[p] = (IF p \in Crons THEN "locked" ELSE "idle")

\* A call empties the cache, or fills it.
Keep(p, entry) ==
    /\ cache' = [cache EXCEPT ![p] = entry]
    /\ stray' = [stray EXCEPT ![p] = FALSE]

\* A Registry with empty caches; its cache number is always 1.
NewRegistry(p, number, flag) ==
    /\ regNumber' = [regNumber EXCEPT ![p] = number]
    /\ cacheNumber' = [cacheNumber EXCEPT ![p] = 1]
    /\ cleared' = [cleared EXCEPT ![p] = flag]
    /\ Keep(p, None)
    /\ passed' = [passed EXCEPT ![p] = {}]

\* The transaction of p is over; its snapshot is forgotten.
EndTx(p) ==
    /\ snapshot' = [snapshot EXCEPT ![p] = 0]
    /\ written' = [written EXCEPT ![p] = "none"]

\* A report's cursor is committed and closed, whatever became of it.
NoReport(p) ==
    /\ printing' = [printing EXCEPT ![p] = "none"]
    /\ reportSees' = [reportSees EXCEPT ![p] = 0]

\* The process has no registry any more, and no call.
Gone(p) ==
    /\ NewRegistry(p, 0, FALSE)
    /\ EndTx(p)
    /\ Goto(p, "idle")

-----------------------------------------------------------------------------
(* The start of a call. *)

\* _acquire_job locks the job's row, which fixes the snapshot of the job.
LockJob(p) ==
    /\ p \in Crons /\ pc[p] = "idle"
    /\ snapshot' = [snapshot EXCEPT ![p] = Version]
    /\ Goto(p, "locked")
    /\ UNCHANGED <<dbVars, numberVars, written, failures, reportVars>>

\* RegistryManager.get, in security.check of an RPC (before it looks at the
\* sequences) and in _acquire_job (instead, where there is no registry).
GetRegistry(p) ==
    /\ AtCheck(p)
    /\ regNumber[p] = 0
    /\ regNumber' = [regNumber EXCEPT ![p] = 1]
    /\ Goto(p, IF p \in Crons THEN "load" ELSE "boot")
    /\ UNCHANGED <<dbVars, cacheNumber, cleared, cacheVars, passed, txVars,
                   failures, reportVars>>

\* RegistryManager.new is done; an RPC that had no registry now checks.
Load(p) ==
    /\ pc[p] \in {"boot", "load"}
    /\ NewRegistry(p, regNumber[p], FALSE)
    /\ Goto(p, IF pc[p] = "boot" THEN "idle" ELSE Checked(p))
    /\ UNCHANGED <<dbVars, txVars, failures, reportVars>>

\* The modules could not be loaded: new() takes the registry out again.
LoadFails(p) ==
    /\ pc[p] \in {"boot", "load"}
    /\ failures < MaxFailures
    /\ failures' = failures + 1
    /\ Gone(p)
    /\ UNCHANGED <<dbVars, reportVars>>

\* check_registry_signaling: the modules have changed, the registry is made anew.
CheckRegistry(p) ==
    /\ AtCheck(p)
    /\ regNumber[p] \notin {0, registrySeq}
    /\ regNumber' = [regNumber EXCEPT ![p] = registrySeq]
    /\ Goto(p, "load")
    /\ UNCHANGED <<dbVars, cacheNumber, cleared, cacheVars, passed, txVars,
                   failures, reportVars>>

\* Variants: the caches stay; the number after the last one is noted.
KeepCaches(p) ==
    /\ cacheNumber' = [cacheNumber EXCEPT ![p] = LastValue]
    /\ cleared' = [cleared EXCEPT ![p] = FALSE]
    /\ passed' = [passed EXCEPT ![p] = {}]
    /\ UNCHANGED cacheVars
TakeNextNumber(p) ==
    /\ cacheNumber' = [cacheNumber EXCEPT ![p] = LastValue + 1]
    /\ Keep(p, None)
    /\ cleared' = [cleared EXCEPT ![p] = FALSE]
    /\ passed' = [passed EXCEPT ![p] = {}]

\* check_registry_signaling: a number was drawn, all caches are cleared.
ClearCaches(p) ==
    /\ cacheNumber' = [cacheNumber EXCEPT ![p] = LastValue]
    /\ Keep(p, None)
    /\ cleared' = [cleared EXCEPT ![p] = FALSE]
    /\ passed' = [passed EXCEPT ![p] = {}]

\* A report that has begun keeps its snapshot, older than the number read.
OvertakeReport(p) ==
    printing' = [printing EXCEPT ![p] = IF @ = "tx" THEN "late" ELSE @]

CheckCaches(p) ==
    /\ AtCheck(p)
    /\ regNumber[p] = registrySeq
    /\ IF cacheNumber[p] # LastValue
       THEN ClearCaches(p) /\ OvertakeReport(p)
       ELSE UNCHANGED <<cacheNumber, cacheVars, cleared, passed, printing>>
    /\ Goto(p, Checked(p))
    /\ UNCHANGED <<dbVars, regNumber, txVars, failures, reportSees>>

-----------------------------------------------------------------------------
(* The transaction of a call. *)

\* The first query of the cursor, or of what follows a commit.
Begin(p) ==
    /\ pc[p] = "ready"
    /\ snapshot' = [snapshot EXCEPT ![p] = Version]
    /\ Goto(p, "tx")
    /\ UNCHANGED <<dbVars, numberVars, written, failures, reportVars>>

\* ormcache.lookup misses and keeps what the transaction sees; a report may
\* have filled the cache between the miss and that.
Lookup(p) ==
    /\ pc[p] = "tx"
    /\ cache[p] = None \/ printing[p] # "none"
    /\ Keep(p, snapshot[p])
    /\ UNCHANGED <<dbVars, pc, regNumber, cacheNumber, cleared, passed, txVars,
                   failures,
                   reportVars>>

\* The bounds: a number is left for every process that will draw one, and a
\* version for every transaction that has written.
MayWrite(p) ==
    /\ LastValue + Cardinality({q \in Procs \ {p} : cleared[q]}) < MaxNumbers
    /\ Version + Cardinality({q \in Procs \ {p} : written[q] # "none"}) < MaxCommits

\* ir_rule.write and most others write and then clear the cache.
WriteThenClear(p) ==
    /\ pc[p] = "tx" /\ MayWrite(p)
    /\ written' = [written EXCEPT ![p] = "all"]
    /\ Keep(p, None)
    /\ cleared' = [cleared EXCEPT ![p] = TRUE]
    /\ UNCHANGED <<dbVars, pc, regNumber, cacheNumber, passed, snapshot, failures,
                   reportVars>>

\* ir_model_access.write clears first, and the write that follows asks the same
\* cache whether the user may write: the old rights are cached again.
ClearThenWrite(p) ==
    /\ pc[p] = "tx" /\ MayWrite(p)
    /\ written' = [written EXCEPT ![p] = "all"]
    /\ \E entry \in {None, snapshot[p]} : Keep(p, entry)
    /\ cleared' = [cleared EXCEPT ![p] = TRUE]
    /\ UNCHANGED <<dbVars, pc, regNumber, cacheNumber, passed, snapshot, failures,
                   reportVars>>

\* ir_translation.write clears one entry; ormcache.clear sets the flag only
\* when this process held it.
ClearEntry(p) ==
    /\ pc[p] = "tx" /\ MayWrite(p)
    /\ written' = [written EXCEPT ![p] = IF @ = "all" THEN "all" ELSE "entry"]
    /\ Keep(p, None)
    /\ cleared' = [cleared EXCEPT ![p] = @ \/ cache[p] # None]
    /\ UNCHANGED <<dbVars, pc, regNumber, cacheNumber, passed, snapshot, failures,
                   reportVars>>

\* What a COMMIT of p makes of the rows.
CommitRows(p) ==
    /\ commits' = IF written[p] = "none" THEN commits
                  ELSE Append(commits, [kind |-> written[p], by |-> p])
    /\ EndTx(p)

\* ir_cron.update_running_cron commits in the middle of the call.
CommitMidway(p) ==
    /\ pc[p] = "tx"
    /\ CommitRows(p)
    /\ Goto(p, "ready")
    /\ UNCHANGED <<drawn, registrySeq, numberVars, failures, reportVars>>

Commit(p) ==
    /\ pc[p] = "tx"
    /\ CommitRows(p)
    /\ Goto(p, "signal")
    /\ UNCHANGED <<drawn, registrySeq, numberVars, failures, reportVars>>

\* The method raises and execute() rolls back: dispatch() draws no number.  A
\* job's exception is swallowed by _callback, and the number is drawn.
Raise(p) ==
    /\ pc[p] = "tx"
    /\ failures < MaxFailures
    /\ failures' = failures + 1
    /\ EndTx(p)
    /\ Goto(p, IF p \in Crons THEN "signal" ELSE "idle")
    /\ UNCHANGED <<dbVars, numberVars, reportVars>>

-----------------------------------------------------------------------------
(* Telling the others. *)

\* Variant: the flag is reset and no number is drawn.
ResetFlag(p) ==
    /\ pc[p] = "signal"
    /\ cleared' = [cleared EXCEPT ![p] = FALSE]
    /\ Goto(p, "idle")
    /\ UNCHANGED <<dbVars, regNumber, cacheNumber, cacheVars, passed, txVars,
                   failures,
                   reportVars>>

\* signal_caches_change: nextval, and the number is taken for one's own,
\* whatever numbers were drawn since the process last looked.
SignalCaches(p) ==
    /\ pc[p] = "signal"
    /\ IF cleared[p]
       THEN /\ drawn' = Append(drawn, Version)
            /\ cacheNumber' = [cacheNumber EXCEPT ![p] = LastValue + 1]
            /\ passed' = [passed EXCEPT ![p] =
                             @ \cup (cacheNumber[p] + 1) .. (LastValue + 1)]
            /\ cleared' = [cleared EXCEPT ![p] = FALSE]
       ELSE UNCHANGED <<drawn, cacheNumber, passed, cleared>>
    /\ Goto(p, "idle")
    /\ UNCHANGED <<commits, registrySeq, regNumber, cacheVars, txVars, failures,
                   reportVars>>

\* There is no cursor to be had: the flag stays up for a later call.
SignalFails(p) ==
    /\ pc[p] = "signal" /\ cleared[p]
    /\ failures < MaxFailures
    /\ failures' = failures + 1
    /\ Goto(p, "idle")
    /\ UNCHANGED <<dbVars, numberVars, txVars, reportVars>>

\* button_immediate_install: the modules to install are marked and announced
\* (button_install, signal_registry_change), ...
InstallSignal(p) ==
    /\ p \notin Crons /\ pc[p] = "tx" /\ written[p] = "none"
    /\ MayWrite(p) /\ registrySeq <= MaxInstalls
    /\ registrySeq' = registrySeq + 1
    /\ regNumber' = [regNumber EXCEPT ![p] = registrySeq + 1]
    /\ EndTx(p)
    /\ Goto(p, "install")
    /\ UNCHANGED <<commits, drawn, cacheNumber, cleared, cacheVars, passed, failures,
                   reportVars>>

\* ... then a new registry loads their data, cached rows among them, and the
\* call goes on with it.
InstallLoad(p) ==
    /\ pc[p] = "install"
    /\ MayWrite(p)
    /\ commits' = Append(commits, [kind |-> "all", by |-> p])
    /\ NewRegistry(p, 1, TRUE)
    /\ Goto(p, "ready")
    /\ UNCHANGED <<drawn, registrySeq, txVars, failures, reportVars>>

\* A process is killed wherever it is, and started again.
Die(p) ==
    /\ regNumber[p] # 0
    /\ failures < MaxFailures
    /\ failures' = failures + 1
    /\ Gone(p)
    /\ NoReport(p)
    /\ UNCHANGED dbVars

-----------------------------------------------------------------------------
(* A report: the thread that a call to exp_report leaves behind. *)

StartReport(p) ==
    /\ p \in Reporters
    /\ pc[p] = "ready" /\ printing[p] = "none"
    /\ printing' = [printing EXCEPT ![p] = "started"]
    /\ UNCHANGED <<dbVars, pc, numberVars, txVars, failures, reportSees>>

\* The first query of its cursor; it makes no look at the sequences before.
BeginReport(p) ==
    /\ printing[p] = "started"
    /\ printing' = [printing EXCEPT ![p] = "tx"]
    /\ reportSees' = [reportSees EXCEPT ![p] = Version]
    /\ UNCHANGED <<dbVars, pc, numberVars, txVars, failures>>

\* ormcache.lookup in the report's transaction, whatever calls have cleared or
\* filled since it began, or since it missed.
ReportLookup(p) ==
    /\ printing[p] \in {"tx", "late"}
    /\ regNumber[p] # 0
    /\ cache' = [cache EXCEPT ![p] = reportSees[p]]
    /\ stray' = [stray EXCEPT ![p] = (printing[p] = "late")]
    /\ UNCHANGED <<dbVars, pc, regNumber, cacheNumber, cleared, passed, txVars,
                   failures,
                   reportVars>>

EndReport(p) ==
    /\ printing[p] # "none"
    /\ NoReport(p)
    /\ UNCHANGED <<dbVars, pc, numberVars, txVars, failures>>

-----------------------------------------------------------------------------
StartStep(p) ==
    \/ LockJob(p) \/ GetRegistry(p) \/ Load(p) \/ LoadFails(p)
    \/ CheckRegistry(p) \/ CheckCaches(p)

CallStep(p) ==
    \/ Begin(p) \/ Lookup(p)
    \/ WriteThenClear(p) \/ ClearThenWrite(p) \/ ClearEntry(p)
    \/ CommitMidway(p) \/ Commit(p) \/ Raise(p)

EndStep(p) ==
    \/ SignalCaches(p) \/ SignalFails(p)
    \/ InstallSignal(p) \/ InstallLoad(p) \/ Die(p)

ReportStep(p) ==
    StartReport(p) \/ BeginReport(p) \/ ReportLookup(p) \/ EndReport(p)

Next == \E p \in Procs : StartStep(p) \/ CallStep(p) \/ EndStep(p) \/ ReportStep(p)

Spec == Init /\ [][Next]_vars
=============================================================================
