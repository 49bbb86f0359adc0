-------------------------- MODULE CacheSignalsProps --------------------------
(***************************************************************************)
(* What is checked, and partly proved, of CacheSignals.                    *)
(***************************************************************************)
EXTENDS CacheSignals

\* The entry of p's cache shows the first n versions of the cached rows.
Shows(p, n) == cache[p] = None \/ cache[p] >= n

\* A number that a process has read is settled: whatever transactions were
\* open, rolled back or killed meanwhile, its cache never again shows the rows
\* as they were before the commits that number stands for (registry.py,
\* check_registry_signaling).  The one way back is a report that began before
\* the number was read and keeps its own old rows after that (tools/cache.py,
\* lookup): no call brings them back, nor any other report.  Numbers the process
\* drew itself, and those it passed over by drawing, are not read; a process
\* that polls for jobs gives no guarantee, its snapshot is older than its look
\* at the sequences.
ReadNumbersSettled ==
    \A p \in Procs \ Crons : ~stray[p] =>
        \A n \in 1 .. cacheNumber[p] : n \notin passed[p] => Shows(p, drawn[n])

\* As long as no call fails and no process dies, a committed change of cached
\* rows that has no number yet has a process on its way to draw one - also
\* when calls commit midway or install modules, and whoever clears its caches
\* in between.  Changes for which one entry was cleared are not covered: the
\* flag goes up only where the entry was held.
ChangesAnnounced ==
    failures = 0 =>
        \A v \in Announced + 1 .. Version : commits[v].kind = "all" =>
            \E p \in Procs :
                pc[p] \in {"ready", "tx", "install", "signal"} /\ cleared[p]
=============================================================================
