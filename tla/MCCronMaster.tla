----------------------------- MODULE MCCronMaster -----------------------------
(***************************************************************************)
(* CronMaster on small instances.                                          *)
(***************************************************************************)
EXTENDS CronMasterProps, TLC

CONSTANTS
    Calls,         \* numbercall of the jobs that are created; 0 stands for -1
    CreateTimes,   \* times they are created for
    WriteTimes     \* times a job is moved to; none: nobody edits a job

\* There is a job thread for every slot.
ASSUME Cardinality(Workers) >= MaxSlots

MCRows ==
    {r \in Rows : /\ r.state = "active" /\ r.numbercall # 0
                  /\ (IF r.numbercall < 0 THEN 0 ELSE r.numbercall) \in Calls
                  /\ r.nextcall \in CreateTimes}

MCEditStep(e) ==
    \/ \E time \in WriteTimes : Write(e, time)
    \/ Unlink(e)
    \/ UpdateRunningCron(e)
    \/ WriteTimes # {} /\ \E j \in Jobs : TryLock(e, j)
    \/ \E j \in Jobs, r \in MCRows : CreateJob(e, j, r)

MCNext ==
    \/ Tick
    \/ RunnerStep
    \/ \E t \in Threads : LoadStep(t) \/ \E d \in Dbs : Reload(t, d)
    \/ \E w \in Workers : WorkerStep(w)
    \/ \E e \in Editors : MCEditStep(e)
    \/ Fault

MCSpec     == Init /\ [][MCNext]_vars
MCFairSpec == MCSpec /\ Fairness

Symmetry ==
    Permutations(Jobs) \cup Permutations(Workers)
        \cup Permutations(Loaders) \cup Permutations(Editors)
=============================================================================
