------------------------------ MODULE CronAlarms ------------------------------
(***************************************************************************)
(* What openerp.cron promises those who ask it to wake up for a database:  *)
(* each database has at most one alarm; of two that are asked for the      *)
(* earlier stays; the earliest of all rings first, and none before its     *)
(* time; nothing but an unloaded registry makes an alarm go away.          *)
(*                                                                         *)
(* There is no heap, no index, no lock and no canceled entry here: module  *)
(* CronMaster implements this one with them.                               *)
(***************************************************************************)
EXTENDS Integers

CONSTANTS
    Dbs,            \* database names
    AlarmTimes,     \* times that are asked for
    None

VARIABLES
    now,            \* the clock
    alarm,          \* database -> when it is woken up for, or None
    loaded          \* databases whose registry is complete

alarmVars == <<now, alarm, loaded>>

AlarmInit ==
    /\ alarm \in [Dbs -> AlarmTimes \cup {None}]
    /\ loaded = Dbs

\* Of the wake-up that is planned and the one asked for, the earlier stays.
Ask(d, time) ==
    /\ \/ alarm[d] # None /\ alarm[d] < time /\ UNCHANGED alarm
       \/ alarm[d] = None /\ alarm' = [alarm EXCEPT ![d] = time]
       \/ alarm[d] # None /\ time <= alarm[d] /\ alarm' = [alarm EXCEPT ![d] = time]
    /\ UNCHANGED <<now, loaded>>

\* The wake-up of a database that is unloaded is canceled.
Drop(d) ==
    /\ d \notin loaded
    /\ alarm' = [alarm EXCEPT ![d] = None]
    /\ UNCHANGED <<now, loaded>>

\* The master thread takes up the next wake-up that is due.
Ring(d) ==
    /\ alarm[d] # None /\ alarm[d] <= now
    /\ \A e \in Dbs : alarm[e] # None => alarm[d] <= alarm[e]
    /\ alarm' = [alarm EXCEPT ![d] = None]
    /\ UNCHANGED <<now, loaded>>

Load(d) ==
    /\ loaded' \in {loaded \cup {d}, loaded \ {d}}
    /\ UNCHANGED <<now, alarm>>

Pass ==
    /\ now' = now + 1
    /\ UNCHANGED <<alarm, loaded>>

AlarmNext ==
    \/ Pass
    \/ \E d \in Dbs : Load(d) \/ Drop(d) \/ Ring(d) \/ \E time \in AlarmTimes : Ask(d, time)

AlarmSpec == AlarmInit /\ [][AlarmNext]_alarmVars
=============================================================================
