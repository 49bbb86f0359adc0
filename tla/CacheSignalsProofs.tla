-------------------------- MODULE CacheSignalsProofs --------------------------
(***************************************************************************)
(* ReadNumbersSettled and ChangesAnnounced, for every number of processes. *)
(***************************************************************************)
EXTENDS CacheSignalsProps, TLAPS

\* Steps of a transaction, and where a call is on its way to draw a number.
OnItsWay == {"ready", "tx", "install", "signal"}

\* A number stands for commits there are.
NumbersOfThePast == \A n \in 1 .. LastValue : drawn[n] <= Version

\* What a transaction sees is not older than the numbers its process has read:
\* an RPC looks at the sequences before its first query.
SnapshotAfterCheck ==
    \A p \in Procs \ Crons : pc[p] = "tx" =>
        \A n \in 1 .. cacheNumber[p] : n \notin passed[p] => drawn[n] <= snapshot[p]

\* The first number, of setup_multi_process_signaling, stands for no commit; a
\* registry made anew begins with it.
FirstNumber == drawn[1] = 0

\* Nor is what a report sees, until its process has read a number meanwhile.
ReportBeforeCheck ==
    \A p \in Procs \ Crons : printing[p] = "tx" =>
        \A n \in 1 .. cacheNumber[p] : n \notin passed[p] => drawn[n] <= reportSees[p]

\* Rows of the kind "all" are written by transactions whose process will signal.
WritersClear ==
    \A p \in Procs : written[p] = "all" => pc[p] = "tx" /\ cleared[p]

\* Between calls nothing is left to announce, unless a call has failed.
NothingPending ==
    failures = 0 => \A p \in Procs : pc[p] \notin OnItsWay => ~cleared[p]

IInv ==
    /\ TypeOK
    /\ NumbersOfThePast
    /\ FirstNumber
    /\ SnapshotAfterCheck
    /\ ReportBeforeCheck
    /\ ReadNumbersSettled
    /\ WritersClear
    /\ NothingPending
    /\ ChangesAnnounced

-----------------------------------------------------------------------------
(* Appending to a sequence. *)

LEMMA AppendFacts ==
    ASSUME NEW S, NEW s \in Seq(S), NEW e \in S
    PROVE  /\ Append(s, e) \in Seq(S)
           /\ Len(Append(s, e)) = Len(s) + 1
           /\ Append(s, e)[Len(s) + 1] = e
           /\ \A i \in 1 .. Len(s) : Append(s, e)[i] = s[i]
    OBVIOUS

LEMMA InitIInv == Init => IInv
<1> SUFFICES ASSUME Init PROVE IInv
  OBVIOUS
<1> USE SignalsAssumption
<1>1. TypeOK
  BY DEF Init, TypeOK, LastValue, Pcs, WriteKinds
<1>2. LastValue = 1 /\ drawn[1] = 0 /\ Version = 0
  BY DEF Init, LastValue, Version
<1> QED
  BY <1>1, <1>2 DEF Init, IInv, NumbersOfThePast, FirstNumber, SnapshotAfterCheck,
     ReportBeforeCheck, ReadNumbersSettled, Shows, WritersClear, NothingPending, ChangesAnnounced,
     Announced, OnItsWay

-----------------------------------------------------------------------------
(* Every step preserves every part of the invariant. *)

StepOf(p) == StartStep(p) \/ CallStep(p) \/ EndStep(p) \/ ReportStep(p)

LEMMA TypeOKStep ==
    ASSUME TypeOK, NEW p \in Procs, StepOf(p)
    PROVE  TypeOK'
<1> USE SignalsAssumption DEF TypeOK, Pcs, WriteKinds, Version, LastValue, Goto, dbVars, numberVars,
           cacheVars, txVars, reportVars, Keep
<1>1. CASE LockJob(p)
  BY <1>1, SMTT(20) DEF LockJob
<1>2. CASE GetRegistry(p)
  BY <1>2 DEF GetRegistry, AtCheck
<1>3. CASE Load(p)
  BY <1>3, SMTT(20) DEF Load, NewRegistry, Checked
<1>4. CASE LoadFails(p)
  BY <1>4, SMTT(20) DEF LoadFails, Gone, NewRegistry, EndTx
<1>5. CASE CheckRegistry(p)
  BY <1>5 DEF CheckRegistry, AtCheck
<1>6. CASE CheckCaches(p)
  <2>1. /\ pc' = [pc EXCEPT ![p] = Checked(p)]
        /\ UNCHANGED <<dbVars, regNumber, txVars, failures, reportSees>>
    BY <1>6 DEF CheckCaches
  <2>2. CASE cacheNumber[p] # LastValue
    <3>1. LastValue \in 1 .. LastValue /\ LastValue' = LastValue
      BY <2>1
    <3>2. ClearCaches(p)
      BY <1>6, <2>2 DEF CheckCaches
    <3>3. cacheNumber' \in [Procs -> 1 .. LastValue']
      BY <3>1, <3>2 DEF ClearCaches
    <3>4. printing' \in [Procs -> {"none", "started", "tx", "late"}]
      BY <1>6, <2>2 DEF CheckCaches, OvertakeReport
    <3> QED
      BY <2>1, <3>2, <3>3, <3>4, SMTT(20) DEF ClearCaches, Checked
  <2>3. CASE cacheNumber[p] = LastValue
    BY <1>6, <2>1, <2>3 DEF CheckCaches, Checked
  <2> QED
    BY <2>2, <2>3
<1>7. CASE Begin(p)
  BY <1>7, SMTT(20) DEF Begin
<1>8. CASE Lookup(p)
  BY <1>8 DEF Lookup
<1>9. CASE WriteThenClear(p)
  BY <1>9 DEF WriteThenClear
<1>10. CASE ClearThenWrite(p)
  BY <1>10 DEF ClearThenWrite
<1>11. CASE ClearEntry(p)
  BY <1>11 DEF ClearEntry
<1>12. CASE CommitMidway(p)
  <2>1. written[p] # "none" => [kind |-> written[p], by |-> p] \in Commits
    BY DEF Commits
  <2>2. commits' \in Seq(Commits)
    BY <1>12, <2>1, AppendFacts DEF CommitMidway, CommitRows
  <2> QED
    BY <1>12, <2>2 DEF CommitMidway, CommitRows, EndTx
<1>13. CASE Commit(p)
  <2>1. written[p] # "none" => [kind |-> written[p], by |-> p] \in Commits
    BY DEF Commits
  <2>2. commits' \in Seq(Commits)
    BY <1>13, <2>1, AppendFacts DEF Commit, CommitRows
  <2> QED
    BY <1>13, <2>2 DEF Commit, CommitRows, EndTx
<1>14. CASE Raise(p)
  BY <1>14, SMTT(20) DEF Raise, EndTx
<1>15. CASE SignalCaches(p)
  <2>1. /\ pc' = [pc EXCEPT ![p] = "idle"]
        /\ UNCHANGED <<commits, registrySeq, regNumber, cacheVars, txVars, failures, reportVars>>
    BY <1>15 DEF SignalCaches
  <2>2. CASE cleared[p]
    <3>1. /\ drawn' = Append(drawn, Version)
          /\ cacheNumber' = [cacheNumber EXCEPT ![p] = LastValue + 1]
          /\ passed' = [passed EXCEPT ![p] =
                             @ \cup (cacheNumber[p] + 1) .. (LastValue + 1)]
          /\ cleared' = [cleared EXCEPT ![p] = FALSE]
      BY <1>15, <2>2 DEF SignalCaches
    <3>2. drawn' \in Seq(Nat) /\ LastValue' = LastValue + 1
      BY <3>1, AppendFacts
    <3>3. LastValue \in Nat /\ 1 .. LastValue \subseteq 1 .. (LastValue + 1)
      OBVIOUS
    <3>4. cacheNumber' \in [Procs -> 1 .. LastValue']
      BY <3>1, <3>2, <3>3
    <3>5. (cacheNumber[p] + 1) .. (LastValue + 1) \subseteq Nat
      OBVIOUS
    <3>6. passed' \in [Procs -> SUBSET Nat]
      BY <3>1, <3>5
    <3> QED
      BY <2>1, <3>1, <3>2, <3>4, <3>6
  <2>3. CASE ~cleared[p]
    <3>1. UNCHANGED <<drawn, cacheNumber, passed, cleared>>
      BY <1>15, <2>3 DEF SignalCaches
    <3> QED
      BY <2>1, <3>1
  <2> QED
    BY <2>2, <2>3
<1>16. CASE SignalFails(p)
  <2>1. /\ pc' = [pc EXCEPT ![p] = "idle"]
        /\ failures' = failures + 1
        /\ UNCHANGED <<dbVars, numberVars, txVars, reportVars>>
    BY <1>16 DEF SignalFails
  <2> QED
    BY <2>1, SMTT(20)
<1>17. CASE InstallSignal(p)
  BY <1>17, SMTT(20) DEF InstallSignal, EndTx
<1>18. CASE InstallLoad(p)
  <2>1. commits' \in Seq(Commits)
    BY <1>18, AppendFacts DEF InstallLoad, Commits
  <2>2. /\ pc' = [pc EXCEPT ![p] = "ready"]
        /\ UNCHANGED <<drawn, registrySeq, txVars, failures, reportVars>>
    BY <1>18 DEF InstallLoad
  <2>3. /\ regNumber' = [regNumber EXCEPT ![p] = 1]
        /\ cacheNumber' = [cacheNumber EXCEPT ![p] = 1]
        /\ cleared' = [cleared EXCEPT ![p] = TRUE]
        /\ cache' = [cache EXCEPT ![p] = None]
        /\ stray' = [stray EXCEPT ![p] = FALSE]
        /\ passed' = [passed EXCEPT ![p] = {}]
    BY <1>18 DEF InstallLoad, NewRegistry
  <2> QED
    BY <2>1, <2>2, <2>3, SMTT(20)
<1>19. CASE Die(p)
  BY <1>19, SMTT(20) DEF Die, Gone, NewRegistry, EndTx, NoReport
<1>20. CASE ReportStep(p)
  <2>1. CASE StartReport(p)
    BY <2>1 DEF StartReport
  <2>2. CASE BeginReport(p)
    BY <2>2, SMTT(20) DEF BeginReport
  <2>3. CASE ReportLookup(p)
    <3>1. (printing[p] = "late") \in BOOLEAN
      OBVIOUS
    <3> QED
      BY <2>3, <3>1, SMTT(20) DEF ReportLookup
  <2>4. CASE EndReport(p)
    BY <2>4 DEF EndReport, NoReport
  <2> QED
    BY <1>20, <2>1, <2>2, <2>3, <2>4 DEF ReportStep
<1> QED
  BY <1>1, <1>2, <1>3, <1>4, <1>5, <1>6, <1>7, <1>8, <1>9, <1>10, <1>11, <1>12,
     <1>13, <1>14, <1>15, <1>16, <1>17, <1>18, <1>19,
     <1>20 DEF StepOf, StartStep, CallStep, EndStep

\* A report touches nothing but the cache.
LEMMA ReportFrame ==
    ASSUME NEW p \in Procs, ReportStep(p)
    PROVE  UNCHANGED <<commits, drawn, registrySeq, pc, regNumber, cacheNumber,
                       cleared, passed, snapshot, written, failures>>
  BY DEF ReportStep, StartReport, BeginReport, ReportLookup, EndReport, NoReport,
         dbVars, numberVars, txVars

\* A step adds versions and numbers and changes none there is.
LEMMA Growth ==
    ASSUME TypeOK, NEW p \in Procs, StepOf(p)
    PROVE  /\ \/ commits' = commits
              \/ \E c \in Commits : commits' = Append(commits, c)
           /\ drawn' = drawn \/ drawn' = Append(drawn, Version)
<1> USE DEF dbVars
<1>1. CASE LockJob(p)
  BY <1>1 DEF LockJob
<1>2. CASE GetRegistry(p)
  BY <1>2 DEF GetRegistry, AtCheck
<1>3. CASE Load(p)
  BY <1>3 DEF Load, NewRegistry, Checked
<1>4. CASE LoadFails(p)
  BY <1>4 DEF LoadFails, Gone, NewRegistry, EndTx
<1>5. CASE CheckRegistry(p)
  BY <1>5 DEF CheckRegistry, AtCheck
<1>6. CASE CheckCaches(p)
  BY <1>6 DEF CheckCaches, AtCheck, Checked, ClearCaches
<1>7. CASE Begin(p)
  BY <1>7 DEF Begin
<1>8. CASE Lookup(p)
  BY <1>8 DEF Lookup
<1>9. CASE WriteThenClear(p)
  BY <1>9 DEF WriteThenClear
<1>10. CASE ClearThenWrite(p)
  BY <1>10 DEF ClearThenWrite
<1>11. CASE ClearEntry(p)
  BY <1>11 DEF ClearEntry
<1>12. CASE CommitMidway(p)
  <2>1. written[p] # "none" => [kind |-> written[p], by |-> p] \in Commits
    BY DEF TypeOK, Commits
  <2> QED
    BY <1>12, <2>1 DEF CommitMidway, CommitRows
<1>13. CASE Commit(p)
  <2>1. written[p] # "none" => [kind |-> written[p], by |-> p] \in Commits
    BY DEF TypeOK, Commits
  <2> QED
    BY <1>13, <2>1 DEF Commit, CommitRows
<1>14. CASE Raise(p)
  BY <1>14 DEF Raise, EndTx
<1>15. CASE SignalCaches(p)
  BY <1>15 DEF SignalCaches
<1>16. CASE SignalFails(p)
  BY <1>16 DEF SignalFails
<1>17. CASE InstallSignal(p)
  BY <1>17 DEF InstallSignal, EndTx
<1>18. CASE InstallLoad(p)
  <2>1. [kind |-> "all", by |-> p] \in Commits
    BY DEF Commits, WriteKinds
  <2> QED
    BY <1>18, <2>1 DEF InstallLoad
<1>19. CASE Die(p)
  BY <1>19 DEF Die, Gone, NewRegistry, EndTx
<1>20. CASE ReportStep(p)
  BY <1>20, ReportFrame
<1> QED
  BY <1>1, <1>2, <1>3, <1>4, <1>5, <1>6, <1>7, <1>8, <1>9, <1>10, <1>11, <1>12,
     <1>13, <1>14, <1>15, <1>16, <1>17, <1>18, <1>19,
     <1>20 DEF StepOf, StartStep, CallStep, EndStep

LEMMA GrowthFacts ==
    ASSUME TypeOK, NEW p \in Procs, StepOf(p)
    PROVE  /\ Version \in Nat /\ Version' \in Nat /\ Version <= Version'
           /\ LastValue \in Nat /\ LastValue' \in Nat /\ LastValue <= LastValue'
           /\ \A n \in 1 .. LastValue : drawn'[n] = drawn[n]
           /\ \A v \in 1 .. Version : commits'[v] = commits[v]
<1>1. commits \in Seq(Commits) /\ drawn \in Seq(Nat)
  BY DEF TypeOK
<1>2. /\ Version \in Nat /\ Version' \in Nat /\ Version <= Version'
      /\ \A v \in 1 .. Version : commits'[v] = commits[v]
  <2>1. CASE commits' = commits
    BY <1>1, <2>1 DEF Version
  <2>2. CASE \E c \in Commits : commits' = Append(commits, c)
    <3>1. PICK c \in Commits : commits' = Append(commits, c)
      BY <2>2
    <3> QED
      BY <1>1, <3>1, AppendFacts DEF Version
  <2> QED
    BY <2>1, <2>2, Growth
<1>3. /\ LastValue \in Nat /\ LastValue' \in Nat /\ LastValue <= LastValue'
      /\ \A n \in 1 .. LastValue : drawn'[n] = drawn[n]
  <2>1. CASE drawn' = drawn
    BY <1>1, <2>1 DEF LastValue
  <2>2. CASE drawn' = Append(drawn, Version)
    BY <1>1, <1>2, <2>2, AppendFacts DEF LastValue
  <2> QED
    BY <2>1, <2>2, Growth
<1> QED
  BY <1>2, <1>3

LEMMA NumbersStep ==
    ASSUME TypeOK, NumbersOfThePast, NEW p \in Procs, StepOf(p)
    PROVE  NumbersOfThePast'
<1>1. drawn \in Seq(Nat)
  BY DEF TypeOK
<1>2. CASE drawn' = drawn
  BY <1>1, <1>2, GrowthFacts DEF NumbersOfThePast, LastValue
<1>3. CASE drawn' = Append(drawn, Version)
  <2>1. LastValue' = LastValue + 1 /\ drawn'[LastValue + 1] = Version
    BY <1>1, <1>3, GrowthFacts, AppendFacts DEF LastValue
  <2> SUFFICES ASSUME NEW n \in 1 .. LastValue' PROVE drawn'[n] <= Version'
    BY DEF NumbersOfThePast
  <2>2. CASE n = LastValue + 1
    BY <2>1, <2>2, GrowthFacts
  <2>3. CASE n \in 1 .. LastValue
    <3>1. drawn[n] <= Version /\ drawn[n] \in Nat
      BY <1>1, <2>3 DEF NumbersOfThePast, LastValue
    <3> QED
      BY <2>3, <3>1, GrowthFacts
  <2> QED
    BY <2>1, <2>2, <2>3, GrowthFacts
<1> QED
  BY <1>2, <1>3, Growth

\* A step of p leaves the other processes alone.
LEMMA OthersUntouched ==
    ASSUME TypeOK, NEW p \in Procs, StepOf(p), NEW q \in Procs, q # p
    PROVE  /\ pc'[q] = pc[q] /\ cacheNumber'[q] = cacheNumber[q]
           /\ cache'[q] = cache[q] /\ passed'[q] = passed[q]
           /\ snapshot'[q] = snapshot[q] /\ written'[q] = written[q]
           /\ cleared'[q] = cleared[q] /\ stray'[q] = stray[q]
           /\ printing'[q] = printing[q] /\ reportSees'[q] = reportSees[q]
<1> USE DEF TypeOK, Goto, dbVars, numberVars,
           cacheVars, txVars, reportVars, Keep
<1>1. CASE LockJob(p)
  BY <1>1 DEF LockJob
<1>2. CASE GetRegistry(p)
  BY <1>2 DEF GetRegistry, AtCheck
<1>3. CASE Load(p)
  BY <1>3 DEF Load, NewRegistry, Checked
<1>4. CASE LoadFails(p)
  BY <1>4 DEF LoadFails, Gone, NewRegistry, EndTx
<1>5. CASE CheckRegistry(p)
  BY <1>5 DEF CheckRegistry, AtCheck
<1>6. CASE CheckCaches(p)
  BY <1>6 DEF CheckCaches, AtCheck, Checked, ClearCaches, OvertakeReport
<1>7. CASE Begin(p)
  BY <1>7 DEF Begin
<1>8. CASE Lookup(p)
  BY <1>8 DEF Lookup
<1>9. CASE WriteThenClear(p)
  BY <1>9 DEF WriteThenClear
<1>10. CASE ClearThenWrite(p)
  BY <1>10 DEF ClearThenWrite
<1>11. CASE ClearEntry(p)
  BY <1>11 DEF ClearEntry
<1>12. CASE CommitMidway(p)
  BY <1>12 DEF CommitMidway, CommitRows, EndTx
<1>13. CASE Commit(p)
  BY <1>13 DEF Commit, CommitRows, EndTx
<1>14. CASE Raise(p)
  BY <1>14 DEF Raise, EndTx
<1>15. CASE SignalCaches(p)
  BY <1>15 DEF SignalCaches
<1>16. CASE SignalFails(p)
  BY <1>16 DEF SignalFails
<1>17. CASE InstallSignal(p)
  BY <1>17 DEF InstallSignal, EndTx
<1>18. CASE InstallLoad(p)
  BY <1>18 DEF InstallLoad, NewRegistry
<1>19. CASE Die(p)
  BY <1>19 DEF Die, Gone, NewRegistry, EndTx, NoReport
<1>20. CASE ReportStep(p)
  BY <1>20 DEF ReportStep, StartReport, BeginReport, ReportLookup, EndReport, NoReport
<1> QED
  BY <1>1, <1>2, <1>3, <1>4, <1>5, <1>6, <1>7, <1>8, <1>9, <1>10, <1>11, <1>12,
     <1>13, <1>14, <1>15, <1>16, <1>17, <1>18, <1>19,
     <1>20 DEF StepOf, StartStep, CallStep, EndStep

-----------------------------------------------------------------------------
(* Numbers that were read are settled. *)

SettledAt(p) ==
    ~stray[p] =>
        \A n \in 1 .. cacheNumber[p] : n \notin passed[p] => Shows(p, drawn[n])

SeesReadAt(p) ==
    pc[p] = "tx" =>
        \A n \in 1 .. cacheNumber[p] : n \notin passed[p] => drawn[n] <= snapshot[p]

ReportSeesReadAt(p) ==
    printing[p] = "tx" =>
        \A n \in 1 .. cacheNumber[p] : n \notin passed[p] => drawn[n] <= reportSees[p]

\* Nothing that matters to p has changed.
Same(p) ==
    /\ cacheNumber'[p] = cacheNumber[p] /\ passed'[p] = passed[p]
    /\ cache'[p] = cache[p] /\ stray'[p] = stray[p]

LEMMA SettledSame ==
    ASSUME TypeOK, NEW q \in Procs, NEW p \in Procs, StepOf(q),
           SettledAt(p), Same(p)
    PROVE  SettledAt(p)'
<1>1. \A n \in 1 .. cacheNumber[p] : drawn'[n] = drawn[n]
  <2>1. cacheNumber[p] \in 1 .. LastValue
    BY DEF TypeOK
  <2> QED
    BY <2>1, GrowthFacts
<1> QED
  BY <1>1 DEF SettledAt, Same, Shows

LEMMA SeesReadSame ==
    ASSUME TypeOK, NEW q \in Procs, NEW p \in Procs, StepOf(q), SeesReadAt(p),
           pc[p] = "tx", snapshot'[p] = snapshot[p],
           cacheNumber'[p] = cacheNumber[p], passed'[p] = passed[p]
    PROVE  SeesReadAt(p)'
<1>1. \A n \in 1 .. cacheNumber[p] : drawn'[n] = drawn[n]
  <2>1. cacheNumber[p] \in 1 .. LastValue
    BY DEF TypeOK
  <2> QED
    BY <2>1, GrowthFacts
<1> QED
  BY <1>1 DEF SeesReadAt

LEMMA ReportSeesSame ==
    ASSUME TypeOK, NEW q \in Procs, NEW p \in Procs, StepOf(q), ReportSeesReadAt(p),
           printing'[p] = printing[p], reportSees'[p] = reportSees[p],
           cacheNumber'[p] = cacheNumber[p], passed'[p] = passed[p]
    PROVE  ReportSeesReadAt(p)'
<1>1. \A n \in 1 .. cacheNumber[p] : drawn'[n] = drawn[n]
  <2>1. cacheNumber[p] \in 1 .. LastValue
    BY DEF TypeOK
  <2> QED
    BY <2>1, GrowthFacts
<1> QED
  BY <1>1 DEF ReportSeesReadAt

LEMMA FirstNumberStep ==
    ASSUME TypeOK, FirstNumber, NEW p \in Procs, StepOf(p)
    PROVE  FirstNumber'
<1>1. cacheNumber[p] \in 1 .. LastValue
  BY DEF TypeOK
<1>2. 1 \in 1 .. LastValue
  BY <1>1, GrowthFacts
<1> QED
  BY <1>2, GrowthFacts DEF FirstNumber

\* A number that is passed is not read.
LEMMA PassedOver ==
    ASSUME TypeOK, NEW p \in Procs, StepOf(p), SignalCaches(p), cleared[p]
    PROVE  \A n \in 1 .. cacheNumber'[p] : n \notin passed'[p] =>
               n \in 1 .. cacheNumber[p] /\ n \notin passed[p] /\ drawn'[n] = drawn[n]
<1>1. /\ cacheNumber'[p] = LastValue + 1
      /\ passed'[p] = passed[p] \cup (cacheNumber[p] + 1) .. (LastValue + 1)
  BY DEF SignalCaches, TypeOK
<1>2. cacheNumber[p] \in 1 .. LastValue /\ LastValue \in Nat
  BY GrowthFacts DEF TypeOK
<1> SUFFICES ASSUME NEW n \in 1 .. LastValue + 1, n \notin passed'[p]
             PROVE  /\ n \in 1 .. cacheNumber[p] /\ n \notin passed[p]
                    /\ drawn'[n] = drawn[n]
  BY <1>1
<1>3. n \notin passed[p] /\ n \notin (cacheNumber[p] + 1) .. (LastValue + 1)
  BY <1>1
<1>4. n \in 1 .. cacheNumber[p]
  BY <1>2, <1>3
<1>5. n \in 1 .. LastValue
  BY <1>2, <1>4
<1>6. \A k \in 1 .. LastValue : drawn'[k] = drawn[k]
  BY GrowthFacts
<1> QED
  BY <1>3, <1>4, <1>5, <1>6

\* An RPC worker enters a transaction by its first query, after its look at
\* the sequences, and inside it its numbers do not move.
LEMMA OwnSnapshot ==
    ASSUME TypeOK, NumbersOfThePast, NEW p \in Procs \ Crons, StepOf(p), SeesReadAt(p)
    PROVE  SeesReadAt(p)'
<1> USE DEF TypeOK, Goto, dbVars, numberVars,
           cacheVars, txVars, reportVars, Keep
<1>1. CASE LockJob(p)
  <2>1. pc'[p] # "tx"
    BY <1>1 DEF LockJob
  <2> QED
    BY <2>1 DEF SeesReadAt
<1>2. CASE GetRegistry(p)
  <2>1. pc'[p] # "tx"
    BY <1>2 DEF GetRegistry, AtCheck
  <2> QED
    BY <2>1 DEF SeesReadAt
<1>3. CASE Load(p)
  <2>1. pc'[p] # "tx"
    BY <1>3 DEF Load, NewRegistry, Checked
  <2> QED
    BY <2>1 DEF SeesReadAt
<1>4. CASE LoadFails(p)
  <2>1. pc'[p] # "tx"
    BY <1>4 DEF LoadFails, Gone, NewRegistry, EndTx
  <2> QED
    BY <2>1 DEF SeesReadAt
<1>5. CASE CheckRegistry(p)
  <2>1. pc'[p] # "tx"
    BY <1>5 DEF CheckRegistry, AtCheck
  <2> QED
    BY <2>1 DEF SeesReadAt
<1>6. CASE CheckCaches(p)
  <2>1. pc'[p] # "tx"
    BY <1>6 DEF CheckCaches, AtCheck, Checked, ClearCaches
  <2> QED
    BY <2>1 DEF SeesReadAt
<1>7. CASE Begin(p)
  <2>1. /\ snapshot'[p] = Version /\ cacheNumber' = cacheNumber
        /\ drawn' = drawn
    BY <1>7 DEF Begin
  <2>2. cacheNumber[p] \in 1 .. LastValue
    OBVIOUS
  <2> QED
    BY <2>1, <2>2 DEF SeesReadAt, NumbersOfThePast, LastValue
<1>8. CASE Lookup(p)
  <2>1. /\ pc[p] = "tx" /\ snapshot'[p] = snapshot[p]
        /\ cacheNumber'[p] = cacheNumber[p] /\ passed'[p] = passed[p]
    BY <1>8 DEF Lookup
  <2> QED
    BY <2>1, SeesReadSame
<1>9. CASE WriteThenClear(p)
  <2>1. /\ pc[p] = "tx" /\ snapshot'[p] = snapshot[p]
        /\ cacheNumber'[p] = cacheNumber[p] /\ passed'[p] = passed[p]
    BY <1>9 DEF WriteThenClear
  <2> QED
    BY <2>1, SeesReadSame
<1>10. CASE ClearThenWrite(p)
  <2>1. /\ pc[p] = "tx" /\ snapshot'[p] = snapshot[p]
        /\ cacheNumber'[p] = cacheNumber[p] /\ passed'[p] = passed[p]
    BY <1>10 DEF ClearThenWrite
  <2> QED
    BY <2>1, SeesReadSame
<1>11. CASE ClearEntry(p)
  <2>1. /\ pc[p] = "tx" /\ snapshot'[p] = snapshot[p]
        /\ cacheNumber'[p] = cacheNumber[p] /\ passed'[p] = passed[p]
    BY <1>11 DEF ClearEntry
  <2> QED
    BY <2>1, SeesReadSame
<1>12. CASE CommitMidway(p)
  <2>1. pc'[p] # "tx"
    BY <1>12 DEF CommitMidway, CommitRows, EndTx
  <2> QED
    BY <2>1 DEF SeesReadAt
<1>13. CASE Commit(p)
  <2>1. pc'[p] # "tx"
    BY <1>13 DEF Commit, CommitRows, EndTx
  <2> QED
    BY <2>1 DEF SeesReadAt
<1>14. CASE Raise(p)
  <2>1. pc'[p] # "tx"
    BY <1>14 DEF Raise, EndTx
  <2> QED
    BY <2>1 DEF SeesReadAt
<1>15. CASE SignalCaches(p)
  <2>1. pc'[p] # "tx"
    BY <1>15 DEF SignalCaches
  <2> QED
    BY <2>1 DEF SeesReadAt
<1>16. CASE SignalFails(p)
  <2>1. pc'[p] # "tx"
    BY <1>16 DEF SignalFails
  <2> QED
    BY <2>1 DEF SeesReadAt
<1>17. CASE InstallSignal(p)
  <2>1. pc'[p] # "tx"
    BY <1>17 DEF InstallSignal, EndTx
  <2> QED
    BY <2>1 DEF SeesReadAt
<1>18. CASE InstallLoad(p)
  <2>1. pc'[p] # "tx"
    BY <1>18 DEF InstallLoad, NewRegistry
  <2> QED
    BY <2>1 DEF SeesReadAt
<1>19. CASE Die(p)
  <2>1. pc'[p] # "tx"
    BY <1>19 DEF Die, Gone, NewRegistry, EndTx
  <2> QED
    BY <2>1 DEF SeesReadAt
<1>20. CASE ReportStep(p)
  BY <1>20, ReportFrame DEF SeesReadAt
<1> QED
  BY <1>1, <1>2, <1>3, <1>4, <1>5, <1>6, <1>7, <1>8, <1>9, <1>10, <1>11, <1>12,
     <1>13, <1>14, <1>15, <1>16, <1>17, <1>18, <1>19,
     <1>20 DEF StepOf, StartStep, CallStep, EndStep

\* What a process reads into its cache is not older than the numbers it has read.
LEMMA OwnSettled ==
    ASSUME TypeOK, NumbersOfThePast, NEW p \in Procs \ Crons, StepOf(p),
           SeesReadAt(p), ReportSeesReadAt(p), SettledAt(p)
    PROVE  SettledAt(p)'
<1> USE DEF TypeOK, Goto, dbVars, numberVars,
           cacheVars, txVars, reportVars, Keep
<1>1. CASE LockJob(p)
  <2>1. Same(p)
    BY <1>1 DEF LockJob, Same
  <2> QED
    BY <2>1, SettledSame
<1>2. CASE GetRegistry(p)
  <2>1. Same(p)
    BY <1>2 DEF GetRegistry, AtCheck, Same
  <2> QED
    BY <2>1, SettledSame
<1>3. CASE Load(p)
  <2>1. cache'[p] = None
    BY <1>3 DEF Load, NewRegistry, Checked
  <2> QED
    BY <2>1 DEF SettledAt, Shows
<1>4. CASE LoadFails(p)
  <2>1. cache'[p] = None
    BY <1>4 DEF LoadFails, Gone, NewRegistry, EndTx
  <2> QED
    BY <2>1 DEF SettledAt, Shows
<1>5. CASE CheckRegistry(p)
  <2>1. Same(p)
    BY <1>5 DEF CheckRegistry, AtCheck, Same
  <2> QED
    BY <2>1, SettledSame
<1>6. CASE CheckCaches(p)
  <2>1. CASE cacheNumber[p] # LastValue
    <3>1. cache'[p] = None
      BY <1>6, <2>1 DEF CheckCaches, ClearCaches
    <3> QED
      BY <3>1 DEF SettledAt, Shows
  <2>2. CASE cacheNumber[p] = LastValue
    <3>1. Same(p)
      BY <1>6, <2>2 DEF CheckCaches, Same
    <3> QED
      BY <3>1, SettledSame
  <2> QED
    BY <2>1, <2>2
<1>7. CASE Begin(p)
  <2>1. Same(p)
    BY <1>7 DEF Begin, Same
  <2> QED
    BY <2>1, SettledSame
<1>8. CASE Lookup(p)
  <2>1. /\ pc[p] = "tx" /\ cacheNumber' = cacheNumber /\ passed' = passed
        /\ drawn' = drawn /\ cache'[p] \in {None, snapshot[p]}
    BY <1>8 DEF Lookup
  <2>2. \A n \in 1 .. cacheNumber[p] : n \notin passed[p] => drawn[n] <= snapshot[p]
    BY <2>1 DEF SeesReadAt
  <2> QED
    BY <2>1, <2>2 DEF SettledAt, Shows
<1>9. CASE WriteThenClear(p)
  <2>1. cache'[p] = None
    BY <1>9 DEF WriteThenClear
  <2> QED
    BY <2>1 DEF SettledAt, Shows
<1>10. CASE ClearThenWrite(p)
  <2>1. /\ pc[p] = "tx" /\ cacheNumber' = cacheNumber /\ passed' = passed
        /\ drawn' = drawn /\ cache'[p] \in {None, snapshot[p]}
    BY <1>10 DEF ClearThenWrite
  <2>2. \A n \in 1 .. cacheNumber[p] : n \notin passed[p] => drawn[n] <= snapshot[p]
    BY <2>1 DEF SeesReadAt
  <2> QED
    BY <2>1, <2>2 DEF SettledAt, Shows
<1>11. CASE ClearEntry(p)
  <2>1. cache'[p] = None
    BY <1>11 DEF ClearEntry
  <2> QED
    BY <2>1 DEF SettledAt, Shows
<1>12. CASE CommitMidway(p)
  <2>1. Same(p)
    BY <1>12 DEF CommitMidway, CommitRows, EndTx, Same
  <2> QED
    BY <2>1, SettledSame
<1>13. CASE Commit(p)
  <2>1. Same(p)
    BY <1>13 DEF Commit, CommitRows, EndTx, Same
  <2> QED
    BY <2>1, SettledSame
<1>14. CASE Raise(p)
  <2>1. Same(p)
    BY <1>14 DEF Raise, EndTx, Same
  <2> QED
    BY <2>1, SettledSame
<1>15. CASE SignalCaches(p)
  <2>1. CASE cleared[p]
    <3>1. cache'[p] = cache[p] /\ stray'[p] = stray[p]
      BY <1>15 DEF SignalCaches
    <3> QED
      BY <1>15, <2>1, <3>1, PassedOver DEF SettledAt, Shows
  <2>2. CASE ~cleared[p]
    <3>1. Same(p)
      BY <1>15, <2>2 DEF SignalCaches, Same
    <3> QED
      BY <3>1, SettledSame
  <2> QED
    BY <2>1, <2>2
<1>16. CASE SignalFails(p)
  <2>1. Same(p)
    BY <1>16 DEF SignalFails, Same
  <2> QED
    BY <2>1, SettledSame
<1>17. CASE InstallSignal(p)
  <2>1. Same(p)
    BY <1>17 DEF InstallSignal, EndTx, Same
  <2> QED
    BY <2>1, SettledSame
<1>18. CASE InstallLoad(p)
  <2>1. cache'[p] = None
    BY <1>18 DEF InstallLoad, NewRegistry
  <2> QED
    BY <2>1 DEF SettledAt, Shows
<1>19. CASE Die(p)
  <2>1. cache'[p] = None
    BY <1>19 DEF Die, Gone, NewRegistry, EndTx
  <2> QED
    BY <2>1 DEF SettledAt, Shows
<1>20. CASE ReportStep(p)
  <2>1. CASE ReportLookup(p)
    <3>1. /\ cacheNumber' = cacheNumber /\ passed' = passed /\ drawn' = drawn
          /\ cache'[p] = reportSees[p]
          /\ stray'[p] = (printing[p] = "late") /\ printing[p] \in {"tx", "late"}
      BY <2>1 DEF ReportLookup
    <3> QED
      BY <3>1 DEF SettledAt, Shows, ReportSeesReadAt
  <2>2. CASE ~ReportLookup(p)
    <3>1. Same(p)
      BY <1>20, <2>2 DEF ReportStep, StartReport, BeginReport, EndReport, NoReport, Same
    <3> QED
      BY <3>1, SettledSame
  <2> QED
    BY <2>1, <2>2
<1> QED
  BY <1>1, <1>2, <1>3, <1>4, <1>5, <1>6, <1>7, <1>8, <1>9, <1>10, <1>11, <1>12,
     <1>13, <1>14, <1>15, <1>16, <1>17, <1>18, <1>19,
     <1>20 DEF StepOf, StartStep, CallStep, EndStep

\* What a report sees is not older than the numbers its process has read, until
\* the process reads the next one.
LEMMA OwnReportSees ==
    ASSUME TypeOK, NumbersOfThePast, FirstNumber, NEW p \in Procs, StepOf(p),
           ReportSeesReadAt(p)
    PROVE  ReportSeesReadAt(p)'
<1> USE DEF TypeOK, Goto, dbVars, numberVars, cacheVars, txVars, reportVars, Keep
<1> DEFINE ReportKept ==
      /\ printing'[p] = printing[p] /\ reportSees'[p] = reportSees[p]
      /\ cacheNumber'[p] = cacheNumber[p] /\ passed'[p] = passed[p]
<1>1. CASE LockJob(p)
  <2>1. ReportKept
    BY <1>1 DEF LockJob
  <2> QED
    BY <2>1, ReportSeesSame
<1>2. CASE GetRegistry(p)
  <2>1. ReportKept
    BY <1>2 DEF GetRegistry, AtCheck
  <2> QED
    BY <2>1, ReportSeesSame
<1>3. CASE Load(p)
  <2>1. cacheNumber'[p] = 1
    BY <1>3 DEF Load, NewRegistry, Gone
  <2>2. drawn'[1] = 0
    BY FirstNumberStep DEF FirstNumber
  <2>3. reportSees' = reportSees
    BY <1>3 DEF Load
  <2> QED
    BY <2>1, <2>2, <2>3 DEF ReportSeesReadAt
<1>4. CASE LoadFails(p)
  <2>1. cacheNumber'[p] = 1
    BY <1>4 DEF LoadFails, NewRegistry, Gone
  <2>2. drawn'[1] = 0
    BY FirstNumberStep DEF FirstNumber
  <2>3. reportSees' = reportSees
    BY <1>4 DEF LoadFails
  <2> QED
    BY <2>1, <2>2, <2>3 DEF ReportSeesReadAt
<1>5. CASE CheckRegistry(p)
  <2>1. ReportKept
    BY <1>5 DEF CheckRegistry, AtCheck
  <2> QED
    BY <2>1, ReportSeesSame
<1>6. CASE CheckCaches(p)
  <2>1. CASE cacheNumber[p] # LastValue
    <3>1. printing'[p] # "tx"
      BY <1>6, <2>1 DEF CheckCaches, OvertakeReport
    <3> QED
      BY <3>1 DEF ReportSeesReadAt
  <2>2. CASE cacheNumber[p] = LastValue
    <3>1. ReportKept
      BY <1>6, <2>2 DEF CheckCaches
    <3> QED
      BY <3>1, ReportSeesSame
  <2> QED
    BY <2>1, <2>2
<1>7. CASE Begin(p)
  <2>1. ReportKept
    BY <1>7 DEF Begin
  <2> QED
    BY <2>1, ReportSeesSame
<1>8. CASE Lookup(p)
  <2>1. ReportKept
    BY <1>8 DEF Lookup
  <2> QED
    BY <2>1, ReportSeesSame
<1>9. CASE WriteThenClear(p)
  <2>1. ReportKept
    BY <1>9 DEF WriteThenClear
  <2> QED
    BY <2>1, ReportSeesSame
<1>10. CASE ClearThenWrite(p)
  <2>1. ReportKept
    BY <1>10 DEF ClearThenWrite
  <2> QED
    BY <2>1, ReportSeesSame
<1>11. CASE ClearEntry(p)
  <2>1. ReportKept
    BY <1>11 DEF ClearEntry
  <2> QED
    BY <2>1, ReportSeesSame
<1>12. CASE CommitMidway(p)
  <2>1. ReportKept
    BY <1>12 DEF CommitMidway, CommitRows, EndTx
  <2> QED
    BY <2>1, ReportSeesSame
<1>13. CASE Commit(p)
  <2>1. ReportKept
    BY <1>13 DEF Commit, CommitRows, EndTx
  <2> QED
    BY <2>1, ReportSeesSame
<1>14. CASE Raise(p)
  <2>1. ReportKept
    BY <1>14 DEF Raise, EndTx
  <2> QED
    BY <2>1, ReportSeesSame
<1>15. CASE SignalCaches(p)
  <2>1. printing' = printing /\ reportSees' = reportSees
    BY <1>15 DEF SignalCaches
  <2>2. CASE cleared[p]
    BY <1>15, <2>1, <2>2, PassedOver DEF ReportSeesReadAt
  <2>3. CASE ~cleared[p]
    <3>1. ReportKept
      BY <1>15, <2>1, <2>3 DEF SignalCaches
    <3> QED
      BY <3>1, ReportSeesSame
  <2> QED
    BY <2>2, <2>3
<1>16. CASE SignalFails(p)
  <2>1. ReportKept
    BY <1>16 DEF SignalFails
  <2> QED
    BY <2>1, ReportSeesSame
<1>17. CASE InstallSignal(p)
  <2>1. ReportKept
    BY <1>17 DEF InstallSignal, EndTx
  <2> QED
    BY <2>1, ReportSeesSame
<1>18. CASE InstallLoad(p)
  <2>1. cacheNumber'[p] = 1
    BY <1>18 DEF InstallLoad, NewRegistry, Gone
  <2>2. drawn'[1] = 0
    BY FirstNumberStep DEF FirstNumber
  <2>3. reportSees' = reportSees
    BY <1>18 DEF InstallLoad
  <2> QED
    BY <2>1, <2>2, <2>3 DEF ReportSeesReadAt
<1>19. CASE Die(p)
  <2>1. printing'[p] # "tx"
    BY <1>19 DEF Die, NoReport
  <2> QED
    BY <2>1 DEF ReportSeesReadAt
<1>20. CASE ReportStep(p)
  <2>1. CASE BeginReport(p)
    <3>1. reportSees'[p] = Version /\ drawn' = drawn /\ cacheNumber' = cacheNumber
      BY <2>1 DEF BeginReport
    <3>2. cacheNumber[p] \in 1 .. LastValue
      OBVIOUS
    <3> QED
      BY <3>1, <3>2 DEF ReportSeesReadAt, NumbersOfThePast, LastValue
  <2>2. CASE StartReport(p) \/ EndReport(p)
    <3>1. printing'[p] # "tx"
      BY <2>2 DEF StartReport, EndReport, NoReport
    <3> QED
      BY <3>1 DEF ReportSeesReadAt
  <2>3. CASE ReportLookup(p)
    <3>1. ReportKept
      BY <2>3 DEF ReportLookup
    <3> QED
      BY <3>1, ReportSeesSame
  <2> QED
    BY <1>20, <2>1, <2>2, <2>3 DEF ReportStep
<1> QED
  BY <1>1, <1>2, <1>3, <1>4, <1>5, <1>6, <1>7, <1>8, <1>9, <1>10, <1>11, <1>12,
     <1>13, <1>14, <1>15, <1>16, <1>17, <1>18, <1>19,
     <1>20 DEF StepOf, StartStep, CallStep, EndStep

LEMMA SettledStep ==
    ASSUME TypeOK, NumbersOfThePast, FirstNumber, SnapshotAfterCheck,
           ReportBeforeCheck, ReadNumbersSettled, NEW p \in Procs, StepOf(p)
    PROVE  SnapshotAfterCheck' /\ ReportBeforeCheck' /\ ReadNumbersSettled'
<1>1. \A q \in Procs \ Crons : SeesReadAt(q) /\ ReportSeesReadAt(q) /\ SettledAt(q)
  BY DEF SnapshotAfterCheck, ReportBeforeCheck, ReadNumbersSettled, SeesReadAt,
         ReportSeesReadAt, SettledAt
<1>2. ASSUME NEW q \in Procs \ Crons
      PROVE  SeesReadAt(q)' /\ ReportSeesReadAt(q)' /\ SettledAt(q)'
  <2>1. CASE q = p
    BY <1>1, <2>1, OwnSnapshot, OwnReportSees, OwnSettled
  <2>2. CASE q # p
    <3>1. /\ pc'[q] = pc[q] /\ snapshot'[q] = snapshot[q] /\ Same(q)
          /\ printing'[q] = printing[q] /\ reportSees'[q] = reportSees[q]
      BY <2>2, OthersUntouched DEF Same
    <3>2. SettledAt(q)'
      BY <1>1, <3>1, SettledSame
    <3>3. ReportSeesReadAt(q)'
      BY <1>1, <3>1, ReportSeesSame DEF Same
    <3>4. CASE pc[q] = "tx"
      BY <1>1, <3>1, <3>2, <3>3, <3>4, SeesReadSame DEF Same
    <3>5. CASE pc[q] # "tx"
      BY <3>1, <3>2, <3>3, <3>5 DEF SeesReadAt
    <3> QED
      BY <3>4, <3>5
  <2> QED
    BY <2>1, <2>2
<1> QED
  BY <1>2 DEF SnapshotAfterCheck, ReportBeforeCheck, ReadNumbersSettled, SeesReadAt,
              ReportSeesReadAt, SettledAt

-----------------------------------------------------------------------------
(* Changes are announced. *)

ClearsAt(p)  == written[p] = "all" => pc[p] = "tx" /\ cleared[p]
NothingAt(p) == pc[p] \notin OnItsWay => ~cleared[p]

\* A call that wrote rows of the kind "all" is in its transaction, its flag up.
LEMMA OwnClears ==
    ASSUME TypeOK, NEW p \in Procs, StepOf(p), ClearsAt(p)
    PROVE  ClearsAt(p)'
<1> USE DEF TypeOK, Goto, dbVars, numberVars,
           cacheVars, txVars, reportVars, Keep
<1>1. CASE LockJob(p)
  <2>1. pc[p] # "tx" /\ written'[p] = written[p]
    BY <1>1 DEF LockJob
  <2> QED
    BY <2>1 DEF ClearsAt
<1>2. CASE GetRegistry(p)
  <2>1. pc[p] # "tx" /\ written'[p] = written[p]
    BY <1>2 DEF GetRegistry, AtCheck
  <2> QED
    BY <2>1 DEF ClearsAt
<1>3. CASE Load(p)
  <2>1. pc[p] # "tx" /\ written'[p] = written[p]
    BY <1>3 DEF Load, NewRegistry, Checked
  <2> QED
    BY <2>1 DEF ClearsAt
<1>4. CASE LoadFails(p)
  <2>1. written'[p] = "none"
    BY <1>4 DEF LoadFails, Gone, NewRegistry, EndTx
  <2> QED
    BY <2>1 DEF ClearsAt
<1>5. CASE CheckRegistry(p)
  <2>1. pc[p] # "tx" /\ written'[p] = written[p]
    BY <1>5 DEF CheckRegistry, AtCheck
  <2> QED
    BY <2>1 DEF ClearsAt
<1>6. CASE CheckCaches(p)
  <2>1. pc[p] # "tx" /\ written'[p] = written[p]
    BY <1>6 DEF CheckCaches, AtCheck, Checked, ClearCaches
  <2> QED
    BY <2>1 DEF ClearsAt
<1>7. CASE Begin(p)
  <2>1. pc[p] # "tx" /\ written'[p] = written[p]
    BY <1>7 DEF Begin
  <2> QED
    BY <2>1 DEF ClearsAt
<1>8. CASE Lookup(p)
  <2>1. pc' = pc /\ cleared' = cleared /\ written' = written
    BY <1>8 DEF Lookup
  <2> QED
    BY <2>1 DEF ClearsAt
<1>9. CASE WriteThenClear(p)
  <2>1. pc'[p] = "tx" /\ cleared'[p] = TRUE
    BY <1>9 DEF WriteThenClear
  <2> QED
    BY <2>1 DEF ClearsAt
<1>10. CASE ClearThenWrite(p)
  <2>1. pc'[p] = "tx" /\ cleared'[p] = TRUE
    BY <1>10 DEF ClearThenWrite
  <2> QED
    BY <2>1 DEF ClearsAt
<1>11. CASE ClearEntry(p)
  <2>1. /\ pc[p] = "tx" /\ pc' = pc
        /\ written'[p] = IF written[p] = "all" THEN "all" ELSE "entry"
        /\ cleared'[p] = (cleared[p] \/ cache[p] # None)
    BY <1>11 DEF ClearEntry
  <2>2. CASE written[p] = "all"
    BY <2>1, <2>2, Zenon DEF ClearsAt
  <2>3. CASE written[p] # "all"
    BY <2>1, <2>3 DEF ClearsAt
  <2> QED
    BY <2>2, <2>3
<1>12. CASE CommitMidway(p)
  <2>1. written'[p] = "none"
    BY <1>12 DEF CommitMidway, CommitRows, EndTx
  <2> QED
    BY <2>1 DEF ClearsAt
<1>13. CASE Commit(p)
  <2>1. written'[p] = "none"
    BY <1>13 DEF Commit, CommitRows, EndTx
  <2> QED
    BY <2>1 DEF ClearsAt
<1>14. CASE Raise(p)
  <2>1. written'[p] = "none"
    BY <1>14 DEF Raise, EndTx
  <2> QED
    BY <2>1 DEF ClearsAt
<1>15. CASE SignalCaches(p)
  <2>1. pc[p] # "tx" /\ written'[p] = written[p]
    BY <1>15 DEF SignalCaches
  <2> QED
    BY <2>1 DEF ClearsAt
<1>16. CASE SignalFails(p)
  <2>1. pc[p] # "tx" /\ written'[p] = written[p]
    BY <1>16 DEF SignalFails
  <2> QED
    BY <2>1 DEF ClearsAt
<1>17. CASE InstallSignal(p)
  <2>1. written'[p] = "none"
    BY <1>17 DEF InstallSignal, EndTx
  <2> QED
    BY <2>1 DEF ClearsAt
<1>18. CASE InstallLoad(p)
  <2>1. pc[p] # "tx" /\ written'[p] = written[p]
    BY <1>18 DEF InstallLoad, NewRegistry
  <2> QED
    BY <2>1 DEF ClearsAt
<1>19. CASE Die(p)
  <2>1. written'[p] = "none"
    BY <1>19 DEF Die, Gone, NewRegistry, EndTx
  <2> QED
    BY <2>1 DEF ClearsAt
<1>20. CASE ReportStep(p)
  BY <1>20, ReportFrame DEF ClearsAt
<1> QED
  BY <1>1, <1>2, <1>3, <1>4, <1>5, <1>6, <1>7, <1>8, <1>9, <1>10, <1>11, <1>12,
     <1>13, <1>14, <1>15, <1>16, <1>17, <1>18, <1>19,
     <1>20 DEF StepOf, StartStep, CallStep, EndStep

\* While no call has failed, a process leaves its call with its flag down.
LEMMA OwnNothing ==
    ASSUME TypeOK, NEW p \in Procs, StepOf(p), NothingAt(p), failures' = 0
    PROVE  NothingAt(p)'
<1> USE DEF TypeOK, Goto, dbVars, numberVars,
           cacheVars, txVars, reportVars, Keep
<1>1. CASE LockJob(p)
  <2>1. pc[p] \notin OnItsWay /\ cleared' = cleared
    BY <1>1 DEF LockJob, OnItsWay
  <2> QED
    BY <2>1 DEF NothingAt
<1>2. CASE GetRegistry(p)
  <2>1. pc[p] \notin OnItsWay /\ cleared' = cleared
    BY <1>2 DEF GetRegistry, AtCheck, OnItsWay
  <2> QED
    BY <2>1 DEF NothingAt
<1>3. CASE Load(p)
  <2>1. cleared'[p] = FALSE
    BY <1>3 DEF Load, NewRegistry, Checked
  <2> QED
    BY <2>1 DEF NothingAt
<1>4. CASE LoadFails(p)
  <2>1. failures' # 0
    BY <1>4 DEF LoadFails, Gone, NewRegistry, EndTx
  <2> QED
    BY <2>1
<1>5. CASE CheckRegistry(p)
  <2>1. pc[p] \notin OnItsWay /\ cleared' = cleared
    BY <1>5 DEF CheckRegistry, AtCheck, OnItsWay
  <2> QED
    BY <2>1 DEF NothingAt
<1>6. CASE CheckCaches(p)
  <2>1. CASE cacheNumber[p] # LastValue
    <3>1. cleared'[p] = FALSE
      BY <1>6, <2>1 DEF CheckCaches, ClearCaches
    <3> QED
      BY <3>1 DEF NothingAt
  <2>2. CASE cacheNumber[p] = LastValue
    <3>1. pc[p] \notin OnItsWay /\ cleared' = cleared
      BY <1>6, <2>2 DEF CheckCaches, AtCheck, OnItsWay
    <3> QED
      BY <3>1 DEF NothingAt
  <2> QED
    BY <2>1, <2>2
<1>7. CASE Begin(p)
  <2>1. pc'[p] \in OnItsWay
    BY <1>7 DEF Begin, OnItsWay
  <2> QED
    BY <2>1 DEF NothingAt
<1>8. CASE Lookup(p)
  <2>1. pc'[p] \in OnItsWay
    BY <1>8 DEF Lookup, OnItsWay
  <2> QED
    BY <2>1 DEF NothingAt
<1>9. CASE WriteThenClear(p)
  <2>1. pc'[p] \in OnItsWay
    BY <1>9 DEF WriteThenClear, OnItsWay
  <2> QED
    BY <2>1 DEF NothingAt
<1>10. CASE ClearThenWrite(p)
  <2>1. pc'[p] \in OnItsWay
    BY <1>10 DEF ClearThenWrite, OnItsWay
  <2> QED
    BY <2>1 DEF NothingAt
<1>11. CASE ClearEntry(p)
  <2>1. pc'[p] \in OnItsWay
    BY <1>11 DEF ClearEntry, OnItsWay
  <2> QED
    BY <2>1 DEF NothingAt
<1>12. CASE CommitMidway(p)
  <2>1. pc'[p] \in OnItsWay
    BY <1>12 DEF CommitMidway, CommitRows, EndTx, OnItsWay
  <2> QED
    BY <2>1 DEF NothingAt
<1>13. CASE Commit(p)
  <2>1. pc'[p] \in OnItsWay
    BY <1>13 DEF Commit, CommitRows, EndTx, OnItsWay
  <2> QED
    BY <2>1 DEF NothingAt
<1>14. CASE Raise(p)
  <2>1. failures' # 0
    BY <1>14 DEF Raise, EndTx
  <2> QED
    BY <2>1
<1>15. CASE SignalCaches(p)
  <2>1. CASE cleared[p]
    <3>1. cleared'[p] = FALSE
      BY <1>15, <2>1 DEF SignalCaches
    <3> QED
      BY <3>1 DEF NothingAt
  <2>2. CASE ~cleared[p]
    <3>1. cleared' = cleared
      BY <1>15, <2>2 DEF SignalCaches
    <3> QED
      BY <2>2, <3>1 DEF NothingAt
  <2> QED
    BY <2>1, <2>2
<1>16. CASE SignalFails(p)
  <2>1. failures' = failures + 1
    BY <1>16 DEF SignalFails
  <2> QED
    BY <2>1
<1>17. CASE InstallSignal(p)
  <2>1. pc'[p] \in OnItsWay
    BY <1>17 DEF InstallSignal, EndTx, OnItsWay
  <2> QED
    BY <2>1 DEF NothingAt
<1>18. CASE InstallLoad(p)
  <2>1. pc'[p] \in OnItsWay
    BY <1>18 DEF InstallLoad, NewRegistry, OnItsWay
  <2> QED
    BY <2>1 DEF NothingAt
<1>19. CASE Die(p)
  <2>1. failures' # 0
    BY <1>19 DEF Die, Gone, NewRegistry, EndTx
  <2> QED
    BY <2>1
<1>20. CASE ReportStep(p)
  BY <1>20, ReportFrame DEF NothingAt
<1> QED
  BY <1>1, <1>2, <1>3, <1>4, <1>5, <1>6, <1>7, <1>8, <1>9, <1>10, <1>11, <1>12,
     <1>13, <1>14, <1>15, <1>16, <1>17, <1>18, <1>19,
     <1>20 DEF StepOf, StartStep, CallStep, EndStep

\* Failures are only counted up.
LEMMA FailuresGrow ==
    ASSUME TypeOK, NEW p \in Procs, StepOf(p), failures' = 0
    PROVE  failures = 0
<1> USE DEF TypeOK
<1>1. CASE LockJob(p)
  BY <1>1 DEF LockJob
<1>2. CASE GetRegistry(p)
  BY <1>2 DEF GetRegistry, AtCheck
<1>3. CASE Load(p)
  BY <1>3 DEF Load, NewRegistry, Checked
<1>4. CASE LoadFails(p)
  BY <1>4 DEF LoadFails, Gone, NewRegistry, EndTx
<1>5. CASE CheckRegistry(p)
  BY <1>5 DEF CheckRegistry, AtCheck
<1>6. CASE CheckCaches(p)
  BY <1>6 DEF CheckCaches, AtCheck, Checked, ClearCaches
<1>7. CASE Begin(p)
  BY <1>7 DEF Begin
<1>8. CASE Lookup(p)
  BY <1>8 DEF Lookup
<1>9. CASE WriteThenClear(p)
  BY <1>9 DEF WriteThenClear
<1>10. CASE ClearThenWrite(p)
  BY <1>10 DEF ClearThenWrite
<1>11. CASE ClearEntry(p)
  BY <1>11 DEF ClearEntry
<1>12. CASE CommitMidway(p)
  BY <1>12 DEF CommitMidway, CommitRows, EndTx
<1>13. CASE Commit(p)
  BY <1>13 DEF Commit, CommitRows, EndTx
<1>14. CASE Raise(p)
  BY <1>14 DEF Raise, EndTx
<1>15. CASE SignalCaches(p)
  BY <1>15 DEF SignalCaches
<1>16. CASE SignalFails(p)
  BY <1>16 DEF SignalFails
<1>17. CASE InstallSignal(p)
  BY <1>17 DEF InstallSignal, EndTx
<1>18. CASE InstallLoad(p)
  BY <1>18 DEF InstallLoad, NewRegistry
<1>19. CASE Die(p)
  BY <1>19 DEF Die, Gone, NewRegistry, EndTx
<1>20. CASE ReportStep(p)
  BY <1>20, ReportFrame
<1> QED
  BY <1>1, <1>2, <1>3, <1>4, <1>5, <1>6, <1>7, <1>8, <1>9, <1>10, <1>11, <1>12,
     <1>13, <1>14, <1>15, <1>16, <1>17, <1>18, <1>19,
     <1>20 DEF StepOf, StartStep, CallStep, EndStep

\* Whoever is on its way with its flag up stays so until it has drawn a number.
Drawing(p) == pc[p] \in OnItsWay /\ cleared[p]

LEMMA OwnDrawing ==
    ASSUME TypeOK, NEW p \in Procs, StepOf(p), failures' = 0, Drawing(p)
    PROVE  Drawing(p)' \/ drawn' = Append(drawn, Version)
<1> USE DEF TypeOK, Goto, dbVars, numberVars,
           cacheVars, txVars, reportVars, Keep
<1>1. CASE LockJob(p)
  <2>1. pc[p] \notin OnItsWay
    BY <1>1 DEF LockJob, OnItsWay
  <2> QED
    BY <2>1 DEF Drawing
<1>2. CASE GetRegistry(p)
  <2>1. pc[p] \notin OnItsWay
    BY <1>2 DEF GetRegistry, AtCheck, OnItsWay
  <2> QED
    BY <2>1 DEF Drawing
<1>3. CASE Load(p)
  <2>1. pc[p] \notin OnItsWay
    BY <1>3 DEF Load, NewRegistry, Checked, OnItsWay
  <2> QED
    BY <2>1 DEF Drawing
<1>4. CASE LoadFails(p)
  <2>1. failures' # 0
    BY <1>4 DEF LoadFails, Gone, NewRegistry, EndTx
  <2> QED
    BY <2>1
<1>5. CASE CheckRegistry(p)
  <2>1. pc[p] \notin OnItsWay
    BY <1>5 DEF CheckRegistry, AtCheck, OnItsWay
  <2> QED
    BY <2>1 DEF Drawing
<1>6. CASE CheckCaches(p)
  <2>1. pc[p] \notin OnItsWay
    BY <1>6 DEF CheckCaches, AtCheck, Checked, ClearCaches, OnItsWay
  <2> QED
    BY <2>1 DEF Drawing
<1>7. CASE Begin(p)
  <2>1. pc'[p] \in OnItsWay /\ cleared' = cleared
    BY <1>7 DEF Begin, OnItsWay
  <2> QED
    BY <2>1 DEF Drawing
<1>8. CASE Lookup(p)
  <2>1. pc'[p] \in OnItsWay /\ cleared' = cleared
    BY <1>8 DEF Lookup, OnItsWay
  <2> QED
    BY <2>1 DEF Drawing
<1>9. CASE WriteThenClear(p)
  <2>1. pc'[p] \in OnItsWay /\ cleared'[p] = TRUE
    BY <1>9 DEF WriteThenClear, OnItsWay
  <2> QED
    BY <2>1 DEF Drawing
<1>10. CASE ClearThenWrite(p)
  <2>1. pc'[p] \in OnItsWay /\ cleared'[p] = TRUE
    BY <1>10 DEF ClearThenWrite, OnItsWay
  <2> QED
    BY <2>1 DEF Drawing
<1>11. CASE ClearEntry(p)
  <2>1. /\ pc'[p] \in OnItsWay
        /\ cleared'[p] = (cleared[p] \/ cache[p] # None)
    BY <1>11 DEF ClearEntry, OnItsWay
  <2> QED
    BY <2>1, Zenon DEF Drawing
<1>12. CASE CommitMidway(p)
  <2>1. pc'[p] \in OnItsWay /\ cleared' = cleared
    BY <1>12 DEF CommitMidway, CommitRows, EndTx, OnItsWay
  <2> QED
    BY <2>1 DEF Drawing
<1>13. CASE Commit(p)
  <2>1. pc'[p] \in OnItsWay /\ cleared' = cleared
    BY <1>13 DEF Commit, CommitRows, EndTx, OnItsWay
  <2> QED
    BY <2>1 DEF Drawing
<1>14. CASE Raise(p)
  <2>1. failures' # 0
    BY <1>14 DEF Raise, EndTx
  <2> QED
    BY <2>1
<1>15. CASE SignalCaches(p)
  <2>1. cleared[p]
    BY DEF Drawing
  <2> QED
    BY <1>15, <2>1 DEF SignalCaches
<1>16. CASE SignalFails(p)
  <2>1. failures' = failures + 1
    BY <1>16 DEF SignalFails
  <2> QED
    BY <2>1
<1>17. CASE InstallSignal(p)
  <2>1. pc'[p] \in OnItsWay /\ cleared' = cleared
    BY <1>17 DEF InstallSignal, EndTx, OnItsWay
  <2> QED
    BY <2>1 DEF Drawing
<1>18. CASE InstallLoad(p)
  <2>1. pc'[p] \in OnItsWay /\ cleared'[p] = TRUE
    BY <1>18 DEF InstallLoad, NewRegistry, OnItsWay
  <2> QED
    BY <2>1 DEF Drawing
<1>19. CASE Die(p)
  <2>1. failures' # 0
    BY <1>19 DEF Die, Gone, NewRegistry, EndTx
  <2> QED
    BY <2>1
<1>20. CASE ReportStep(p)
  BY <1>20, ReportFrame DEF Drawing
<1> QED
  BY <1>1, <1>2, <1>3, <1>4, <1>5, <1>6, <1>7, <1>8, <1>9, <1>10, <1>11, <1>12,
     <1>13, <1>14, <1>15, <1>16, <1>17, <1>18, <1>19,
     <1>20 DEF StepOf, StartStep, CallStep, EndStep

\* Who commits rows of the kind "all" is on its way to announce them.
Published(p) ==
    /\ drawn' = drawn
    /\ \E c \in Commits : /\ commits' = Append(commits, c)
                          /\ c.kind = "all" => Drawing(p)'

LEMMA OwnPublished ==
    ASSUME TypeOK, NEW p \in Procs, StepOf(p), ClearsAt(p)
    PROVE  commits' = commits \/ Published(p)
<1> USE DEF TypeOK, Goto, dbVars, numberVars,
           cacheVars, txVars, reportVars, Keep
<1>1. CASE LockJob(p)
  BY <1>1 DEF LockJob
<1>2. CASE GetRegistry(p)
  BY <1>2 DEF GetRegistry, AtCheck
<1>3. CASE Load(p)
  BY <1>3 DEF Load, NewRegistry, Checked
<1>4. CASE LoadFails(p)
  BY <1>4 DEF LoadFails, Gone, NewRegistry, EndTx
<1>5. CASE CheckRegistry(p)
  BY <1>5 DEF CheckRegistry, AtCheck
<1>6. CASE CheckCaches(p)
  BY <1>6 DEF CheckCaches, AtCheck, Checked, ClearCaches
<1>7. CASE Begin(p)
  BY <1>7 DEF Begin
<1>8. CASE Lookup(p)
  BY <1>8 DEF Lookup
<1>9. CASE WriteThenClear(p)
  BY <1>9 DEF WriteThenClear
<1>10. CASE ClearThenWrite(p)
  BY <1>10 DEF ClearThenWrite
<1>11. CASE ClearEntry(p)
  BY <1>11 DEF ClearEntry
<1>12. CASE CommitMidway(p)
  <2>1. CASE written[p] = "none"
    BY <1>12, <2>1 DEF CommitMidway, CommitRows
  <2>2. CASE written[p] # "none"
    <3> DEFINE c == [kind |-> written[p], by |-> p]
    <3>1. c \in Commits /\ c.kind = written[p]
      BY <2>2 DEF Commits
    <3>2. drawn' = drawn /\ commits' = Append(commits, c)
      BY <1>12, <2>2 DEF CommitMidway, CommitRows
    <3>3. pc'[p] \in OnItsWay /\ cleared' = cleared
      BY <1>12 DEF CommitMidway, OnItsWay
    <3>4. c.kind = "all" => Drawing(p)'
      BY <3>1, <3>3 DEF ClearsAt, Drawing
    <3> QED
      BY <3>1, <3>2, <3>4 DEF Published
  <2> QED
    BY <2>1, <2>2
<1>13. CASE Commit(p)
  <2>1. CASE written[p] = "none"
    BY <1>13, <2>1 DEF Commit, CommitRows
  <2>2. CASE written[p] # "none"
    <3> DEFINE c == [kind |-> written[p], by |-> p]
    <3>1. c \in Commits /\ c.kind = written[p]
      BY <2>2 DEF Commits
    <3>2. drawn' = drawn /\ commits' = Append(commits, c)
      BY <1>13, <2>2 DEF Commit, CommitRows
    <3>3. pc'[p] \in OnItsWay /\ cleared' = cleared
      BY <1>13 DEF Commit, OnItsWay
    <3>4. c.kind = "all" => Drawing(p)'
      BY <3>1, <3>3 DEF ClearsAt, Drawing
    <3> QED
      BY <3>1, <3>2, <3>4 DEF Published
  <2> QED
    BY <2>1, <2>2
<1>14. CASE Raise(p)
  BY <1>14 DEF Raise, EndTx
<1>15. CASE SignalCaches(p)
  BY <1>15 DEF SignalCaches
<1>16. CASE SignalFails(p)
  BY <1>16 DEF SignalFails
<1>17. CASE InstallSignal(p)
  BY <1>17 DEF InstallSignal, EndTx
<1>18. CASE InstallLoad(p)
  <2> DEFINE c == [kind |-> "all", by |-> p]
  <2>1. c \in Commits
    BY DEF Commits, WriteKinds
  <2>2. drawn' = drawn /\ commits' = Append(commits, c)
    BY <1>18 DEF InstallLoad
  <2>3. pc'[p] \in OnItsWay /\ cleared'[p] = TRUE
    BY <1>18 DEF InstallLoad, NewRegistry, OnItsWay
  <2>4. Drawing(p)'
    BY <2>3 DEF Drawing
  <2> QED
    BY <2>1, <2>2, <2>4 DEF Published
<1>19. CASE Die(p)
  BY <1>19 DEF Die, Gone, NewRegistry, EndTx
<1>20. CASE ReportStep(p)
  BY <1>20, ReportFrame
<1> QED
  BY <1>1, <1>2, <1>3, <1>4, <1>5, <1>6, <1>7, <1>8, <1>9, <1>10, <1>11, <1>12,
     <1>13, <1>14, <1>15, <1>16, <1>17, <1>18, <1>19,
     <1>20 DEF StepOf, StartStep, CallStep, EndStep

LEMMA AnnouncedStep ==
    ASSUME TypeOK, WritersClear, ChangesAnnounced, NEW p \in Procs, StepOf(p)
    PROVE  ChangesAnnounced'
<1> SUFFICES ASSUME failures' = 0,
                    NEW v \in Announced' + 1 .. Version', commits'[v].kind = "all"
             PROVE  \E q \in Procs : Drawing(q)'
  BY DEF ChangesAnnounced, Drawing, OnItsWay
<1>1. /\ failures = 0
      /\ commits \in Seq(Commits) /\ drawn \in Seq(Nat)
      /\ LastValue \in Nat \ {0} /\ Version \in Nat
  <2>1. cacheNumber[p] \in 1 .. LastValue
    BY DEF TypeOK
  <2>2. failures = 0
    BY FailuresGrow
  <2>3. commits \in Seq(Commits) /\ drawn \in Seq(Nat)
    BY DEF TypeOK
  <2>4. LastValue \in Nat /\ Version \in Nat
    BY GrowthFacts
  <2> QED
    BY <2>1, <2>2, <2>3, <2>4
<1>2. drawn' = drawn
  <2> SUFFICES ASSUME drawn' # drawn PROVE FALSE
    OBVIOUS
  <2>1. drawn' = Append(drawn, Version)
    BY Growth
  <2>2. Announced' = Version
    BY <1>1, <2>1, AppendFacts DEF Announced, LastValue
  <2>3. commits' = commits
    BY OwnPublished DEF WritersClear, ClearsAt, Published
  <2> QED
    BY <1>1, <2>2, <2>3 DEF Version
<1>3. Announced' = Announced /\ Announced \in Nat
  BY <1>1, <1>2 DEF Announced, LastValue
<1>4. CASE v <= Version
  <2>1. v \in Announced + 1 .. Version /\ commits'[v] = commits[v]
    <3>1. v \in 1 .. Version /\ v \in Announced + 1 .. Version
      BY <1>1, <1>3, <1>4, GrowthFacts
    <3> QED
      BY <3>1, GrowthFacts
  <2>2. PICK q \in Procs : Drawing(q)
    BY <1>1, <2>1 DEF ChangesAnnounced, Drawing, OnItsWay
  <2>3. CASE q = p
    <3>1. Append(drawn, Version) # drawn
      BY <1>1, AppendFacts
    <3> QED
      BY <1>2, <2>2, <2>3, <3>1, OwnDrawing
  <2>4. CASE q # p
    <3>1. pc'[q] = pc[q] /\ cleared'[q] = cleared[q]
      BY <2>4, OthersUntouched
    <3> QED
      BY <2>2, <3>1 DEF Drawing
  <2> QED
    BY <2>3, <2>4
<1>5. CASE v > Version
  <2>1. commits' # commits
    BY <1>1, <1>3, <1>5, GrowthFacts DEF Version
  <2>2. Published(p)
    BY <2>1, OwnPublished DEF WritersClear, ClearsAt
  <2>3. PICK c \in Commits : /\ commits' = Append(commits, c)
                             /\ c.kind = "all" => Drawing(p)'
    BY <2>2 DEF Published
  <2>4. v = Version + 1
    BY <1>1, <1>3, <1>5, <2>3, AppendFacts DEF Version
  <2>5. commits'[v] = c
    BY <1>1, <2>3, <2>4, AppendFacts DEF Version
  <2> QED
    BY <2>3, <2>5
<1> QED
  BY <1>1, <1>3, <1>4, <1>5, GrowthFacts

-----------------------------------------------------------------------------
(* The invariant and what follows from it. *)

LEMMA StepIInv ==
    ASSUME IInv, NEW p \in Procs, StepOf(p)
    PROVE  IInv'
<1> USE DEF IInv
<1>1. /\ TypeOK' /\ NumbersOfThePast' /\ FirstNumber'
      /\ SnapshotAfterCheck' /\ ReportBeforeCheck' /\ ReadNumbersSettled'
  BY TypeOKStep, NumbersStep, FirstNumberStep, SettledStep
<1>2. WritersClear'
  <2> SUFFICES ASSUME NEW q \in Procs PROVE ClearsAt(q)'
    BY DEF WritersClear, ClearsAt
  <2>1. ClearsAt(q)
    BY DEF WritersClear, ClearsAt
  <2>2. CASE q = p
    BY <2>1, <2>2, OwnClears
  <2>3. CASE q # p
    <3>1. written'[q] = written[q] /\ pc'[q] = pc[q] /\ cleared'[q] = cleared[q]
      BY <2>3, OthersUntouched
    <3> QED
      BY <2>1, <3>1 DEF ClearsAt
  <2> QED
    BY <2>2, <2>3
<1>3. NothingPending'
  <2> SUFFICES ASSUME failures' = 0, NEW q \in Procs PROVE NothingAt(q)'
    BY DEF NothingPending, NothingAt
  <2>1. NothingAt(q)
    BY FailuresGrow DEF NothingPending, NothingAt
  <2>2. CASE q = p
    BY <2>1, <2>2, OwnNothing
  <2>3. CASE q # p
    <3>1. pc'[q] = pc[q] /\ cleared'[q] = cleared[q]
      BY <2>3, OthersUntouched
    <3> QED
      BY <2>1, <3>1 DEF NothingAt
  <2> QED
    BY <2>2, <2>3
<1>4. ChangesAnnounced'
  BY AnnouncedStep
<1> QED
  BY <1>1, <1>2, <1>3, <1>4

LEMMA NextIInv == IInv /\ [Next]_vars => IInv'
<1> SUFFICES ASSUME IInv, [Next]_vars PROVE IInv'
  OBVIOUS
<1>1. CASE Next
  <2>1. PICK p \in Procs : StepOf(p)
    BY <1>1 DEF Next, StepOf
  <2> QED
    BY <2>1, StepIInv
<1>2. CASE UNCHANGED vars
  BY <1>2 DEF vars, reportVars, IInv, TypeOK, NumbersOfThePast, FirstNumber,
     SnapshotAfterCheck, ReportBeforeCheck, ReadNumbersSettled, Shows, WritersClear, NothingPending, ChangesAnnounced,
     Announced, LastValue, Version
<1> QED
  BY <1>1, <1>2

\* The inductive invariant: with it every state satisfies the three below.
THEOREM SpecIInv == Spec => []IInv
  BY InitIInv, NextIInv, PTL DEF Spec

\* The variables keep their types: registry.py's numbers never run ahead of the
\* sequence they were read from.
THEOREM SpecTypeOK == Spec => []TypeOK
<1>1. IInv => TypeOK
  BY DEF IInv
<1> QED
  BY <1>1, SpecIInv, PTL

\* check_registry_signaling, for RPC workers: a cache never shows rows older
\* than the numbers its process has read, whatever fails and whatever reports
\* read meanwhile; what a report leaves that its process has overtaken (stray)
\* is excepted.
THEOREM SpecReadNumbersSettled == Spec => []ReadNumbersSettled
<1>1. IInv => ReadNumbersSettled
  BY DEF IInv
<1> QED
  BY <1>1, SpecIInv, PTL

\* signal_caches_change: while no call fails, whoever has committed rows behind
\* a cleared cache is on its way to announce them.
THEOREM SpecChangesAnnounced == Spec => []ChangesAnnounced
<1>1. IInv => ChangesAnnounced
  BY DEF IInv
<1> QED
  BY <1>1, SpecIInv, PTL
=============================================================================
