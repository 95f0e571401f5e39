--------------------------- MODULE DashboardProofs ---------------------------
(***************************************************************************)
(* What a health report says, for any number of jobs, processes, crashes   *)
(* and failing calls, and however many steps the fleet makes while the     *)
(* report is put together.                                                 *)
(***************************************************************************)
EXTENDS Dashboard, WorkerFleetProofs, FiniteSetTheorems

-----------------------------------------------------------------------------
(***************************************************************************)
(* A report changes nothing it reports on                                  *)
(***************************************************************************)
\* Reading is all a report does: what is proved of the fleet holds while
\* reports are made.
THEOREM ReportsDisturbNothing == DashboardSpec => FleetSpec
<1>1. DashboardInit => FleetInit
  BY DEF DashboardInit
<1>2. [DashboardNext]_allVars => [FleetNext]_vars
  BY DEF DashboardNext, GetSystemHealth, QueryAnswered, FallSilent, FleetMoves, allVars
<1> QED
  BY <1>1, <1>2, PTL DEF DashboardSpec, FleetSpec

-----------------------------------------------------------------------------
(***************************************************************************)
(* Counting                                                                *)
(***************************************************************************)
\* A count is zero exactly when there is nothing to count.
LEMMA CountOf ==
  ASSUME NEW S, IsFiniteSet(S), NEW T \in SUBSET S
  PROVE  Cardinality(T) \in Nat /\ (Cardinality(T) = 0 <=> T = {})
BY FS_Subset, FS_CardinalityType, FS_EmptySet

\* Of two kinds that exclude each other the counts add up.
LEMMA CountOfTwo ==
  ASSUME NEW S, IsFiniteSet(S), NEW T \in SUBSET S, NEW U \in SUBSET S, T \cap U = {}
  PROVE  Cardinality(T \cup U) = Cardinality(T) + Cardinality(U)
<1>1. IsFiniteSet(T) /\ IsFiniteSet(U) /\ Cardinality(T) \in Nat /\ Cardinality(U) \in Nat
  BY FS_Subset, FS_CardinalityType
<1>2. Cardinality(T \cup U) = Cardinality(T) + Cardinality(U) - Cardinality(T \cap U)
  BY <1>1, FS_Union
<1>3. Cardinality(T \cap U) = 0
  BY FS_EmptySet
<1> QED
  BY <1>1, <1>2, <1>3

\* The rows of the attempts table are finitely many.
LEMMA AttemptsAreFinite == IsFiniteSet(Jobs \X AttemptNumbers)
<1>1. IsFiniteSet(AttemptNumbers)
  BY FS_Interval, JobStoreAssumption DEF AttemptNumbers
<1>2. IsFiniteSet(Jobs)
  BY DashboardAssumption
<1> QED
  BY <1>1, <1>2, FS_Product

-----------------------------------------------------------------------------
(***************************************************************************)
(* Percentages                                                             *)
(***************************************************************************)
\* A rate is within half a hundredth of a percent of the exact one.
LEMMA RateIsRounded ==
  ASSUME NEW part \in Nat, NEW whole \in Nat \ {0}
  PROVE  /\ Rate(part, whole) \in Nat
         /\ 2 * whole * Rate(part, whole) <= 20000 * part + whole
         /\ 20000 * part < 2 * whole * Rate(part, whole) + whole
<1> DEFINE a == 20000 * part + whole
           b == 2 * whole
           q == a \div b
<1>1. a \in Nat /\ b \in Nat \ {0} /\ Rate(part, whole) = q
  BY DEF Rate
<1> HIDE DEF a, b
<1>2. q \in Nat /\ b * q <= a /\ a < b * q + b
  BY <1>1
<1> HIDE DEF q
<1> QED
  BY <1>1, <1>2 DEF a, b

\* Two rates add up to 50.00 or more whenever their parts make half of the
\* whole, and only when they make 49.99 hundredths of it.
LEMMA PressureIsRounded ==
  ASSUME NEW p \in Nat, NEW q \in Nat, NEW whole \in Nat \ {0}
  PROVE  /\ Rate(p, whole) + Rate(q, whole) >= 5000 => 10000 * (p + q) >= 4999 * whole
         /\ Rate(p, whole) + Rate(q, whole) < 5000 => 2 * (p + q) < whole
<1> DEFINE x == Rate(p, whole)
           y == Rate(q, whole)
<1>1. /\ Rate(p, whole) \in Nat
      /\ 2 * whole * Rate(p, whole) <= 20000 * p + whole
      /\ 20000 * p < 2 * whole * Rate(p, whole) + whole
  BY RateIsRounded
<1>2. /\ Rate(q, whole) \in Nat
      /\ 2 * whole * Rate(q, whole) <= 20000 * q + whole
      /\ 20000 * q < 2 * whole * Rate(q, whole) + whole
  BY RateIsRounded
<1>3. /\ x \in Nat /\ 2 * whole * x <= 20000 * p + whole /\ 20000 * p < 2 * whole * x + whole
      /\ y \in Nat /\ 2 * whole * y <= 20000 * q + whole /\ 20000 * q < 2 * whole * y + whole
  BY <1>1, <1>2
<1> HIDE DEF x, y
<1>4. /\ whole * x + whole * y <= 10000 * (p + q) + whole
      /\ 10000 * (p + q) < whole * x + whole * y + whole
  BY <1>3
<1>5. whole * x + whole * y = whole * (x + y)
  BY <1>3
<1>6. x + y >= 5000 => whole * 5000 <= whole * (x + y)
  BY <1>3
<1>7. x + y < 5000 => whole * (x + y) <= whole * 4999
  BY <1>3
<1> QED
  BY <1>3, <1>4, <1>5, <1>6, <1>7 DEF x, y
-----------------------------------------------------------------------------
(***************************************************************************)
(* What is counted                                                         *)
(***************************************************************************)
\* Workers and attempts with a row are finitely many.
LEMMA RowsAreFinite ==
  /\ IsFiniteSet(Rows) /\ IsFiniteSet(AttemptRows)
  /\ \A S \in SUBSET Workers : IsFiniteSet(S)
  /\ \A S \in SUBSET Jobs : IsFiniteSet(S)
<1>1. \A S \in SUBSET Workers : IsFiniteSet(S)
  BY DashboardAssumption, FS_Subset
<1>2. \A S \in SUBSET Jobs : IsFiniteSet(S)
  BY DashboardAssumption, FS_Subset
<1>3. IsFiniteSet(AttemptRows)
  BY AttemptsAreFinite, FS_Subset DEF AttemptRows
<1> QED
  BY <1>1, <1>2, <1>3 DEF Rows

\* What each query would answer now.
LEMMA Results ==
  /\ \A s \in JobStatus \cup {"FAILED"} :
       ResultOf("jobsByStatus")[s] = Cardinality({j \in Jobs : status[j] = s})
  /\ ResultOf("claimable") = CountClaimableJobs
  /\ \A q \in {"workersByStatus", "clusterByStatus"}, s \in WorkerStatus :
       ResultOf(q)[s] = Cardinality({w \in Rows : row[w] = s})
  /\ \A s \in AttemptStatus :
       ResultOf("attemptsByStatus")[s] =
         Cardinality({a \in AttemptRows : attempts[a[1]][a[2]].status = s})
  /\ ResultOf("clusterActive") = CountActiveWorkers
  /\ ResultOf("clusterStale") = CountStaleWorkers
<1>1. \A s \in JobStatus \cup {"FAILED"} :
        ResultOf("jobsByStatus")[s] = Cardinality({j \in Jobs : status[j] = s})
  BY DEF ResultOf, CountByStatus
<1>2. \A q \in {"workersByStatus", "clusterByStatus"}, s \in WorkerStatus :
        ResultOf(q)[s] = Cardinality({w \in Rows : row[w] = s})
  BY DEF ResultOf, CountByStatus
<1>3. ASSUME NEW s \in AttemptStatus
      PROVE  ResultOf("attemptsByStatus")[s] =
               Cardinality({a \in AttemptRows : attempts[a[1]][a[2]].status = s})
  <2> DEFINE f == [a \in AttemptRows |-> attempts[a[1]][a[2]].status]
  <2>1. ResultOf("attemptsByStatus") = CountByStatus(AttemptRows, f, AttemptStatus)
    BY DEF ResultOf
  <2>2. \A a \in AttemptRows : f[a] = attempts[a[1]][a[2]].status
    OBVIOUS
  <2> HIDE DEF f
  <2>3. {a \in AttemptRows : f[a] = s} = {a \in AttemptRows : attempts[a[1]][a[2]].status = s}
    BY <2>2
  <2> QED
    BY <2>1, <2>3 DEF CountByStatus
<1> QED
  BY <1>1, <1>2, <1>3 DEF ResultOf

\* A count of rows of one status is zero exactly when no row has it.
LEMMA RowCount ==
  ASSUME FleetInv, NEW s \in WorkerStatus, NEW q \in {"workersByStatus", "clusterByStatus"}
  PROVE  /\ ResultOf(q)[s] \in Nat
         /\ ResultOf(q)[s] = 0 <=> \A w \in Workers : row[w] # s
<1>1. ResultOf(q)[s] = Cardinality({w \in Rows : row[w] = s})
  BY Results
<1>2. /\ Cardinality({w \in Rows : row[w] = s}) \in Nat
      /\ Cardinality({w \in Rows : row[w] = s}) = 0 <=> {w \in Rows : row[w] = s} = {}
  BY RowsAreFinite, CountOf
<1>3. s # "NONE"
  BY DEF WorkerStatus
<1> QED
  BY <1>1, <1>2, <1>3 DEF Rows

\* The same of the active rows, the silent ones and the claimable jobs.
LEMMA OtherCounts ==
  ASSUME report.silentThen \subseteq Workers, report.dueThen \subseteq Jobs
  PROVE  /\ CountActiveWorkers \in Nat
         /\ CountActiveWorkers = 0 <=> Unmanned
         /\ CountStaleWorkers \in Nat
         /\ CountStaleWorkers = 0 <=>
              \A w \in report.silentThen : row[w] \notin StaleCandidateStatuses
         /\ CountClaimableJobs \in Nat
         /\ CountClaimableJobs = 0 <=>
              \A j \in report.dueThen : status[j] \notin ClaimableStatuses \/ owner[j] # NoWorker
<1>1. ReportedClaimableStatuses = ClaimableStatuses /\ ActiveWorkerStatuses = StaleCandidateStatuses
  BY DEF ReportedClaimableStatuses, ClaimableStatuses, ActiveWorkerStatuses, StaleCandidateStatuses
<1>2. CountActiveWorkers \in Nat /\ (CountActiveWorkers = 0 <=> Unmanned)
  <2> DEFINE A == {w \in Rows : row[w] \in ActiveWorkerStatuses}
  <2>1. Cardinality(A) \in Nat /\ (Cardinality(A) = 0 <=> A = {})
    BY RowsAreFinite, CountOf
  <2>2. "NONE" \notin StaleCandidateStatuses
    BY DEF StaleCandidateStatuses
  <2> QED
    BY <1>1, <2>1, <2>2 DEF CountActiveWorkers, Unmanned, Rows
<1>3. /\ CountStaleWorkers \in Nat
      /\ CountStaleWorkers = 0 <=>
           \A w \in report.silentThen : row[w] \notin StaleCandidateStatuses
  <2> DEFINE A == {w \in report.silentThen : row[w] \in ActiveWorkerStatuses}
  <2>1. IsFiniteSet(report.silentThen)
    BY RowsAreFinite
  <2>2. Cardinality(A) \in Nat /\ (Cardinality(A) = 0 <=> A = {})
    BY <2>1, CountOf
  <2> QED
    BY <1>1, <2>2 DEF CountStaleWorkers
<1>4. /\ CountClaimableJobs \in Nat
      /\ CountClaimableJobs = 0 <=>
           \A j \in report.dueThen : status[j] \notin ClaimableStatuses \/ owner[j] # NoWorker
  <2> DEFINE A == {j \in report.dueThen :
                     status[j] \in ReportedClaimableStatuses /\ owner[j] = NoWorker}
  <2>1. IsFiniteSet(report.dueThen)
    BY RowsAreFinite
  <2>2. Cardinality(A) \in Nat /\ (Cardinality(A) = 0 <=> A = {})
    BY <2>1, CountOf
  <2> QED
    BY <1>1, <2>2 DEF CountClaimableJobs
<1> QED
  BY <1>2, <1>3, <1>4

-----------------------------------------------------------------------------
(***************************************************************************)
(* Torn reads                                                              *)
(***************************************************************************)
\* A report and its history are well formed; nobody falls silent or due for it
\* once it was sent; a report that was not sent knows nothing.
ReportShape ==
  /\ silent \subseteq Workers
  /\ report = [asked |-> report.asked, silentThen |-> report.silentThen,
               dueThen |-> report.dueThen, answer |-> report.answer]
  /\ report.asked \in BOOLEAN
  /\ report.asked => report.silentThen = silent
  /\ ~report.asked => report = NoReport /\ during = Quiet
  /\ report.silentThen \subseteq Workers
  /\ report.dueThen \subseteq {j \in Jobs : due[j]}
  /\ DOMAIN report.answer \subseteq Queries
  /\ during.moves \in Nat

\* What was true of the fleet since the report was sent is true now, and it is
\* in the answers that have arrived.
WaitingIsCounted ==
  /\ \A j \in during.waiting : j \in report.dueThen /\ Claimable(j)
  /\ during.waiting # {} /\ "claimable" \in DOMAIN report.answer =>
       report.answer["claimable"] \in Nat \ {0}

UnmannedIsCounted ==
  during.unmanned =>
    /\ Unmanned
    /\ "workersByStatus" \in DOMAIN report.answer =>
         \A s \in ActiveWorkerStatuses : report.answer["workersByStatus"][s] = 0
    /\ "clusterActive" \in DOMAIN report.answer => report.answer["clusterActive"] = 0

SilenceIsCounted ==
  \A w \in Workers \ during.touched :
    /\ row[w] = "UNHEALTHY" /\ "clusterByStatus" \in DOMAIN report.answer =>
         report.answer["clusterByStatus"]["UNHEALTHY"] \in Nat \ {0}
    /\ row[w] \in StaleCandidateStatuses /\ w \in silent /\ "clusterStale" \in DOMAIN report.answer =>
         report.answer["clusterStale"] \in Nat \ {0}

\* While nothing moves, the answers are what the tables say.
QuietAnswers ==
  report.asked /\ during.moves = 0 =>
    /\ report.dueThen = {j \in Jobs : due[j]}
    /\ \A q \in DOMAIN report.answer : report.answer[q] = ResultOf(q)

\* The inductive invariant.
ReportInv ==
  /\ FleetInv /\ ReportShape
  /\ WaitingIsCounted /\ UnmannedIsCounted /\ SilenceIsCounted /\ QuietAnswers

\* Nothing is known before a report is sent.
LEMMA NoReportInv ==
  ASSUME report = NoReport, during = Quiet, silent \subseteq Workers
  PROVE  ReportShape /\ WaitingIsCounted /\ UnmannedIsCounted /\ SilenceIsCounted /\ QuietAnswers
<1>1. DOMAIN NoAnswers = {}
  BY DEF NoAnswers
<1>2. ReportShape
  BY <1>1 DEF NoReport, Quiet, ReportShape
<1> QED
  BY <1>1, <1>2
  DEF NoReport, Quiet, WaitingIsCounted, UnmannedIsCounted, SilenceIsCounted, QuietAnswers

\* No report has been sent.
LEMMA ReportInitInv == DashboardInit => ReportInv
<1> SUFFICES ASSUME DashboardInit PROVE ReportInv
  OBVIOUS
<1>1. FleetInit /\ silent = {} /\ report = NoReport /\ during = Quiet
  BY DEF DashboardInit
<1>2. silent \subseteq Workers
  BY <1>1
<1> QED
  BY <1>1, <1>2, FleetInitInv, NoReportInv DEF ReportInv
\* Nor after a report is forgotten.
LEMMA NoReportAfter ==
  ASSUME report' = NoReport, during' = Quiet, silent' \subseteq Workers
  PROVE  (ReportShape /\ WaitingIsCounted /\ UnmannedIsCounted /\ SilenceIsCounted /\ QuietAnswers)'
<1>1. DOMAIN NoAnswers = {}
  BY DEF NoAnswers
<1>2. ReportShape'
  BY <1>1 DEF NoReport, Quiet, ReportShape
<1> QED
  BY <1>1, <1>2
  DEF NoReport, Quiet, WaitingIsCounted, UnmannedIsCounted, SilenceIsCounted, QuietAnswers

\* A report is sent.
LEMMA SendingKeepsReports ==
  ASSUME ReportInv, GetSystemHealth
  PROVE  ReportInv'
<1>1. /\ FleetInv /\ ReportShape /\ silent' = silent /\ UNCHANGED jobVars /\ UNCHANGED fleetVars
      /\ report' = [NoReport EXCEPT !.asked = TRUE, !.silentThen = silent,
                                    !.dueThen = {j \in Jobs : due[j]}]
      /\ during' = [Quiet EXCEPT !.waiting = {j \in Jobs : Claimable(j)}, !.unmanned = Unmanned]
  BY DEF ReportInv, GetSystemHealth, vars
<1>2. FleetInv'
  BY <1>1, FleetNextInv DEF vars
<1>3. /\ report' = [asked |-> TRUE, silentThen |-> silent, dueThen |-> {j \in Jobs : due[j]},
                    answer |-> NoAnswers]
      /\ during' = [moves |-> 0, touched |-> {}, waiting |-> {j \in Jobs : Claimable(j)},
                    unmanned |-> Unmanned]
  BY <1>1 DEF NoReport, Quiet
<1>4. DOMAIN NoAnswers = {}
  BY DEF NoAnswers
<1>5. due' = due /\ Unmanned' = Unmanned /\ \A j : Claimable(j)' = Claimable(j)
  BY <1>1 DEF jobVars, fleetVars, Unmanned, Claimable
<1>6. ReportShape'
  <2>1. /\ report'.asked = TRUE /\ report'.silentThen = silent
        /\ report'.dueThen = {j \in Jobs : due[j]} /\ report'.answer = NoAnswers
        /\ during'.moves = 0
    BY <1>3
  <2>2. report' = [asked |-> report'.asked, silentThen |-> report'.silentThen,
                   dueThen |-> report'.dueThen, answer |-> report'.answer]
    BY <1>3, <2>1
  <2>3. silent \subseteq Workers
    BY <1>1 DEF ReportShape
  <2> QED
    BY <1>1, <1>4, <1>5, <2>1, <2>2, <2>3 DEF ReportShape
<1>7. WaitingIsCounted' /\ UnmannedIsCounted'
  BY <1>3, <1>4, <1>5 DEF WaitingIsCounted, UnmannedIsCounted, Claimable
<1>8. SilenceIsCounted' /\ QuietAnswers'
  BY <1>3, <1>4, <1>5 DEF SilenceIsCounted, QuietAnswers
<1> QED
  BY <1>2, <1>6, <1>7, <1>8 DEF ReportInv

\* An answer arrives; it is what the tables say at this moment.
LEMMA AnsweringKeepsReports ==
  ASSUME ReportInv, NEW q \in Queries, QueryAnswered(q)
  PROVE  ReportInv'
<1>1. /\ FleetInv /\ ReportShape /\ WaitingIsCounted /\ UnmannedIsCounted /\ SilenceIsCounted
      /\ QuietAnswers /\ silent' = silent /\ during' = during
      /\ UNCHANGED jobVars /\ UNCHANGED fleetVars
      /\ report.asked /\ q \notin DOMAIN report.answer
  BY DEF ReportInv, QueryAnswered, vars
<1>2. FleetInv'
  BY <1>1, FleetNextInv DEF vars
<1>3. PICK answer : answer = [p \in DOMAIN report.answer \cup {q} |->
                                IF p = q THEN ResultOf(q) ELSE report.answer[p]]
  OBVIOUS
<1>4. report' = [report EXCEPT !.answer = answer]
  BY <1>3 DEF QueryAnswered
<1>5. report' = [asked |-> TRUE, silentThen |-> report.silentThen, dueThen |-> report.dueThen,
                 answer |-> answer]
  BY <1>1, <1>4 DEF ReportShape
<1>6. /\ DOMAIN answer = DOMAIN report.answer \cup {q} /\ answer[q] = ResultOf(q)
      /\ \A p \in DOMAIN report.answer : answer[p] = report.answer[p]
  BY <1>1, <1>3
<1>7. /\ due' = due /\ status' = status /\ owner' = owner /\ attempts' = attempts /\ row' = row
      /\ Unmanned' = Unmanned /\ \A j : Claimable(j)' = Claimable(j)
  BY <1>1 DEF jobVars, fleetVars, Unmanned, Claimable
<1>8. report.silentThen = silent /\ silent \subseteq Workers /\ report.dueThen \subseteq Jobs
  BY <1>1 DEF ReportShape
<1>9. ReportShape'
  BY <1>1, <1>5, <1>6, <1>7 DEF ReportShape
<1>10. WaitingIsCounted'
  <2>1. ASSUME during.waiting # {}, q = "claimable" PROVE answer[q] \in Nat \ {0}
    <3>1. PICK j \in during.waiting : j \in report.dueThen /\ Claimable(j)
      BY <1>1, <2>1 DEF WaitingIsCounted
    <3>2. CountClaimableJobs \in Nat /\ CountClaimableJobs # 0
      BY <1>8, <3>1, OtherCounts DEF Claimable
    <3> QED
      BY <1>6, <2>1, <3>2, Results
  <2> QED
    BY <1>1, <1>5, <1>6, <1>7, <2>1 DEF WaitingIsCounted
<1>11. UnmannedIsCounted'
  <2>1. ASSUME during.unmanned, q = "workersByStatus", NEW s \in ActiveWorkerStatuses
        PROVE  answer[q][s] = 0
    <3>1. s \in WorkerStatus /\ \A w \in Workers : row[w] # s
      BY <1>1, <2>1
      DEF UnmannedIsCounted, Unmanned, ActiveWorkerStatuses, StaleCandidateStatuses, WorkerStatus
    <3> QED
      BY <1>1, <1>6, <2>1, <3>1, RowCount
  <2>2. ASSUME during.unmanned, q = "clusterActive" PROVE answer[q] = 0
    BY <1>1, <1>6, <1>8, <2>2, Results, OtherCounts DEF UnmannedIsCounted
  <2> QED
    BY <1>1, <1>5, <1>6, <1>7, <2>1, <2>2 DEF UnmannedIsCounted
<1>12. SilenceIsCounted'
  <2>1. ASSUME NEW w \in Workers \ during.touched, row[w] = "UNHEALTHY", q = "clusterByStatus"
        PROVE  answer[q]["UNHEALTHY"] \in Nat \ {0}
    <3>1. "UNHEALTHY" \in WorkerStatus
      BY DEF WorkerStatus
    <3> QED
      BY <1>1, <1>6, <2>1, <3>1, RowCount
  <2>2. ASSUME NEW w \in Workers \ during.touched, row[w] \in StaleCandidateStatuses, w \in silent,
               q = "clusterStale"
        PROVE  answer[q] \in Nat \ {0}
    BY <1>6, <1>8, <2>2, Results, OtherCounts
  <2> QED
    BY <1>1, <1>5, <1>6, <1>7, <2>1, <2>2 DEF SilenceIsCounted
<1>13. QuietAnswers'
  <2>1. report'.dueThen = report.dueThen /\ report'.silentThen = report.silentThen
    BY <1>5
  <2>2. ASSUME NEW p PROVE ResultOf(p)' = ResultOf(p)
    BY <1>7, <2>1
    DEF ResultOf, CountByStatus, CountClaimableJobs, CountActiveWorkers, CountStaleWorkers, Rows,
        AttemptRows
  <2> QED
    BY <1>1, <1>5, <1>6, <1>7, <2>2 DEF QuietAnswers
<1> QED
  BY <1>2, <1>9, <1>10, <1>11, <1>12, <1>13 DEF ReportInv

\* The fleet moves; what was true of it all the time still is.
LEMMA MovingKeepsReports ==
  ASSUME ReportInv, FleetMoves
  PROVE  ReportInv'
<1>1. /\ FleetInv /\ ReportShape /\ WaitingIsCounted /\ UnmannedIsCounted /\ SilenceIsCounted
      /\ FleetNext /\ silent' = {w \in silent : stale'[w]}
  BY DEF ReportInv, FleetMoves
<1>2. FleetInv'
  BY <1>1, FleetNextInv
<1>3. silent' \subseteq Workers
  BY <1>1 DEF ReportShape
<1>4. CASE ~(report.asked /\ ~Answered)
  <2>1. report' = NoReport /\ during' = Quiet
    BY <1>4 DEF FleetMoves
  <2> QED
    BY <1>2, <1>3, <2>1, NoReportAfter DEF ReportInv
<1>5. CASE report.asked /\ ~Answered
  <2>1. PICK still, overdue : still = {w \in report.silentThen : stale'[w]}
                             /\ overdue = {j \in report.dueThen : due'[j]}
    OBVIOUS
  <2>2. report' = [report EXCEPT !.silentThen = still, !.dueThen = overdue]
    BY <1>5, <2>1 DEF FleetMoves
  <2>3. report' = [asked |-> TRUE, silentThen |-> still, dueThen |-> overdue,
                   answer |-> report.answer]
    BY <1>1, <1>5, <2>2 DEF ReportShape
  <2>4. /\ during'.moves = during.moves + 1
        /\ \A w \in Workers \ during'.touched :
             w \notin during.touched /\ row'[w] = row[w] /\ stale'[w] = stale[w]
        /\ during'.waiting = {j \in during.waiting : Claimable(j)'}
        /\ during'.unmanned = (during.unmanned /\ Unmanned')
    BY <1>5 DEF FleetMoves
  <2>5. ReportShape'
    BY <1>1, <1>3, <1>5, <2>1, <2>3, <2>4 DEF ReportShape
  <2>6. WaitingIsCounted'
    BY <1>1, <2>1, <2>3, <2>4 DEF WaitingIsCounted, Claimable
  <2>7. UnmannedIsCounted'
    BY <1>1, <2>3, <2>4 DEF UnmannedIsCounted
  <2>8. SilenceIsCounted'
    BY <1>1, <2>3, <2>4 DEF SilenceIsCounted
  <2>9. QuietAnswers'
    BY <1>1, <2>4 DEF ReportShape, QuietAnswers
  <2> QED
    BY <1>2, <2>5, <2>6, <2>7, <2>8, <2>9 DEF ReportInv
<1> QED
  BY <1>4, <1>5

\* Every step keeps the invariant.
LEMMA ReportNextInv == ReportInv /\ [DashboardNext]_allVars => ReportInv'
<1> SUFFICES ASSUME ReportInv, [DashboardNext]_allVars PROVE ReportInv'
  OBVIOUS
<1>1. ASSUME NEW w \in Workers, FallSilent(w) PROVE ReportInv'
  <2>1. /\ report' = NoReport /\ during' = Quiet /\ silent' \subseteq Workers /\ UNCHANGED vars
    BY <1>1 DEF FallSilent, ReportInv, ReportShape
  <2>2. FleetInv'
    BY <2>1, FleetNextInv DEF ReportInv
  <2> QED
    BY <2>1, <2>2, NoReportAfter DEF ReportInv
<1>2. CASE UNCHANGED allVars
  <2>1. UNCHANGED jobVars /\ UNCHANGED fleetVars /\ UNCHANGED dashboardVars
    BY <1>2 DEF allVars, vars
  <2>2. FleetInv'
    BY <2>1, FleetNextInv DEF ReportInv, vars
  <2>3. /\ due' = due /\ status' = status /\ owner' = owner /\ attempts' = attempts /\ row' = row
        /\ silent' = silent /\ report' = report /\ during' = during
    BY <2>1 DEF jobVars, fleetVars, dashboardVars
  <2>4. ASSUME NEW p PROVE ResultOf(p)' = ResultOf(p)
    BY <2>3
    DEF ResultOf, CountByStatus, CountClaimableJobs, CountActiveWorkers, CountStaleWorkers, Rows,
        AttemptRows
  <2>5. ReportShape' /\ WaitingIsCounted' /\ UnmannedIsCounted' /\ SilenceIsCounted'
    BY <2>3
    DEF ReportInv, ReportShape, WaitingIsCounted, UnmannedIsCounted, SilenceIsCounted, Unmanned,
        Claimable
  <2>6. QuietAnswers'
    BY <2>3, <2>4 DEF ReportInv, QuietAnswers
  <2> QED
    BY <2>2, <2>5, <2>6 DEF ReportInv
<1> QED
  BY <1>1, <1>2, SendingKeepsReports, AnsweringKeepsReports, MovingKeepsReports DEF DashboardNext
-----------------------------------------------------------------------------
(***************************************************************************)
(* What a report says                                                      *)
(***************************************************************************)
\* The whole inductive invariant.
THEOREM ReportInvariant == DashboardSpec => []ReportInv
BY ReportInitInv, ReportNextInv, PTL DEF DashboardSpec

\* However the reads of a report are torn: a job that waits all the time is not
\* hidden, and without any worker row all the time the report is critical.
THEOREM WaitingJobsAreReported == DashboardSpec => []WaitingJobIsReported
<1>1. ASSUME ReportInv, Answered, during.waiting # {}
      PROVE  /\ QueueHealth # "healthy" /\ SystemHealth # "healthy"
             /\ during.unmanned =>
                  QueueHealth = "critical" /\ WorkerHealth = "critical" /\ SystemHealth = "critical"
  <2>1. DOMAIN report.answer = Queries
    BY <1>1 DEF Answered
  <2>2. report.answer["claimable"] > 0
    BY <1>1, <2>1 DEF ReportInv, WaitingIsCounted, Queries
  <2>3. QueueHealth \in {"critical", "degraded"}
    BY <2>2 DEF QueueHealth
  <2>4. SystemHealth # "healthy"
    BY <2>3 DEF SystemHealth
  <2>5. ASSUME during.unmanned
        PROVE  QueueHealth = "critical" /\ WorkerHealth = "critical" /\ SystemHealth = "critical"
    <3>1. /\ \A s \in ActiveWorkerStatuses : report.answer["workersByStatus"][s] = 0
          /\ report.answer["clusterActive"] = 0
      BY <1>1, <2>1, <2>5 DEF ReportInv, UnmannedIsCounted, Queries
    <3>2. ActiveInMetrics = 0
      BY <3>1 DEF ActiveInMetrics, ActiveWorkerStatuses
    <3>3. QueueHealth = "critical" /\ WorkerHealth = "critical"
      BY <2>2, <3>1, <3>2 DEF QueueHealth, WorkerHealth
    <3> QED
      BY <3>3 DEF SystemHealth
  <2> QED
    BY <2>3, <2>4, <2>5
<1>2. ReportInv => WaitingJobIsReported
  BY <1>1 DEF WaitingJobIsReported
<1> QED
  BY <1>2, ReportInvariant, PTL

\* Nor is a worker hidden that is silent or UNHEALTHY and whose row nobody
\* writes meanwhile.
THEOREM SilentWorkersAreReported == DashboardSpec => []SilentWorkerIsReported
<1>1. ASSUME ReportInv, Answered, NEW w \in Workers \ during.touched,
             row[w] = "UNHEALTHY" \/ (row[w] \in StaleCandidateStatuses /\ w \in silent)
      PROVE  WorkerHealth # "healthy"
  <2>1. DOMAIN report.answer = Queries
    BY <1>1 DEF Answered
  <2>2. \/ report.answer["clusterByStatus"]["UNHEALTHY"] > 0
        \/ report.answer["clusterStale"] > 0
    BY <1>1, <2>1 DEF ReportInv, SilenceIsCounted, Queries
  <2> QED
    BY <2>2 DEF WorkerHealth
<1>2. ReportInv => SilentWorkerIsReported
  BY <1>1 DEF SilentWorkerIsReported
<1> QED
  BY <1>2, ReportInvariant, PTL
-----------------------------------------------------------------------------
(***************************************************************************)
(* A report of a quiet system                                              *)
(***************************************************************************)
\* The answers are the counts of the tables as they are.
LEMMA QuietCounts ==
  ASSUME ReportInv, Answered, during.moves = 0
  PROVE  /\ \A q \in Queries : report.answer[q] = ResultOf(q)
         /\ report.silentThen = silent /\ silent \subseteq Workers
         /\ report.dueThen = {j \in Jobs : due[j]}
BY DEF ReportInv, ReportShape, QuietAnswers, Answered

\* The active workers of the metrics and of the cluster are those whose rows
\* recovery regards as serving.
LEMMA ActiveCounts ==
  ASSUME ReportInv, Answered, during.moves = 0
  PROVE  /\ ActiveInMetrics \in Nat /\ (ActiveInMetrics = 0 <=> Unmanned)
         /\ report.answer["clusterActive"] = 0 <=> Unmanned
<1>1. /\ report.answer["workersByStatus"] = ResultOf("workersByStatus")
      /\ report.answer["clusterActive"] = ResultOf("clusterActive")
  BY QuietCounts DEF Queries
<1>2. \A s \in {"STARTING", "ONLINE", "BUSY"} :
        /\ ResultOf("workersByStatus")[s] \in Nat
        /\ ResultOf("workersByStatus")[s] = 0 <=> \A w \in Workers : row[w] # s
  <2>1. \A s \in {"STARTING", "ONLINE", "BUSY"} : s \in WorkerStatus
    BY DEF WorkerStatus
  <2> QED
    BY <2>1, RowCount DEF ReportInv
<1>3. ActiveInMetrics \in Nat /\ (ActiveInMetrics = 0 <=> Unmanned)
  <2> DEFINE count(s) == ResultOf("workersByStatus")[s]
  <2>1. PICK x : x = count("STARTING")
    OBVIOUS
  <2>2. PICK y : y = count("ONLINE")
    OBVIOUS
  <2>3. PICK z : z = count("BUSY")
    OBVIOUS
  <2>4. ActiveInMetrics = x + y + z
    BY <1>1, <2>1, <2>2, <2>3 DEF ActiveInMetrics
  <2>5. /\ x \in Nat /\ (x = 0 <=> \A w \in Workers : row[w] # "STARTING")
        /\ y \in Nat /\ (y = 0 <=> \A w \in Workers : row[w] # "ONLINE")
        /\ z \in Nat /\ (z = 0 <=> \A w \in Workers : row[w] # "BUSY")
    BY <1>2, <2>1, <2>2, <2>3
  <2>6. x + y + z \in Nat /\ (x + y + z = 0 <=> x = 0 /\ y = 0 /\ z = 0)
    BY <2>5
  <2>7. Unmanned <=> x = 0 /\ y = 0 /\ z = 0
    BY <2>5 DEF Unmanned, StaleCandidateStatuses
  <2> QED
    BY <2>4, <2>6, <2>7
<1>4. report.dueThen \subseteq Jobs /\ report.silentThen \subseteq Workers
  BY QuietCounts
<1>5. report.answer["clusterActive"] = 0 <=> Unmanned
  BY <1>1, <1>4, Results, OtherCounts
<1> QED
  BY <1>3, <1>5

\* The queue is what its comment says.
LEMMA QuietQueue ==
  ASSUME ReportInv, Answered, during.moves = 0
  PROVE  QueueIs(QueueHealth)
<1> DEFINE waiting == \E j \in Jobs : Claimable(j)
           lost == \E j \in Jobs : status[j] = "DEAD_LETTER"
           jobs == report.answer["jobsByStatus"]
           claimable == report.answer["claimable"]
<1>1. claimable \in Nat /\ (claimable > 0 <=> waiting)
  <2>1. claimable = CountClaimableJobs
    BY QuietCounts, Results DEF Queries
  <2>2. report.dueThen = {j \in Jobs : due[j]} /\ report.silentThen \subseteq Workers
    BY QuietCounts
  <2>3. /\ CountClaimableJobs \in Nat
        /\ CountClaimableJobs = 0 <=>
             \A j \in report.dueThen : status[j] \notin ClaimableStatuses \/ owner[j] # NoWorker
    BY <2>2, OtherCounts
  <2> QED
    BY <2>1, <2>2, <2>3 DEF Claimable
<1>2. jobs = ResultOf("jobsByStatus")
  BY QuietCounts DEF Queries
<1>3. ASSUME NEW s \in JobStatus \cup {"FAILED"}
      PROVE  jobs[s] \in Nat /\ (jobs[s] > 0 <=> \E j \in Jobs : status[j] = s)
  <2>1. jobs[s] = Cardinality({j \in Jobs : status[j] = s})
    BY <1>2, Results
  <2>2. /\ Cardinality({j \in Jobs : status[j] = s}) \in Nat
        /\ Cardinality({j \in Jobs : status[j] = s}) = 0 <=> {j \in Jobs : status[j] = s} = {}
    BY DashboardAssumption, CountOf
  <2> QED
    BY <2>1, <2>2
<1>4. ~(jobs["FAILED"] > 0)
  <2>1. \A j \in Jobs : status[j] # "FAILED"
    BY DEF ReportInv, FleetInv, JobInv, JobTypeOK, JobStatus, ClaimableStatuses, TerminalStatuses
  <2> QED
    BY <1>3, <2>1
<1>5. jobs["DEAD_LETTER"] > 0 <=> lost
  BY <1>3 DEF JobStatus, TerminalStatuses
<1>6. ActiveInMetrics = 0 <=> Unmanned
  BY ActiveCounts
<1>7. QueueHealth = IF waiting /\ Unmanned THEN "critical"
                    ELSE IF lost \/ waiting THEN "degraded" ELSE "healthy"
  BY <1>1, <1>4, <1>5, <1>6 DEF QueueHealth
<1> QED
  BY <1>7 DEF QueueIs, Unmanned

\* So are the workers.
LEMMA QuietWorkers ==
  ASSUME ReportInv, Answered, during.moves = 0
  PROVE  WorkersAre(WorkerHealth)
<1> DEFINE unhealthy == \E w \in Workers : row[w] = "UNHEALTHY"
           mute == \E w \in silent : row[w] \in StaleCandidateStatuses
<1>1. report.answer["clusterActive"] = 0 <=> Unmanned
  BY ActiveCounts
<1>2. report.answer["clusterByStatus"]["UNHEALTHY"] > 0 <=> unhealthy
  <2>1. report.answer["clusterByStatus"] = ResultOf("clusterByStatus")
    BY QuietCounts DEF Queries
  <2>2. "UNHEALTHY" \in WorkerStatus
    BY DEF WorkerStatus
  <2>3. /\ ResultOf("clusterByStatus")["UNHEALTHY"] \in Nat
        /\ ResultOf("clusterByStatus")["UNHEALTHY"] = 0 <=> ~unhealthy
    BY <2>2, RowCount DEF ReportInv
  <2> QED
    BY <2>1, <2>3
<1>3. report.answer["clusterStale"] > 0 <=> mute
  <2>1. report.answer["clusterStale"] = CountStaleWorkers
    BY QuietCounts, Results DEF Queries
  <2>2. report.dueThen \subseteq Jobs /\ report.silentThen = silent /\ silent \subseteq Workers
    BY QuietCounts
  <2>3. CountStaleWorkers \in Nat /\ (CountStaleWorkers = 0 <=> ~mute)
    BY <2>2, OtherCounts
  <2> QED
    BY <2>1, <2>3
<1>4. WorkerHealth = IF Unmanned THEN "critical"
                     ELSE IF mute \/ unhealthy THEN "degraded" ELSE "healthy"
  BY <1>1, <1>2, <1>3 DEF WorkerHealth
<1>5. silent \subseteq Workers
  BY QuietCounts
<1> QED
  BY <1>4, <1>5 DEF WorkersAre, Unmanned

\* Attempts that ended in one of several ways add up.
LEMMA EndedAddsUp ==
  ASSUME NEW O, NEW P, O \cap P = {}
  PROVE  /\ EndedWith(O) \in Nat
         /\ EndedWith(O \cup P) = EndedWith(O) + EndedWith(P)
<1> DEFINE S == Jobs \X AttemptNumbers
<1>1. PICK A : A = {a \in S : attempts[a[1]][a[2]].status \in O}
  OBVIOUS
<1>2. PICK B : B = {a \in S : attempts[a[1]][a[2]].status \in P}
  OBVIOUS
<1>3. A \in SUBSET S /\ B \in SUBSET S /\ A \cap B = {}
  BY <1>1, <1>2
<1>4. {a \in S : attempts[a[1]][a[2]].status \in O \cup P} = A \cup B
  BY <1>1, <1>2
<1>5. Cardinality(A) \in Nat /\ Cardinality(A \cup B) = Cardinality(A) + Cardinality(B)
  <2> HIDE DEF S
  <2>1. IsFiniteSet(S)
    BY AttemptsAreFinite DEF S
  <2> QED
    BY <1>3, <2>1, CountOf, CountOfTwo
<1>6. EndedWith(O) = Cardinality(A) /\ EndedWith(P) = Cardinality(B)
  BY <1>1, <1>2 DEF EndedWith
<1>7. EndedWith(O \cup P) = Cardinality(A \cup B)
  BY <1>4 DEF EndedWith
<1> QED
  BY <1>5, <1>6, <1>7

\* What the pressure says of the counts it was computed from.
LEMMA PressureSays ==
  ASSUME NEW c \in Nat, NEW f \in Nat, NEW t \in Nat,
         NEW pressure \in {Rate(f, c + f + t) + Rate(t, c + f + t)}
  PROVE  /\ pressure \in Nat
         /\ pressure >= 5000 => f + t > 0 /\ 10000 * (f + t) >= 4999 * (c + f + t)
         /\ pressure < 5000 /\ f + t > 0 => 2 * (f + t) < c + f + t
<1>1. PICK ended \in Nat : ended = c + f + t
  OBVIOUS
<1>2. pressure = Rate(f, ended) + Rate(t, ended)
  BY <1>1
<1>3. CASE ended = 0
  <2>1. f = 0 /\ t = 0
    BY <1>1, <1>3
  <2>2. Rate(f, ended) = 0 /\ Rate(t, ended) = 0
    BY <1>3 DEF Rate
  <2> QED
    BY <1>2, <2>1, <2>2
<1>4. CASE ended # 0
  <2>1. /\ pressure >= 5000 => 10000 * (f + t) >= 4999 * ended
        /\ pressure < 5000 => 2 * (f + t) < ended
    BY <1>2, <1>4, PressureIsRounded
  <2>2. Rate(f, ended) \in Nat /\ Rate(t, ended) \in Nat
    BY <1>4, RateIsRounded
  <2> QED
    BY <1>1, <1>2, <1>4, <2>1, <2>2
<1> QED
  BY <1>3, <1>4

\* And so are the executions, up to the rounding of the two rates.
LEMMA QuietExecution ==
  ASSUME ReportInv, Answered, during.moves = 0
  PROVE  ExecutionIs(ExecutionHealth)
<1> DEFINE count == report.answer["attemptsByStatus"]
<1>1. ASSUME NEW outcome \in FinishedAttempt
      PROVE  count[outcome] = EndedWith({outcome})
  <2>1. outcome \in AttemptStatus /\ outcome # "NONE"
    BY DEF AttemptStatus, FinishedAttempt
  <2>2. count[outcome] = Cardinality({a \in AttemptRows : attempts[a[1]][a[2]].status = outcome})
    BY <2>1, QuietCounts, Results DEF Queries
  <2>3. {a \in AttemptRows : attempts[a[1]][a[2]].status = outcome} =
          {a \in Jobs \X AttemptNumbers : attempts[a[1]][a[2]].status \in {outcome}}
    BY <2>1 DEF AttemptRows, NoAttempt
  <2> QED
    BY <2>2, <2>3 DEF EndedWith
<1>2. PICK c : c = count["COMPLETED"]
  OBVIOUS
<1>3. PICK f : f = count["FAILED"]
  OBVIOUS
<1>4. PICK t : t = count["TIMED_OUT"]
  OBVIOUS
<1>5. PICK bad : bad = EndedWith({"FAILED", "TIMED_OUT"})
  OBVIOUS
<1>6. PICK ended : ended = EndedWith(FinishedAttempt)
  OBVIOUS
<1>7. c = EndedWith({"COMPLETED"}) /\ f = EndedWith({"FAILED"}) /\ t = EndedWith({"TIMED_OUT"})
  BY <1>1, <1>2, <1>3, <1>4 DEF FinishedAttempt
<1>8. c \in Nat /\ f \in Nat /\ t \in Nat
  <2>1. \A O : O \cap {} = {} /\ EndedWith(O) \in Nat
    <3>1. \A O : O \cap {} = {}
      OBVIOUS
    <3> QED
      BY <3>1, EndedAddsUp
  <2> QED
    BY <1>7, <2>1
<1>9. bad = f + t
  <2>1. {"FAILED"} \cap {"TIMED_OUT"} = {} /\ {"FAILED"} \cup {"TIMED_OUT"} = {"FAILED", "TIMED_OUT"}
    OBVIOUS
  <2>2. EndedWith({"FAILED"} \cup {"TIMED_OUT"}) = EndedWith({"FAILED"}) + EndedWith({"TIMED_OUT"})
    BY <2>1, EndedAddsUp
  <2> QED
    BY <1>5, <1>7, <2>1, <2>2
<1>10. ended = c + f + t
  <2>1. /\ {"COMPLETED"} \cap {"FAILED", "TIMED_OUT"} = {}
        /\ {"COMPLETED"} \cup {"FAILED", "TIMED_OUT"} = FinishedAttempt
    BY DEF FinishedAttempt
  <2>2. EndedWith({"COMPLETED"} \cup {"FAILED", "TIMED_OUT"}) =
          EndedWith({"COMPLETED"}) + EndedWith({"FAILED", "TIMED_OUT"})
    BY <2>1, EndedAddsUp
  <2>3. ended = c + bad
    BY <1>5, <1>6, <1>7, <2>1, <2>2
  <2> QED
    BY <1>8, <1>9, <2>3
<1>11. PICK pressure : pressure = Rate(f, c + f + t) + Rate(t, c + f + t)
  OBVIOUS
<1>12. ExecutionHealth = IF pressure >= 5000 THEN "critical"
                         ELSE IF f > 0 \/ t > 0 THEN "degraded" ELSE "healthy"
  BY <1>2, <1>3, <1>4, <1>11 DEF ExecutionHealth
<1>13. /\ pressure \in Nat
       /\ pressure >= 5000 => bad > 0 /\ 10000 * bad >= 4999 * ended
       /\ pressure < 5000 /\ bad > 0 => 2 * bad < ended
       /\ bad \in Nat /\ (bad > 0 <=> f > 0 \/ t > 0)
  <2>1. /\ pressure \in Nat
        /\ pressure >= 5000 => f + t > 0 /\ 10000 * (f + t) >= 4999 * (c + f + t)
        /\ pressure < 5000 /\ f + t > 0 => 2 * (f + t) < c + f + t
    <3>1. pressure \in {Rate(f, c + f + t) + Rate(t, c + f + t)}
      BY <1>11
    <3> QED
      BY <1>8, <3>1, PressureSays
  <2>2. f + t \in Nat /\ (f + t > 0 <=> f > 0 \/ t > 0)
    BY <1>8
  <2> QED
    BY <1>9, <1>10, <2>1, <2>2
<1>14. PICK health : health = ExecutionHealth
  OBVIOUS
<1>15. CASE pressure >= 5000
  <2>1. health = "critical"
    BY <1>12, <1>14, <1>15
  <2>2. bad > 0 /\ 10000 * bad >= 4999 * ended
    BY <1>13, <1>15
  <2>3. ExecutionIs(health)
    BY <1>5, <1>6, <2>1, <2>2 DEF ExecutionIs
  <2> QED
    BY <1>14, <2>3
<1>16. CASE pressure < 5000 /\ bad > 0
  <2>1. health = "degraded"
    BY <1>12, <1>13, <1>14, <1>16
  <2>2. bad > 0 /\ 2 * bad < ended
    BY <1>13, <1>16
  <2>3. ExecutionIs(health)
    BY <1>5, <1>6, <2>1, <2>2 DEF ExecutionIs
  <2> QED
    BY <1>14, <2>3
<1>17. CASE pressure < 5000 /\ ~(bad > 0)
  <2>1. health = "healthy"
    BY <1>12, <1>13, <1>14, <1>17
  <2>2. bad = 0
    BY <1>13, <1>17
  <2>3. ExecutionIs(health)
    BY <1>5, <1>6, <2>1, <2>2 DEF ExecutionIs
  <2> QED
    BY <1>14, <2>3
<1> QED
  BY <1>13, <1>15, <1>16, <1>17

\* A report of a system in which nothing moved says what the comments promise.
THEOREM QuietReportsAreRight == DashboardSpec => []QuietReportIsRight
<1>1. ReportInv => QuietReportIsRight
  BY QuietQueue, QuietWorkers, QuietExecution DEF QuietReportIsRight
<1> QED
  BY <1>1, ReportInvariant, PTL
=============================================================================
