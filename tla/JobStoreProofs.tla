--------------------------- MODULE JobStoreProofs ---------------------------
(***************************************************************************)
(* JobInv is an inductive invariant of JobStore, for any jobs, workers and *)
(* attempt budgets; the action properties and the refinement of JobQueue   *)
(* follow from it step by step.                                            *)
(***************************************************************************)
EXTENDS JobStore, TLAPS

\* The empty tables satisfy the invariant.
LEMMA JobInitInv == JobInit => JobInv
  BY JobStoreAssumption
  DEF JobInit, JobInv, JobTypeOK, OneActiveAttempt, AttemptHistory, AttemptBudget,
      JobStatus, ClaimableStatuses, TerminalStatuses, Attempt, NoAttempt, AttemptStatus,
      LogEvent, AttemptNumbers

\* A finished attempt is neither missing nor active.
LEMMA FinishedIsNotActive ==
  /\ "NONE" \notin FinishedAttempt
  /\ "PROCESSING" \notin FinishedAttempt
  BY DEF FinishedAttempt

\* Submission, the clock and cancellation do not touch the attempts.
LEMMA ApiPreservesInv ==
  ASSUME JobInv, NEW j \in Jobs, CreateJob(j) \/ BecomeDue(j) \/ CancelJob(j)
  PROVE  JobInv'
<1>1. CASE CreateJob(j)
  <2>1. PICK s \in {"SCHEDULED", "QUEUED"}, e \in {"JOB_SCHEDULED", "JOB_QUEUED"}, d \in BOOLEAN :
          /\ status' = [status EXCEPT ![j] = s]
          /\ lastEvent' = [lastEvent EXCEPT ![j] = e]
          /\ due' = [due EXCEPT ![j] = d]
    BY <1>1 DEF CreateJob
  <2>2. /\ status[j] = "ABSENT"
        /\ UNCHANGED <<owner, attemptCount, attempts>>
    BY <1>1 DEF CreateJob
  <2>3. JobTypeOK'
    BY <2>1, <2>2 DEF JobInv, JobTypeOK, JobStatus, ClaimableStatuses, LogEvent
  <2>4. \A k \in Jobs : status'[k] = IF k = j THEN s ELSE status[k]
    BY <2>1 DEF JobInv, JobTypeOK
  <2>5. OneActiveAttempt' /\ AttemptHistory'
    BY <2>2, <2>4 DEF JobInv, OneActiveAttempt, AttemptHistory
  <2>6. AttemptBudget'
    BY <2>2, <2>4, JobStoreAssumption DEF JobInv, AttemptHistory, AttemptBudget, ClaimableStatuses
  <2>. QED BY <2>3, <2>5, <2>6 DEF JobInv
<1>2. CASE BecomeDue(j)
  BY <1>2
  DEF JobInv, JobTypeOK, OneActiveAttempt, AttemptHistory, AttemptBudget, BecomeDue
<1>3. CASE CancelJob(j)
  BY <1>3, JobStoreAssumption
  DEF JobInv, JobTypeOK, OneActiveAttempt, AttemptHistory, AttemptBudget, CancelJob,
      JobStatus, ClaimableStatuses, TerminalStatuses
<1>. QED BY <1>1, <1>2, <1>3

\* A claim opens the attempt after the newest one.
LEMMA ClaimPreservesInv ==
  ASSUME JobInv, NEW j \in Jobs, NEW w \in Workers, ClaimNextJob(w, j)
  PROVE  JobInv'
<1> DEFINE n == attemptCount[j] + 1
<1>1. /\ attemptCount[j] \in Nat
      /\ attemptCount[j] < MaxAttempts[j]
      /\ MaxAttempts[j] \in 1 .. AttemptBound
      /\ AttemptBound \in Nat
  <2>1. status[j] \in ClaimableStatuses
    BY DEF ClaimNextJob, Claimable
  <2>2. attemptCount[j] \in Nat
    BY JobStoreAssumption DEF JobInv, JobTypeOK
  <2>. QED BY <2>1, <2>2, JobStoreAssumption DEF JobInv, AttemptBudget
<1>2. n \in AttemptNumbers /\ n \in 0 .. AttemptBound /\ n > 0
  BY <1>1 DEF AttemptNumbers
<1>3. /\ status' = [status EXCEPT ![j] = "PROCESSING"]
      /\ owner' = [owner EXCEPT ![j] = w]
      /\ attemptCount' = [attemptCount EXCEPT ![j] = n]
      /\ attempts' = [attempts EXCEPT ![j][n] = ActiveAttempt(w)]
      /\ lastEvent' = [lastEvent EXCEPT ![j] = "JOB_PROCESSING"]
      /\ due' = due
      /\ status[j] \in ClaimableStatuses
      /\ owner[j] = NoWorker
  BY DEF ClaimNextJob, Claimable
<1>4. JobTypeOK'
  BY <1>2, <1>3 DEF JobInv, JobTypeOK, Attempt, AttemptStatus, ActiveAttempt, JobStatus, LogEvent
<1>5. \A m \in AttemptNumbers :
        attempts'[j][m] = IF m = n THEN ActiveAttempt(w) ELSE attempts[j][m]
  BY <1>3 DEF JobInv, JobTypeOK
<1>6. \A k \in Jobs \ {j} :
        /\ attempts'[k] = attempts[k] /\ status'[k] = status[k] /\ owner'[k] = owner[k]
        /\ attemptCount'[k] = attemptCount[k]
  BY <1>3 DEF JobInv, JobTypeOK
<1>7. /\ status'[j] = "PROCESSING" /\ owner'[j] = w /\ attemptCount'[j] = n
  BY <1>3 DEF JobInv, JobTypeOK
<1>8. w # NoWorker /\ ActiveAttempt(w).status = "PROCESSING"
  BY JobStoreAssumption DEF ActiveAttempt
<1>9. OneActiveAttempt'
  <2>1. \A m \in AttemptNumbers : attempts[j][m].status # "PROCESSING"
    BY <1>3 DEF JobInv, OneActiveAttempt, ClaimableStatuses
  <2>. QED BY <1>2, <1>5, <1>6, <1>7, <1>8, <2>1 DEF JobInv, OneActiveAttempt
<1>10. AttemptHistory'
  BY <1>1, <1>2, <1>3, <1>5, <1>6, <1>7, <1>8
  DEF JobInv, JobTypeOK, AttemptHistory, ClaimableStatuses, AttemptNumbers
<1>11. AttemptBudget'
  BY <1>1, <1>3, <1>6, <1>7 DEF JobInv, AttemptBudget, ClaimableStatuses
<1>. QED BY <1>4, <1>9, <1>10, <1>11 DEF JobInv

\* What every finishing transaction does to the row it finishes.
LEMMA FinishedRow ==
  ASSUME JobInv, NEW j \in Jobs, NEW w \in Workers, NEW n \in AttemptNumbers,
         NEW outcome \in FinishedAttempt, FinishAttempt(w, j, n, outcome)
  PROVE  /\ n = attemptCount[j] /\ n > 0
         /\ status[j] = "PROCESSING"
         /\ owner' \in [Jobs -> Workers \cup {NoWorker}]
         /\ attempts' \in [Jobs -> [AttemptNumbers -> Attempt]]
         /\ owner'[j] = NoWorker
         /\ attempts'[j][n].status = outcome
         /\ \A m \in AttemptNumbers \ {n} : attempts'[j][m] = attempts[j][m]
         /\ \A k \in Jobs \ {j} : owner'[k] = owner[k] /\ attempts'[k] = attempts[k]
         /\ attemptCount' = attemptCount
<1>1. /\ status[j] = "PROCESSING"
      /\ attempts[j][n] = ActiveAttempt(w)
      /\ owner' = [owner EXCEPT ![j] = NoWorker]
      /\ attempts' = [attempts EXCEPT ![j][n].status = outcome]
      /\ attemptCount' = attemptCount
  BY DEF FinishAttempt, OwnsActiveAttempt
<1>2. n = attemptCount[j] /\ n > 0
  <2>1. attempts[j][n].status = "PROCESSING"
    BY <1>1 DEF ActiveAttempt
  <2>2. n = attemptCount[j]
    BY <2>1 DEF JobInv, OneActiveAttempt
  <2>. QED BY <2>2, JobStoreAssumption DEF AttemptNumbers
<1>3. [attempts[j][n] EXCEPT !.status = outcome] \in Attempt
  BY DEF JobInv, JobTypeOK, Attempt, AttemptStatus
<1>4. attempts' \in [Jobs -> [AttemptNumbers -> Attempt]]
  BY <1>1, <1>3 DEF JobInv, JobTypeOK
<1>5. attempts'[j][n].status = outcome
  BY <1>1 DEF JobInv, JobTypeOK, Attempt
<1>6. \A m \in AttemptNumbers \ {n} : attempts'[j][m] = attempts[j][m]
  BY <1>1 DEF JobInv, JobTypeOK
<1>7. /\ owner' \in [Jobs -> Workers \cup {NoWorker}]
      /\ owner'[j] = NoWorker
      /\ \A k \in Jobs \ {j} : owner'[k] = owner[k] /\ attempts'[k] = attempts[k]
  BY <1>1 DEF JobInv, JobTypeOK
<1>. QED BY <1>1, <1>2, <1>4, <1>5, <1>6, <1>7

\* The outcome of the attempt and the job's next status agree.
LEMMA FinishOutcome ==
  ASSUME JobInv, NEW j \in Jobs, NEW w \in Workers, NEW n \in AttemptNumbers,
         Finish(w, j, n)
  PROVE  \E outcome \in FinishedAttempt, s \in {"COMPLETED", "RETRYING", "DEAD_LETTER"} :
           /\ FinishAttempt(w, j, n, outcome)
           /\ status' = [status EXCEPT ![j] = s]
           /\ s = "COMPLETED" <=> outcome = "COMPLETED"
           /\ s = "RETRYING" => n < MaxAttempts[j]
           /\ s = "DEAD_LETTER" => ~(n < MaxAttempts[j])
           /\ due' \in [Jobs -> BOOLEAN]
           /\ lastEvent' \in [Jobs -> LogEvent]
<1>0. due \in [Jobs -> BOOLEAN] /\ lastEvent \in [Jobs -> LogEvent]
  BY DEF JobInv, JobTypeOK
<1>1. CASE CompleteClaimedJob(w, j, n)
  BY <1>0, <1>1 DEF CompleteClaimedJob, FinishedAttempt, LogEvent
<1>2. CASE ReleaseJobForRetry(w, j, n) \/ RecoverJobForRetry(w, j, n)
  BY <1>0, <1>2
  DEF ReleaseJobForRetry, RecoverJobForRetry, Retry, AttemptsRemain, FinishedAttempt, LogEvent
<1>3. CASE MoveJobToDeadLetter(w, j, n) \/ RecoverJobToDeadLetter(w, j, n)
  BY <1>0, <1>3
  DEF MoveJobToDeadLetter, RecoverJobToDeadLetter, DeadLetter, AttemptsRemain,
      FinishedAttempt, LogEvent
<1>. QED BY <1>1, <1>2, <1>3 DEF Finish

\* Finishing closes the newest attempt and unlocks the job in one step.
LEMMA FinishPreservesInv ==
  ASSUME JobInv, NEW j \in Jobs, NEW w \in Workers, NEW n \in AttemptNumbers,
         Finish(w, j, n)
  PROVE  JobInv'
<1>1. PICK outcome \in FinishedAttempt, s \in {"COMPLETED", "RETRYING", "DEAD_LETTER"} :
        /\ FinishAttempt(w, j, n, outcome)
        /\ status' = [status EXCEPT ![j] = s]
        /\ s = "COMPLETED" <=> outcome = "COMPLETED"
        /\ s = "RETRYING" => n < MaxAttempts[j]
        /\ s = "DEAD_LETTER" => ~(n < MaxAttempts[j])
        /\ due' \in [Jobs -> BOOLEAN]
        /\ lastEvent' \in [Jobs -> LogEvent]
  BY FinishOutcome
<1>2. /\ n = attemptCount[j] /\ n > 0
      /\ status[j] = "PROCESSING"
      /\ owner' \in [Jobs -> Workers \cup {NoWorker}]
      /\ attempts' \in [Jobs -> [AttemptNumbers -> Attempt]]
      /\ owner'[j] = NoWorker
      /\ attempts'[j][n].status = outcome
      /\ \A m \in AttemptNumbers \ {n} : attempts'[j][m] = attempts[j][m]
      /\ \A k \in Jobs \ {j} : owner'[k] = owner[k] /\ attempts'[k] = attempts[k]
      /\ attemptCount' = attemptCount
  BY <1>1, FinishedRow
<1>3. /\ status' \in [Jobs -> JobStatus]
      /\ status'[j] = s
      /\ \A k \in Jobs \ {j} : status'[k] = status[k]
  BY <1>1 DEF JobInv, JobTypeOK, JobStatus, ClaimableStatuses, TerminalStatuses
<1>4. JobTypeOK'
  BY <1>1, <1>2, <1>3 DEF JobInv, JobTypeOK
<1>5. outcome # "NONE" /\ outcome # "PROCESSING"
  BY FinishedIsNotActive
<1>6. OneActiveAttempt'
  <2>1. \A m \in AttemptNumbers : attempts'[j][m].status # "PROCESSING"
    BY <1>2, <1>5 DEF JobInv, OneActiveAttempt
  <2>2. s # "PROCESSING"
    OBVIOUS
  <2>. QED BY <1>2, <1>3, <2>1, <2>2 DEF JobInv, OneActiveAttempt
<1>7. AttemptHistory'
  <2>1. \A m \in AttemptNumbers :
          /\ attempts'[j][m].status = "NONE" <=> m > attemptCount[j]
          /\ attempts'[j][m].status = "COMPLETED" <=> s = "COMPLETED" /\ m = attemptCount[j]
    <3>1. TAKE m \in AttemptNumbers
    <3>2. CASE m = n
      BY <1>1, <1>2, <1>5, <3>2, JobStoreAssumption DEF AttemptNumbers
    <3>3. CASE m # n
      BY <1>2, <3>3 DEF JobInv, AttemptHistory
    <3>. QED BY <3>2, <3>3
  <2>2. s \notin {"ABSENT", "SCHEDULED", "QUEUED"}
    OBVIOUS
  <2>. QED BY <1>2, <1>3, <2>1, <2>2 DEF JobInv, AttemptHistory
<1>8. AttemptBudget'
  <2>1. attemptCount[j] \in Nat /\ MaxAttempts[j] \in Nat /\ attemptCount[j] <= MaxAttempts[j]
    BY JobStoreAssumption DEF JobInv, JobTypeOK, AttemptBudget
  <2>2. s \in ClaimableStatuses <=> s = "RETRYING"
    BY DEF ClaimableStatuses
  <2>3. /\ attemptCount'[j] <= MaxAttempts[j]
        /\ status'[j] \in ClaimableStatuses => attemptCount'[j] < MaxAttempts[j]
        /\ status'[j] = "DEAD_LETTER" => attemptCount'[j] = MaxAttempts[j]
    BY <1>1, <1>2, <1>3, <2>1, <2>2
  <2>. QED BY <1>2, <1>3, <2>3 DEF JobInv, AttemptBudget
<1>. QED BY <1>4, <1>6, <1>7, <1>8 DEF JobInv

\* No step of the tables leaves the invariant.
LEMMA JobNextInv == JobInv /\ [JobNext]_jobVars => JobInv'
<1> SUFFICES ASSUME JobInv, [JobNext]_jobVars PROVE JobInv'
  OBVIOUS
<1>1. CASE UNCHANGED jobVars
  BY <1>1
  DEF jobVars, JobInv, JobTypeOK, OneActiveAttempt, AttemptHistory, AttemptBudget
<1>2. CASE JobNext
  BY <1>2, ApiPreservesInv, ClaimPreservesInv, FinishPreservesInv DEF JobNext
<1>. QED BY <1>1, <1>2

\* The tables keep their types, their single active attempt, their history
\* and their budget, whoever calls the transactions, in whatever order.
THEOREM JobStoreInvariant == JobSpec => []JobInv
  BY JobInitInv, JobNextInv, PTL DEF JobSpec

\* However many workers race for a job, one attempt of it is active at most,
\* and exactly while the job is PROCESSING.
COROLLARY OneAttemptRuns == JobSpec => []OneActiveAttempt
<1>1. JobInv => OneActiveAttempt
  BY DEF JobInv
<1>. QED BY <1>1, JobStoreInvariant, PTL

\* The attempts of a job are numbered without gaps by the count of its claims.
COROLLARY AttemptsAreNumbered == JobSpec => []AttemptHistory
<1>1. JobInv => AttemptHistory
  BY DEF JobInv
<1>. QED BY <1>1, JobStoreInvariant, PTL

-----------------------------------------------------------------------------
(***************************************************************************)
(* Action properties                                                       *)
(***************************************************************************)
\* A claim touches one job that has neither ended nor an attempt of that
\* number.
LEMMA ClaimFrame ==
  ASSUME JobInv, NEW j \in Jobs, NEW w \in Workers, ClaimNextJob(w, j)
  PROVE  /\ status[j] \in ClaimableStatuses
         /\ status' = [status EXCEPT ![j] = "PROCESSING"]
         /\ \A k \in Jobs \ {j} : attempts'[k] = attempts[k]
         /\ \A n \in AttemptNumbers :
              attempts[j][n] # NoAttempt => attempts'[j][n] = attempts[j][n]
  BY DEF JobInv, JobTypeOK, ClaimNextJob, Claimable

\* Each step writes at most one job, and of that job at most an attempt that
\* was not finished.
LEMMA StepIsFinal == JobInv /\ [JobNext]_jobVars => [FinalStep]_jobVars
<1> SUFFICES ASSUME JobInv, JobNext PROVE FinalStep
  OBVIOUS
<1>1. PICK j \in Jobs :
        \/ CreateJob(j) \/ BecomeDue(j) \/ CancelJob(j)
        \/ \E w \in Workers : ClaimNextJob(w, j)
        \/ \E w \in Workers : \E n \in AttemptNumbers : Finish(w, j, n)
  BY DEF JobNext
<1>2. CASE CreateJob(j) \/ BecomeDue(j) \/ CancelJob(j)
  BY <1>2 DEF CreateJob, BecomeDue, CancelJob, FinalStep, JobInv, JobTypeOK,
              TerminalStatuses, ClaimableStatuses
<1>3. CASE \E w \in Workers : ClaimNextJob(w, j)
  <2>1. NoAttempt.status \notin FinishedAttempt
    BY FinishedIsNotActive DEF NoAttempt
  <2>2. status[j] \notin TerminalStatuses
    BY <1>3, ClaimFrame DEF ClaimableStatuses, TerminalStatuses
  <2>3. \A k \in Jobs \ {j} : status'[k] = status[k] /\ attempts'[k] = attempts[k]
    BY <1>3, ClaimFrame DEF JobInv, JobTypeOK
  <2>4. \A n \in AttemptNumbers :
          attempts[j][n].status \in FinishedAttempt => attempts'[j][n] = attempts[j][n]
    BY <1>3, <2>1, ClaimFrame
  <2>. QED BY <2>2, <2>3, <2>4 DEF FinalStep
<1>4. CASE \E w \in Workers : \E n \in AttemptNumbers : Finish(w, j, n)
  <2>1. PICK w \in Workers, n \in AttemptNumbers : Finish(w, j, n)
    BY <1>4
  <2>2. PICK outcome \in FinishedAttempt, s \in {"COMPLETED", "RETRYING", "DEAD_LETTER"} :
          FinishAttempt(w, j, n, outcome) /\ status' = [status EXCEPT ![j] = s]
    BY <2>1, FinishOutcome
  <2>3. /\ status[j] = "PROCESSING"
        /\ \A m \in AttemptNumbers \ {n} : attempts'[j][m] = attempts[j][m]
        /\ \A k \in Jobs \ {j} : attempts'[k] = attempts[k]
    BY <2>2, FinishedRow
  <2>4. attempts[j][n].status = "PROCESSING"
    BY <2>2 DEF FinishAttempt, OwnsActiveAttempt, ActiveAttempt
  <2>5. \A k \in Jobs \ {j} : status'[k] = status[k]
    BY <2>2 DEF JobInv, JobTypeOK
  <2>. QED BY <2>3, <2>4, <2>5, FinishedIsNotActive DEF FinalStep, TerminalStatuses
<1>. QED BY <1>1, <1>2, <1>3, <1>4

\* Terminal jobs and finished attempts are never written again.
THEOREM HistoryStaysFinal == JobSpec => HistoryIsFinal
  BY JobStoreInvariant, StepIsFinal, PTL DEF JobSpec, HistoryIsFinal

\* Only a finishing transaction ends PROCESSING, and it does so as the
\* outcome and the budget say.
LEMMA StepSettles == JobInv /\ [JobNext]_jobVars => [SettlingStep]_jobVars
<1> SUFFICES ASSUME JobInv, JobNext PROVE SettlingStep
  OBVIOUS
<1>1. PICK j \in Jobs :
        \/ CreateJob(j) \/ BecomeDue(j) \/ CancelJob(j)
        \/ \E w \in Workers : ClaimNextJob(w, j)
        \/ \E w \in Workers : \E n \in AttemptNumbers : Finish(w, j, n)
  BY DEF JobNext
<1>2. CASE CreateJob(j) \/ BecomeDue(j) \/ CancelJob(j)
  BY <1>2 DEF CreateJob, BecomeDue, CancelJob, SettlingStep, JobInv, JobTypeOK, ClaimableStatuses
<1>3. CASE \E w \in Workers : ClaimNextJob(w, j)
  BY <1>3, ClaimFrame DEF SettlingStep, JobInv, JobTypeOK
<1>4. CASE \E w \in Workers : \E n \in AttemptNumbers : Finish(w, j, n)
  <2>1. PICK w \in Workers, n \in AttemptNumbers : Finish(w, j, n)
    BY <1>4
  <2>2. PICK outcome \in FinishedAttempt, s \in {"COMPLETED", "RETRYING", "DEAD_LETTER"} :
          /\ FinishAttempt(w, j, n, outcome)
          /\ status' = [status EXCEPT ![j] = s]
          /\ s = "COMPLETED" <=> outcome = "COMPLETED"
          /\ s = "RETRYING" => n < MaxAttempts[j]
          /\ s = "DEAD_LETTER" => ~(n < MaxAttempts[j])
    BY <2>1, FinishOutcome
  <2>3. n = attemptCount[j] /\ attempts'[j][n].status = outcome
    BY <2>2, FinishedRow
  <2>4. attempts[j][n].status = "PROCESSING"
    BY <2>2 DEF FinishAttempt, OwnsActiveAttempt, ActiveAttempt
  <2>5. status'[j] = s /\ \A k \in Jobs \ {j} : status'[k] = status[k]
    BY <2>2 DEF JobInv, JobTypeOK
  <2>6. s = StatusAfter(j, outcome)
    BY <2>2, <2>3 DEF StatusAfter
  <2>. QED BY <2>3, <2>4, <2>5, <2>6 DEF SettlingStep
<1>. QED BY <1>1, <1>2, <1>3, <1>4

\* A job leaves PROCESSING only with its newest attempt, as that one ended.
THEOREM JobsSettleByCurrentAttempt == JobSpec => SettledByCurrentAttempt
  BY JobStoreInvariant, StepSettles, PTL DEF JobSpec, SettledByCurrentAttempt

-----------------------------------------------------------------------------
(***************************************************************************)
(* The refinement of JobQueue                                              *)
(***************************************************************************)
\* The phase of every status the tables can hold.
LEMMA PhaseTable ==
  /\ PhaseOf("ABSENT") = "absent"
  /\ \A s \in ClaimableStatuses : PhaseOf(s) = "waiting"
  /\ PhaseOf("PROCESSING") = "leased"
  /\ PhaseOf("COMPLETED") = "succeeded"
  /\ PhaseOf("DEAD_LETTER") = "exhausted"
  /\ PhaseOf("CANCELLED") = "withdrawn"
  BY DEF PhaseOf, ClaimableStatuses

\* Changing one job's status moves one job from phase to phase.
LEMMA PhaseUpdate ==
  ASSUME JobTypeOK, NEW j \in Jobs, NEW s, status' = [status EXCEPT ![j] = s]
  PROVE  Queue!Move(j, PhaseOf(status[j]), PhaseOf(s))
<1>1. [k \in Jobs |-> PhaseOf(status'[k])] =
        [[k \in Jobs |-> PhaseOf(status[k])] EXCEPT ![j] = PhaseOf(s)]
  BY DEF JobTypeOK
<1>. QED BY <1>1 DEF Queue!Move

\* Each step of the tables is a step of the queue or leaves it unchanged.
LEMMA StepRefines == JobInv /\ [JobNext]_jobVars => [Queue!QueueNext]_(Queue!queueVars)
<1> SUFFICES ASSUME JobInv, JobNext
             PROVE  Queue!QueueNext \/ UNCHANGED Queue!queueVars
  BY DEF jobVars, Queue!queueVars
<1> DEFINE ph == [k \in Jobs |-> PhaseOf(status[k])]
<1>0. JobTypeOK
  BY DEF JobInv
<1>1. PICK j \in Jobs :
        \/ CreateJob(j) \/ BecomeDue(j) \/ CancelJob(j)
        \/ \E w \in Workers : ClaimNextJob(w, j)
        \/ \E w \in Workers : \E n \in AttemptNumbers : Finish(w, j, n)
  BY DEF JobNext
<1>2. CASE CreateJob(j)
  <2>1. PICK s \in ClaimableStatuses : status' = [status EXCEPT ![j] = s]
    BY <1>2 DEF CreateJob, ClaimableStatuses
  <2>2. Queue!Move(j, "absent", "waiting")
    <3>1. Queue!Move(j, PhaseOf(status[j]), PhaseOf(s))
      BY <1>0, <2>1, PhaseUpdate
    <3>. QED BY <1>2, <2>1, <3>1, PhaseTable DEF CreateJob
  <2>. QED BY <1>2, <2>2 DEF CreateJob, Queue!Submit, Queue!QueueNext
<1>3. CASE BecomeDue(j)
  BY <1>3 DEF BecomeDue, Queue!queueVars
<1>4. CASE CancelJob(j)
  <2>1. owner' = owner
    BY <1>4 DEF CancelJob, JobInv, JobTypeOK, OneActiveAttempt, ClaimableStatuses
  <2>2. Queue!Move(j, "waiting", "withdrawn")
    <3>1. Queue!Move(j, PhaseOf(status[j]), PhaseOf("CANCELLED"))
      BY <1>0, <1>4, PhaseUpdate DEF CancelJob
    <3>. QED BY <1>4, <3>1, PhaseTable DEF CancelJob
  <2>. QED BY <1>4, <2>1, <2>2 DEF CancelJob, Queue!Withdraw, Queue!QueueNext
<1>5. CASE \E w \in Workers : ClaimNextJob(w, j)
  <2>1. PICK w \in Workers : ClaimNextJob(w, j)
    BY <1>5
  <2>2. Queue!Move(j, "waiting", "leased")
    <3>1. Queue!Move(j, PhaseOf(status[j]), PhaseOf("PROCESSING"))
      BY <1>0, <2>1, PhaseUpdate DEF ClaimNextJob
    <3>. QED BY <2>1, <3>1, PhaseTable DEF ClaimNextJob, Claimable
  <2>3. attemptCount[j] < MaxAttempts[j]
    BY <2>1 DEF ClaimNextJob, Claimable, JobInv, AttemptBudget
  <2>4. Queue!Lease(w, j)
    BY <2>1, <2>2, <2>3 DEF ClaimNextJob, Queue!Lease, JobInv, JobTypeOK
  <2>. QED BY <2>4 DEF Queue!QueueNext
<1>6. CASE \E w \in Workers : \E n \in AttemptNumbers : Finish(w, j, n)
  <2>1. PICK w \in Workers, n \in AttemptNumbers : Finish(w, j, n)
    BY <1>6
  <2>2. PICK outcome \in FinishedAttempt, s \in {"COMPLETED", "RETRYING", "DEAD_LETTER"} :
          /\ FinishAttempt(w, j, n, outcome)
          /\ status' = [status EXCEPT ![j] = s]
          /\ s = "RETRYING" => n < MaxAttempts[j]
          /\ s = "DEAD_LETTER" => ~(n < MaxAttempts[j])
    BY <2>1, FinishOutcome
  <2>3. n = attemptCount[j] /\ status[j] = "PROCESSING"
    BY <2>2, FinishedRow
  <2>4. Queue!EndLease(j, PhaseOf(s))
    BY <1>0, <2>2, <2>3, PhaseTable, PhaseUpdate DEF FinishAttempt, Queue!EndLease
  <2>5. CASE s = "COMPLETED"
    BY <2>4, <2>5, PhaseTable DEF Queue!Succeed, Queue!QueueNext
  <2>6. CASE s = "RETRYING"
    BY <2>2, <2>3, <2>4, <2>6, PhaseTable DEF ClaimableStatuses, Queue!GiveBack, Queue!QueueNext
  <2>7. CASE s = "DEAD_LETTER"
    <3>1. attemptCount[j] \in Nat /\ MaxAttempts[j] \in Nat /\ attemptCount[j] <= MaxAttempts[j]
      BY JobStoreAssumption DEF JobInv, JobTypeOK, AttemptBudget
    <3>2. attemptCount[j] = MaxAttempts[j]
      BY <2>2, <2>3, <2>7, <3>1
    <3>. QED BY <2>4, <2>7, <3>2, PhaseTable DEF Queue!Exhaust, Queue!QueueNext
  <2>. QED BY <2>5, <2>6, <2>7
<1>. QED BY <1>1, <1>2, <1>3, <1>4, <1>5, <1>6

\* The tables implement the queue for every set of jobs, workers and budgets.
THEOREM JobStoreImplementsQueue == JobSpec => ImplementsQueue
<1>1. JobInit => Queue!QueueInit
  BY PhaseTable DEF JobInit, Queue!QueueInit
<1>. QED
  BY <1>1, JobStoreInvariant, StepRefines, PTL DEF JobSpec, ImplementsQueue, Queue!QueueSpec
=============================================================================
