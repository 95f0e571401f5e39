-------------------------- MODULE WorkerFleetProofs --------------------------
(***************************************************************************)
(* WorkerFleet for any number of processes, jobs, crashes and faults: it   *)
(* calls the job tables only as JobStore allows, so everything proved of   *)
(* JobStore holds of it, and a stale worker has one recoverer at most.     *)
(***************************************************************************)
EXTENDS WorkerFleet, JobStoreProofs

-----------------------------------------------------------------------------
(***************************************************************************)
(* Every step of the fleet is a step of the store or leaves it alone       *)
(***************************************************************************)
\* A claim is within the bound on attempt numbers.
LEMMA ClaimedAttempt ==
  ASSUME JobInv, NEW j \in Jobs, NEW w \in Workers, ClaimNextJob(w, j)
  PROVE  attemptCount'[j] \in AttemptNumbers
<1>1. attemptCount[j] \in Nat /\ attemptCount[j] < MaxAttempts[j]
  BY JobStoreAssumption DEF JobInv, JobTypeOK, AttemptBudget, ClaimNextJob, Claimable
<1>2. attemptCount'[j] = attemptCount[j] + 1
  BY DEF ClaimNextJob, JobInv, JobTypeOK
<1>. QED BY <1>1, <1>2, JobStoreAssumption DEF AttemptNumbers

\* A finishing transaction on a claim held in memory or read by recovery.
LEMMA ClaimIsTyped ==
  ASSUME NEW c \in Claim
  PROVE  c.job \in Jobs /\ c.attempt \in AttemptNumbers
BY DEF Claim

\* Polling and executing claims, completes or fails one job, or writes none.
LEMMA ExecutionCallsStore ==
  ASSUME FleetInv, NEW w \in Workers, Execution(w)
  PROVE  [JobNext]_jobVars
<1>1. CASE StartPoll(w) \/ TakeUpClaim(w) \/ HandlerThrows(w) \/ Settle(w)
  BY <1>1 DEF StartPoll, TakeUpClaim, HandlerThrows, Settle
<1>2. CASE ClaimAnswers(w)
  BY <1>2 DEF ClaimAnswers, JobNext
<1>3. CASE HandlerReturns(w)
  <2>1. claim[w] \in Claim
    BY <1>3 DEF HandlerReturns, FleetInv, HeldClaims
  <2>2. CompleteClaimedJob(w, claim[w].job, claim[w].attempt) \/ UNCHANGED jobVars
    BY <1>3 DEF HandlerReturns
  <2>. QED BY <2>1, <2>2, ClaimIsTyped DEF JobNext, Finish
<1>4. CASE RecordFailure(w)
  <2>1. claim[w] \in Claim
    BY <1>4 DEF RecordFailure, FleetInv, HeldClaims
  <2>2. \/ ReleaseJobForRetry(w, claim[w].job, claim[w].attempt)
        \/ MoveJobToDeadLetter(w, claim[w].job, claim[w].attempt)
        \/ UNCHANGED jobVars
    BY <1>4 DEF RecordFailure
  <2>. QED BY <2>1, <2>2, ClaimIsTyped DEF JobNext, Finish
<1>. QED BY <1>1, <1>2, <1>3, <1>4 DEF Execution

\* A recovery step fails one attempt as stale, or writes no job.
LEMMA RecoveryCallsStore ==
  ASSUME FleetInv, NEW r \in Workers, RecoveryStep(r)
  PROVE  [JobNext]_jobVars
<1>1. CASE Scan(r) \/ Condemn(r) \/ ReadLockedJobs(r) \/ MarkRecovered(r)
  BY <1>1 DEF Scan, Condemn, ReadLockedJobs, MarkRecovered
<1>2. CASE RecoverLockedJob(r)
  <2>1. rec[r].target \in Workers /\ rec[r].jobs \subseteq Claim
    BY <1>2 DEF RecoverLockedJob, FleetInv, HeldClaims, FleetTypeOK, Recovery
  <2>2. \/ \E c \in rec[r].jobs : \/ RecoverJobForRetry(rec[r].target, c.job, c.attempt)
                                  \/ RecoverJobToDeadLetter(rec[r].target, c.job, c.attempt)
        \/ UNCHANGED jobVars
    BY <1>2 DEF RecoverLockedJob
  <2>. QED BY <2>1, <2>2, ClaimIsTyped DEF JobNext, Finish
<1>. QED BY <1>1, <1>2 DEF RecoveryStep

\* So every step of the fleet is a step of the tables or a stutter.
LEMMA FleetCallsStore == FleetInv /\ [FleetNext]_vars => [JobNext]_jobVars
<1>. SUFFICES ASSUME FleetInv, [FleetNext]_vars PROVE [JobNext]_jobVars
  OBVIOUS
<1>1. CASE \E j \in Jobs : Client(j)
  BY <1>1 DEF Client, JobNext
<1>2. ASSUME NEW w \in Workers, Lifecycle(w) PROVE [JobNext]_jobVars
  BY <1>2 DEF Lifecycle, Register, GoOnline, Signal, BeginDrain, StopRow, OfflineRow, Crash,
              Heartbeat, HeartbeatLapses
<1>3. CASE UNCHANGED vars
  BY <1>3 DEF vars
<1>. QED BY <1>1, <1>2, <1>3, ExecutionCallsStore, RecoveryCallsStore DEF FleetNext

-----------------------------------------------------------------------------
(***************************************************************************)
(* Rows never return to the active pool                                    *)
(***************************************************************************)
Gone == {"UNHEALTHY", "STOPPING", "OFFLINE"}

GoneStaysGone == \A w \in Workers : row[w] \in Gone => row'[w] \in Gone

\* What the lifecycle updates of a row have in common.
LEMMA RowUpdate ==
  ASSUME FleetInv, NEW w \in Workers, NEW from, NEW to \in WorkerStatus,
         WriteRow(w, from, to), from \cap Gone # {} => to \in Gone
  PROVE  /\ row' \in [Workers -> WorkerStatus \cup {"NONE"}]
         /\ stale' \in [Workers -> BOOLEAN]
         /\ GoneStaysGone
<1>1. row \in [Workers -> WorkerStatus \cup {"NONE"}] /\ stale \in [Workers -> BOOLEAN]
  BY DEF FleetInv, FleetTypeOK
<1>2. row[w] \in Gone => to \in Gone
  BY DEF WriteRow
<1>. QED BY <1>1, <1>2 DEF WriteRow, GoTo, GoneStaysGone

\* The shape of the fleet's own part of a state.
FleetShape ==
  /\ row \in [Workers -> WorkerStatus \cup {"NONE"}]
  /\ stale \in [Workers -> BOOLEAN]
  /\ phase \in [Workers -> Phase]
  /\ poll \in [Workers -> PollStep]
  /\ claim \in [Workers -> Claim \cup {NoClaim}]
  /\ rec \in [Workers -> Recovery]
  /\ crashes \in Nat
  /\ faults \in Nat

\* Answered and refused calls move the caller on and may count a fault.
LEMMA AnswerMoves ==
  ASSUME faults \in Nat, NEW w \in Workers, NEW ok, NEW error
  PROVE  /\ Answer(phase, w, ok, error) =>
              /\ phase' = [phase EXCEPT ![w] = ok] \/ phase' = [phase EXCEPT ![w] = error]
              /\ faults' \in Nat
         /\ Answer(poll, w, ok, error) =>
              /\ poll' = [poll EXCEPT ![w] = ok] \/ poll' = [poll EXCEPT ![w] = error]
              /\ faults' \in Nat
         /\ Answer(rec, w, ok, error) =>
              /\ rec' = [rec EXCEPT ![w] = ok] \/ rec' = [rec EXCEPT ![w] = error]
              /\ faults' \in Nat
BY DEF Answer, GoTo, Fault

\* An answered or refused call moves its own process only.
LEMMA RefusedMoves ==
  ASSUME faults \in Nat, NEW w \in Workers, NEW matched, NEW error
  PROVE  /\ Refused(phase, w, matched, error) =>
              phase' = [phase EXCEPT ![w] = error] /\ faults' \in Nat
         /\ Refused(poll, w, matched, error) =>
              poll' = [poll EXCEPT ![w] = error] /\ faults' \in Nat
         /\ Refused(rec, w, matched, error) =>
              rec' = [rec EXCEPT ![w] = error] /\ faults' \in Nat
BY DEF Refused, GoTo, Fault

\* Start, shutdown, crash and heartbeat.
LEMMA LifecycleShape ==
  ASSUME FleetInv, NEW w \in Workers, Lifecycle(w)
  PROVE  /\ FleetShape'
         /\ GoneStaysGone
         /\ \/ UNCHANGED <<poll, claim, rec>>
            \/ /\ poll' = [poll EXCEPT ![w] = "idle"]
               /\ claim' = [claim EXCEPT ![w] = NoClaim]
               /\ rec' = [rec EXCEPT ![w] = NoRecovery]
<1>0. FleetShape
  BY DEF FleetInv, FleetTypeOK, FleetShape
<1>1. NoRecovery \in Recovery
  BY DEF NoRecovery, Recovery
<1>2. CASE Register(w)
  <2>1. /\ row' \in [Workers -> WorkerStatus \cup {"NONE"}]
        /\ stale' \in [Workers -> BOOLEAN]
        /\ GoneStaysGone
    BY <1>0, <1>2, RowUpdate DEF Register, WorkerStatus, Gone, GoneStaysGone, FleetShape
  <2>2. phase' \in [Workers -> Phase] /\ faults' \in Nat
    BY <1>0, <1>2 DEF Register, Answer, Refused, GoTo, Fault, FleetShape, Phase
  <2>. QED BY <1>0, <1>2, <2>1, <2>2 DEF Register, FleetShape
<1>3. CASE GoOnline(w)
  <2>1. /\ row' \in [Workers -> WorkerStatus \cup {"NONE"}]
        /\ stale' \in [Workers -> BOOLEAN]
        /\ GoneStaysGone
    BY <1>0, <1>3, RowUpdate DEF GoOnline, WorkerStatus, Gone, GoneStaysGone, FleetShape
  <2>2. phase' \in [Workers -> Phase] /\ faults' \in Nat
    BY <1>0, <1>3, AnswerMoves, RefusedMoves DEF GoOnline, FleetShape, Phase
  <2>. QED BY <1>0, <1>3, <2>1, <2>2 DEF GoOnline, FleetShape
<1>4. CASE Signal(w) \/ BeginDrain(w)
  BY <1>0, <1>4 DEF Signal, BeginDrain, GoTo, FleetShape, Phase, GoneStaysGone
<1>5. CASE StopRow(w)
  <2>1. /\ row' \in [Workers -> WorkerStatus \cup {"NONE"}]
        /\ stale' \in [Workers -> BOOLEAN]
        /\ GoneStaysGone
    BY <1>0, <1>5, RowUpdate DEF StopRow, WorkerStatus, Gone, GoneStaysGone, FleetShape
  <2>2. phase' \in [Workers -> Phase] /\ faults' \in Nat
    BY <1>0, <1>5, AnswerMoves, RefusedMoves DEF StopRow, FleetShape, Phase
  <2>. QED BY <1>0, <1>5, <2>1, <2>2 DEF StopRow, FleetShape
<1>6. CASE OfflineRow(w)
  <2>1. /\ row' \in [Workers -> WorkerStatus \cup {"NONE"}]
        /\ stale' \in [Workers -> BOOLEAN]
        /\ GoneStaysGone
    BY <1>0, <1>6, RowUpdate DEF OfflineRow, WorkerStatus, Gone, GoneStaysGone, FleetShape
  <2>2. phase' \in [Workers -> Phase] /\ faults' \in Nat
    BY <1>0, <1>6, AnswerMoves, RefusedMoves DEF OfflineRow, FleetShape, Phase
  <2>. QED BY <1>0, <1>6, <2>1, <2>2 DEF OfflineRow, FleetShape
<1>7. CASE Crash(w)
  BY <1>0, <1>1, <1>7 DEF Crash, GoTo, FleetShape, Phase, PollStep, GoneStaysGone
<1>8. CASE Heartbeat(w)
  BY <1>0, <1>8 DEF Heartbeat, WriteRow, GoTo, FleetShape, GoneStaysGone
<1>9. CASE HeartbeatLapses(w)
  BY <1>0, <1>9 DEF HeartbeatLapses, GoTo, FleetShape, GoneStaysGone
<1>. QED
  BY <1>2, <1>3, <1>4, <1>5, <1>6, <1>7, <1>8, <1>9
  DEF Lifecycle, Register, GoOnline, Signal, BeginDrain, StopRow, OfflineRow, Crash, GoTo,
      Heartbeat, HeartbeatLapses

\* The polling loop: it leaves recoveries alone and holds what it needs.
LEMMA ExecutionShape ==
  ASSUME FleetInv, NEW w \in Workers, Execution(w)
  PROVE  FleetShape' /\ GoneStaysGone /\ HeldClaims' /\ UNCHANGED rec
<1>0. FleetShape /\ HeldClaims
  BY DEF FleetInv, FleetTypeOK, FleetShape
<1>1. CASE StartPoll(w)
  BY <1>0, <1>1 DEF StartPoll, GoTo, FleetShape, PollStep, GoneStaysGone, HeldClaims
<1>2. CASE ClaimAnswers(w)
  <2>1. CASE \E j \in Jobs : ClaimNextJob(w, j) /\ GoTo(poll, w, "claimed") /\ UNCHANGED faults
               /\ GoTo(claim, w, [job |-> j, attempt |-> attemptCount'[j]])
    <3>1. PICK j \in Jobs : ClaimNextJob(w, j) /\ GoTo(poll, w, "claimed") /\ UNCHANGED faults
               /\ GoTo(claim, w, [job |-> j, attempt |-> attemptCount'[j]])
      BY <2>1
    <3>2. attemptCount'[j] \in AttemptNumbers
      BY <3>1, ClaimedAttempt DEF FleetInv
    <3>3. [job |-> j, attempt |-> attemptCount'[j]] \in Claim
      BY <3>2 DEF Claim
    <3>. QED BY <1>0, <1>2, <3>1, <3>3
             DEF ClaimAnswers, GoTo, FleetShape, PollStep, GoneStaysGone, HeldClaims
  <2>2. CASE GoTo(poll, w, "idle") /\ faults' \in Nat /\ UNCHANGED claim
    BY <1>0, <1>2, <2>2
    DEF ClaimAnswers, GoTo, FleetShape, PollStep, GoneStaysGone, HeldClaims
  <2>3. faults \in Nat
    BY <1>0 DEF FleetShape
  <2>. QED BY <1>2, <2>1, <2>2, <2>3 DEF ClaimAnswers, Refused, Fault
<1>3. CASE TakeUpClaim(w)
  <2>1. /\ row' \in [Workers -> WorkerStatus \cup {"NONE"}]
        /\ stale' \in [Workers -> BOOLEAN]
        /\ GoneStaysGone
        /\ faults' \in Nat
    <3>1. WriteRow(w, {"ONLINE"}, "BUSY") \/ UNCHANGED <<row, stale>>
      BY <1>3 DEF TakeUpClaim
    <3>2. UNCHANGED faults \/ Fault
      BY <1>3 DEF TakeUpClaim
    <3>3. CASE WriteRow(w, {"ONLINE"}, "BUSY")
      BY <1>0, <3>2, <3>3, RowUpdate DEF Fault, FleetShape, WorkerStatus, Gone
    <3>4. CASE UNCHANGED <<row, stale>>
      BY <1>0, <3>2, <3>4 DEF Fault, FleetShape, GoneStaysGone
    <3>. QED BY <3>1, <3>3, <3>4
  <2>2. \/ poll' = [poll EXCEPT ![w] = "handling"] /\ UNCHANGED claim
        \/ poll' = [poll EXCEPT ![w] = "idle"] /\ claim' = [claim EXCEPT ![w] = NoClaim]
    BY <1>3 DEF TakeUpClaim, DropClaim, GoTo
  <2>3. poll[w] = "claimed" /\ UNCHANGED <<phase, rec, crashes>>
    BY <1>3 DEF TakeUpClaim
  <2>. QED BY <1>0, <2>1, <2>2, <2>3 DEF FleetShape, PollStep, HeldClaims
<1>4. CASE HandlerReturns(w) \/ HandlerThrows(w) \/ RecordFailure(w)
  <2>1. /\ poll[w] \in {"handling", "failing"}
        /\ \/ \E to \in {"failing", "settled"} :
                poll' = [poll EXCEPT ![w] = to] /\ UNCHANGED claim
           \/ poll' = [poll EXCEPT ![w] = "idle"] /\ claim' = [claim EXCEPT ![w] = NoClaim]
    BY <1>4 DEF HandlerReturns, HandlerThrows, RecordFailure, EndExecution, DropClaim, Refused,
                GoTo
  <2>2. faults' \in Nat
    BY <1>0, <1>4 DEF HandlerReturns, HandlerThrows, RecordFailure, Refused, Fault, FleetShape
  <2>3. UNCHANGED <<row, stale, phase, rec, crashes>>
    BY <1>4 DEF HandlerReturns, HandlerThrows, RecordFailure
  <2>. QED BY <1>0, <2>1, <2>2, <2>3 DEF FleetShape, PollStep, GoneStaysGone, HeldClaims
<1>5. CASE Settle(w)
  <2>1. /\ row' \in [Workers -> WorkerStatus \cup {"NONE"}]
        /\ stale' \in [Workers -> BOOLEAN]
        /\ GoneStaysGone
        /\ faults' \in Nat
    <3>1. WriteRow(w, {"BUSY"}, "ONLINE") \/ UNCHANGED <<row, stale>>
      BY <1>5 DEF Settle
    <3>2. UNCHANGED faults \/ Fault
      BY <1>5 DEF Settle
    <3>3. CASE WriteRow(w, {"BUSY"}, "ONLINE")
      BY <1>0, <3>2, <3>3, RowUpdate DEF Fault, FleetShape, WorkerStatus, Gone
    <3>4. CASE UNCHANGED <<row, stale>>
      BY <1>0, <3>2, <3>4 DEF Fault, FleetShape, GoneStaysGone
    <3>. QED BY <3>1, <3>3, <3>4
  <2>2. poll' = [poll EXCEPT ![w] = "idle"] /\ claim' = [claim EXCEPT ![w] = NoClaim]
    BY <1>5 DEF Settle, DropClaim, GoTo
  <2>3. UNCHANGED <<phase, rec, crashes>>
    BY <1>5 DEF Settle
  <2>. QED BY <1>0, <2>1, <2>2, <2>3 DEF FleetShape, PollStep, HeldClaims
<1>. QED BY <1>1, <1>2, <1>3, <1>4, <1>5 DEF Execution

\* A recovery keeps its target, gives it up, or has just condemned it.
LEMMA RecoveryShape ==
  ASSUME FleetInv, NEW r \in Workers, RecoveryStep(r)
  PROVE  /\ FleetShape' /\ GoneStaysGone /\ HeldClaims'
         /\ \A q \in Workers \ {r} : rec'[q] = rec[q]
         /\ \/ rec'[r].target \in {rec[r].target, NoWorker}
            \/ /\ rec'[r].target \in Workers
               /\ row[rec'[r].target] \in StaleCandidateStatuses
               /\ row'[rec'[r].target] = "UNHEALTHY"
<1>0. FleetShape /\ HeldClaims
  BY DEF FleetInv, FleetTypeOK, FleetShape
<1>1. \A batch \in SUBSET Workers :
        /\ NextInBatch(batch) \in Recovery
        /\ NextInBatch(batch).step \notin {"marked", "recovering"}
        /\ NextInBatch(batch).target = NoWorker
  BY DEF NextInBatch, NoRecovery, Recovery
<1>2. rec[r] \in Recovery /\ rec[r].batch \in SUBSET Workers
  BY <1>0 DEF FleetShape, Recovery
<1>3. UNCHANGED <<poll, claim, phase, stale, crashes>>
  BY DEF RecoveryStep, Scan, Condemn, ReadLockedJobs, RecoverLockedJob, MarkRecovered
<1>4. faults' \in Nat
  <2>1. UNCHANGED faults \/ Fault
    <3>1. CASE Scan(r) \/ MarkRecovered(r)
      BY <3>1 DEF Scan, MarkRecovered
    <3>2. CASE Condemn(r)
      BY <3>2 DEF Condemn, Answer, Refused
    <3>3. CASE ReadLockedJobs(r)
      BY <3>3 DEF ReadLockedJobs, Answer
    <3>4. CASE RecoverLockedJob(r)
      BY <3>4 DEF RecoverLockedJob, Answer, Refused
    <3>. QED BY <3>1, <3>2, <3>3, <3>4 DEF RecoveryStep
  <2>. QED BY <1>0, <2>1 DEF Fault, FleetShape
<1>5. ASSUME NEW to \in Recovery, rec' = [rec EXCEPT ![r] = to],
             row' \in [Workers -> WorkerStatus \cup {"NONE"}],
             to.step \in {"marked", "recovering"} => to.target \in Workers
      PROVE  /\ FleetShape' /\ HeldClaims'
             /\ \A q \in Workers \ {r} : rec'[q] = rec[q]
             /\ rec'[r] = to
  BY <1>0, <1>3, <1>4, <1>5 DEF FleetShape, HeldClaims
<1>6. CASE Scan(r)
  <2>1. \E batch \in SUBSET Workers : rec' = [rec EXCEPT ![r] = NextInBatch(batch)]
    BY <1>6 DEF Scan, GoTo
  <2>2. UNCHANGED row
    BY <1>6 DEF Scan
  <2>. QED BY <1>0, <1>1, <1>5, <2>1, <2>2 DEF GoneStaysGone, FleetShape
<1>7. CASE Condemn(r)
  <2>1. PICK w \in rec[r].batch :
          \/ /\ row[w] \in StaleCandidateStatuses
             /\ row' = [row EXCEPT ![w] = "UNHEALTHY"]
             /\ \/ rec' = [rec EXCEPT ![r] = [step |-> "marked", batch |-> rec[r].batch \ {w},
                                              target |-> w, jobs |-> {}]]
                \/ rec' = [rec EXCEPT ![r] = NextInBatch(rec[r].batch \ {w})]
          \/ /\ rec' = [rec EXCEPT ![r] = NextInBatch(rec[r].batch \ {w})]
             /\ UNCHANGED row
    BY <1>7 DEF Condemn, Answer, Refused, GoTo
  <2>2. w \in Workers /\ (rec[r].batch \ {w}) \in SUBSET Workers
    BY <1>2
  <2>3. row' \in [Workers -> WorkerStatus \cup {"NONE"}] /\ GoneStaysGone
    BY <1>0, <2>1 DEF FleetShape, WorkerStatus, Gone, GoneStaysGone
  <2>4. CASE rec' = [rec EXCEPT ![r] = NextInBatch(rec[r].batch \ {w})]
    BY <1>1, <1>5, <2>2, <2>3, <2>4
  <2>5. CASE /\ row[w] \in StaleCandidateStatuses
             /\ row' = [row EXCEPT ![w] = "UNHEALTHY"]
             /\ rec' = [rec EXCEPT ![r] = [step |-> "marked", batch |-> rec[r].batch \ {w},
                                           target |-> w, jobs |-> {}]]
    <3>1. [step |-> "marked", batch |-> rec[r].batch \ {w}, target |-> w, jobs |-> {}]
            \in Recovery
      BY <2>2 DEF Recovery
    <3>2. row'[w] = "UNHEALTHY"
      BY <1>0, <2>2, <2>5 DEF FleetShape
    <3>. DEFINE to == [step |-> "marked", batch |-> rec[r].batch \ {w}, target |-> w, jobs |-> {}]
    <3>3. to.target = w
      OBVIOUS
    <3>4. FleetShape' /\ HeldClaims' /\ (\A q \in Workers \ {r} : rec'[q] = rec[q]) /\ rec'[r] = to
      <4>1. to \in Recovery /\ rec' = [rec EXCEPT ![r] = to]
        BY <2>5, <3>1
      <4>. HIDE DEF to
      <4>. QED BY <1>5, <2>2, <2>3, <3>3, <4>1
    <3>. QED BY <2>2, <2>3, <2>5, <3>2, <3>3, <3>4
  <2>. QED BY <2>1, <2>4, <2>5
<1>8. CASE ReadLockedJobs(r)
  <2>1. LockedJobs(rec[r].target) \in SUBSET Claim
    BY DEF LockedJobs
  <2>2. \/ rec' = [rec EXCEPT ![r] = [rec[r] EXCEPT !.step = "recovering",
                                                    !.jobs = LockedJobs(rec[r].target)]]
        \/ rec' = [rec EXCEPT ![r] = NextInBatch(rec[r].batch)]
    BY <1>8 DEF ReadLockedJobs, Answer, GoTo
  <2>3. rec[r].target \in Workers /\ UNCHANGED row
    BY <1>0, <1>8 DEF ReadLockedJobs, HeldClaims
  <2>4. DEFINE to == [rec[r] EXCEPT !.step = "recovering", !.jobs = LockedJobs(rec[r].target)]
  <2>5. to \in Recovery /\ to.target = rec[r].target
    BY <1>2, <2>1 DEF Recovery
  <2>6. row' \in [Workers -> WorkerStatus \cup {"NONE"}] /\ GoneStaysGone
    BY <1>0, <2>3 DEF FleetShape, GoneStaysGone
  <2>7. CASE rec' = [rec EXCEPT ![r] = to]
    <3>. HIDE DEF to
    <3>. QED BY <1>5, <2>3, <2>5, <2>6, <2>7
  <2>. QED BY <1>1, <1>2, <1>5, <2>2, <2>6, <2>7
<1>9. CASE RecoverLockedJob(r)
  <2>1. PICK c \in rec[r].jobs :
          \/ rec' = [rec EXCEPT ![r] = [rec[r] EXCEPT !.jobs = @ \ {c}]]
          \/ rec' = [rec EXCEPT ![r] = NextInBatch(rec[r].batch)]
    BY <1>9 DEF RecoverLockedJob, Answer, Refused, GoTo
  <2>2. rec[r].target \in Workers /\ UNCHANGED row
    BY <1>0, <1>9 DEF RecoverLockedJob, HeldClaims
  <2>3. DEFINE to == [rec[r] EXCEPT !.jobs = @ \ {c}]
  <2>4. to \in Recovery /\ to.target = rec[r].target
    BY <1>2 DEF Recovery
  <2>5. row' \in [Workers -> WorkerStatus \cup {"NONE"}] /\ GoneStaysGone
    BY <1>0, <2>2 DEF FleetShape, GoneStaysGone
  <2>6. CASE rec' = [rec EXCEPT ![r] = to]
    <3>. HIDE DEF to
    <3>. QED BY <1>5, <2>2, <2>4, <2>5, <2>6
  <2>. QED BY <1>1, <1>2, <1>5, <2>1, <2>5, <2>6
<1>10. CASE MarkRecovered(r)
  <2>1. rec' = [rec EXCEPT ![r] = NextInBatch(rec[r].batch)]
    BY <1>10 DEF MarkRecovered, GoTo
  <2>2. row' \in [Workers -> WorkerStatus \cup {"NONE"}] /\ GoneStaysGone
    BY <1>0, <1>10 DEF MarkRecovered, GoTo, FleetShape, WorkerStatus, Gone, GoneStaysGone
  <2>. QED BY <1>1, <1>2, <1>5, <2>1, <2>2
<1>. QED BY <1>6, <1>7, <1>8, <1>9, <1>10 DEF RecoveryStep

-----------------------------------------------------------------------------
(***************************************************************************)
(* The inductive invariant                                                 *)
(***************************************************************************)
\* No row, no claim and no recovery exists at first.
LEMMA FleetInitInv == FleetInit => FleetInv
<1>. SUFFICES ASSUME FleetInit PROVE FleetInv
  OBVIOUS
<1>1. JobInv
  BY JobInitInv DEF FleetInit
<1>2. NoRecovery \in Recovery
  BY DEF NoRecovery, Recovery
<1>3. FleetTypeOK
  BY <1>1, <1>2 DEF FleetInit, FleetTypeOK, JobInv, Phase, PollStep
<1>4. HeldClaims /\ OneRecoverer
  BY DEF FleetInit, HeldClaims, OneRecoverer, NoRecovery
<1>. QED BY <1>1, <1>3, <1>4 DEF FleetInv

\* No new recovery starts on a worker that is being recovered, because a
\* worker under recovery has left the candidate statuses.
LEMMA FleetNextInv == FleetInv /\ [FleetNext]_vars => FleetInv'
<1>. SUFFICES ASSUME FleetInv, [FleetNext]_vars PROVE FleetInv'
  OBVIOUS
<1>0. JobInv' /\ FleetShape
  BY FleetCallsStore, JobNextInv DEF FleetInv, FleetTypeOK, FleetShape
<1>1. ASSUME FleetShape' PROVE FleetTypeOK'
  BY <1>0, <1>1 DEF FleetShape, FleetTypeOK, JobInv
<1>2. ASSUME GoneStaysGone, \A r \in Workers : rec'[r].target \in {rec[r].target, NoWorker}
      PROVE  OneRecoverer'
  BY <1>0, <1>2 DEF FleetInv, OneRecoverer, GoneStaysGone, Gone, FleetShape, Recovery
<1>3. CASE UNCHANGED fleetVars
  <2>1. FleetShape' /\ GoneStaysGone /\ HeldClaims'
    BY <1>0, <1>3 DEF fleetVars, FleetShape, GoneStaysGone, FleetInv, HeldClaims
  <2>2. \A r \in Workers : rec'[r].target \in {rec[r].target, NoWorker}
    BY <1>3 DEF fleetVars
  <2>. QED BY <1>0, <1>1, <1>2, <2>1, <2>2 DEF FleetInv
<1>4. ASSUME NEW w \in Workers, Lifecycle(w) PROVE FleetInv'
  <2>1. FleetShape' /\ GoneStaysGone
    BY <1>4, LifecycleShape
  <2>2. \/ UNCHANGED <<poll, claim, rec>>
        \/ /\ poll' = [poll EXCEPT ![w] = "idle"]
           /\ claim' = [claim EXCEPT ![w] = NoClaim]
           /\ rec' = [rec EXCEPT ![w] = NoRecovery]
    BY <1>4, LifecycleShape
  <2>3. HeldClaims'
    BY <1>0, <2>2 DEF FleetInv, HeldClaims, FleetShape, NoRecovery
  <2>4. \A r \in Workers : rec'[r].target \in {rec[r].target, NoWorker}
    BY <1>0, <2>2 DEF FleetShape, NoRecovery
  <2>. QED BY <1>0, <1>1, <1>2, <2>1, <2>3, <2>4 DEF FleetInv
<1>5. ASSUME NEW w \in Workers, Execution(w) PROVE FleetInv'
  <2>1. FleetShape' /\ GoneStaysGone /\ HeldClaims' /\ UNCHANGED rec
    BY <1>5, ExecutionShape
  <2>. QED BY <1>0, <1>1, <1>2, <2>1 DEF FleetInv
<1>6. ASSUME NEW r \in Workers, RecoveryStep(r) PROVE FleetInv'
  <2>1. /\ FleetShape' /\ GoneStaysGone /\ HeldClaims'
        /\ \A q \in Workers \ {r} : rec'[q] = rec[q]
        /\ \/ rec'[r].target \in {rec[r].target, NoWorker}
           \/ /\ rec'[r].target \in Workers
              /\ row[rec'[r].target] \in StaleCandidateStatuses
              /\ row'[rec'[r].target] = "UNHEALTHY"
    BY <1>6, RecoveryShape
  <2>2. CASE rec'[r].target \in {rec[r].target, NoWorker}
    BY <1>0, <1>1, <1>2, <2>1, <2>2 DEF FleetInv
  <2>3. CASE /\ rec'[r].target \in Workers
             /\ row[rec'[r].target] \in StaleCandidateStatuses
             /\ row'[rec'[r].target] = "UNHEALTHY"
    <3>1. \A q \in Workers : rec[q].target # rec'[r].target
      BY <2>3, JobStoreAssumption DEF FleetInv, OneRecoverer, StaleCandidateStatuses
    <3>2. OneRecoverer'
      <4>1. ASSUME NEW p \in Workers, p # r, rec'[p].target # NoWorker
            PROVE  /\ row'[rec'[p].target] \in Gone
                   /\ \A q \in Workers \ {p} : rec'[q].target # rec'[p].target
        <5>1. rec'[p] = rec[p] /\ rec[p].target \in Workers /\ row[rec[p].target] \in Gone
          BY <1>0, <2>1, <4>1 DEF FleetInv, OneRecoverer, Gone, FleetShape, Recovery
        <5>2. row'[rec[p].target] \in Gone
          BY <2>1, <5>1 DEF GoneStaysGone
        <5>3. \A q \in Workers \ {p} : rec'[q].target # rec[p].target
          BY <2>1, <3>1, <4>1, <5>1 DEF FleetInv, OneRecoverer
        <5>. QED BY <5>1, <5>2, <5>3
      <4>2. \A q \in Workers \ {r} : rec'[q].target # rec'[r].target
        BY <2>1, <3>1
      <4>. QED BY <2>3, <4>1, <4>2 DEF OneRecoverer, Gone
    <3>. QED BY <1>0, <1>1, <2>1, <3>2 DEF FleetInv
  <2>. QED BY <2>1, <2>2, <2>3
<1>. QED BY <1>3, <1>4, <1>5, <1>6 DEF FleetNext, Client, vars

\* The invariant of the composed system.
THEOREM FleetInvariant == FleetSpec => []FleetInv
  BY FleetInitInv, FleetNextInv, PTL DEF FleetSpec

\* Rows, process states, claims and recovery snapshots stay well formed.
COROLLARY FleetIsTyped == FleetSpec => []FleetTypeOK
<1>1. FleetInv => FleetTypeOK
  BY DEF FleetInv
<1>. QED BY <1>1, FleetInvariant, PTL

\* A stale worker is recovered by one process at most, however many scan.
THEOREM OneRecovererAtMost == FleetSpec => []OneRecoverer
<1>1. FleetInv => OneRecoverer
  BY DEF FleetInv
<1>. QED BY <1>1, FleetInvariant, PTL

\* Every step, whoever takes it, leaves rows that left the active pool out of it.
THEOREM RowsNeverReturn == FleetSpec => NoReturn
<1>1. FleetInv /\ [FleetNext]_vars => [GoneStaysGone]_vars
  <2>. SUFFICES ASSUME FleetInv, FleetNext PROVE GoneStaysGone
    OBVIOUS
  <2>1. CASE \E j \in Jobs : Client(j)
    BY <2>1 DEF Client, fleetVars, GoneStaysGone
  <2>. QED BY <2>1, LifecycleShape, ExecutionShape, RecoveryShape DEF FleetNext
<1>2. GoneStaysGone <=>
        \A w \in Workers : row[w] \in {"UNHEALTHY", "STOPPING", "OFFLINE"} =>
                             row'[w] \in {"UNHEALTHY", "STOPPING", "OFFLINE"}
  BY DEF GoneStaysGone, Gone
<1>. QED BY <1>1, <1>2, FleetInvariant, PTL DEF FleetSpec, NoReturn

\* Only the poll that a step advances can write the tables for its worker, and
\* only with an attempt that is still PROCESSING under that worker's lock.
FencedStep ==
  \A w \in Workers :
    /\ poll[w] \in {"handling", "failing"}
    /\ attempts[claim[w].job][claim[w].attempt].status = "TIMED_OUT"
    /\ poll'[w] # poll[w]
    => UNCHANGED jobVars

\* Settling calls present the claim that is held, and need its attempt active.
LEMMA SettlingCallsHold ==
  ASSUME NEW w \in Workers, HandlerReturns(w) \/ RecordFailure(w)
  PROVE  Holds(w) \/ UNCHANGED jobVars
  BY DEF HandlerReturns, RecordFailure, Holds, CompleteClaimedJob, ReleaseJobForRetry, Retry,
         MoveJobToDeadLetter, DeadLetter, FinishAttempt

\* Each action moves the poll of its own worker only.
LEMMA OwnPollMoves ==
  ASSUME NEW v \in Workers, Execution(v), poll \in [Workers -> PollStep],
         NEW w \in Workers, poll'[w] # poll[w]
  PROVE  w = v
  BY DEF Execution, StartPoll, ClaimAnswers, TakeUpClaim, DropClaim, HandlerReturns,
         HandlerThrows, RecordFailure, EndExecution, Settle, GoTo, Refused

\* A worker whose attempt recovery has ended can settle as late as it likes: it
\* changes nothing of the job any more.
THEOREM RecoveredAttemptsAreFenced == FleetSpec => Fenced
<1>1. FleetInv /\ [FleetNext]_vars => [FencedStep]_vars
  <2>. SUFFICES ASSUME FleetInv, FleetNext,
                       NEW w \in Workers,
                       poll[w] \in {"handling", "failing"},
                       attempts[claim[w].job][claim[w].attempt].status = "TIMED_OUT",
                       poll'[w] # poll[w]
                PROVE  UNCHANGED jobVars
    BY DEF FencedStep
  <2>0. poll \in [Workers -> PollStep]
    BY DEF FleetInv, FleetTypeOK
  <2>1. CASE \E j \in Jobs : Client(j)
    BY <2>1 DEF Client, fleetVars
  <2>2. ASSUME NEW v \in Workers, Lifecycle(v) PROVE UNCHANGED jobVars
    BY <2>2 DEF Lifecycle, Register, GoOnline, Signal, BeginDrain, StopRow, OfflineRow, Crash,
                Heartbeat, HeartbeatLapses
  <2>3. ASSUME NEW v \in Workers, RecoveryStep(v) PROVE UNCHANGED poll
    BY <2>3 DEF RecoveryStep, Scan, Condemn, ReadLockedJobs, RecoverLockedJob, MarkRecovered
  <2>4. ASSUME NEW v \in Workers, Execution(v) PROVE UNCHANGED jobVars
    <3>1. v = w
      BY <2>0, <2>4, OwnPollMoves
    <3>2. CASE HandlerReturns(w) \/ RecordFailure(w)
      <4>1. ~Holds(w)
        BY DEF Holds, OwnsActiveAttempt, ActiveAttempt
      <4>. QED BY <3>2, <4>1, SettlingCallsHold
    <3>3. CASE ClaimAnswers(w)
      BY <3>3 DEF ClaimAnswers
    <3>. QED BY <2>4, <3>1, <3>2, <3>3
             DEF Execution, StartPoll, TakeUpClaim, HandlerThrows, Settle
  <2>. QED BY <2>1, <2>2, <2>3, <2>4 DEF FleetNext
<1>. QED BY <1>1, FleetInvariant, PTL DEF FleetSpec, Fenced, FencedStep

-----------------------------------------------------------------------------
(***************************************************************************)
(* Each attempt runs once                                                  *)
(***************************************************************************)
\* No transaction takes back a claim that was counted, and a claim counts one.
LEMMA CountsOnlyGrow ==
  ASSUME JobInv, [JobNext]_jobVars
  PROVE  /\ \A j \in Jobs : attemptCount[j] \in Nat /\ attemptCount'[j] \in Nat
         /\ \A j \in Jobs : attemptCount[j] <= attemptCount'[j]
         /\ \A j \in Jobs, w \in Workers :
              ClaimNextJob(w, j) => attemptCount'[j] = attemptCount[j] + 1
<1>1. \A j \in Jobs : attemptCount[j] \in Nat
  BY JobStoreAssumption DEF JobInv, JobTypeOK
<1>2. \A j \in Jobs : attemptCount'[j] \in Nat
  <2>1. JobInv'
    BY JobNextInv
  <2>. QED BY <2>1, JobStoreAssumption DEF JobInv, JobTypeOK
<1>3. \A j \in Jobs, w \in Workers :
        ClaimNextJob(w, j) => attemptCount' = [attemptCount EXCEPT ![j] = attemptCount[j] + 1]
  BY DEF ClaimNextJob
<1>4. \/ UNCHANGED attemptCount
      \/ \E j \in Jobs, w \in Workers : ClaimNextJob(w, j)
  <2>1. CASE UNCHANGED jobVars
    BY <2>1 DEF jobVars
  <2>2. ASSUME NEW j \in Jobs, CreateJob(j) \/ BecomeDue(j) \/ CancelJob(j)
        PROVE  UNCHANGED attemptCount
    BY <2>2 DEF CreateJob, BecomeDue, CancelJob
  <2>3. ASSUME NEW j \in Jobs, NEW w \in Workers, NEW n \in AttemptNumbers, Finish(w, j, n)
        PROVE  UNCHANGED attemptCount
    BY <2>3 DEF Finish, CompleteClaimedJob, ReleaseJobForRetry, MoveJobToDeadLetter,
                RecoverJobForRetry, RecoverJobToDeadLetter, Retry, DeadLetter, FinishAttempt
  <2>. QED BY <2>1, <2>2, <2>3 DEF JobNext
<1>5. attemptCount \in [Jobs -> 0 .. AttemptBound]
  BY DEF JobInv, JobTypeOK
<1>. QED BY <1>1, <1>2, <1>3, <1>4, <1>5

\* What a process holds it has claimed just now, or held before.
LEMMA ClaimsAreTakenOnce ==
  ASSUME FleetInv, FleetNext
  PROVE  \/ \A w \in Workers :
              poll'[w] \in Holding => poll[w] \in Holding /\ claim'[w] = claim[w]
         \/ \E w \in Workers, j \in Jobs :
              /\ ClaimNextJob(w, j)
              /\ poll' = [poll EXCEPT ![w] = "claimed"]
              /\ claim' = [claim EXCEPT ![w] = [job |-> j, attempt |-> attemptCount'[j]]]
<1>0. poll \in [Workers -> PollStep] /\ claim \in [Workers -> Claim \cup {NoClaim}]
  BY DEF FleetInv, FleetTypeOK
<1>. DEFINE Kept == \A w \in Workers :
              poll'[w] \in Holding => poll[w] \in Holding /\ claim'[w] = claim[w]
<1>1. CASE \E j \in Jobs : Client(j)
  BY <1>1 DEF Client, fleetVars
<1>2. ASSUME NEW v \in Workers, Lifecycle(v) PROVE Kept
  <2>1. UNCHANGED <<poll, claim>> \/ (/\ poll' = [poll EXCEPT ![v] = "idle"]
                                     /\ claim' = [claim EXCEPT ![v] = NoClaim])
    BY <1>2, LifecycleShape
  <2>. QED BY <1>0, <2>1 DEF Holding
<1>3. ASSUME NEW v \in Workers, RecoveryStep(v) PROVE Kept
  BY <1>3 DEF RecoveryStep, Scan, Condemn, ReadLockedJobs, RecoverLockedJob, MarkRecovered
<1>4. ASSUME NEW v \in Workers, Execution(v), ~ClaimAnswers(v) PROVE Kept
  <2>1. \/ \E to \in {"claiming", "idle", "settled"} : poll' = [poll EXCEPT ![v] = to]
        \/ \E to \in {"handling", "failing"} :
             poll[v] \in Holding /\ poll' = [poll EXCEPT ![v] = to] /\ UNCHANGED claim
    BY <1>4 DEF Execution, StartPoll, TakeUpClaim, DropClaim, HandlerReturns, HandlerThrows,
                RecordFailure, EndExecution, Settle, GoTo, Refused, Holding
  <2>2. UNCHANGED claim \/ claim' = [claim EXCEPT ![v] = NoClaim]
    BY <1>4 DEF Execution, StartPoll, TakeUpClaim, DropClaim, HandlerReturns, HandlerThrows,
                RecordFailure, EndExecution, Settle, GoTo
  <2>. QED BY <1>0, <2>1, <2>2 DEF Holding
<1>5. ASSUME NEW v \in Workers, ClaimAnswers(v)
      PROVE  \/ poll' = [poll EXCEPT ![v] = "idle"] /\ UNCHANGED claim
             \/ \E j \in Jobs :
                  /\ ClaimNextJob(v, j)
                  /\ poll' = [poll EXCEPT ![v] = "claimed"]
                  /\ claim' = [claim EXCEPT ![v] = [job |-> j, attempt |-> attemptCount'[j]]]
  BY <1>5 DEF ClaimAnswers, GoTo, Refused
<1>6. ASSUME NEW v \in Workers, poll' = [poll EXCEPT ![v] = "idle"], UNCHANGED claim PROVE Kept
  BY <1>0, <1>6 DEF Holding
<1>. QED BY <1>1, <1>2, <1>3, <1>4, <1>5, <1>6 DEF FleetNext

\* The claims in memory have been counted, so the next one differs from all.
ClaimsAreCounted ==
  \A w \in Workers : poll[w] \in Holding => claim[w].attempt <= attemptCount[claim[w].job]

HoldingInv == ClaimsAreCounted /\ AttemptRunsOnce

\* A new claim has a number that no process holds.
LEMMA HoldingNextInv == FleetInv /\ HoldingInv /\ [FleetNext]_vars => HoldingInv'
<1>. SUFFICES ASSUME FleetInv, HoldingInv, [FleetNext]_vars PROVE HoldingInv'
  OBVIOUS
<1>1. /\ \A j \in Jobs : attemptCount[j] \in Nat /\ attemptCount'[j] \in Nat
      /\ \A j \in Jobs : attemptCount[j] <= attemptCount'[j]
      /\ \A j \in Jobs, w \in Workers :
           ClaimNextJob(w, j) => attemptCount'[j] = attemptCount[j] + 1
  BY FleetCallsStore, CountsOnlyGrow DEF FleetInv
<1>2. \A w \in Workers :
        poll[w] \in Holding =>
          claim[w] \in Claim /\ claim[w].job \in Jobs /\ claim[w].attempt \in Nat
  BY DEF FleetInv, HeldClaims, Holding, Claim, AttemptNumbers
<1>3. CASE UNCHANGED vars
  BY <1>3 DEF vars, jobVars, fleetVars, HoldingInv, ClaimsAreCounted, AttemptRunsOnce
<1>4. CASE \A w \in Workers :
             poll'[w] \in Holding => poll[w] \in Holding /\ claim'[w] = claim[w]
  <2>1. ClaimsAreCounted'
    <3>. SUFFICES ASSUME NEW w \in Workers, poll'[w] \in Holding
                  PROVE  claim'[w].attempt <= attemptCount'[claim'[w].job]
      BY DEF ClaimsAreCounted
    <3>1. claim'[w] = claim[w] /\ claim[w].job \in Jobs /\ claim[w].attempt \in Nat
      BY <1>2, <1>4
    <3>2. claim[w].attempt <= attemptCount[claim[w].job]
      BY <1>4 DEF HoldingInv, ClaimsAreCounted
    <3>. QED BY <1>1, <3>1, <3>2
  <2>2. AttemptRunsOnce'
    BY <1>4 DEF HoldingInv, AttemptRunsOnce
  <2>. QED BY <2>1, <2>2 DEF HoldingInv
<1>5. ASSUME NEW w \in Workers, NEW j \in Jobs, ClaimNextJob(w, j),
             poll' = [poll EXCEPT ![w] = "claimed"],
             claim' = [claim EXCEPT ![w] = [job |-> j, attempt |-> attemptCount'[j]]]
      PROVE  HoldingInv'
  <2>0. poll \in [Workers -> PollStep] /\ claim \in [Workers -> Claim \cup {NoClaim}]
    BY DEF FleetInv, FleetTypeOK
  <2>1. PICK n \in Nat : n = attemptCount'[j] /\ n = attemptCount[j] + 1
    BY <1>1, <1>5
  <2>2. claim'[w].job = j /\ claim'[w].attempt = n /\ n <= attemptCount'[j]
    BY <1>1, <1>5, <2>0, <2>1
  <2>3. ASSUME NEW v \in Workers \ {w}, poll'[v] \in Holding
        PROVE  /\ poll[v] \in Holding /\ claim'[v] = claim[v]
               /\ claim[v].attempt <= attemptCount[claim[v].job]
               /\ claim[v].attempt <= attemptCount'[claim[v].job]
               /\ claim[v] # claim'[w]
    <3>1. poll[v] \in Holding /\ claim'[v] = claim[v]
      BY <1>5, <2>0, <2>3
    <3>2. claim[v].job \in Jobs /\ claim[v].attempt \in Nat
      BY <1>2, <3>1
    <3>3. claim[v].attempt <= attemptCount[claim[v].job]
      BY <3>1 DEF HoldingInv, ClaimsAreCounted
    <3>4. claim[v].attempt <= attemptCount'[claim[v].job]
      BY <1>1, <3>2, <3>3
    <3>5. claim[v] # claim'[w]
      BY <1>1, <2>1, <2>2, <3>2, <3>3
    <3>. QED BY <3>1, <3>3, <3>4, <3>5
  <2>4. ClaimsAreCounted'
    BY <2>1, <2>2, <2>3 DEF ClaimsAreCounted
  <2>5. AttemptRunsOnce'
    BY <2>3 DEF HoldingInv, AttemptRunsOnce
  <2>. QED BY <2>4, <2>5 DEF HoldingInv
<1>. QED BY <1>3, <1>4, <1>5, ClaimsAreTakenOnce

\* Each attempt is executed by one process at most: an attempt whose worker is
\* slow, recovered or unanswered is never executed again under its number.
THEOREM AttemptsRunOnce == FleetSpec => []AttemptRunsOnce
<1>1. FleetInit => HoldingInv
  BY DEF FleetInit, HoldingInv, ClaimsAreCounted, AttemptRunsOnce, Holding
<1>2. HoldingInv => AttemptRunsOnce
  BY DEF HoldingInv
<1>. QED BY <1>1, <1>2, HoldingNextInv, FleetInvariant, PTL DEF FleetSpec

\* The claims in memory are tries that maxAttempts allows.
TriesWithinBudget ==
  \A w \in Workers :
    poll[w] \in Holding => claim[w].attempt \in 1 .. MaxAttempts[claim[w].job]

\* What a process executes is one of the tries of its job, so with the theorem
\* before the handlers started for a job are at most maxAttempts.
COROLLARY TriesAreBudgeted == FleetSpec => []TriesWithinBudget
<1>1. FleetInit => HoldingInv
  BY DEF FleetInit, HoldingInv, ClaimsAreCounted, AttemptRunsOnce, Holding
<1>2. FleetInv /\ HoldingInv => TriesWithinBudget
  <2>. SUFFICES ASSUME FleetInv, HoldingInv, NEW w \in Workers, poll[w] \in Holding
                PROVE  claim[w].attempt \in 1 .. MaxAttempts[claim[w].job]
    BY DEF TriesWithinBudget
  <2>1. claim[w].job \in Jobs /\ claim[w].attempt \in Nat /\ claim[w].attempt >= 1
    BY DEF FleetInv, HeldClaims, Holding, Claim, AttemptNumbers
  <2>2. claim[w].attempt <= attemptCount[claim[w].job]
    BY DEF HoldingInv, ClaimsAreCounted
  <2>3. /\ attemptCount[claim[w].job] \in Nat /\ MaxAttempts[claim[w].job] \in Nat
        /\ attemptCount[claim[w].job] <= MaxAttempts[claim[w].job]
    BY <2>1, JobStoreAssumption DEF FleetInv, JobInv, JobTypeOK, AttemptBudget
  <2>. QED BY <2>1, <2>2, <2>3
<1>. QED BY <1>1, <1>2, HoldingNextInv, FleetInvariant, PTL DEF FleetSpec

-----------------------------------------------------------------------------
(***************************************************************************)
(* What carries over from the job tables                                   *)
(***************************************************************************)
\* The processes use the tables as JobStore's arbitrary callers may.
THEOREM FleetUsesStore == FleetSpec => JobSpec
<1>1. FleetInit => JobInit
  BY DEF FleetInit
<1>. QED BY <1>1, FleetInvariant, FleetCallsStore, PTL DEF FleetSpec, JobSpec

\* With all their crashes, faults and late calls, the processes never rewrite
\* history, settle jobs only through their newest attempt, and implement the
\* queue.
COROLLARY FleetKeepsHistory ==
  FleetSpec => HistoryIsFinal /\ SettledByCurrentAttempt /\ ImplementsQueue
  BY FleetUsesStore, HistoryStaysFinal, JobsSettleByCurrentAttempt, JobStoreImplementsQueue, PTL
=============================================================================
