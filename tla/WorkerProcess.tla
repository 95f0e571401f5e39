---------------------------- MODULE WorkerProcess ----------------------------
(***************************************************************************)
(* One worker process from the inside: start() and its rollback, shutdown, *)
(* the runtime's stop(), and the three timers, polling, heartbeat and      *)
(* recovery, whose runs go on while these wait.  All of them write the     *)
(* process's row in worker_instances, each on the condition that the       *)
(* status is one it expects.  WorkerFleet has this life in fewer steps     *)
(* among other processes; here the process is alone, and what is checked   *)
(* is how its own parts wait for one another.  One action is the           *)
(* synchronous code between two awaits.                                    *)
(***************************************************************************)
EXTENDS Naturals

CONSTANT MaxFaults  \* bound: how many database calls may fail

ASSUME ProcessAssumption == MaxFaults \in Nat

VARIABLES
  start,      \* progress of start() and of its rollback
  shutdown,   \* progress of shutdown(), which runs once (shutdownPromise)
  stop,       \* progress of the runtime's stop(), or none: the flag stopping
  handlers,   \* whether the signal handlers are registered
  timer,      \* the loops whose timer is on
  active,     \* the loops with a run noted in activePoll and its likes
  runs,       \* the runs of each loop that have not settled
  poll,       \* what the run of the polling loop awaits
  row,        \* WorkerInstance.status
  refused,    \* whether an update of the row has matched nothing (a history)
  connected,  \* whether Prisma has not been disconnected
  faults

control == <<start, shutdown, stop, handlers, connected>>
loops == <<timer, active, runs, poll>>
rowVars == <<row, refused, faults>>
vars == <<control, loops, rowVars>>

Loop == {"poll", "heartbeat", "recovery"}
StartStep == {"none", "registering", "online", "stopping", "serving", "failed"}
ShutdownStep == {"none", "recovery", "runtime", "disconnect", "done"}
StopStep == {"none", "heartbeat", "poll", "markStopping", "markOffline", "settled"}
PollStep == {"idle", "claiming", "setBusy", "executing", "setAvailable"}
WorkerStatus == {"NONE", "STARTING", "ONLINE", "BUSY", "STOPPING", "OFFLINE"}

Init ==
  /\ start = "none" /\ shutdown = "none" /\ stop = "none"
  /\ handlers = FALSE /\ connected = TRUE
  /\ timer = {} /\ active = {} /\ runs = [l \in Loop |-> 0] /\ poll = "idle"
  /\ row = "NONE" /\ refused = FALSE /\ faults = 0

\* The guarded update of the row: it is done, or its caller sees an error,
\* because the row has another status or because the call fails, before or
\* after the database commits it.
Written(from, to) == row \in from /\ row' = to /\ UNCHANGED <<refused, faults>>
NotWritten(from, to) ==
  \/ row \notin from /\ refused' = TRUE /\ UNCHANGED <<row, faults>>
  \/ /\ faults < MaxFaults /\ faults' = faults + 1
     /\ row' = row \/ (row \in from /\ row' = to)
     /\ UNCHANGED refused

(***************************************************************************)
(* The loops                                                               *)
(***************************************************************************)
BeginRun(l) ==
  /\ active' = active \cup {l}
  /\ runs' = [runs EXCEPT ![l] = @ + 1]
  /\ poll' = IF l = "poll" THEN "claiming" ELSE poll
  /\ UNCHANGED <<control, timer, rowVars>>

\* Mutant: the note of the run is not taken back.
EndRunNoted(l) ==
  /\ runs' = [runs EXCEPT ![l] = @ - 1]
  /\ poll' = IF l = "poll" THEN "idle" ELSE poll
  /\ UNCHANGED <<control, timer, active>>

EndRun(l) ==
  /\ active' = active \ {l}
  /\ runs' = [runs EXCEPT ![l] = @ - 1]
  /\ poll' = IF l = "poll" THEN "idle" ELSE poll
  /\ UNCHANGED <<control, timer>>

\* Mutant: a tick does not look at the run in progress.
TickOverlapping(l) == l \in timer /\ runs[l] < 2 /\ BeginRun(l)

\* A tick starts a run unless one is in progress.  Stopping a loop clears its
\* timer in the same step, so a stopped loop has no more ticks.
Tick(l) == l \in timer /\ l \notin active /\ BeginRun(l)

\* A recovery run resolves; it contains every error.
RecoverySettles == runs["recovery"] > 0 /\ EndRun("recovery") /\ UNCHANGED rowVars

\* A heartbeat is written, or its error reported.
HeartbeatSettles ==
  LET from == {"STARTING", "ONLINE", "BUSY", "STOPPING"} IN
  /\ runs["heartbeat"] > 0
  /\ Written(from, row) \/ NotWritten(from, row)
  /\ EndRun("heartbeat")

Goes(step) == poll' = step /\ UNCHANGED <<control, timer, active, runs>>

\* claimNextJob answers: a job, unless stop() was called, is taken up; nothing
\* to claim, a dropped claim and an error end the run.
ClaimAnswers ==
  /\ poll = "claiming"
  /\ (stop = "none" /\ Goes("setBusy")) \/ EndRun("poll")
  /\ UNCHANGED rowVars

SetBusyAnswers ==
  /\ poll = "setBusy"
  /\ \/ Written({"ONLINE"}, "BUSY") /\ Goes("executing")
     \/ NotWritten({"ONLINE"}, "BUSY") /\ EndRun("poll")

\* processClaim settles; the worker is made available unless it is stopping.
ExecutionSettles ==
  /\ poll = "executing"
  /\ IF stop = "none" THEN Goes("setAvailable") ELSE EndRun("poll")
  /\ UNCHANGED rowVars

SetAvailableAnswers ==
  /\ poll = "setAvailable"
  /\ Written({"BUSY"}, "ONLINE") \/ NotWritten({"BUSY"}, "ONLINE")
  /\ EndRun("poll")

(***************************************************************************)
(* start() and its rollback                                                *)
(***************************************************************************)
GoTo(f, to) == f' = to

\* registerWorker of runtime.start(); its error leaves nothing to roll back.
Start ==
  /\ start = "none"
  /\ \/ Written({"NONE"}, "STARTING") /\ GoTo(start, "registering")
     \/ NotWritten({"NONE"}, "STARTING") /\ GoTo(start, "failed")
  /\ UNCHANGED <<shutdown, stop, handlers, connected, loops>>

\* markWorkerOnline; only then does the runtime set timers.
GoOnline ==
  /\ start = "registering"
  /\ \/ Written({"STARTING"}, "ONLINE") /\ GoTo(start, "online")
     \/ NotWritten({"STARTING"}, "ONLINE") /\ GoTo(start, "failed")
  /\ UNCHANGED <<shutdown, stop, handlers, connected, loops>>

\* What runtime.stop() does before its first await.
StopRuntime == GoTo(stop, "heartbeat") /\ timer' = timer \ {"poll", "heartbeat"}

\* Mutant: the rollback of a failed start forgets the runtime.
ServeOrForget ==
  /\ start = "online"
  /\ \/ GoTo(start, "serving") /\ GoTo(handlers, TRUE) /\ GoTo(timer, Loop)
     \/ GoTo(start, "failed") /\ GoTo(timer, {"poll", "heartbeat"}) /\ UNCHANGED handlers
  /\ UNCHANGED <<shutdown, stop, connected, active, runs, poll, rowVars>>

\* The rest of start(): the runtime's and the recovery timer, the handlers.  If
\* a part of it throws, rollbackStartup clears the timers before they can fire
\* and stops the runtime.
Serve ==
  /\ start = "online"
  /\ \/ GoTo(start, "serving") /\ GoTo(handlers, TRUE) /\ GoTo(timer, Loop) /\ UNCHANGED stop
     \/ GoTo(start, "stopping") /\ StopRuntime /\ UNCHANGED handlers
  /\ UNCHANGED <<shutdown, connected, active, runs, poll, rowVars>>

RolledBack ==
  /\ start = "stopping"
  /\ stop = "settled"
  /\ GoTo(start, "failed")
  /\ UNCHANGED <<shutdown, stop, handlers, connected, loops, rowVars>>

\* main() disconnects after a failed start.
MainDisconnects ==
  /\ start = "failed"
  /\ connected
  /\ GoTo(connected, FALSE)
  /\ UNCHANGED <<start, shutdown, stop, handlers, loops, rowVars>>

(***************************************************************************)
(* stop() of the runtime                                                   *)
(***************************************************************************)
\* Wait for the heartbeat, then for the poll with its execution.
AwaitHeartbeat ==
  /\ stop = "heartbeat" /\ "heartbeat" \notin active
  /\ GoTo(stop, "poll")
  /\ UNCHANGED <<start, shutdown, handlers, connected, loops, rowVars>>

\* Mutant: the poll in progress is not waited for.
SkipPoll ==
  /\ stop = "poll"
  /\ GoTo(stop, "markStopping")
  /\ UNCHANGED <<start, shutdown, handlers, connected, loops, rowVars>>

AwaitPoll ==
  /\ stop = "poll" /\ "poll" \notin active
  /\ GoTo(stop, "markStopping")
  /\ UNCHANGED <<start, shutdown, handlers, connected, loops, rowVars>>

\* stopWorkerInstance; any error rejects stop(), which the callers contain.
MarkStopping ==
  LET from == {"STARTING", "ONLINE", "BUSY", "UNHEALTHY"} IN
  /\ stop = "markStopping"
  /\ \/ Written(from, "STOPPING") /\ GoTo(stop, "markOffline")
     \/ NotWritten(from, "STOPPING") /\ GoTo(stop, "settled")
  /\ UNCHANGED <<start, shutdown, handlers, connected, loops>>

MarkOffline ==
  /\ stop = "markOffline"
  /\ Written({"STOPPING"}, "OFFLINE") \/ NotWritten({"STOPPING"}, "OFFLINE")
  /\ GoTo(stop, "settled")
  /\ UNCHANGED <<start, shutdown, handlers, connected, loops>>

(***************************************************************************)
(* shutdown()                                                              *)
(***************************************************************************)
\* Mutant: the recovery timer stays on.
BeginShutdownTimerOn ==
  /\ handlers
  /\ GoTo(handlers, FALSE) /\ GoTo(shutdown, "recovery")
  /\ UNCHANGED <<start, stop, connected, loops, rowVars>>

\* A signal, which has a handler once start() is done; the recovery scheduler
\* is stopped first.
BeginShutdown ==
  /\ handlers
  /\ GoTo(handlers, FALSE) /\ GoTo(shutdown, "recovery")
  /\ timer' = timer \ {"recovery"}
  /\ UNCHANGED <<start, stop, connected, active, runs, poll, rowVars>>

RecoveryStopped ==
  /\ shutdown = "recovery" /\ "recovery" \notin active
  /\ GoTo(shutdown, "runtime")
  /\ StopRuntime
  /\ UNCHANGED <<start, handlers, connected, active, runs, poll, rowVars>>

RuntimeStopped ==
  /\ shutdown = "runtime" /\ stop = "settled"
  /\ GoTo(shutdown, "disconnect")
  /\ UNCHANGED <<start, stop, handlers, connected, loops, rowVars>>

Disconnect ==
  /\ shutdown = "disconnect"
  /\ GoTo(shutdown, "done") /\ GoTo(connected, FALSE)
  /\ UNCHANGED <<start, stop, handlers, loops, rowVars>>

(***************************************************************************)
(* The specification                                                       *)
(***************************************************************************)
Polls == ClaimAnswers \/ SetBusyAnswers \/ ExecutionSettles \/ SetAvailableAnswers
Starts == Start \/ GoOnline \/ Serve \/ RolledBack \/ MainDisconnects
Stops ==
  AwaitHeartbeat \/ AwaitPoll \/ MarkStopping \/ MarkOffline
    \/ RecoveryStopped \/ RuntimeStopped \/ Disconnect

Next ==
  Starts \/ BeginShutdown \/ Stops \/ Polls \/ HeartbeatSettles \/ RecoverySettles
    \/ \E l \in Loop : Tick(l)

Spec == Init /\ [][Next]_vars

\* Calls are answered, handlers end, and what is awaited goes on.
ProcessFairness ==
  /\ WF_vars(Starts) /\ WF_vars(Stops) /\ WF_vars(Polls)
  /\ WF_vars(HeartbeatSettles) /\ WF_vars(RecoverySettles)

-----------------------------------------------------------------------------
(***************************************************************************)
(* Properties                                                              *)
(***************************************************************************)
\* Flags and progress are well formed, and the note of a run in progress is
\* right: it decides whether ticks are skipped and what a stop waits for.
ProcessTypeOK ==
  /\ start \in StartStep /\ shutdown \in ShutdownStep /\ stop \in StopStep
  /\ handlers \in BOOLEAN /\ refused \in BOOLEAN /\ connected \in BOOLEAN
  /\ timer \subseteq Loop
  /\ runs \in [Loop -> Nat]
  /\ active = {l \in Loop : runs[l] # 0}
  /\ poll \in PollStep /\ (poll = "idle" <=> "poll" \notin active)
  /\ row \in WorkerStatus
  /\ faults \in 0 .. MaxFaults

\* The parts of a process never work against one another: while no call fails,
\* no update of its own row meets a status it does not expect, whatever was
\* in progress when start() failed or the signal came.
TransitionsAreLegal == faults = 0 => ~refused

\* "Disconnect Prisma only after database-using components have stopped": with
\* the connection gone no run is in progress and no timer can start one, after
\* a shutdown and after a failed start.
DisconnectIsLast == ~connected => timer = {} /\ active = {}

\* "prevents overlapping": no loop has two runs in progress.
NoOverlap == \A l \in Loop : runs[l] <= 1

\* Whatever is in progress when the signal comes, shutdown() comes to its
\* end: it resolves, or rethrows the error of a call that failed; if none failed
\* the row is OFFLINE then.
ShutdownSettles ==
  shutdown # "none" ~> shutdown = "done" /\ (faults = 0 => row = "OFFLINE")
==============================================================================
