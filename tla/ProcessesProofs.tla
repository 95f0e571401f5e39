--------------------------- MODULE ProcessesProofs ---------------------------
(***************************************************************************)
(* What the parts of a worker process promise one another, for any number  *)
(* of failing database calls; that the API process ends gracefully, for any*)
(* number of requests; and that both hold of the two side by side.  No     *)
(* fairness is needed for any of this.                                     *)
(***************************************************************************)
EXTENDS Processes, TLAPS

\* One run of a loop at most, and the note of it is right.
RunsAreNoted ==
  /\ active \subseteq Loop
  /\ runs \in [Loop -> {0, 1}]
  /\ \A l \in Loop : l \in active <=> runs[l] = 1
  /\ poll = "idle" <=> "poll" \notin active

StepsAreTyped ==
  /\ start \in StartStep /\ shutdown \in ShutdownStep /\ stop \in StopStep
  /\ handlers \in BOOLEAN /\ refused \in BOOLEAN /\ connected \in BOOLEAN
  /\ timer \subseteq Loop
  /\ poll \in PollStep /\ row \in WorkerStatus
  /\ faults \in 0 .. MaxFaults

\* start() and its rollback have no loop running; while it serves, shutdown()
\* has begun exactly if the handlers are gone, and calls stop() later.
StartIsInOrder ==
  /\ start # "serving" =>
       timer = {} /\ active = {} /\ shutdown = "none" /\ ~handlers
  /\ start \in {"none", "registering", "online"} => stop = "none"
  /\ start = "stopping" => stop # "none"
  /\ start = "failed" => stop \in {"none", "settled"}
  /\ start = "serving" =>
       /\ handlers <=> shutdown = "none"
       /\ stop # "none" <=> shutdown \in {"runtime", "disconnect", "done"}

\* What shutdown() and stop() have waited for is over and does not come back.
StopIsInOrder ==
  /\ shutdown # "none" => "recovery" \notin timer
  /\ shutdown \in {"runtime", "disconnect", "done"} => "recovery" \notin active
  /\ shutdown \in {"disconnect", "done"} => stop = "settled"
  /\ stop # "none" => "poll" \notin timer /\ "heartbeat" \notin timer
  /\ stop \in {"poll", "markStopping", "markOffline", "settled"} => "heartbeat" \notin active
  /\ stop \in {"markStopping", "markOffline", "settled"} => "poll" \notin active
  /\ ~connected => start = "failed" \/ shutdown = "done"

\* The status that the row has while no call failed, by what the process does.
RowIsExpected ==
  faults = 0 =>
    /\ ~refused
    /\ start = "none" => row = "NONE"
    /\ start = "registering" => row = "STARTING"
    /\ start = "failed" => stop = "settled"
    /\ start \in {"online", "serving", "stopping"} =>
         /\ poll \in {"claiming", "setBusy"} => row = "ONLINE"
         /\ poll \in {"executing", "setAvailable"} => row = "BUSY"
         /\ stop = "none" /\ poll = "idle" => row = "ONLINE"
         /\ stop \in {"heartbeat", "poll", "markStopping"} => row \in {"ONLINE", "BUSY"}
         /\ stop = "markOffline" => row = "STOPPING"

\* The inductive invariant.
ProcessInv == StepsAreTyped /\ RunsAreNoted /\ StartIsInOrder /\ StopIsInOrder /\ RowIsExpected

-----------------------------------------------------------------------------
\* How a run that begins or ends moves the loops.
LEMMA BeginRunMoves ==
  ASSUME ProcessInv, NEW l \in Loop, l \notin active, BeginRun(l)
  PROVE  /\ RunsAreNoted' /\ active' = active \cup {l}
         /\ poll' = IF l = "poll" THEN "claiming" ELSE poll
BY DEF ProcessInv, RunsAreNoted, StepsAreTyped, BeginRun, Loop, PollStep

\* A run that ends is not noted any more.
LEMMA EndRunMoves ==
  ASSUME ProcessInv, NEW l \in Loop, l \in active, EndRun(l)
  PROVE  /\ RunsAreNoted' /\ active' = active \ {l} /\ UNCHANGED <<control, timer>>
         /\ poll' = IF l = "poll" THEN "idle" ELSE poll
BY DEF ProcessInv, RunsAreNoted, StepsAreTyped, EndRun, Loop, PollStep
\* The guarded update of the row, with its errors.
LEMMA RowWrites ==
  ASSUME ProcessInv, NEW from, NEW to \in WorkerStatus
  PROVE  /\ Written(from, to) => (row \in from /\ row' = to /\ refused' = refused /\ faults' = faults)
         /\ NotWritten(from, to) =>
              /\ row' \in WorkerStatus /\ refused' \in BOOLEAN /\ faults' \in 0 .. MaxFaults
              /\ faults' = 0 => (faults = 0 /\ row \notin from)
<1>0. row \in WorkerStatus /\ refused \in BOOLEAN /\ faults \in 0 .. MaxFaults
  BY DEF ProcessInv, StepsAreTyped
<1>1. CASE row \notin from /\ refused' = TRUE /\ UNCHANGED <<row, faults>>
  BY <1>0, <1>1 DEF Written
<1>2. CASE /\ faults < MaxFaults /\ faults' = faults + 1
           /\ row' = row \/ (row \in from /\ row' = to)
           /\ UNCHANGED refused
  <2>1. faults' \in 0 .. MaxFaults /\ faults' # 0 /\ row' \in WorkerStatus
    BY <1>0, <1>2, ProcessAssumption
  <2>2. refused' \in BOOLEAN /\ faults' # faults
    BY <1>0, <1>2, ProcessAssumption
  <2> QED
    BY <2>1, <2>2 DEF Written
<1>3. Written(from, to) => (row \in from /\ row' = to /\ refused' = refused /\ faults' = faults)
  BY DEF Written
<1> QED
  BY <1>1, <1>2, <1>3 DEF NotWritten

\* Ticks and runs that end.
LEMMA LoopsKeepInv ==
  ASSUME ProcessInv,
         RecoverySettles \/ HeartbeatSettles \/ Polls \/ \E l \in Loop : Tick(l)
  PROVE  ProcessInv'
<1>0. StepsAreTyped /\ RunsAreNoted /\ StartIsInOrder /\ StopIsInOrder /\ RowIsExpected
  BY DEF ProcessInv
<1>1. ASSUME NEW l \in Loop, Tick(l) PROVE ProcessInv'
  <2>1. /\ RunsAreNoted' /\ active' = active \cup {l} /\ l \in timer /\ l \notin active
        /\ poll' = IF l = "poll" THEN "claiming" ELSE poll
        /\ UNCHANGED <<control, timer, rowVars>>
    BY <1>1, BeginRunMoves DEF Tick, BeginRun
  <2>2. StepsAreTyped' /\ StartIsInOrder'
    BY <1>0, <2>1 DEF StepsAreTyped, StartIsInOrder, control, rowVars, PollStep
  <2>3. StopIsInOrder' /\ RowIsExpected'
    BY <1>0, <2>1 DEF StopIsInOrder, StartIsInOrder, RowIsExpected, RunsAreNoted, control, rowVars, Loop, StepsAreTyped, StartStep, StopStep
  <2> QED
    BY <2>1, <2>2, <2>3 DEF ProcessInv
<1>2. CASE RecoverySettles
  <2>1. /\ RunsAreNoted' /\ active' = active \ {"recovery"} /\ UNCHANGED <<control, timer, poll, rowVars>>
    BY <1>0, <1>2, EndRunMoves DEF RecoverySettles, RunsAreNoted, Loop
  <2> QED
    BY <1>0, <2>1 DEF ProcessInv, StepsAreTyped, StartIsInOrder, StopIsInOrder, RowIsExpected, control, rowVars
<1>3. CASE HeartbeatSettles
  <2>. DEFINE from == {"STARTING", "ONLINE", "BUSY", "STOPPING"}
  <2>1. /\ RunsAreNoted' /\ active' = active \ {"heartbeat"} /\ UNCHANGED <<control, timer, poll>>
        /\ "heartbeat" \in active /\ (Written(from, row) \/ NotWritten(from, row))
    BY <1>0, <1>3, EndRunMoves DEF HeartbeatSettles, RunsAreNoted, Loop
  <2>2. /\ row' \in WorkerStatus /\ refused' \in BOOLEAN /\ faults' \in 0 .. MaxFaults
        /\ faults' = 0 => faults = 0
    <3>1. row \in WorkerStatus /\ refused \in BOOLEAN /\ faults \in 0 .. MaxFaults
      BY <1>0 DEF StepsAreTyped
    <3> QED
      BY <2>1, <3>1, RowWrites
  <2>3. faults = 0 => row \in from
    BY <1>0, <2>1 DEF RowIsExpected, StartIsInOrder, StopIsInOrder, StepsAreTyped, StartStep, StopStep, PollStep, RunsAreNoted
  <2>4. faults' = 0 => row' = row /\ refused' = refused
    BY <1>0, <2>1, <2>2, <2>3 DEF Written, NotWritten, StepsAreTyped
  <2> QED
    BY <1>0, <2>1, <2>2, <2>4 DEF ProcessInv, StepsAreTyped, StartIsInOrder, StopIsInOrder, RowIsExpected, control
<1>4. CASE Polls
  <2>0. "poll" \in Loop /\ {"BUSY", "ONLINE"} \subseteq WorkerStatus
    BY DEF Loop, WorkerStatus
  <2>1. start = "serving" /\ stop \in {"none", "heartbeat", "poll"} /\ "poll" \in active /\ poll # "idle"
    BY <1>0, <1>4
    DEF Polls, ClaimAnswers, SetBusyAnswers, ExecutionSettles, SetAvailableAnswers, RunsAreNoted,
        StartIsInOrder, StopIsInOrder, StepsAreTyped, StopStep
  <2>2. EndRun("poll") => RunsAreNoted' /\ active' = active \ {"poll"} /\ UNCHANGED <<control, timer>> /\ poll' = "idle"
    BY <2>0, <2>1, EndRunMoves
  <2>3. ASSUME NEW step \in PollStep \ {"idle"}, Goes(step) PROVE RunsAreNoted' /\ UNCHANGED <<control, timer, active>> /\ poll' = step
    BY <1>0, <2>1, <2>3 DEF Goes, RunsAreNoted
  <2>4. CASE ClaimAnswers
    BY <1>0, <1>4, <2>1, <2>2, <2>3, <2>4
    DEF ClaimAnswers, ProcessInv, StepsAreTyped, StartIsInOrder, StopIsInOrder, RowIsExpected, control, rowVars, PollStep
  <2>5. CASE SetBusyAnswers
    <3>1. CASE Written({"ONLINE"}, "BUSY") /\ Goes("executing")
      BY <1>0, <2>0, <2>1, <2>3, <2>5, <3>1, RowWrites
      DEF SetBusyAnswers, ProcessInv, StepsAreTyped, StartIsInOrder, StopIsInOrder, RowIsExpected, control, PollStep
    <3>2. CASE NotWritten({"ONLINE"}, "BUSY") /\ EndRun("poll")
      <4>1. faults' # 0 /\ row' \in WorkerStatus /\ refused' \in BOOLEAN /\ faults' \in 0 .. MaxFaults
        <5>1. faults = 0 => row = "ONLINE"
          BY <1>0, <2>1, <2>5 DEF SetBusyAnswers, RowIsExpected
        <5> QED
          BY <2>0, <3>2, <5>1, RowWrites
      <4> QED
        BY <1>0, <2>1, <2>2, <3>2, <4>1
        DEF ProcessInv, StepsAreTyped, StartIsInOrder, StopIsInOrder, RowIsExpected, control, PollStep
    <3> QED
      BY <2>5, <3>1, <3>2 DEF SetBusyAnswers
  <2>6. CASE ExecutionSettles
    BY <1>0, <2>1, <2>2, <2>3, <2>6
    DEF ExecutionSettles, ProcessInv, StepsAreTyped, StartIsInOrder, StopIsInOrder, RowIsExpected, control, rowVars, PollStep
  <2>7. CASE SetAvailableAnswers
    <3>1. CASE Written({"BUSY"}, "ONLINE") /\ EndRun("poll")
      BY <1>0, <2>0, <2>1, <2>2, <2>7, <3>1, RowWrites
      DEF SetAvailableAnswers, ProcessInv, StepsAreTyped, StartIsInOrder, StopIsInOrder, RowIsExpected, control, PollStep
    <3>2. CASE NotWritten({"BUSY"}, "ONLINE") /\ EndRun("poll")
      <4>1. faults' # 0 /\ row' \in WorkerStatus /\ refused' \in BOOLEAN /\ faults' \in 0 .. MaxFaults
        <5>1. faults = 0 => row = "BUSY"
          BY <1>0, <2>1, <2>7 DEF SetAvailableAnswers, RowIsExpected
        <5> QED
          BY <2>0, <3>2, <5>1, RowWrites
      <4> QED
        BY <1>0, <2>1, <2>2, <3>2, <4>1
        DEF ProcessInv, StepsAreTyped, StartIsInOrder, StopIsInOrder, RowIsExpected, control, PollStep
    <3> QED
      BY <2>7, <3>1, <3>2 DEF SetAvailableAnswers
  <2> QED
    BY <1>4, <2>4, <2>5, <2>6, <2>7 DEF Polls
<1> QED
  BY <1>1, <1>2, <1>3, <1>4
\* What the phases and the row's steps keep of the loops.
LEMMA LoopsUntouched == ProcessInv /\ UNCHANGED <<active, runs, poll>> => RunsAreNoted'
BY DEF ProcessInv, RunsAreNoted

\* start(), its rollback, and main().
LEMMA StartsKeepInv ==
  ASSUME ProcessInv, Starts
  PROVE  ProcessInv'
<1>0. StepsAreTyped /\ RunsAreNoted /\ StartIsInOrder /\ StopIsInOrder /\ RowIsExpected
  BY DEF ProcessInv
<1>1. RunsAreNoted'
  BY LoopsUntouched DEF Starts, Start, GoOnline, Serve, RolledBack, MainDisconnects, loops
<1>2. {"STARTING", "ONLINE"} \subseteq WorkerStatus
  BY DEF WorkerStatus
<1>3. CASE Start
  <2>1. UNCHANGED <<shutdown, stop, handlers, connected, loops>> /\ start = "none"
    BY <1>3 DEF Start
  <2>2. CASE Written({"NONE"}, "STARTING") /\ GoTo(start, "registering")
    BY <1>0, <1>1, <1>2, <2>1, <2>2, RowWrites
    DEF GoTo, loops, ProcessInv, StepsAreTyped, StartIsInOrder, StopIsInOrder, RowIsExpected, StartStep
  <2>3. CASE NotWritten({"NONE"}, "STARTING") /\ GoTo(start, "failed")
    <3>1. faults' # 0 /\ row' \in WorkerStatus /\ refused' \in BOOLEAN /\ faults' \in 0 .. MaxFaults
      BY <1>0, <1>2, <2>1, <2>3, RowWrites DEF RowIsExpected
    <3> QED
      BY <1>0, <1>1, <2>1, <2>3, <3>1
      DEF GoTo, loops, ProcessInv, StepsAreTyped, StartIsInOrder, StopIsInOrder, RowIsExpected, StartStep
  <2> QED
    BY <1>3, <2>2, <2>3 DEF Start
<1>4. CASE GoOnline
  <2>1. UNCHANGED <<shutdown, stop, handlers, connected, loops>> /\ start = "registering"
    BY <1>4 DEF GoOnline
  <2>2. CASE Written({"STARTING"}, "ONLINE") /\ GoTo(start, "online")
    BY <1>0, <1>1, <1>2, <2>1, <2>2, RowWrites
    DEF GoTo, loops, ProcessInv, StepsAreTyped, RunsAreNoted, StartIsInOrder, StopIsInOrder, RowIsExpected, StartStep
  <2>3. CASE NotWritten({"STARTING"}, "ONLINE") /\ GoTo(start, "failed")
    <3>1. faults' # 0 /\ row' \in WorkerStatus /\ refused' \in BOOLEAN /\ faults' \in 0 .. MaxFaults
      BY <1>0, <1>2, <2>1, <2>3, RowWrites DEF RowIsExpected
    <3> QED
      BY <1>0, <1>1, <2>1, <2>3, <3>1
      DEF GoTo, loops, ProcessInv, StepsAreTyped, StartIsInOrder, StopIsInOrder, RowIsExpected, StartStep
  <2> QED
    BY <1>4, <2>2, <2>3 DEF GoOnline
<1>5. CASE Serve
  <2>1. UNCHANGED <<shutdown, connected, active, runs, poll, rowVars>> /\ start = "online"
        /\ shutdown = "none" /\ stop = "none" /\ timer = {} /\ active = {} /\ connected = connected'
    BY <1>0, <1>5 DEF Serve, StartIsInOrder
  <2>2. CASE GoTo(start, "serving") /\ GoTo(handlers, TRUE) /\ GoTo(timer, Loop) /\ UNCHANGED stop
    BY <1>0, <1>1, <2>1, <2>2
    DEF GoTo, rowVars, ProcessInv, StepsAreTyped, StartIsInOrder, StopIsInOrder, RowIsExpected, StartStep
  <2>3. CASE GoTo(start, "stopping") /\ StopRuntime /\ UNCHANGED handlers
    BY <1>0, <1>1, <2>1, <2>3
    DEF GoTo, StopRuntime, rowVars, ProcessInv, StepsAreTyped, RunsAreNoted, StartIsInOrder, StopIsInOrder,
        RowIsExpected, StartStep, StopStep
  <2> QED
    BY <1>5, <2>2, <2>3 DEF Serve
<1>6. CASE RolledBack
  BY <1>0, <1>1, <1>6
  DEF RolledBack, GoTo, loops, rowVars, ProcessInv, StepsAreTyped, StartIsInOrder, StopIsInOrder, RowIsExpected, StartStep
<1>7. CASE MainDisconnects
  BY <1>0, <1>1, <1>7
  DEF MainDisconnects, GoTo, loops, rowVars, ProcessInv, StepsAreTyped, StartIsInOrder, StopIsInOrder, RowIsExpected
<1> QED
  BY <1>3, <1>4, <1>5, <1>6, <1>7 DEF Starts

\* shutdown() and stop().
LEMMA StopsKeepInv ==
  ASSUME ProcessInv, BeginShutdown \/ Stops
  PROVE  ProcessInv'
<1>0. StepsAreTyped /\ RunsAreNoted /\ StartIsInOrder /\ StopIsInOrder /\ RowIsExpected
  BY DEF ProcessInv
<1>1. RunsAreNoted'
  BY LoopsUntouched
  DEF Stops, BeginShutdown, AwaitHeartbeat, AwaitPoll, MarkStopping, MarkOffline, RecoveryStopped,
      RuntimeStopped, Disconnect, loops
<1>2. {"STOPPING", "OFFLINE"} \subseteq WorkerStatus
  BY DEF WorkerStatus
<1>3. CASE AwaitHeartbeat \/ AwaitPoll
  BY <1>0, <1>1, <1>3
  DEF AwaitHeartbeat, AwaitPoll, GoTo, loops, rowVars, ProcessInv, StepsAreTyped, RunsAreNoted,
      StartIsInOrder, StopIsInOrder, RowIsExpected, StopStep, PollStep
<1>4. CASE MarkStopping
  <2>. DEFINE from == {"STARTING", "ONLINE", "BUSY", "UNHEALTHY"}
  <2>1. UNCHANGED <<start, shutdown, handlers, connected, loops>> /\ stop = "markStopping"
    BY <1>4 DEF MarkStopping
  <2>2. start \in {"serving", "stopping"} /\ (faults = 0 => row \in {"ONLINE", "BUSY"})
    BY <1>0, <2>1 DEF StepsAreTyped, StartStep, StartIsInOrder, RowIsExpected
  <2>3. CASE Written(from, "STOPPING") /\ GoTo(stop, "markOffline")
    BY <1>0, <1>1, <1>2, <2>1, <2>2, <2>3, RowWrites
    DEF GoTo, loops, ProcessInv, StepsAreTyped, RunsAreNoted, StartIsInOrder, StopIsInOrder, RowIsExpected, StopStep
  <2>4. CASE NotWritten(from, "STOPPING") /\ GoTo(stop, "settled")
    <3>1. faults' # 0 /\ row' \in WorkerStatus /\ refused' \in BOOLEAN /\ faults' \in 0 .. MaxFaults
      BY <1>2, <2>2, <2>4, RowWrites
    <3> QED
      BY <1>0, <1>1, <2>1, <2>2, <2>4, <3>1
      DEF GoTo, loops, ProcessInv, StepsAreTyped, StartIsInOrder, StopIsInOrder, RowIsExpected, StopStep
  <2> QED
    BY <1>4, <2>3, <2>4 DEF MarkStopping
<1>5. CASE MarkOffline
  <2>1. UNCHANGED <<start, shutdown, handlers, connected, loops>> /\ stop = "markOffline" /\ GoTo(stop, "settled")
        /\ (Written({"STOPPING"}, "OFFLINE") \/ NotWritten({"STOPPING"}, "OFFLINE"))
    BY <1>5 DEF MarkOffline
  <2>2. start \in {"serving", "stopping"} /\ (faults = 0 => row = "STOPPING")
    BY <1>0, <2>1 DEF StepsAreTyped, StartStep, StartIsInOrder, RowIsExpected
  <2>3. row' \in WorkerStatus /\ refused' \in BOOLEAN /\ faults' \in 0 .. MaxFaults
        /\ (faults' = 0 => faults = 0 /\ refused' = refused)
    <3>1. refused \in BOOLEAN /\ faults \in 0 .. MaxFaults
      BY <1>0 DEF StepsAreTyped
    <3> QED
      BY <1>2, <2>1, <2>2, <3>1, RowWrites
  <2> QED
    BY <1>0, <1>1, <2>1, <2>2, <2>3
    DEF GoTo, loops, ProcessInv, StepsAreTyped, RunsAreNoted, StartIsInOrder, StopIsInOrder, RowIsExpected, StopStep
<1>6. CASE RecoveryStopped
  BY <1>0, <1>1, <1>6
  DEF RecoveryStopped, StopRuntime, GoTo, rowVars, ProcessInv, StepsAreTyped, RunsAreNoted,
      StartIsInOrder, StopIsInOrder, RowIsExpected, StopStep, ShutdownStep, PollStep, StartStep
<1>7. CASE BeginShutdown
  <2>1. /\ handlers /\ ~handlers' /\ handlers' \in BOOLEAN /\ shutdown' = "recovery" /\ timer' = timer \ {"recovery"}
        /\ UNCHANGED <<start, stop, connected, active, poll, row, refused, faults>>
    BY <1>7 DEF BeginShutdown, GoTo, rowVars
  <2>2. start = "serving" /\ shutdown = "none" /\ stop = "none"
    BY <1>0, <2>1 DEF StartIsInOrder
  <2>3. StepsAreTyped' /\ RowIsExpected'
    BY <1>0, <2>1 DEF StepsAreTyped, RowIsExpected, ShutdownStep
  <2>4. StartIsInOrder' /\ StopIsInOrder'
    BY <1>0, <2>1, <2>2 DEF StartIsInOrder, StopIsInOrder
  <2> QED
    BY <1>1, <2>3, <2>4 DEF ProcessInv
<1>8. CASE RuntimeStopped
  BY <1>0, <1>1, <1>8
  DEF RuntimeStopped, GoTo, loops, rowVars, ProcessInv, StepsAreTyped,
      StartIsInOrder, StopIsInOrder, RowIsExpected, ShutdownStep
<1>9. CASE Disconnect
  <2>1. /\ shutdown = "disconnect" /\ shutdown' = "done" /\ connected' \in BOOLEAN
        /\ UNCHANGED <<start, stop, handlers, timer, active, poll, row, refused, faults>>
    BY <1>9 DEF Disconnect, GoTo, loops, rowVars
  <2>2. StepsAreTyped' /\ RowIsExpected'
    BY <1>0, <2>1 DEF StepsAreTyped, RowIsExpected, ShutdownStep
  <2>3. StartIsInOrder' /\ StopIsInOrder'
    BY <1>0, <2>1 DEF StartIsInOrder, StopIsInOrder
  <2> QED
    BY <1>1, <2>2, <2>3 DEF ProcessInv
<1> QED
  BY <1>3, <1>4, <1>5, <1>6, <1>7, <1>8, <1>9 DEF Stops

-----------------------------------------------------------------------------
\* Nothing has begun.
LEMMA InitProcessInv == Init => ProcessInv
<1>. SUFFICES ASSUME Init PROVE ProcessInv
  OBVIOUS
<1>1. StepsAreTyped
  <2>1. ~handlers /\ connected /\ ~refused /\ faults \in 0 .. MaxFaults
    BY ProcessAssumption DEF Init
  <2>2. handlers \in BOOLEAN /\ refused \in BOOLEAN /\ connected \in BOOLEAN
    BY DEF Init
  <2> QED
    BY <2>1, <2>2 DEF Init, StepsAreTyped, StartStep, ShutdownStep, StopStep, PollStep, WorkerStatus
<1>2. RunsAreNoted
  BY DEF Init, RunsAreNoted
<1>3. StartIsInOrder /\ StopIsInOrder /\ RowIsExpected
  BY DEF Init, StartIsInOrder, StopIsInOrder, RowIsExpected
<1> QED
  BY <1>1, <1>2, <1>3 DEF ProcessInv

\* The invariant is inductive.
LEMMA ProcessStepKeepsInv == ProcessInv /\ [Next]_vars => ProcessInv'
<1>. SUFFICES ASSUME ProcessInv, [Next]_vars PROVE ProcessInv'
  OBVIOUS
<1>1. CASE UNCHANGED vars
  BY <1>1
  DEF vars, control, loops, rowVars, ProcessInv, StepsAreTyped, RunsAreNoted, StartIsInOrder, StopIsInOrder, RowIsExpected
<1> QED
  BY <1>1, StartsKeepInv, StopsKeepInv, LoopsKeepInv DEF Next

\* However many calls fail, the phases, loops and row of a process stay in the
\* order that the strengthened invariant states.
THEOREM ProcessInvariant == Spec => []ProcessInv
  BY InitProcessInv, ProcessStepKeepsInv, PTL DEF Spec

\* The note of a run in progress is right.
THEOREM ProcessIsTyped == Spec => []ProcessTypeOK
<1>1. ProcessInv => ProcessTypeOK
  BY DEF ProcessInv, StepsAreTyped, RunsAreNoted, ProcessTypeOK
<1> QED
  BY <1>1, ProcessInvariant, PTL

\* No loop of a process has two runs in progress.
THEOREM LoopsNeverOverlap == Spec => []NoOverlap
<1>1. ProcessInv => NoOverlap
  BY DEF ProcessInv, RunsAreNoted, NoOverlap
<1> QED
  BY <1>1, ProcessInvariant, PTL

\* No part of the process uses the database after the disconnect, or could.
THEOREM DisconnectComesLast == Spec => []DisconnectIsLast
<1>1. ProcessInv => DisconnectIsLast
  <2> SUFFICES ASSUME ProcessInv, ~connected PROVE timer = {} /\ active = {}
    BY DEF DisconnectIsLast
  <2>1. start = "failed" \/ shutdown = "done"
    BY DEF ProcessInv, StopIsInOrder
  <2>2. CASE start # "serving"
    BY <2>2 DEF ProcessInv, StartIsInOrder
  <2>3. CASE start = "serving"
    <3>1. shutdown = "done" /\ stop = "settled"
      BY <2>1, <2>3 DEF ProcessInv, StopIsInOrder
    <3>2. \A l \in Loop : l \notin timer /\ l \notin active
      BY <3>1 DEF ProcessInv, StopIsInOrder, Loop
    <3> QED
      BY <3>2 DEF ProcessInv, StepsAreTyped, RunsAreNoted
  <2> QED
    BY <2>2, <2>3
<1> QED
  BY <1>1, ProcessInvariant, PTL

\* While no call fails the process never refuses its own updates.
THEOREM OwnTransitionsAreLegal == Spec => []TransitionsAreLegal
<1>1. ProcessInv => TransitionsAreLegal
  BY DEF ProcessInv, RowIsExpected, TransitionsAreLegal
<1> QED
  BY <1>1, ProcessInvariant, PTL

-----------------------------------------------------------------------------
(***************************************************************************)
(* The API process                                                         *)
(***************************************************************************)
\* Whoever still waits is served: a handler whose answer is due has a client
\* that waits or has gone, one that has answered has none that waits.
LinksAgree ==
  \A r \in Requests :
    /\ handler[r] = "new" => link[r] = "none"
    /\ handler[r] \in {"first", "last", "both"} => link[r] \in {"waiting", "gone"}
    /\ handler[r] \in {"behind", "done"} => link[r] \in {"open", "gone"}

\* Once server.close() has called back no connection is left or comes back,
\* and only a failure leads to another end.
ClosedStaysClosed ==
  apiFaults = 0 =>
    /\ exitCode # "1"
    /\ server \in {"disconnecting", "exited"} => \A r \in Requests : link[r] \in {"none", "gone"}

ServerShape ==
  /\ server \in ServerStep
  /\ link \in [Requests -> Link] /\ handler \in [Requests -> Handler]
  /\ apiFaults \in Nat

\* The inductive invariant of the API process.
ServerInv == ServerShape /\ LinksAgree /\ ClosedStaysClosed

\* Requests come, are answered, and leave, by steps that leave the process alone.
LEMMA RequestsKeepInv ==
  ASSUME ServerInv, NEW r \in Requests, Arrive(r) \/ CallAnswered(r) \/ HangUp(r) \/ CloseIdle(r)
  PROVE  ServerInv'
<1>1. ServerShape /\ LinksAgree /\ ClosedStaysClosed
  BY DEF ServerInv
<1>2. CASE Arrive(r)
  <2>1. /\ handler[r] = "new" /\ UNCHANGED <<server, exitCode, apiFaults>>
        /\ server \notin {"disconnecting", "exited"}
    BY <1>2 DEF Arrive
  <2>2. PICK step \in {"first", "both"} : handler' = [handler EXCEPT ![r] = step]
    BY <1>2 DEF Arrive
  <2>3. \/ link' = [link EXCEPT ![r] = "waiting"]
        \/ \E q \in Requests : link[q] = "open" /\ link' = [link EXCEPT ![q] = "gone", ![r] = "waiting"]
    BY <1>2 DEF Arrive
  <2>4. ServerShape'
    BY <1>1, <2>1, <2>2, <2>3 DEF ServerShape, Link, Handler
  <2>5. LinksAgree'
    BY <1>1, <2>1, <2>2, <2>3 DEF ServerShape, LinksAgree
  <2> QED
    BY <1>1, <2>1, <2>4, <2>5 DEF ServerInv, ClosedStaysClosed
<1>3. CASE CallAnswered(r)
  <2>1. /\ UNCHANGED <<server, exitCode>> /\ server # "exited"
        /\ apiFaults' = apiFaults \/ apiFaults' = apiFaults + 1
        /\ \/ /\ handler[r] \in {"first", "both"} /\ UNCHANGED link
              /\ handler' = [handler EXCEPT ![r] = "last"]
           \/ /\ handler[r] \in {"first", "last", "both", "behind"}
              /\ \E left \in {"behind", "done"} : handler' = [handler EXCEPT ![r] = left]
              /\ link' = [link EXCEPT ![r] = IF @ = "waiting" THEN "open" ELSE @]
    BY <1>3 DEF CallAnswered, Reply, ApiFault
  <2>2. ServerShape'
    BY <1>1, <2>1 DEF ServerShape, Link, Handler
  <2>3. LinksAgree'
    BY <1>1, <2>1 DEF ServerShape, LinksAgree
  <2>4. ClosedStaysClosed'
    BY <1>1, <2>1 DEF ServerShape, ClosedStaysClosed
  <2> QED
    BY <2>2, <2>3, <2>4 DEF ServerInv
<1>4. CASE HangUp(r) \/ CloseIdle(r)
  <2>1. /\ UNCHANGED <<server, exitCode, handler, apiFaults>>
        /\ link[r] \in {"waiting", "open"} /\ link' = [link EXCEPT ![r] = "gone"]
    BY <1>4 DEF HangUp, CloseIdle
  <2> QED
    BY <1>1, <2>1 DEF ServerInv, ServerShape, LinksAgree, ClosedStaysClosed, Link
<1> QED
  BY <1>2, <1>3, <1>4

\* The process starts, is told to end, waits and ends.
LEMMA ServerMovesKeepInv ==
  ASSUME ServerInv, Listen \/ SignalServer \/ Closed \/ Disconnected \/ ServerError
  PROVE  ServerInv'
<1>1. UNCHANGED <<link, handler>> /\ (apiFaults' = apiFaults \/ apiFaults' = apiFaults + 1)
  BY DEF Listen, SignalServer, Closed, Disconnected, ServerError, Exit, ApiFault
<1>2. server' \in ServerStep
  BY DEF Listen, SignalServer, Closed, Disconnected, ServerError, Exit, ServerStep
<1>3. ServerShape' /\ LinksAgree'
  BY <1>1, <1>2 DEF ServerInv, ServerShape, LinksAgree
<1>4. ASSUME apiFaults' = 0 PROVE apiFaults = 0
  BY <1>1, <1>4 DEF ServerInv, ServerShape
<1>5. ClosedStaysClosed'
  <2> SUFFICES ASSUME apiFaults = 0, apiFaults' = 0, ClosedStaysClosed PROVE ClosedStaysClosed'
    BY <1>4 DEF ClosedStaysClosed, ServerInv
  <2>1. ~ApiFault
    BY DEF ApiFault
  <2> QED
    BY <1>1, <2>1 DEF Listen, SignalServer, Closed, Disconnected, ServerError, Exit, ClosedStaysClosed
<1> QED
  BY <1>3, <1>5 DEF ServerInv

\* The invariant is inductive.
LEMMA ServerStepKeepsInv == ServerInv /\ [ServerNext]_serverVars => ServerInv'
<1>. SUFFICES ASSUME ServerInv, [ServerNext]_serverVars PROVE ServerInv'
  OBVIOUS
<1>1. CASE UNCHANGED serverVars
  BY <1>1 DEF serverVars, ServerInv, ServerShape, LinksAgree, ClosedStaysClosed
<1> QED
  BY <1>1, RequestsKeepInv, ServerMovesKeepInv DEF ServerNext

\* Nothing has arrived.
LEMMA ServerInitInv == ServerInit => ServerInv
  BY DEF ServerInit, ServerInv, ServerShape, LinksAgree, ClosedStaysClosed, ServerStep, Link, Handler

\* What the invariant says of the exit.
LEMMA ServerInvIsGraceful == ServerInv => ShutdownIsGraceful
  BY DEF ServerInv, ServerShape, LinksAgree, ClosedStaysClosed, ShutdownIsGraceful, Handler

-----------------------------------------------------------------------------
(***************************************************************************)
(* Side by side                                                            *)
(***************************************************************************)
\* Each kind of process takes its own steps or waits, whatever the other does.
THEOREM ProcessesAreIndependent ==
  ProcessesSpec => Spec /\ ServerInit /\ [][ServerNext]_serverVars
<1>1. ProcessesInit => Init /\ ServerInit
  BY DEF ProcessesInit
<1>2. [ProcessesNext]_processVars => [Next]_vars /\ [ServerNext]_serverVars
  BY DEF ProcessesNext, processVars
<1> QED
  BY <1>1, <1>2, PTL DEF ProcessesSpec, Spec

\* Whatever arrives late or on kept connections and however many signals come:
\* unless a call fails, the API process disconnects and exits only when nobody
\* waits for an answer, and it exits with 0.
THEOREM ServerEndsGracefully == ProcessesSpec => []ShutdownIsGraceful
<1>1. ServerInit /\ [][ServerNext]_serverVars => []ServerInv
  BY ServerInitInv, ServerStepKeepsInv, PTL
<1> QED
  BY <1>1, ServerInvIsGraceful, ProcessesAreIndependent, PTL

\* Beside an API process a worker process keeps all its promises.
COROLLARY WorkerKeepsItsPromises ==
  ProcessesSpec => [](ProcessTypeOK /\ NoOverlap /\ DisconnectIsLast /\ TransitionsAreLegal)
  BY ProcessesAreIndependent, ProcessIsTyped, LoopsNeverOverlap, DisconnectComesLast,
     OwnTransitionsAreLegal, PTL
=============================================================================
